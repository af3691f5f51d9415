----------------------------- MODULE MCProgress -----------------------------
(* Progress on a short pipeline: detection, one stage, and the last.       *)
EXTENDS Progress, TLC

ChainStages == {"detect", "parse", "embed"}

OneFamily == [s \in ChainStages |-> {"pdf"}]

ChainDependsOn ==
  [s \in ChainStages |-> CASE s = "detect" -> {}
                           [] s = "parse" -> {"detect"}
                           [] s = "embed" -> {"parse"}]

OneAttempt == [s \in ChainStages |-> 1]

(* Slots and requests are interchangeable. *)
Symmetry == Permutations(Slots) \cup Permutations(Fetches)
=============================================================================
