-------------------------- MODULE MCStageConsumer --------------------------
(* StageConsumer on the pipeline the program ships. *)
EXTENDS StageConsumer, Pipeline, TLC

NoRoute == "none"

AllDocuments == FormatFamily \cup {NoRoute}

(* Two attempts for every stage: a retry and an exhaustion. *)
TwoAttempts == [s \in StageNames |-> 2]

ProcessingStages == {"detect", "parse"}

AllHandlers == StageNames

(* The shipped graph has the order Ingest depends on. *)
ASSUME ShippedOrder == \A f \in FormatFamily : ArtefactsInOrder(f)

SlotSymmetry == Permutations(Slots)
=============================================================================
