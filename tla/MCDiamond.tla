----------------------------- MODULE MCDiamond -----------------------------
(* StageConsumer on the smallest graph with the shape that makes the       *)
(* shipped one hard: two stages that become ready together and feed a      *)
(* third, and families whose paths leave them out.  Small enough for       *)
(* several faults in one run.                                              *)
EXTENDS StageConsumer, TLC

DiamondStages == {"detect", "convert", "tables", "figures", "embed"}

DiamondFamilies == {"pdf", "web", "flow"}

DiamondFamiliesOf ==
  [s \in DiamondStages |-> CASE s = "convert" -> {"web"}
                             [] s \in {"tables", "figures"} -> {"pdf"}
                             [] OTHER -> DiamondFamilies]

DiamondDependsOn ==
  [s \in DiamondStages |-> CASE s = "detect" -> {}
                             [] s = "embed" -> DiamondStages \ {"embed"}
                             [] OTHER -> {"detect"}]

(* One stage can be retried; the others fail at their first error. *)
UnevenAttempts == [s \in DiamondStages |-> IF s = "tables" THEN 2 ELSE 1]

(* A worker image that lacks the handler of one stage. *)
WithoutConvert == DiamondStages \ {"convert"}

NoRoute == "none"

SlotSymmetry == Permutations(Slots)
=============================================================================
