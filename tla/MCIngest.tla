------------------------------ MODULE MCIngest ------------------------------
(* Ingest on the stages that write artefacts, in the shipped order, and    *)
(* two strategies with chunks around one without.                          *)
EXTENDS Ingest, TLC

IngestStages == {"detect", "parse", "parse_flow", "chunk", "contextualize", "embed"}

IngestFamilies == {"pdf", "flow"}

IngestFamiliesOf ==
  [s \in IngestStages |-> CASE s = "parse" -> {"pdf"}
                            [] s = "parse_flow" -> {"flow"}
                            [] OTHER -> IngestFamilies]

IngestDependsOn ==
  [s \in IngestStages |-> CASE s = "detect" -> {}
                            [] s \in Parsers -> {"detect"}
                            [] s = "chunk" -> Parsers
                            [] s = "contextualize" -> {"chunk"}
                            [] s = "embed" -> {"contextualize"}]

(* The stages with several writes can be retried half-way. *)
IngestAttempts == [s \in IngestStages |-> IF s \in {"chunk", "embed"} THEN 2 ELSE 1]

ThreeStrategies == <<"layout", "semantic", "recursive">>

SlotSymmetry == Permutations(Slots)
=============================================================================
