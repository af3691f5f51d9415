------------------------------ MODULE Pipeline ------------------------------
(***************************************************************************)
(* The ingest DAG the program ships: the PIPELINE table of                 *)
(* ragent/pipeline/stages.py and the checks validate_pipeline makes of it  *)
(* when the module is imported.                                            *)
(***************************************************************************)
EXTENDS Integers, Sequences, FiniteSets

FormatFamily == {"pdf", "image", "office", "web", "flow"}

PAGED == {"pdf", "image", "office", "web"}

StageRecord(name, fams, deps, attempts) ==
  [name |-> name, families |-> fams, depends_on |-> deps,
   max_attempts |-> attempts]

PIPELINE ==
  << StageRecord("detect",        FormatFamily,      {},                      3),
     StageRecord("convert",       {"office", "web"}, {"detect"},              2),
     StageRecord("parse",         PAGED,             {"detect", "convert"},   3),
     StageRecord("parse_flow",    {"flow"},          {"detect"},              3),
     StageRecord("ocr",           PAGED,             {"parse"},               3),
     StageRecord("tables",        PAGED,             {"parse", "ocr"},        3),
     StageRecord("figures",       PAGED,             {"parse", "ocr"},        4),
     StageRecord("chunk",         FormatFamily,
                                  {"tables", "figures", "parse_flow"},        3),
     StageRecord("contextualize", FormatFamily,      {"chunk"},               5),
     StageRecord("embed",         FormatFamily,      {"contextualize"},       5) >>

StageNames == {PIPELINE[i].name : i \in DOMAIN PIPELINE}

STAGES_BY_NAME ==
  [n \in StageNames |->
     PIPELINE[CHOOSE i \in DOMAIN PIPELINE : PIPELINE[i].name = n]]

FamiliesOf    == [n \in StageNames |-> STAGES_BY_NAME[n].families]
DependsOn     == [n \in StageNames |-> STAGES_BY_NAME[n].depends_on]
MaxAttempts   == [n \in StageNames |-> STAGES_BY_NAME[n].max_attempts]
EntryStage    == "detect"
TerminalStage == "embed"

Graph == INSTANCE StageGraph WITH
  Stages <- StageNames, Families <- FormatFamily, families <- FamiliesOf,
  depends_on <- DependsOn, max_attempts <- MaxAttempts,
  Entry <- EntryStage, TERMINAL_STAGE <- TerminalStage

-----------------------------------------------------------------------------

(* The structural checks made at import and at worker startup. *)
validate_pipeline ==
  /\ \A i \in DOMAIN PIPELINE :
       /\ PIPELINE[i].depends_on \subseteq StageNames
       /\ PIPELINE[i].families # {}
       /\ PIPELINE[i].max_attempts >= 1
       \* declaration order is already topological
       /\ PIPELINE[i].depends_on \subseteq {PIPELINE[j].name : j \in 1 .. i - 1}
  /\ \A f \in FormatFamily :
       /\ Graph!stage_names_for(f) # {}
       /\ TerminalStage \in Graph!stage_names_for(f)
       /\ Graph!RunsToTheEnd(f)

ASSUME PipelineValid == validate_pipeline
=============================================================================
