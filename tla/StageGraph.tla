----------------------------- MODULE StageGraph -----------------------------
(***************************************************************************)
(* The scheduler of the ingest DAG (ragent/pipeline/stages.py), for any    *)
(* graph.  A stage declares every stage it could depend on; a document's   *)
(* format family selects the stages that apply to it, and a dependency on  *)
(* a stage that does not apply disappears.  The graph the program ships is *)
(* in Pipeline.tla, which gives these constants their values.              *)
(***************************************************************************)
EXTENDS Integers, Sequences

CONSTANTS
  Stages,          \* names of the stages of PIPELINE
  Families,        \* the members of FormatFamily
  families,        \* Stage.families:     [Stages -> SUBSET Families]
  depends_on,      \* Stage.depends_on:   [Stages -> SUBSET Stages]
  max_attempts,    \* Stage.max_attempts: [Stages -> positive integers]
  Entry,           \* the stage an upload publishes first ("detect")
  TERMINAL_STAGE   \* the stage that makes a document answerable ("embed")

(* The part of validate_pipeline that gives the constants their types. *)
ASSUME GraphAssumption ==
  /\ families \in [Stages -> SUBSET Families]
  /\ depends_on \in [Stages -> SUBSET Stages]
  /\ max_attempts \in [Stages -> Nat \ {0}]
  /\ Entry \in Stages
  /\ depends_on[Entry] = {}
  /\ TERMINAL_STAGE \in Stages

-----------------------------------------------------------------------------

stage_names_for(f) == {s \in Stages : f \in families[s]}

effective_deps(s, f) == depends_on[s] \cap stage_names_for(f)

(* Mutation: one finished dependency is enough. *)
ready_stages_any(f, completed, dispatched) ==
  {s \in stage_names_for(f) :
     /\ s \notin completed \cup dispatched
     /\ effective_deps(s, f) = {} \/ effective_deps(s, f) \cap completed # {}}

(* Mutation: the scheduler does not look at what was already dispatched. *)
ready_stages_again(f, completed, dispatched) ==
  {s \in stage_names_for(f) \ completed : effective_deps(s, f) \subseteq completed}

(* The whole scheduler: stages whose dependencies are met and which have   *)
(* no row yet.                                                             *)
ready_stages(f, completed, dispatched) ==
  {s \in stage_names_for(f) :
     /\ s \notin completed \cup dispatched
     /\ effective_deps(s, f) \subseteq completed}

is_complete(f, completed) == stage_names_for(f) \subseteq completed

(* "Simulate a full run": adding every ready stage until none is left ends *)
(* with the whole path, which is to say that no smaller set is stuck.      *)
RunsToTheEnd(f) ==
  \A completed \in SUBSET stage_names_for(f) :
    ready_stages(f, completed, {}) = {} => is_complete(f, completed)

RETRY_DELAYS_MS == <<5000, 30000, 300000>>

NoDelay == 0   \* retry_delay_ms returned None: dead-letter the message

(* Mutation: one attempt too many. *)
retry_delay_ms_late(s, attempt) ==
  IF attempt > max_attempts[s] THEN NoDelay ELSE RETRY_DELAYS_MS[1]

(* attempt is 1-based and counts the attempts already made. *)
retry_delay_ms(s, attempt) ==
  IF attempt >= max_attempts[s]
    THEN NoDelay
    ELSE RETRY_DELAYS_MS[IF attempt <= Len(RETRY_DELAYS_MS)
                           THEN attempt ELSE Len(RETRY_DELAYS_MS)]
=============================================================================
