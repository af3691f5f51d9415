----------------------------- MODULE StageShape -----------------------------
(***************************************************************************)
(* What the ingest DAG must look like for the consumers' guarantees to     *)
(* hold, beyond what validate_pipeline checks.                             *)
(***************************************************************************)
EXTENDS StageGraph

(* The shape of the graph, stated without recursion.  A set of stages is   *)
(* closed when it holds the dependencies of its members: the stages that   *)
(* ever completed are such a set.                                          *)

DownClosed(f, D) == \A s \in D : effective_deps(s, f) \subseteq D

(* u completes before s can start: every closed set that meets the         *)
(* dependencies of s holds u.                                              *)
Before(u, s, f) ==
  \A D \in SUBSET stage_names_for(f) :
    (DownClosed(f, D) /\ effective_deps(s, f) \subseteq D) => u \in D

(* Every other stage of the path runs before the terminal stage. *)
TerminalIsLast(f) ==
  \A u \in stage_names_for(f) \ {TERMINAL_STAGE} : Before(u, TERMINAL_STAGE, f)

(* Two stages are ordered, or they wait for exactly the same stages. *)
Layered(f) ==
  \A u, s \in stage_names_for(f) :
    \/ u = s
    \/ Before(u, s, f)
    \/ Before(s, u, f)
    \/ effective_deps(u, f) = effective_deps(s, f)

EntryIsFirst(f) ==
  /\ Entry \in stage_names_for(f)
  /\ \A s \in stage_names_for(f) \ {Entry} : effective_deps(s, f) # {}

(* Blocks are written before the chunks that cite them, chunks before the  *)
(* preambles, and preambles before the vectors.                            *)
ArtefactsInOrder(f) ==
  /\ {"contextualize", "embed"} \subseteq stage_names_for(f)
  /\ \A s \in {"parse", "parse_flow"} \cap stage_names_for(f) : Before(s, "chunk", f)
  /\ Before("chunk", "contextualize", f)
  /\ Before("contextualize", "embed", f)

(* The guarantees about dispatch and readiness depend on these three. *)
ASSUME ShapeAssumption ==
  \A f \in Families : TerminalIsLast(f) /\ Layered(f) /\ EntryIsFirst(f)

(* What validate_pipeline does check: that no stage is lost depends on it. *)
ASSUME RunAssumption == \A f \in Families : RunsToTheEnd(f)
=============================================================================
