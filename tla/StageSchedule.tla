--------------------------- MODULE StageSchedule ---------------------------
(***************************************************************************)
(* What the pipeline promises about one document, without messages, rows   *)
(* or workers: every stage of the document's path starts at most once,     *)
(* after the stages it depends on, and ends for good.  StageConsumer       *)
(* implements it as long as the broker delivers each message once.         *)
(***************************************************************************)
EXTENDS StageGraph

CONSTANT Unsupported   \* the family of a document that has no path

VARIABLES
  family,   \* the document's family, or Unsupported
  phase     \* [Stages -> Phase]

Phase == {"waiting", "active", "succeeded", "failed"}

Succeeded == {s \in Stages : phase[s] = "succeeded"}

Init ==
  /\ family \in Families \cup {Unsupported}
  /\ phase = [s \in Stages |-> "waiting"]

(* Detection starts before anything is known of the document. *)
StartDetection ==
  /\ phase[Entry] = "waiting"
  /\ phase' = [phase EXCEPT ![Entry] = "active"]
  /\ UNCHANGED family

Startable ==
  {s \in stage_names_for(family) :
     /\ phase[s] = "waiting"
     /\ effective_deps(s, family) # {}
     /\ effective_deps(s, family) \subseteq Succeeded}

(* Some of the stages whose dependencies succeeded start together. *)
Start ==
  /\ \E S \in (SUBSET Startable) \ {{}} :
       phase' = [s \in Stages |-> IF s \in S THEN "active" ELSE phase[s]]
  /\ UNCHANGED family

Finish(s, outcome) ==
  /\ phase[s] = "active"
  /\ phase' = [phase EXCEPT ![s] = outcome]
  /\ UNCHANGED family

Next ==
  \/ StartDetection
  \/ Start
  \/ \E s \in Stages, outcome \in {"succeeded", "failed"} : Finish(s, outcome)

Spec == Init /\ [][Next]_<<family, phase>>
=============================================================================
