--------------------------- MODULE StageConsumer ---------------------------
(***************************************************************************)
(* One document's run through the ingest pipeline: the stage consumers of  *)
(* ragent/workers/run.py, the stage rows they share in Postgres            *)
(* (ragent/pipeline/store_pg.py), and the RabbitMQ queues between them.    *)
(*                                                                         *)
(* A slot is one message and the coroutine that serves it: free, waiting   *)
(* in the stage's work queue ("queued") or in a retry tier ("delayed"), or *)
(* at one of the awaits of _on_message.  Every await that changes the      *)
(* store or the broker is one action, so the coroutines of all workers     *)
(* interleave between any two of them.                                     *)
(*                                                                         *)
(* Left out: the order in which followers are published, the attempt and   *)
(* error columns of ingest_stages (nothing reads them to decide), prefetch *)
(* (it only limits which interleavings happen), and the contents of the    *)
(* document, which a handler's success or failure stands for.              *)
(***************************************************************************)
EXTENDS StageShape, FiniteSets

CONSTANTS
  Slots,        \* messages and deliveries that can exist at once
  Provisional,  \* the family the upload endpoint publishes ("pdf")
  Unsupported,  \* stands for content that detect_format cannot route
  DocFamilies,  \* what the document may turn out to be
  Handlers,     \* stages that have a registered handler
  Processing,   \* stages whose handler sets documents.status 'processing'
  FaultKinds,   \* the faults that may happen, among AllFaults
  MaxFaults     \* how many of them

AllFaults ==
  {"crash",           \* a worker dies, but not while it publishes followers
   "crash_reserved",  \* a worker dies between mark_dispatched and the publish
   "disconnect",      \* the broker redelivers while the coroutine runs on
   "store"}           \* a store or broker call raises outside the handler

ASSUME ConsumerAssumption ==
  /\ Provisional \in Families
  /\ Unsupported \notin Families
  /\ DocFamilies \subseteq Families \cup {Unsupported}
  /\ Handlers \subseteq Stages
  /\ Processing \subseteq Stages \ {TERMINAL_STAGE}
  /\ FaultKinds \subseteq AllFaults
  /\ MaxFaults \in Nat

VARIABLES
  row,        \* ingest_stages.status by stage; "none" when there is no row
  docStatus,  \* documents.status
  docFamily,  \* what the bytes are: detect_format's answer, never changed
  pc,         \* where each slot is
  msg,        \* the StageMessage of each slot
  todo,       \* followers a coroutine has still to reserve or publish
  orphan,     \* the delivery was given to another coroutine
  dlq,        \* stages with a message in their dead-letter queue
  done,       \* history: the stages complete_stage was ever called for
  faults      \* how many faults happened

vars == <<row, docStatus, docFamily, pc, msg, todo, orphan, dlq, done, faults>>

RowStatus == {"none", "pending", "running", "succeeded", "failed"}
DocStatus == {"pending", "processing", "ready", "failed", "quarantined"}

Waiting == {"queued", "delayed"}
Held == {"begin", "handle", "complete", "mark", "publish", "fail_retry",
         "retry", "fail_dead", "fail_document", "dead_letter", "ack"}

StageMessage(s, attempt, f) == [stage |-> s, attempt |-> attempt, family |-> f]

Blank == StageMessage(Entry, 1, Provisional)   \* what a free slot holds

Live(x) == pc[x] # "free"
At(x, s, where) == pc[x] = where /\ msg[x].stage = s

-----------------------------------------------------------------------------
(* Messages and the stage store *)

(* Mutation: the provisional family is kept. *)
with_family_kept(m) == m.family

(* The family a finished stage hands on: detect's metrics carry the real   *)
(* one, every other stage keeps what its message says.                     *)
with_family(m) == IF m.stage = Entry THEN docFamily ELSE m.family

for_stage(m, s) == StageMessage(s, 1, with_family(m))

(* Mutation: a retry does not count. *)
retried_free(m) == m

retried(m) == [m EXCEPT !.attempt = @ + 1]

SetRow(s, status) == row' = [row EXCEPT ![s] = status]

(* The snapshot complete_stage reads in its own transaction. *)
Completed(r)  == {s \in Stages : r[s] = "succeeded"}
Dispatched(r) == {s \in Stages : r[s] # "none"}

next_messages(m, r) == ready_stages(with_family(m), Completed(r), Dispatched(r))

(* plan_failure decides for a retry; otherwise the message is dead. *)
PlansRetry(m, permanent) ==
  ~permanent /\ retry_delay_ms(m.stage, m.attempt) # NoDelay

-----------------------------------------------------------------------------
(* Slots *)

Goto(x, where) == pc' = [pc EXCEPT ![x] = where]

(* x goes on to `where` and a message m enters the broker in slot y. *)
Send(x, where, y, m, how) ==
  /\ pc[y] = "free"
  /\ pc' = [pc EXCEPT ![x] = where, ![y] = how]
  /\ msg' = [msg EXCEPT ![y] = m]

(* The slot's message is gone and its coroutine has ended. *)
Release(x) ==
  /\ pc' = [pc EXCEPT ![x] = "free"]
  /\ msg' = [msg EXCEPT ![x] = Blank]
  /\ todo' = [todo EXCEPT ![x] = {}]
  /\ orphan' = [orphan EXCEPT ![x] = FALSE]

-----------------------------------------------------------------------------

(* The state upload leaves: a run without rows, and the entry message. *)
Init ==
  /\ row = [s \in Stages |-> "none"]
  /\ docStatus = "pending"
  /\ docFamily \in DocFamilies
  /\ \E x \in Slots : pc = [y \in Slots |-> IF y = x THEN "queued" ELSE "free"]
  /\ msg = [x \in Slots |-> Blank]
  /\ todo = [x \in Slots |-> {}]
  /\ orphan = [x \in Slots |-> FALSE]
  /\ dlq = {}
  /\ done = {}
  /\ faults = 0

(* Mutation: a message without a handler is dropped. *)
Deliver_drop(x) ==
  /\ pc[x] = "queued"
  /\ Goto(x, IF msg[x].stage \in Handlers THEN "begin" ELSE "ack")
  /\ UNCHANGED <<row, docStatus, docFamily, msg, todo, orphan, dlq, done, faults>>

(* The broker hands the message to a consumer, which looks up its handler. *)
Deliver(x) ==
  /\ pc[x] = "queued"
  /\ Goto(x, IF msg[x].stage \in Handlers THEN "begin" ELSE "dead_letter")
  /\ UNCHANGED <<row, docStatus, docFamily, msg, todo, orphan, dlq, done, faults>>

(* The upsert does not look at the status it overwrites. *)
begin_stage(x) ==
  /\ pc[x] = "begin"
  /\ SetRow(msg[x].stage, "running")
  /\ Goto(x, "handle")
  /\ UNCHANGED <<docStatus, docFamily, msg, todo, orphan, dlq, done, faults>>

(* What the handlers write to documents.status. *)
StatusAfter(s) ==
  IF s = TERMINAL_STAGE THEN "ready"
  ELSE IF s \in Processing THEN "processing"
  ELSE docStatus

HandlerSucceeds(x) ==
  /\ pc[x] = "handle"
  /\ msg[x].stage = Entry => docFamily # Unsupported
  /\ docStatus' = StatusAfter(msg[x].stage)
  /\ Goto(x, "complete")
  /\ UNCHANGED <<row, docFamily, msg, todo, orphan, dlq, done, faults>>

(* _handle_failure, up to its first store call. *)
HandlerRaises(x, permanent) ==
  /\ pc[x] = "handle"
  /\ Goto(x, IF PlansRetry(msg[x], permanent) THEN "fail_retry" ELSE "fail_dead")
  /\ UNCHANGED <<row, docStatus, docFamily, msg, todo, orphan, dlq, done, faults>>

(* detect_format raises UnsupportedFormatError, a permanent failure. *)
Quarantine(x) ==
  /\ At(x, Entry, "handle")
  /\ docFamily = Unsupported
  /\ docStatus' = "quarantined"
  /\ Goto(x, "fail_dead")
  /\ UNCHANGED <<row, docFamily, msg, todo, orphan, dlq, done, faults>>

(* Mutation: the followers are reserved together with the completion. *)
complete_stage_reserving(x) ==
  LET s == msg[x].stage
      after == [row EXCEPT ![s] = "succeeded"]
      followers == next_messages(msg[x], after)
  IN  /\ pc[x] = "complete"
      /\ row' = [u \in Stages |-> IF u \in followers THEN "pending" ELSE after[u]]
      /\ done' = done \cup {s}
      /\ todo' = [todo EXCEPT ![x] = followers]
      /\ Goto(x, IF followers = {} THEN "ack" ELSE "mark")
      /\ UNCHANGED <<docStatus, docFamily, msg, orphan, dlq, faults>>

(* Records the completion and reads the snapshot in one transaction.  When *)
(* there is nothing to hand on, the coroutine goes straight to the ack.    *)
complete_stage(x) ==
  LET s == msg[x].stage
      after == [row EXCEPT ![s] = "succeeded"]
      followers == next_messages(msg[x], after)
  IN  /\ pc[x] = "complete"
      /\ row' = after
      /\ done' = done \cup {s}
      /\ todo' = [todo EXCEPT ![x] = followers]
      /\ Goto(x, IF followers = {} THEN "ack" ELSE "mark")
      /\ UNCHANGED <<docStatus, docFamily, msg, orphan, dlq, faults>>

(* Inserts a pending row for each follower that has none. *)
mark_dispatched(x) ==
  /\ pc[x] = "mark"
  /\ row' = [s \in Stages |-> IF s \in todo[x] /\ row[s] = "none"
                                THEN "pending" ELSE row[s]]
  /\ Goto(x, "publish")
  /\ UNCHANGED <<docStatus, docFamily, msg, todo, orphan, dlq, done, faults>>

PublishFollower(x, s, y) ==
  /\ pc[x] = "publish"
  /\ s \in todo[x]
  /\ todo' = [todo EXCEPT ![x] = @ \ {s}]
  /\ Send(x, IF todo[x] = {s} THEN "ack" ELSE "publish",
          y, for_stage(msg[x], s), "queued")
  /\ UNCHANGED <<row, docStatus, docFamily, orphan, dlq, done, faults>>

(* Mutation: a failure that will be retried is recorded as final. *)
fail_stage_retry_final(x) ==
  /\ pc[x] = "fail_retry"
  /\ SetRow(msg[x].stage, "failed")
  /\ Goto(x, "retry")
  /\ UNCHANGED <<docStatus, docFamily, msg, todo, orphan, dlq, done, faults>>

(* fail_stage(permanent=False) *)
fail_stage_retry(x) ==
  /\ pc[x] = "fail_retry"
  /\ SetRow(msg[x].stage, "pending")
  /\ Goto(x, "retry")
  /\ UNCHANGED <<docStatus, docFamily, msg, todo, orphan, dlq, done, faults>>

(* The retry goes to the tier of its delay, not back to the work queue. *)
PublishRetry(x, y) ==
  /\ pc[x] = "retry"
  /\ Send(x, "ack", y, retried(msg[x]), "delayed")
  /\ UNCHANGED <<row, docStatus, docFamily, todo, orphan, dlq, done, faults>>

(* The message's time in the retry tier is over. *)
Expire(x) ==
  /\ pc[x] = "delayed"
  /\ Goto(x, "queued")
  /\ UNCHANGED <<row, docStatus, docFamily, msg, todo, orphan, dlq, done, faults>>

(* fail_stage(permanent=True) is two statements, each its own transaction. *)
fail_stage_dead(x) ==
  /\ pc[x] = "fail_dead"
  /\ SetRow(msg[x].stage, "failed")
  /\ Goto(x, "fail_document")
  /\ UNCHANGED <<docStatus, docFamily, msg, todo, orphan, dlq, done, faults>>

fail_document(x) ==
  /\ pc[x] = "fail_document"
  /\ docStatus' = "failed"
  /\ Goto(x, "dead_letter")
  /\ UNCHANGED <<row, docFamily, msg, todo, orphan, dlq, done, faults>>

dead_letter(x) ==
  /\ pc[x] = "dead_letter"
  /\ dlq' = dlq \cup {msg[x].stage}
  /\ Goto(x, "ack")
  /\ UNCHANGED <<row, docStatus, docFamily, msg, todo, orphan, done, faults>>

(* An orphan's ack is refused by the broker, to the same effect. *)
Ack(x) ==
  /\ pc[x] = "ack"
  /\ Release(x)
  /\ UNCHANGED <<row, docStatus, docFamily, dlq, done, faults>>

-----------------------------------------------------------------------------
(* Faults *)

Fault(kind) ==
  /\ kind \in FaultKinds
  /\ faults < MaxFaults
  /\ faults' = faults + 1

(* Mutation: messages are acknowledged when they are received. *)
Crash_autoack(x) ==
  /\ pc[x] \in Held
  /\ Fault(IF pc[x] = "publish" THEN "crash_reserved" ELSE "crash")
  /\ Release(x)
  /\ UNCHANGED <<row, docStatus, docFamily, dlq, done>>

(* The worker dies.  The broker puts the unacked message back as it was,   *)
(* unless it already gave it to someone else.                              *)
Crash(x) ==
  /\ pc[x] \in Held
  /\ Fault(IF pc[x] = "publish" THEN "crash_reserved" ELSE "crash")
  /\ IF orphan[x]
       THEN Release(x)
       ELSE /\ Goto(x, "queued")
            /\ todo' = [todo EXCEPT ![x] = {}]
            /\ UNCHANGED <<msg, orphan>>
  /\ UNCHANGED <<row, docStatus, docFamily, dlq, done>>

(* The channel is lost, the broker redelivers, the coroutine runs on. *)
LoseConnection(x, y) ==
  /\ pc[x] \in Held
  /\ ~orphan[x]
  /\ Fault("disconnect")
  /\ Send(x, pc[x], y, msg[x], "queued")
  /\ orphan' = [orphan EXCEPT ![x] = TRUE]
  /\ UNCHANGED <<row, docStatus, docFamily, todo, dlq, done>>

(* A call outside the handler's try raises: process(requeue=False) rejects *)
(* the message, which the work queue dead-letters.                         *)
Reject(x) ==
  /\ pc[x] \in Held \ {"handle", "ack"}
  /\ Fault("store")
  /\ dlq' = IF orphan[x] THEN dlq ELSE dlq \cup {msg[x].stage}
  /\ Release(x)
  /\ UNCHANGED <<row, docStatus, docFamily, done>>

-----------------------------------------------------------------------------

Consume(x) ==
  \/ Deliver(x)
  \/ begin_stage(x)
  \/ HandlerSucceeds(x)
  \/ \E permanent \in BOOLEAN : HandlerRaises(x, permanent)
  \/ Quarantine(x)
  \/ complete_stage(x)
  \/ mark_dispatched(x)
  \/ \E s \in Stages, y \in Slots : PublishFollower(x, s, y)
  \/ fail_stage_retry(x)
  \/ \E y \in Slots : PublishRetry(x, y)
  \/ Expire(x)
  \/ fail_stage_dead(x)
  \/ fail_document(x)
  \/ dead_letter(x)
  \/ Ack(x)

Disturb(x) ==
  \/ Crash(x)
  \/ \E y \in Slots : LoseConnection(x, y)
  \/ Reject(x)

Next == \E x \in Slots : Consume(x) \/ Disturb(x)

Spec == Init /\ [][Next]_vars

(* Consumers keep running, the broker keeps delivering and a retry tier's  *)
(* time runs out.  Nothing is assumed of the faults.                       *)
FairSpec == Spec /\ \A x \in Slots : WF_vars(Consume(x))

-----------------------------------------------------------------------------
(* Properties *)

Path == stage_names_for(docFamily)

Quiescent == \A x \in Slots : ~Live(x)

(* The coroutine still has something to do for its stage. *)
Active(x) == Live(x) /\ pc[x] # "ack"

(* Type invariant.  An attempt never exceeds the stage's max_attempts, so  *)
(* plan_failure's arithmetic on the message keeps retries bounded.         *)
TypeOK ==
  /\ row \in [Stages -> RowStatus]
  /\ docStatus \in DocStatus
  /\ docFamily \in DocFamilies
  /\ pc \in [Slots -> {"free"} \cup Waiting \cup Held]
  /\ msg \in [Slots -> [stage : Stages, attempt : Nat \ {0}, family : Families]]
  /\ \A x \in Slots : msg[x].attempt <= max_attempts[msg[x].stage]
  /\ todo \in [Slots -> SUBSET Stages]
  /\ orphan \in [Slots -> BOOLEAN]
  /\ dlq \subseteq Stages
  /\ done \subseteq Stages
  /\ faults \in 0 .. MaxFaults

(* A stage gets a row in ingest_stages only if it is on the path of what   *)
(* the document really is, although upload published a provisional family, *)
(* and only after every stage it depends on has succeeded at least once:   *)
(* ready_stages judged the snapshot of complete_stage, whatever crashed or *)
(* was delivered twice in between.                                         *)
DispatchAfterDeps ==
  \A s \in Stages :
    row[s] # "none" => /\ s \in Path \cup {Entry}
                       /\ effective_deps(s, docFamily) \subseteq done

(* documents.status is 'ready' only for a document whose every other stage *)
(* has succeeded, although embed sets it without looking at any row.       *)
ReadyNeedsAllStages == docStatus = "ready" => Path \ {TERMINAL_STAGE} \subseteq done

(* Without redelivery no two coroutines work on the same stage: tables and *)
(* figures finishing together publish chunk once.                          *)
SingleFlight ==
  \A x, y \in Slots :
    (x # y /\ Active(x) /\ Active(y)) => msg[x].stage # msg[y].stage

(* Without faults, a run that has no message left has a verdict, and       *)
(* documents.status agrees with the stage rows about it.                   *)
Verdict ==
  Quiescent => \/ is_complete(docFamily, Completed(row)) /\ docStatus = "ready"
               \/ (\E s \in dlq : row[s] = "failed") /\ docStatus = "failed"

(* Messages may be redelivered, but the run never ends with a stage that   *)
(* was neither finished nor given up.                                      *)
NoStageLost ==
  Quiescent => \/ is_complete(docFamily, Completed(row))
               \/ \E s \in Stages : row[s] = "failed"

(* A run that cannot go on always leaves a message in a dead-letter queue. *)
NotSilentlyStuck ==
  Quiescent => is_complete(docFamily, Completed(row)) \/ dlq # {}

(* The schedule the rows show: the consumers implement StageSchedule when   *)
(* nothing is delivered twice, so no stage starts a second time and no     *)
(* completion or failure is ever overwritten.                              *)
PhaseOf(status) ==
  IF status = "none" THEN "waiting"
  ELSE IF status \in {"pending", "running"} THEN "active"
  ELSE status

Schedule == INSTANCE StageSchedule WITH
  family <- docFamily,
  phase <- [s \in Stages |-> PhaseOf(row[s])]

ImplementsSchedule == Schedule!Spec

(* Every run ends, and stays, with a verdict: retries are bounded and no   *)
(* coroutine waits for another.                                            *)
EventuallyVerdict == <>[](Quiescent /\ Verdict)

(* When a worker crashes, a delivery is given out twice or a store call    *)
(* fails, every run still ends, complete or with a message in a            *)
(* dead-letter queue to show for it.  (Unless every slot is a coroutine    *)
(* with something to publish: what holds it back is the bound on Slots.)   *)
EventuallySettled ==
  \/ <>[](Quiescent /\ NotSilentlyStuck)
  \/ <>[](\A x \in Slots : pc[x] \in {"publish", "retry"})

-----------------------------------------------------------------------------
(* What comments and docs of the program say, and the program does not do. *)

(* "Reserve before publishing.  If we crash between the two, the stage is  *)
(* re-queued on resume" (_on_message): no reserved stage stays unqueued.   *)
ReservedIsRequeued == Quiescent => \A s \in Stages : row[s] # "pending"
=============================================================================
