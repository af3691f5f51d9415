------------------------ MODULE StageConsumerProofs ------------------------
(***************************************************************************)
(* Proofs about StageConsumer, for every stage graph of the right shape,   *)
(* any number of messages in flight and any number of faults of any kind.  *)
(***************************************************************************)
EXTENDS StageConsumer, TLAPS

(* A stage that may have been started: it is on the document's path and    *)
(* all it depends on was finished at some time.                            *)
OnTrack(s) ==
  /\ s \in Path \cup {Entry}
  /\ effective_deps(s, docFamily) \subseteq done

(* Only a document with a known family gets past a handler. *)
FamilyIsKnown ==
  /\ \A x \in Slots :
       pc[x] \in {"complete", "mark", "publish"} => docFamily \in Families
  /\ done # {} => docFamily \in Families
  /\ docStatus = "ready" => docFamily \in Families

(* A coroutine that is about to retry has an attempt left. *)
RetryHasRoom ==
  \A x \in Slots :
    pc[x] \in {"fail_retry", "retry"} =>
      msg[x].attempt < max_attempts[msg[x].stage]

(* Every message past detection carries the family detection found. *)
FamilyAdopted ==
  \A x \in Slots : Live(x) /\ msg[x].stage # Entry => msg[x].family = docFamily

MessagesOnTrack == \A x \in Slots : Live(x) => OnTrack(msg[x].stage)

FollowersOnTrack ==
  \A x \in Slots : \A s \in todo[x] : OnTrack(s) /\ docFamily \in Families

RowsOnTrack == \A s \in Stages : row[s] # "none" => OnTrack(s)

(* What ever completed is closed under dependencies. *)
DoneClosed ==
  /\ \A s \in Stages : row[s] = "succeeded" => s \in done
  /\ done \subseteq Path
  /\ DownClosed(docFamily, done)

ReadyOnTrack == docStatus = "ready" => OnTrack(TERMINAL_STAGE)

IInv ==
  /\ TypeOK
  /\ FamilyIsKnown
  /\ RetryHasRoom
  /\ FamilyAdopted
  /\ MessagesOnTrack
  /\ FollowersOnTrack
  /\ RowsOnTrack
  /\ DoneClosed
  /\ ReadyOnTrack

-----------------------------------------------------------------------------
(* Facts about the graph *)

(* The scheduler proposes only stages of the family's path whose           *)
(* dependencies are all among the completed ones.                          *)
LEMMA ReadyStages ==
  ASSUME NEW f, NEW C, NEW D, NEW s \in ready_stages(f, C, D)
  PROVE  /\ s \in stage_names_for(f)
         /\ effective_deps(s, f) \subseteq C
         /\ s \notin C \cup D
  BY DEF ready_stages

(* A retry is planned only while the stage has an attempt left. *)
LEMMA RetryRoom ==
  ASSUME NEW s \in Stages, NEW a \in Nat, retry_delay_ms(s, a) # NoDelay
  PROVE  a < max_attempts[s]
  BY GraphAssumption DEF retry_delay_ms, NoDelay

LEMMA PathInStages ==
  ASSUME NEW f PROVE stage_names_for(f) \subseteq Stages
  BY DEF stage_names_for

(* Every family detects first; no path belongs to unsupported content. *)
LEMMA EntryOnPath ==
  ASSUME NEW f \in Families
  PROVE  /\ Entry \in stage_names_for(f)
         /\ effective_deps(Entry, f) = {}
  BY GraphAssumption, ShapeAssumption DEF EntryIsFirst, effective_deps

LEMMA EntryHasNoDeps == ASSUME NEW f PROVE effective_deps(Entry, f) = {}
  BY GraphAssumption DEF effective_deps

(* Followers come from the completions the transaction saw. *)
LEMMA OnTrackGrows ==
  ASSUME NEW s, OnTrack(s), UNCHANGED docFamily, done \subseteq done'
  PROVE  OnTrack(s)'
  BY DEF OnTrack, Path

-----------------------------------------------------------------------------

THEOREM InitIInv == Init => IInv
<1> SUFFICES ASSUME Init PROVE IInv
  OBVIOUS
<1> USE GraphAssumption, ConsumerAssumption DEF Init
<1>1. TypeOK
  BY DEF TypeOK, RowStatus, DocStatus, Waiting, Held, Blank, StageMessage
<1>2. FamilyIsKnown /\ RetryHasRoom /\ FamilyAdopted
  BY DEF FamilyIsKnown, RetryHasRoom, FamilyAdopted, Live, Blank, StageMessage
<1>3. OnTrack(Entry)
  BY EntryHasNoDeps DEF OnTrack
<1>4. MessagesOnTrack /\ FollowersOnTrack
  BY <1>3 DEF MessagesOnTrack, FollowersOnTrack, Live, Blank, StageMessage
<1>5. RowsOnTrack /\ DoneClosed /\ ReadyOnTrack
  BY DEF RowsOnTrack, DoneClosed, DownClosed, ReadyOnTrack
<1> QED
  BY <1>1, <1>2, <1>4, <1>5 DEF IInv

(* Each step keeps the invariant.  Only complete_stage adds to done, only  *)
(* PublishFollower brings a new stage into the broker.                     *)
THEOREM NextIInv == IInv /\ [Next]_vars => IInv'
<1> SUFFICES ASSUME IInv, [Next]_vars PROVE IInv'
  OBVIOUS
<1> USE GraphAssumption, ConsumerAssumption
<1> USE DEF IInv
<1>0. docFamily' = docFamily /\ done \subseteq done'
  BY DEF Next, Consume, Disturb, vars, Deliver, begin_stage, HandlerSucceeds, HandlerRaises,
     Quarantine, complete_stage, mark_dispatched, PublishFollower, fail_stage_retry,
     PublishRetry, Expire, fail_stage_dead, fail_document, dead_letter, Ack, Crash,
     LoseConnection, Reject
<1>a. \A u : OnTrack(u) => OnTrack(u)'
  BY <1>0, OnTrackGrows
<1>1. ASSUME NEW x \in Slots, Deliver(x)
      PROVE  IInv'
  <2> USE <1>1 DEF Deliver, Goto
  <2>1. TypeOK'
    BY DEF TypeOK, RowStatus, DocStatus, Waiting, Held, RetryHasRoom
  <2>2. FamilyIsKnown' /\ RetryHasRoom'
    BY DEF TypeOK, FamilyIsKnown, RetryHasRoom, FamilyAdopted, Held
  <2>3. FamilyAdopted'
    BY DEF TypeOK, FamilyAdopted, FamilyIsKnown, Live, Held
  <2>4. MessagesOnTrack'
    BY <1>a DEF TypeOK, MessagesOnTrack, FollowersOnTrack, Live, Held
  <2>5. FollowersOnTrack' /\ RowsOnTrack' /\ ReadyOnTrack'
    BY <1>a DEF TypeOK, FollowersOnTrack, RowsOnTrack, ReadyOnTrack, MessagesOnTrack, Live
  <2>6. DoneClosed'
    BY DEF TypeOK, DoneClosed, DownClosed, Path
  <2> QED
    BY <2>1, <2>2, <2>3, <2>4, <2>5, <2>6
<1>2. ASSUME NEW x \in Slots, begin_stage(x)
      PROVE  IInv'
  <2> USE <1>2 DEF begin_stage, Goto, SetRow
  <2>1. TypeOK'
    BY DEF TypeOK, RowStatus, DocStatus, Waiting, Held, RetryHasRoom
  <2>2. FamilyIsKnown' /\ RetryHasRoom'
    BY DEF TypeOK, FamilyIsKnown, RetryHasRoom, FamilyAdopted, Held
  <2>3. FamilyAdopted'
    BY DEF TypeOK, FamilyAdopted, FamilyIsKnown, Live, Held
  <2>4. MessagesOnTrack'
    BY <1>a DEF TypeOK, MessagesOnTrack, FollowersOnTrack, Live, Held
  <2>5. FollowersOnTrack' /\ RowsOnTrack' /\ ReadyOnTrack'
    BY <1>a DEF TypeOK, FollowersOnTrack, RowsOnTrack, ReadyOnTrack, MessagesOnTrack, Live
  <2>6. DoneClosed'
    BY DEF TypeOK, DoneClosed, DownClosed, Path
  <2> QED
    BY <2>1, <2>2, <2>3, <2>4, <2>5, <2>6
<1>3. ASSUME NEW x \in Slots, HandlerSucceeds(x)
      PROVE  IInv'
  <2> USE <1>3 DEF HandlerSucceeds, Goto, StatusAfter, Live
  <2>1. TypeOK'
    BY DEF TypeOK, RowStatus, DocStatus, Waiting, Held, RetryHasRoom
  <2>2. FamilyIsKnown' /\ RetryHasRoom'
    BY DEF TypeOK, FamilyIsKnown, RetryHasRoom, FamilyAdopted, Held
  <2>3. FamilyAdopted'
    BY DEF TypeOK, FamilyAdopted, FamilyIsKnown, Live, Held
  <2>4. MessagesOnTrack'
    BY <1>a DEF TypeOK, MessagesOnTrack, FollowersOnTrack, Live, Held
  <2>5. FollowersOnTrack' /\ RowsOnTrack' /\ ReadyOnTrack'
    BY <1>a DEF TypeOK, FollowersOnTrack, RowsOnTrack, ReadyOnTrack, MessagesOnTrack, Live
  <2>6. DoneClosed'
    BY DEF TypeOK, DoneClosed, DownClosed, Path
  <2> QED
    BY <2>1, <2>2, <2>3, <2>4, <2>5, <2>6
<1>4. ASSUME NEW x \in Slots, NEW permanent \in BOOLEAN, HandlerRaises(x, permanent)
      PROVE  IInv'
  <2> USE <1>4 DEF HandlerRaises, Goto, PlansRetry
  <2>1. TypeOK'
    BY RetryRoom DEF TypeOK, RowStatus, DocStatus, Waiting, Held, RetryHasRoom
  <2>2. FamilyIsKnown' /\ RetryHasRoom'
    BY RetryRoom DEF TypeOK, FamilyIsKnown, RetryHasRoom, FamilyAdopted, Held
  <2>3. FamilyAdopted'
    BY DEF TypeOK, FamilyAdopted, FamilyIsKnown, Live, Held
  <2>4. MessagesOnTrack'
    BY <1>a DEF TypeOK, MessagesOnTrack, FollowersOnTrack, Live, Held
  <2>5. FollowersOnTrack' /\ RowsOnTrack' /\ ReadyOnTrack'
    BY <1>a DEF TypeOK, FollowersOnTrack, RowsOnTrack, ReadyOnTrack, MessagesOnTrack, Live
  <2>6. DoneClosed'
    BY DEF TypeOK, DoneClosed, DownClosed, Path
  <2> QED
    BY <2>1, <2>2, <2>3, <2>4, <2>5, <2>6
<1>5. ASSUME NEW x \in Slots, Quarantine(x)
      PROVE  IInv'
  <2> USE <1>5 DEF Quarantine, Goto, At
  <2>1. TypeOK'
    BY DEF TypeOK, RowStatus, DocStatus, Waiting, Held, RetryHasRoom
  <2>2. FamilyIsKnown' /\ RetryHasRoom'
    BY DEF TypeOK, FamilyIsKnown, RetryHasRoom, FamilyAdopted, Held
  <2>3. FamilyAdopted'
    BY DEF TypeOK, FamilyAdopted, FamilyIsKnown, Live, Held
  <2>4. MessagesOnTrack'
    BY <1>a DEF TypeOK, MessagesOnTrack, FollowersOnTrack, Live, Held
  <2>5. FollowersOnTrack' /\ RowsOnTrack' /\ ReadyOnTrack'
    BY <1>a DEF TypeOK, FollowersOnTrack, RowsOnTrack, ReadyOnTrack, MessagesOnTrack, Live
  <2>6. DoneClosed'
    BY DEF TypeOK, DoneClosed, DownClosed, Path
  <2> QED
    BY <2>1, <2>2, <2>3, <2>4, <2>5, <2>6
<1>6. ASSUME NEW x \in Slots, complete_stage(x)
      PROVE  IInv'
  <2> DEFINE s == msg[x].stage
             after == [row EXCEPT ![s] = "succeeded"]
             followers == next_messages(msg[x], after)
  <2>1. /\ pc[x] = "complete"
        /\ row' = after
        /\ done' = done \cup {s}
        /\ todo' = [todo EXCEPT ![x] = followers]
        /\ pc' = [pc EXCEPT ![x] = IF followers = {} THEN "ack" ELSE "mark"]
        /\ UNCHANGED <<docStatus, docFamily, msg, orphan, dlq, faults>>
    BY <1>6 DEF complete_stage, Goto
  <2>2. s \in Stages /\ after \in [Stages -> RowStatus]
    BY DEF TypeOK, RowStatus
  <2>3. docFamily \in Families /\ with_family(msg[x]) = docFamily
    BY <2>1 DEF FamilyIsKnown, FamilyAdopted, with_family, Live
  <2>4. Completed(after) \subseteq done'
    BY <2>1, <2>2 DEF Completed, DoneClosed, TypeOK
  <2>5. \A u \in followers : u \in Path /\ effective_deps(u, docFamily) \subseteq Completed(after)
    BY <2>3, ReadyStages DEF next_messages, Path
  <2>6. followers \subseteq Stages
    BY <2>5, PathInStages DEF Path
  <2>7. s \in Path /\ effective_deps(s, docFamily) \subseteq done
    BY <2>1, <2>3, EntryOnPath DEF MessagesOnTrack, Live, OnTrack, Path
  <2> HIDE DEF s, after, followers
  <2>8. TypeOK'
    BY <2>1, <2>2, <2>6 DEF TypeOK, Waiting, Held
  <2>9. FamilyIsKnown' /\ RetryHasRoom'
    BY <2>1, <2>3 DEF TypeOK, FamilyIsKnown, RetryHasRoom
  <2>10. FamilyAdopted' /\ MessagesOnTrack'
    BY <1>a, <2>1 DEF TypeOK, FamilyAdopted, MessagesOnTrack, Live
  <2>11. FollowersOnTrack'
    <3>1. \A u \in followers : OnTrack(u)'
      BY <2>1, <2>4, <2>5 DEF OnTrack, Path
    <3> QED
      BY <1>a, <2>1, <2>3, <3>1 DEF TypeOK, FollowersOnTrack
  <2>12. RowsOnTrack' /\ ReadyOnTrack'
    <3>1. OnTrack(s)
      BY <2>7 DEF OnTrack
    <3> QED
      BY <1>a, <2>1, <3>1 DEF TypeOK, RowsOnTrack, ReadyOnTrack, after
  <2>13. DoneClosed'
    <3>1. \A u \in Stages : row'[u] = "succeeded" => u \in done'
      BY <2>1, <2>4, <2>2 DEF Completed
    <3>2. done' \subseteq Path' /\ DownClosed(docFamily, done)'
      BY <2>1, <2>7 DEF DoneClosed, DownClosed, Path
    <3> QED
      BY <3>1, <3>2 DEF DoneClosed
  <2> QED
    BY <2>8, <2>9, <2>10, <2>11, <2>12, <2>13
<1>7. ASSUME NEW x \in Slots, mark_dispatched(x)
      PROVE  IInv'
  <2> USE <1>7 DEF mark_dispatched, Goto
  <2>1. TypeOK'
    BY DEF TypeOK, RowStatus, DocStatus, Waiting, Held, RetryHasRoom
  <2>2. FamilyIsKnown' /\ RetryHasRoom'
    BY DEF TypeOK, FamilyIsKnown, RetryHasRoom, FamilyAdopted, Held
  <2>3. FamilyAdopted'
    BY DEF TypeOK, FamilyAdopted, FamilyIsKnown, Live, Held
  <2>4. MessagesOnTrack'
    BY <1>a DEF TypeOK, MessagesOnTrack, FollowersOnTrack, Live, Held
  <2>5. FollowersOnTrack' /\ RowsOnTrack' /\ ReadyOnTrack'
    BY <1>a DEF TypeOK, FollowersOnTrack, RowsOnTrack, ReadyOnTrack, MessagesOnTrack, Live
  <2>6. DoneClosed'
    BY DEF TypeOK, DoneClosed, DownClosed, Path
  <2> QED
    BY <2>1, <2>2, <2>3, <2>4, <2>5, <2>6
<1>8. ASSUME NEW x \in Slots, NEW s \in Stages, NEW y \in Slots, PublishFollower(x, s, y)
      PROVE  IInv'
  <2> USE <1>8 DEF PublishFollower, Send, for_stage, StageMessage
  <2>1. TypeOK'
    <3>1. with_family(msg[x]) \in Families
      BY DEF TypeOK, FamilyIsKnown, with_family
    <3>2. msg' = [msg EXCEPT ![y] = [stage |-> s, attempt |-> 1, family |-> with_family(msg[x])]]
      OBVIOUS
    <3>3. msg' \in [Slots -> [stage : Stages, attempt : Nat \ {0}, family : Families]]
      BY <3>1, <3>2 DEF TypeOK
    <3>4. \A z \in Slots : msg'[z].attempt <= max_attempts[msg'[z].stage]
      BY <3>2 DEF TypeOK
    <3> QED
      BY <3>3, <3>4 DEF TypeOK, Waiting, Held
  <2>2. FamilyIsKnown' /\ RetryHasRoom'
    BY DEF TypeOK, FamilyIsKnown, RetryHasRoom, FamilyAdopted, Held
  <2>3. FamilyAdopted'
    BY DEF TypeOK, FamilyAdopted, FamilyIsKnown, Live, Held, with_family, FollowersOnTrack
  <2>4. MessagesOnTrack'
    BY <1>a DEF TypeOK, MessagesOnTrack, FollowersOnTrack, Live, Held
  <2>5. FollowersOnTrack' /\ RowsOnTrack' /\ ReadyOnTrack'
    BY <1>a DEF TypeOK, FollowersOnTrack, RowsOnTrack, ReadyOnTrack, MessagesOnTrack, Live
  <2>6. DoneClosed'
    BY DEF TypeOK, DoneClosed, DownClosed, Path
  <2> QED
    BY <2>1, <2>2, <2>3, <2>4, <2>5, <2>6
<1>9. ASSUME NEW x \in Slots, fail_stage_retry(x)
      PROVE  IInv'
  <2> USE <1>9 DEF fail_stage_retry, Goto, SetRow
  <2>1. TypeOK'
    BY DEF TypeOK, RowStatus, DocStatus, Waiting, Held, RetryHasRoom
  <2>2. FamilyIsKnown' /\ RetryHasRoom'
    BY DEF TypeOK, FamilyIsKnown, RetryHasRoom, FamilyAdopted, Held
  <2>3. FamilyAdopted'
    BY DEF TypeOK, FamilyAdopted, FamilyIsKnown, Live, Held
  <2>4. MessagesOnTrack'
    BY <1>a DEF TypeOK, MessagesOnTrack, FollowersOnTrack, Live, Held
  <2>5. FollowersOnTrack' /\ RowsOnTrack' /\ ReadyOnTrack'
    BY <1>a DEF TypeOK, FollowersOnTrack, RowsOnTrack, ReadyOnTrack, MessagesOnTrack, Live
  <2>6. DoneClosed'
    BY DEF TypeOK, DoneClosed, DownClosed, Path
  <2> QED
    BY <2>1, <2>2, <2>3, <2>4, <2>5, <2>6
<1>10. ASSUME NEW x \in Slots, NEW y \in Slots, PublishRetry(x, y)
      PROVE  IInv'
  <2> USE <1>10 DEF PublishRetry, Send, retried
  <2>1. TypeOK'
    <3>1. msg'[y] = [msg[x] EXCEPT !.attempt = @ + 1] /\ \A z \in Slots \ {y} : msg'[z] = msg[z]
      BY DEF TypeOK
    <3>2. msg' \in [Slots -> [stage : Stages, attempt : Nat \ {0}, family : Families]]
      BY DEF TypeOK
    <3>3. \A z \in Slots : msg'[z].attempt <= max_attempts[msg'[z].stage]
      BY <3>1 DEF TypeOK, RetryHasRoom
    <3> QED
      BY <3>2, <3>3 DEF TypeOK, Waiting, Held
  <2>2. FamilyIsKnown' /\ RetryHasRoom'
    BY DEF TypeOK, FamilyIsKnown, RetryHasRoom, FamilyAdopted, Held
  <2>3. FamilyAdopted'
    BY DEF TypeOK, FamilyAdopted, FamilyIsKnown, Live, Held, with_family, FollowersOnTrack
  <2>4. MessagesOnTrack'
    BY <1>a DEF TypeOK, MessagesOnTrack, FollowersOnTrack, Live, Held
  <2>5. FollowersOnTrack' /\ RowsOnTrack' /\ ReadyOnTrack'
    BY <1>a DEF TypeOK, FollowersOnTrack, RowsOnTrack, ReadyOnTrack, MessagesOnTrack, Live
  <2>6. DoneClosed'
    BY DEF TypeOK, DoneClosed, DownClosed, Path
  <2> QED
    BY <2>1, <2>2, <2>3, <2>4, <2>5, <2>6
<1>11. ASSUME NEW x \in Slots, Expire(x)
      PROVE  IInv'
  <2> USE <1>11 DEF Expire, Goto
  <2>1. TypeOK'
    BY DEF TypeOK, RowStatus, DocStatus, Waiting, Held, RetryHasRoom
  <2>2. FamilyIsKnown' /\ RetryHasRoom'
    BY DEF TypeOK, FamilyIsKnown, RetryHasRoom, FamilyAdopted, Held
  <2>3. FamilyAdopted'
    BY DEF TypeOK, FamilyAdopted, FamilyIsKnown, Live, Held
  <2>4. MessagesOnTrack'
    BY <1>a DEF TypeOK, MessagesOnTrack, FollowersOnTrack, Live, Held
  <2>5. FollowersOnTrack' /\ RowsOnTrack' /\ ReadyOnTrack'
    BY <1>a DEF TypeOK, FollowersOnTrack, RowsOnTrack, ReadyOnTrack, MessagesOnTrack, Live
  <2>6. DoneClosed'
    BY DEF TypeOK, DoneClosed, DownClosed, Path
  <2> QED
    BY <2>1, <2>2, <2>3, <2>4, <2>5, <2>6
<1>12. ASSUME NEW x \in Slots, fail_stage_dead(x)
      PROVE  IInv'
  <2> USE <1>12 DEF fail_stage_dead, Goto, SetRow
  <2>1. TypeOK'
    BY DEF TypeOK, RowStatus, DocStatus, Waiting, Held, RetryHasRoom
  <2>2. FamilyIsKnown' /\ RetryHasRoom'
    BY DEF TypeOK, FamilyIsKnown, RetryHasRoom, FamilyAdopted, Held
  <2>3. FamilyAdopted'
    BY DEF TypeOK, FamilyAdopted, FamilyIsKnown, Live, Held
  <2>4. MessagesOnTrack'
    BY <1>a DEF TypeOK, MessagesOnTrack, FollowersOnTrack, Live, Held
  <2>5. FollowersOnTrack' /\ RowsOnTrack' /\ ReadyOnTrack'
    BY <1>a DEF TypeOK, FollowersOnTrack, RowsOnTrack, ReadyOnTrack, MessagesOnTrack, Live
  <2>6. DoneClosed'
    BY DEF TypeOK, DoneClosed, DownClosed, Path
  <2> QED
    BY <2>1, <2>2, <2>3, <2>4, <2>5, <2>6
<1>13. ASSUME NEW x \in Slots, fail_document(x)
      PROVE  IInv'
  <2> USE <1>13 DEF fail_document, Goto
  <2>1. TypeOK'
    BY DEF TypeOK, RowStatus, DocStatus, Waiting, Held, RetryHasRoom
  <2>2. FamilyIsKnown' /\ RetryHasRoom'
    BY DEF TypeOK, FamilyIsKnown, RetryHasRoom, FamilyAdopted, Held
  <2>3. FamilyAdopted'
    BY DEF TypeOK, FamilyAdopted, FamilyIsKnown, Live, Held
  <2>4. MessagesOnTrack'
    BY <1>a DEF TypeOK, MessagesOnTrack, FollowersOnTrack, Live, Held
  <2>5. FollowersOnTrack' /\ RowsOnTrack' /\ ReadyOnTrack'
    BY <1>a DEF TypeOK, FollowersOnTrack, RowsOnTrack, ReadyOnTrack, MessagesOnTrack, Live
  <2>6. DoneClosed'
    BY DEF TypeOK, DoneClosed, DownClosed, Path
  <2> QED
    BY <2>1, <2>2, <2>3, <2>4, <2>5, <2>6
<1>14. ASSUME NEW x \in Slots, dead_letter(x)
      PROVE  IInv'
  <2> USE <1>14 DEF dead_letter, Goto
  <2>1. TypeOK'
    BY DEF TypeOK, RowStatus, DocStatus, Waiting, Held, RetryHasRoom
  <2>2. FamilyIsKnown' /\ RetryHasRoom'
    BY DEF TypeOK, FamilyIsKnown, RetryHasRoom, FamilyAdopted, Held
  <2>3. FamilyAdopted'
    BY DEF TypeOK, FamilyAdopted, FamilyIsKnown, Live, Held
  <2>4. MessagesOnTrack'
    BY <1>a DEF TypeOK, MessagesOnTrack, FollowersOnTrack, Live, Held
  <2>5. FollowersOnTrack' /\ RowsOnTrack' /\ ReadyOnTrack'
    BY <1>a DEF TypeOK, FollowersOnTrack, RowsOnTrack, ReadyOnTrack, MessagesOnTrack, Live
  <2>6. DoneClosed'
    BY DEF TypeOK, DoneClosed, DownClosed, Path
  <2> QED
    BY <2>1, <2>2, <2>3, <2>4, <2>5, <2>6
<1>15. ASSUME NEW x \in Slots, Ack(x)
      PROVE  IInv'
  <2> USE <1>15 DEF Ack, Release, Blank, StageMessage
  <2>1. TypeOK'
    BY DEF TypeOK, RowStatus, DocStatus, Waiting, Held, RetryHasRoom
  <2>2. FamilyIsKnown' /\ RetryHasRoom'
    BY DEF TypeOK, FamilyIsKnown, RetryHasRoom, FamilyAdopted, Held
  <2>3. FamilyAdopted'
    BY DEF TypeOK, FamilyAdopted, FamilyIsKnown, Live, Held
  <2>4. MessagesOnTrack'
    BY <1>a DEF TypeOK, MessagesOnTrack, FollowersOnTrack, Live, Held
  <2>5. FollowersOnTrack' /\ RowsOnTrack' /\ ReadyOnTrack'
    BY <1>a DEF TypeOK, FollowersOnTrack, RowsOnTrack, ReadyOnTrack, MessagesOnTrack, Live
  <2>6. DoneClosed'
    BY DEF TypeOK, DoneClosed, DownClosed, Path
  <2> QED
    BY <2>1, <2>2, <2>3, <2>4, <2>5, <2>6
<1>16. ASSUME NEW x \in Slots, Crash(x)
      PROVE  IInv'
  <2> USE <1>16 DEF Crash, Fault, Release, Goto, Blank, StageMessage
  <2>1. TypeOK'
    <3>1. faults' \in 0 .. MaxFaults
      BY DEF TypeOK
    <3>2. /\ \/ pc' = [pc EXCEPT ![x] = "free"]
             \/ pc' = [pc EXCEPT ![x] = "queued"]
          /\ msg' = msg \/ msg' = [msg EXCEPT ![x] = Blank]
          /\ todo' = [todo EXCEPT ![x] = {}]
          /\ orphan' = orphan \/ orphan' = [orphan EXCEPT ![x] = FALSE]
      OBVIOUS
    <3>3. /\ pc' \in [Slots -> {"free"} \cup Waiting \cup Held]
          /\ todo' \in [Slots -> SUBSET Stages]
          /\ orphan' \in [Slots -> BOOLEAN]
      BY <3>2 DEF TypeOK, Waiting
    <3>4. /\ msg' \in [Slots -> [stage : Stages, attempt : Nat \ {0}, family : Families]]
          /\ \A z \in Slots : msg'[z].attempt <= max_attempts[msg'[z].stage]
      <4>1. CASE msg' = msg
        BY <4>1 DEF TypeOK
      <4>2. CASE msg' = [msg EXCEPT ![x] = Blank]
        BY <4>2 DEF TypeOK
      <4> QED
        BY <3>2, <4>1, <4>2
    <3> QED
      BY <3>1, <3>3, <3>4 DEF TypeOK
  <2>2. FamilyIsKnown' /\ RetryHasRoom'
    BY DEF TypeOK, FamilyIsKnown, RetryHasRoom, FamilyAdopted, Held
  <2>3. FamilyAdopted'
    BY DEF TypeOK, FamilyAdopted, FamilyIsKnown, Live, Held
  <2>4. MessagesOnTrack'
    BY <1>a DEF TypeOK, MessagesOnTrack, FollowersOnTrack, Live, Held
  <2>5. FollowersOnTrack' /\ RowsOnTrack' /\ ReadyOnTrack'
    BY <1>a DEF TypeOK, FollowersOnTrack, RowsOnTrack, ReadyOnTrack, MessagesOnTrack, Live
  <2>6. DoneClosed'
    BY DEF TypeOK, DoneClosed, DownClosed, Path
  <2> QED
    BY <2>1, <2>2, <2>3, <2>4, <2>5, <2>6
<1>17. ASSUME NEW x \in Slots, NEW y \in Slots, LoseConnection(x, y)
      PROVE  IInv'
  <2> USE <1>17 DEF LoseConnection, Fault, Send
  <2>1. TypeOK'
    BY DEF TypeOK, RowStatus, DocStatus, Waiting, Held, RetryHasRoom
  <2>2. FamilyIsKnown' /\ RetryHasRoom'
    BY DEF TypeOK, FamilyIsKnown, RetryHasRoom, FamilyAdopted, Held
  <2>3. FamilyAdopted'
    BY DEF TypeOK, FamilyAdopted, FamilyIsKnown, Live, Held
  <2>4. MessagesOnTrack'
    BY <1>a DEF TypeOK, MessagesOnTrack, FollowersOnTrack, Live, Held
  <2>5. FollowersOnTrack' /\ RowsOnTrack' /\ ReadyOnTrack'
    BY <1>a DEF TypeOK, FollowersOnTrack, RowsOnTrack, ReadyOnTrack, MessagesOnTrack, Live
  <2>6. DoneClosed'
    BY DEF TypeOK, DoneClosed, DownClosed, Path
  <2> QED
    BY <2>1, <2>2, <2>3, <2>4, <2>5, <2>6
<1>18. ASSUME NEW x \in Slots, Reject(x)
      PROVE  IInv'
  <2> USE <1>18 DEF Reject, Fault, Release, Blank, StageMessage
  <2>1. TypeOK'
    BY DEF TypeOK, RowStatus, DocStatus, Waiting, Held, RetryHasRoom
  <2>2. FamilyIsKnown' /\ RetryHasRoom'
    BY DEF TypeOK, FamilyIsKnown, RetryHasRoom, FamilyAdopted, Held
  <2>3. FamilyAdopted'
    BY DEF TypeOK, FamilyAdopted, FamilyIsKnown, Live, Held
  <2>4. MessagesOnTrack'
    BY <1>a DEF TypeOK, MessagesOnTrack, FollowersOnTrack, Live, Held
  <2>5. FollowersOnTrack' /\ RowsOnTrack' /\ ReadyOnTrack'
    BY <1>a DEF TypeOK, FollowersOnTrack, RowsOnTrack, ReadyOnTrack, MessagesOnTrack, Live
  <2>6. DoneClosed'
    BY DEF TypeOK, DoneClosed, DownClosed, Path
  <2> QED
    BY <2>1, <2>2, <2>3, <2>4, <2>5, <2>6
<1> HIDE DEF IInv
<1>19. CASE UNCHANGED vars
  BY <1>19 DEF IInv, vars, TypeOK, FamilyIsKnown, RetryHasRoom, FamilyAdopted, MessagesOnTrack,
     FollowersOnTrack, RowsOnTrack, DoneClosed, DownClosed, ReadyOnTrack, OnTrack, Path, Live
<1> QED
  BY <1>1, <1>2, <1>3, <1>4, <1>5, <1>6, <1>7, <1>8, <1>9, <1>10, <1>11, <1>12, <1>13, <1>14, <1>15, <1>16, <1>17, <1>18, <1>19 DEF Next, Consume, Disturb

LEMMA SpecIInv == Spec => []IInv
BY InitIInv, NextIInv, PTL DEF Spec

-----------------------------------------------------------------------------

(* s has run and only its completion is missing, if that. *)
Passed(s) == s \in done \/ \E x \in Slots : At(x, s, "complete")

(* A step of one coroutine, or a fault that befalls it, moves no other.     *)
LEMMA OthersKeep ==
  ASSUME TypeOK, NEW x \in Slots, NEW z \in Slots \ {x},
         Consume(x) \/ Disturb(x), pc[z] # "free"
  PROVE  pc'[z] = pc[z] /\ msg'[z] = msg[z]
<1> USE DEF Goto, Send, Release
<1>0. /\ pc \in [Slots -> {"free"} \cup Waiting \cup Held]
      /\ msg \in [Slots -> [stage : Stages, attempt : Nat \ {0}, family : Families]]
  BY DEF TypeOK
<1>1. CASE Deliver(x) \/ begin_stage(x) \/ HandlerSucceeds(x)
  BY <1>0, <1>1 DEF Deliver, begin_stage, HandlerSucceeds
<1>2. CASE (\E permanent \in BOOLEAN : HandlerRaises(x, permanent)) \/ Quarantine(x)
  BY <1>0, <1>2 DEF HandlerRaises, Quarantine
<1>3. CASE complete_stage(x) \/ mark_dispatched(x)
  BY <1>0, <1>3 DEF complete_stage, mark_dispatched
<1>4. CASE \E s \in Stages, y \in Slots : PublishFollower(x, s, y)
  BY <1>0, <1>4 DEF PublishFollower
<1>5. CASE fail_stage_retry(x) \/ (\E y \in Slots : PublishRetry(x, y)) \/ Expire(x)
  BY <1>0, <1>5 DEF fail_stage_retry, PublishRetry, Expire
<1>6. CASE fail_stage_dead(x) \/ fail_document(x) \/ dead_letter(x) \/ Ack(x)
  BY <1>0, <1>6 DEF fail_stage_dead, fail_document, dead_letter, Ack
<1>7. CASE Crash(x) \/ Reject(x)
  BY <1>0, <1>7 DEF Crash, Reject
<1>8. CASE \E y \in Slots : LoseConnection(x, y)
  BY <1>0, <1>8 DEF LoseConnection
<1> QED
  BY <1>1, <1>2, <1>3, <1>4, <1>5, <1>6, <1>7, <1>8 DEF Consume, Disturb

-----------------------------------------------------------------------------

(* Attempts stay within the stage's max_attempts, whatever is redelivered. *)
THEOREM TypeCorrect == Spec => []TypeOK
<1>1. IInv => TypeOK
  BY DEF IInv
<1> QED
  BY <1>1, SpecIInv, PTL

(* No stage gets a row before its dependencies have succeeded, nor off the *)
(* document's path: crashes, duplicates and rejected messages included.    *)
THEOREM DispatchCorrect == Spec => []DispatchAfterDeps
<1>1. IInv => DispatchAfterDeps
  BY DEF IInv, RowsOnTrack, OnTrack, DispatchAfterDeps
<1> QED
  BY <1>1, SpecIInv, PTL

(* A document says 'ready' only when every other stage of its path has     *)
(* succeeded: embed is on track, done is closed, and embed is last.        *)
THEOREM ReadyCorrect == Spec => []ReadyNeedsAllStages
<1>1. IInv => ReadyNeedsAllStages
  <2> SUFFICES ASSUME IInv, docStatus = "ready",
                      NEW u \in Path \ {TERMINAL_STAGE}
               PROVE  u \in done
    BY DEF ReadyNeedsAllStages
  <2>1. docFamily \in Families
    BY DEF IInv, FamilyIsKnown
  <2>2. Before(u, TERMINAL_STAGE, docFamily)
    BY <2>1, ShapeAssumption DEF TerminalIsLast, Path
  <2>3. effective_deps(TERMINAL_STAGE, docFamily) \subseteq done
    BY DEF IInv, ReadyOnTrack, OnTrack
  <2>4. done \in SUBSET stage_names_for(docFamily) /\ DownClosed(docFamily, done)
    BY DEF IInv, DoneClosed, Path
  <2> QED
    BY <2>2, <2>3, <2>4 DEF Before
<1> QED
  BY <1>1, SpecIInv, PTL

-----------------------------------------------------------------------------
(***************************************************************************)
(* No stage is lost in the hand-off: whatever has a row that is not final, *)
(* or could have one, is in somebody's hands.  Two statements of it are    *)
(* proved together.  They differ in W, the places where a coroutine still  *)
(* answers for its stage, and in F, the rows that somebody must answer for:*)
(* a stage that was given up is final for NoStageLost, while               *)
(* NotSilentlyStuck wants to see its dead letter.                          *)
(***************************************************************************)

Busy == {"queued", "delayed", "begin", "handle", "complete", "fail_retry",
         "retry", "fail_dead"}
Ending == {"fail_document", "dead_letter"}

Chosen(W, F) ==
  \/ W = Busy /\ F = {"pending", "running"} /\ Stages \subseteq Handlers
  \/ W = Busy \cup Ending /\ F = {"pending", "running", "failed"}

(* x is working on s, or has reserved it and will publish it. *)
Owner(x, s, W) ==
  \/ msg[x].stage = s /\ pc[x] \in W
  \/ pc[x] = "publish" /\ s \in todo[x]

(* x is going to hand s on, or will find it when it completes. *)
Starter(x, s, W) ==
  \/ s = Entry /\ msg[x].stage = Entry /\ pc[x] \in W
  \/ /\ msg[x].stage \in effective_deps(s, docFamily)
     /\ pc[x] \in W \/ (pc[x] = "mark" /\ s \in todo[x])

Startable(s) ==
  s \in Path /\ row[s] = "none" /\ effective_deps(s, docFamily) \subseteq Completed(row)

InGoodHands(W, F) ==
  \A s \in Stages :
    /\ row[s] \in F => \E x \in Slots : Owner(x, s, W)
    /\ Startable(s) => \E x \in Slots : Starter(x, s, W)

-----------------------------------------------------------------------------

LEMMA PathIsKnown == ASSUME NEW s \in Path PROVE docFamily \in Families
BY GraphAssumption DEF Path, stage_names_for

LEMMA DepsOnPath ==
  ASSUME NEW s, NEW u \in effective_deps(s, docFamily) PROVE u \in Path
BY DEF effective_deps, Path

(* Detection is all that can start at first, and the upload's message is   *)
(* for detection.                                                          *)
LEMMA InitHands ==
  ASSUME Init, NEW W, NEW F, Chosen(W, F)
  PROVE  InGoodHands(W, F)
<1> SUFFICES ASSUME NEW s \in Stages
             PROVE  /\ row[s] \notin F
                    /\ Startable(s) => \E x \in Slots : Starter(x, s, W)
  BY DEF InGoodHands
<1>1. row[s] \notin F
  BY DEF Init, Chosen
<1>2. ASSUME Startable(s) PROVE \E x \in Slots : Starter(x, s, W)
  <2>1. effective_deps(s, docFamily) = {}
    BY <1>2 DEF Startable, Init, Completed
  <2>2. docFamily \in Families
    BY <1>2, PathIsKnown DEF Startable
  <2>3. s = Entry
    BY <1>2, <2>1, <2>2, ShapeAssumption DEF Startable, EntryIsFirst, Path
  <2>4. PICK x \in Slots : pc = [y \in Slots |-> IF y = x THEN "queued" ELSE "free"]
    BY DEF Init
  <2>5. msg[x].stage = Entry /\ pc[x] \in W
    BY <2>4 DEF Init, Blank, StageMessage, Chosen, Busy
  <2> QED
    BY <2>3, <2>5 DEF Starter
<1> QED
  BY <1>1, <1>2

(* A step that leaves the rows alone, and each owner and starter with a    *)
(* successor.                                                              *)
LEMMA SameRows ==
  ASSUME NEW W, NEW F, InGoodHands(W, F), row' = row, docFamily' = docFamily,
         \A s \in Stages, z \in Slots :
           /\ Owner(z, s, W) => \E y \in Slots : Owner(y, s, W)'
           /\ Starter(z, s, W) => \E y \in Slots : Starter(y, s, W)'
  PROVE  InGoodHands(W, F)'
BY DEF InGoodHands, Startable, Path

(* The snapshot of complete_stage holds every stage that can start now.    *)
LEMMA CompleteHands ==
  ASSUME NEW W, NEW F, Chosen(W, F), IInv, InGoodHands(W, F),
         NEW x \in Slots, complete_stage(x)
  PROVE  InGoodHands(W, F)'
<1> DEFINE u == msg[x].stage
           after == [row EXCEPT ![u] = "succeeded"]
           followers == next_messages(msg[x], after)
<1>0. /\ pc[x] = "complete" /\ row' = after /\ docFamily' = docFamily /\ msg' = msg
      /\ todo' = [todo EXCEPT ![x] = followers]
      /\ pc' = [pc EXCEPT ![x] = IF followers = {} THEN "ack" ELSE "mark"]
  BY DEF complete_stage, Goto
<1>1. with_family(msg[x]) = docFamily
  BY <1>0 DEF IInv, FamilyAdopted, Live, with_family
<1>2. u \in Stages /\ row \in [Stages -> RowStatus] /\ pc \in [Slots -> {"free"} \cup Waiting \cup Held]
      /\ todo \in [Slots -> SUBSET Stages]
  BY DEF IInv, TypeOK
<1>3. \A z \in Slots \ {x} : pc'[z] = pc[z] /\ todo'[z] = todo[z] /\ msg'[z] = msg[z]
  BY <1>0, <1>2
<1>4. \A s \in Stages : row'[s] = IF s = u THEN "succeeded" ELSE row[s]
  BY <1>0, <1>2
<1> HIDE DEF u, after
<1>5. ASSUME NEW s \in Stages, row'[s] \in F
      PROVE  \E z \in Slots : Owner(z, s, W)'
  <2>1. s # u /\ row[s] \in F
    BY <1>4, <1>5 DEF Chosen
  <2>2. PICK z \in Slots : Owner(z, s, W)
    BY <2>1 DEF InGoodHands
  <2>3. z # x
    BY <2>1, <2>2, <1>0 DEF Owner, u
  <2> QED
    BY <2>2, <2>3, <1>3 DEF Owner
<1>6. ASSUME NEW s \in Stages, Startable(s)'
      PROVE  \E z \in Slots : Starter(z, s, W)'
  <2>1. s # u /\ row[s] = "none" /\ s \in Path
    BY <1>0, <1>4, <1>6 DEF Startable, Path
  <2>2. effective_deps(s, docFamily) \subseteq Completed(after)
    BY <1>0, <1>6 DEF Startable
  <2>3. CASE u \in effective_deps(s, docFamily)
    <3>1. s \notin Completed(after) \cup Dispatched(after)
      BY <1>0, <1>4, <2>1 DEF Completed, Dispatched
    <3>2. s \in followers
      BY <1>1, <2>1, <2>2, <3>1 DEF next_messages, ready_stages, Path
    <3>3. pc'[x] = "mark" /\ s \in todo'[x] /\ msg'[x].stage = u
      BY <3>2, <1>0, <1>2 DEF u
    <3> QED
      BY <2>3, <3>3, <1>0 DEF Starter
  <2>4. CASE u \notin effective_deps(s, docFamily)
    <3>1. Startable(s)
      BY <1>0, <1>4, <2>1, <2>2, <2>4 DEF Startable, Completed, Path
    <3>2. PICK z \in Slots : Starter(z, s, W)
      BY <3>1 DEF InGoodHands
    <3>3. z # x
      BY <2>1, <2>4, <3>2 DEF Starter, u
    <3> QED
      BY <3>2, <3>3, <1>0, <1>3 DEF Starter
  <2> QED
    BY <2>3, <2>4
<1> QED
  BY <1>5, <1>6 DEF InGoodHands

(* What is reserved is published by the one who reserved it. *)
LEMMA MarkHands ==
  ASSUME NEW W, NEW F, Chosen(W, F), IInv, InGoodHands(W, F),
         NEW x \in Slots, mark_dispatched(x)
  PROVE  InGoodHands(W, F)'
<1>0. /\ pc[x] = "mark" /\ docFamily' = docFamily /\ msg' = msg /\ todo' = todo
      /\ pc' = [pc EXCEPT ![x] = "publish"]
      /\ \A s \in Stages : row'[s] = IF s \in todo[x] /\ row[s] = "none" THEN "pending" ELSE row[s]
  BY DEF mark_dispatched, Goto
<1>2. row \in [Stages -> RowStatus] /\ pc \in [Slots -> {"free"} \cup Waiting \cup Held]
  BY DEF IInv, TypeOK
<1>3. pc'[x] = "publish" /\ \A z \in Slots \ {x} : pc'[z] = pc[z]
  BY <1>0, <1>2
<1>5. ASSUME NEW s \in Stages, row'[s] \in F
      PROVE  \E z \in Slots : Owner(z, s, W)'
  <2>1. CASE s \in todo[x] /\ row[s] = "none"
    BY <2>1, <1>0, <1>3 DEF Owner
  <2>2. CASE ~(s \in todo[x] /\ row[s] = "none")
    <3>1. PICK z \in Slots : Owner(z, s, W)
      BY <2>2, <1>0, <1>5 DEF InGoodHands
    <3>2. z # x
      BY <3>1, <1>0 DEF Owner, Chosen, Busy, Ending
    <3> QED
      BY <3>1, <3>2, <1>0, <1>3 DEF Owner
  <2> QED
    BY <2>1, <2>2
<1>6. ASSUME NEW s \in Stages, Startable(s)'
      PROVE  \E z \in Slots : Starter(z, s, W)'
  <2>1. row[s] = "none" /\ s \notin todo[x] /\ s \in Path
    BY <1>0, <1>6 DEF Startable, Path
  <2>2. Completed(row') = Completed(row)
    BY <1>0 DEF Completed
  <2>3. PICK z \in Slots : Starter(z, s, W)
    BY <2>1, <2>2, <1>0, <1>6 DEF Startable, InGoodHands
  <2>4. z # x
    BY <2>1, <2>3, <1>0 DEF Starter, Chosen, Busy, Ending
  <2> QED
    BY <2>3, <2>4, <1>0, <1>3 DEF Starter
<1> QED
  BY <1>5, <1>6 DEF InGoodHands

(* A coroutine that writes the row of its own stage, neither to "none" nor *)
(* to "succeeded", answers for it if anybody has to.                       *)
LEMMA WriteHands ==
  ASSUME NEW W, NEW F, IInv, InGoodHands(W, F), NEW x \in Slots,
         NEW r \in RowStatus \ {"none", "succeeded"}, NEW p,
         SetRow(msg[x].stage, r), Goto(x, p), pc[x] # "publish", r \in F => p \in W,
         UNCHANGED <<docFamily, msg, todo>>
  PROVE  InGoodHands(W, F)'
<1> DEFINE u == msg[x].stage
<1>1. u \in Stages /\ row \in [Stages -> RowStatus] /\ pc \in [Slots -> {"free"} \cup Waiting \cup Held]
  BY DEF IInv, TypeOK
<1>2. /\ pc'[x] = p /\ \A z \in Slots \ {x} : pc'[z] = pc[z]
      /\ \A s \in Stages : row'[s] = IF s = u THEN r ELSE row[s]
  BY <1>1 DEF Goto, SetRow
<1>5. ASSUME NEW s \in Stages, row'[s] \in F
      PROVE  \E z \in Slots : Owner(z, s, W)'
  <2>1. CASE s = u
    BY <2>1, <1>2, <1>5 DEF Owner
  <2>2. CASE s # u
    <3>1. PICK z \in Slots : Owner(z, s, W)
      BY <2>2, <1>2, <1>5 DEF InGoodHands
    <3> QED
      BY <2>2, <3>1, <1>2 DEF Owner
  <2> QED
    BY <2>1, <2>2
<1>6. ASSUME NEW s \in Stages, Startable(s)'
      PROVE  \E z \in Slots : Starter(z, s, W)'
  <2>1. s # u /\ u \notin effective_deps(s, docFamily)
    BY <1>1, <1>2, <1>6 DEF Startable, Completed
  <2>2. Startable(s)
    BY <1>2, <1>6, <2>1 DEF Startable, Completed, Path
  <2>3. PICK z \in Slots : Starter(z, s, W)
    BY <2>2 DEF InGoodHands
  <2>4. z # x
    BY <2>1, <2>3 DEF Starter
  <2> QED
    BY <2>3, <2>4, <1>2 DEF Starter
<1> QED
  BY <1>5, <1>6 DEF InGoodHands

(* A coroutine that goes on, and still answers for its stage if it did.    *)
LEMMA MoveHands ==
  ASSUME NEW W, NEW F, IInv, InGoodHands(W, F), NEW x \in Slots, NEW p,
         Goto(x, p), pc[x] \notin {"mark", "publish"}, pc[x] \in W => p \in W,
         UNCHANGED <<row, docFamily, msg, todo>>
  PROVE  InGoodHands(W, F)'
<1>1. pc'[x] = p /\ \A z \in Slots \ {x} : pc'[z] = pc[z]
  BY DEF IInv, TypeOK, Goto
<1>2. ASSUME NEW s \in Stages, NEW z \in Slots
      PROVE  /\ Owner(z, s, W) => Owner(z, s, W)'
             /\ Starter(z, s, W) => Starter(z, s, W)'
  BY <1>1 DEF Owner, Starter
<1> QED
  BY <1>2, SameRows

(* A message that is put back into its queue starts over. *)
LEMMA CrashHands ==
  ASSUME NEW W, NEW F, Chosen(W, F), IInv, InGoodHands(W, F), NEW x \in Slots,
         Goto(x, "queued"), pc[x] # "publish", todo' = [todo EXCEPT ![x] = {}],
         UNCHANGED <<row, docFamily, msg>>
  PROVE  InGoodHands(W, F)'
<1>1. /\ pc'[x] = "queued" /\ "queued" \in W
      /\ \A z \in Slots \ {x} : pc'[z] = pc[z] /\ todo'[z] = todo[z]
  BY DEF IInv, TypeOK, Goto, Chosen, Busy
<1>2. ASSUME NEW s \in Stages, NEW z \in Slots
      PROVE  /\ Owner(z, s, W) => Owner(z, s, W)'
             /\ Starter(z, s, W) => Starter(z, s, W)'
  BY <1>1 DEF Owner, Starter
<1> QED
  BY <1>2, SameRows

(* What a coroutine leaves behind at the ack is in other hands. *)
LEMMA AckHands ==
  ASSUME NEW W, NEW F, Chosen(W, F), IInv, InGoodHands(W, F), NEW x \in Slots, Ack(x)
  PROVE  InGoodHands(W, F)'
<1>1. /\ pc[x] = "ack" /\ UNCHANGED <<row, docFamily>>
      /\ \A z \in Slots \ {x} : pc'[z] = pc[z] /\ todo'[z] = todo[z] /\ msg'[z] = msg[z]
  BY DEF Ack, Release, IInv, TypeOK
<1>2. ASSUME NEW s \in Stages, NEW z \in Slots
      PROVE  /\ Owner(z, s, W) => Owner(z, s, W)'
             /\ Starter(z, s, W) => Starter(z, s, W)'
  BY <1>1 DEF Owner, Starter, Chosen, Busy, Ending
<1> QED
  BY <1>1, <1>2, SameRows

(* A follower that is published passes into the hands of its message. *)
LEMMA PublishHands ==
  ASSUME NEW W, NEW F, Chosen(W, F), IInv, InGoodHands(W, F),
         NEW x \in Slots, NEW u \in Stages, NEW y \in Slots, PublishFollower(x, u, y)
  PROVE  InGoodHands(W, F)'
<1>1. /\ pc[x] = "publish" /\ pc[y] = "free" /\ UNCHANGED <<row, docFamily>>
      /\ pc'[x] = IF todo[x] = {u} THEN "ack" ELSE "publish"
      /\ pc'[y] = "queued" /\ msg'[y].stage = u
      /\ \A z \in Slots \ {x, y} : pc'[z] = pc[z]
      /\ \A z \in Slots \ {y} : msg'[z] = msg[z]
      /\ \A z \in Slots \ {x} : todo'[z] = todo[z]
      /\ todo'[x] = todo[x] \ {u}
  BY DEF PublishFollower, Send, for_stage, StageMessage, IInv, TypeOK
<1>2. "queued" \in W /\ {"publish", "free"} \cap W = {}
  BY DEF Chosen, Busy, Ending
<1>3. ASSUME NEW s \in Stages, NEW z \in Slots
      PROVE  /\ Owner(z, s, W) => Owner(z, s, W)' \/ Owner(y, s, W)'
             /\ Starter(z, s, W) => Starter(z, s, W)'
  BY <1>1, <1>2 DEF Owner, Starter
<1> QED
  BY <1>1, <1>3, SameRows

(* A retry is another message of the same stage. *)
LEMMA RetryHands ==
  ASSUME NEW W, NEW F, Chosen(W, F), IInv, InGoodHands(W, F),
         NEW x \in Slots, NEW y \in Slots, PublishRetry(x, y)
  PROVE  InGoodHands(W, F)'
<1>1. /\ pc[x] = "retry" /\ pc[y] = "free" /\ UNCHANGED <<row, docFamily, todo>>
      /\ pc'[x] = "ack" /\ pc'[y] = "delayed" /\ msg'[y].stage = msg[x].stage
      /\ \A z \in Slots \ {x, y} : pc'[z] = pc[z] /\ msg'[z] = msg[z]
  BY DEF PublishRetry, Send, retried, IInv, TypeOK
<1>2. "delayed" \in W /\ "free" \notin W
  BY DEF Chosen, Busy, Ending
<1>3. ASSUME NEW s \in Stages, NEW z \in Slots
      PROVE  /\ Owner(z, s, W) => Owner(z, s, W)' \/ Owner(y, s, W)'
             /\ Starter(z, s, W) => Starter(z, s, W)' \/ Starter(y, s, W)'
  BY <1>1, <1>2 DEF Owner, Starter
<1> QED
  BY <1>1, <1>3, SameRows

(* A second delivery takes nothing from the first. *)
LEMMA LoseHands ==
  ASSUME NEW W, NEW F, Chosen(W, F), IInv, InGoodHands(W, F),
         NEW x \in Slots, NEW y \in Slots, LoseConnection(x, y)
  PROVE  InGoodHands(W, F)'
<1>1. /\ pc[y] = "free" /\ UNCHANGED <<row, docFamily, todo>>
      /\ \A z \in Slots \ {y} : pc'[z] = pc[z] /\ msg'[z] = msg[z]
  BY DEF LoseConnection, Send, IInv, TypeOK, Held
<1>2. "free" \notin W
  BY DEF Chosen, Busy, Ending
<1>3. ASSUME NEW s \in Stages, NEW z \in Slots
      PROVE  /\ Owner(z, s, W) => Owner(z, s, W)'
             /\ Starter(z, s, W) => Starter(z, s, W)'
  BY <1>1, <1>2 DEF Owner, Starter
<1> QED
  BY <1>1, <1>3, SameRows

-----------------------------------------------------------------------------

(* Undisturbed consumers keep what is in good hands there; only the dead   *)
(* letter of a stage that counts as somebody's takes it away, and shows.   *)
LEMMA ConsumeHands ==
  ASSUME NEW W, NEW F, Chosen(W, F), IInv, InGoodHands(W, F), NEW x \in Slots, Consume(x)
  PROVE  InGoodHands(W, F)' \/ ("failed" \in F /\ dlq' # {})
<1>1. CASE Deliver(x)
  <2>1. msg[x].stage \in Stages
    BY DEF IInv, TypeOK
  <2>2. (IF msg[x].stage \in Handlers THEN "begin" ELSE "dead_letter") \in W
    BY <2>1 DEF Chosen, Busy, Ending
  <2> QED
    BY <1>1, <2>2, MoveHands DEF Deliver
<1>2. CASE begin_stage(x)
  <2>1. "handle" \in W
    BY DEF Chosen, Busy
  <2> QED
    BY <1>2, <2>1, WriteHands DEF begin_stage, RowStatus
<1>3. CASE HandlerSucceeds(x)
  <2>1. "complete" \in W
    BY DEF Chosen, Busy
  <2> QED
    BY <1>3, <2>1, MoveHands DEF HandlerSucceeds
<1>4. ASSUME NEW permanent \in BOOLEAN, HandlerRaises(x, permanent)
      PROVE  InGoodHands(W, F)'
  <2>1. (IF PlansRetry(msg[x], permanent) THEN "fail_retry" ELSE "fail_dead") \in W
    BY DEF Chosen, Busy
  <2> QED
    BY <1>4, <2>1, MoveHands DEF HandlerRaises
<1>5. CASE Quarantine(x)
  <2>1. "fail_dead" \in W
    BY DEF Chosen, Busy
  <2> QED
    BY <1>5, <2>1, MoveHands DEF Quarantine, At
<1>6. CASE complete_stage(x)
  BY <1>6, CompleteHands
<1>7. CASE mark_dispatched(x)
  BY <1>7, MarkHands
<1>8. ASSUME NEW u \in Stages, NEW y \in Slots, PublishFollower(x, u, y)
      PROVE  InGoodHands(W, F)'
  BY <1>8, PublishHands
<1>9. CASE fail_stage_retry(x)
  <2>1. "retry" \in W
    BY DEF Chosen, Busy
  <2> QED
    BY <1>9, <2>1, WriteHands DEF fail_stage_retry, RowStatus
<1>10. ASSUME NEW y \in Slots, PublishRetry(x, y)
       PROVE  InGoodHands(W, F)'
  BY <1>10, RetryHands
<1>11. CASE Expire(x)
  <2>1. "queued" \in W
    BY DEF Chosen, Busy
  <2> QED
    BY <1>11, <2>1, MoveHands DEF Expire
<1>12. CASE fail_stage_dead(x)
  <2>1. "failed" \in F => "fail_document" \in W
    BY DEF Chosen, Ending
  <2> QED
    BY <1>12, <2>1, WriteHands DEF fail_stage_dead, RowStatus
<1>13. CASE fail_document(x)
  <2>1. "fail_document" \in W => "dead_letter" \in W
    BY DEF Chosen, Busy, Ending
  <2> QED
    BY <1>13, <2>1, MoveHands DEF fail_document
<1>14. CASE dead_letter(x)
  <2>1. dlq' # {}
    BY <1>14 DEF dead_letter
  <2>2. "failed" \notin F => "dead_letter" \notin W
    BY DEF Chosen, Busy
  <2>3. CASE "failed" \notin F
    BY <1>14, <2>2, <2>3, MoveHands DEF dead_letter
  <2> QED
    BY <2>1, <2>3
<1>15. CASE Ack(x)
  BY <1>15, AckHands
<1> QED
  BY <1>1, <1>2, <1>3, <1>4, <1>5, <1>6, <1>7, <1>8, <1>9, <1>10, <1>11, <1>12, <1>13,
     <1>14, <1>15 DEF Consume

LEMMA StutterHands ==
  ASSUME NEW W, NEW F, InGoodHands(W, F), UNCHANGED vars
  PROVE  InGoodHands(W, F)'
BY DEF InGoodHands, Startable, Path, Owner, Starter, vars

-----------------------------------------------------------------------------

(* When nobody is left, nothing that counts is unfinished: of the stages   *)
(* that have not succeeded, one could run now (RunAssumption), and that    *)
(* one is in nobody's hands.                                               *)
LEMMA NobodyLeft ==
  ASSUME NEW W, NEW F, Chosen(W, F), IInv, InGoodHands(W, F), Quiescent
  PROVE  /\ \A s \in Stages : row[s] \notin F
         /\ is_complete(docFamily, Completed(row)) \/ \E s \in Stages : row[s] = "failed"
<1>1. ASSUME NEW s \in Stages, NEW x \in Slots
      PROVE  ~Owner(x, s, W) /\ ~Starter(x, s, W)
  BY DEF Quiescent, Live, Owner, Starter, Chosen, Busy, Ending
<1>2. \A s \in Stages : row[s] \notin F /\ ~Startable(s)
  BY <1>1 DEF InGoodHands
<1>3. ASSUME \A s \in Stages : row[s] # "failed"
      PROVE  is_complete(docFamily, Completed(row))
  <2>1. \A s \in Stages : row[s] \in {"none", "succeeded"}
    BY <1>2, <1>3 DEF Chosen, IInv, TypeOK, RowStatus
  <2>2. CASE docFamily \notin Families
    BY <2>2, GraphAssumption DEF is_complete, stage_names_for
  <2>3. CASE docFamily \in Families
    <3>1. Completed(row) \in SUBSET stage_names_for(docFamily)
      BY <2>3 DEF Completed, IInv, DoneClosed, Path
    <3>2. ready_stages(docFamily, Completed(row), {}) = {}
      <4>1. ASSUME NEW s \in ready_stages(docFamily, Completed(row), {}) PROVE FALSE
        <5>1. s \in Path /\ s \in Stages /\ row[s] = "none"
              /\ effective_deps(s, docFamily) \subseteq Completed(row)
          BY <4>1, <2>1 DEF ready_stages, stage_names_for, Path, Completed
        <5> QED
          BY <5>1, <1>2 DEF Startable
      <4> QED
        BY <4>1
    <3> QED
      BY <2>3, <3>1, <3>2, RunAssumption DEF RunsToTheEnd
  <2> QED
    BY <2>2, <2>3
<1> QED
  BY <1>2, <1>3

-----------------------------------------------------------------------------

(* An orphan that died would take with it what it has just taken back.     *)
OrphansLive ==
  \A x \in Slots : orphan[x] => "crash" \notin FaultKinds \/ faults >= MaxFaults

(* Whether workers die or deliveries are given out twice, a run does not   *)
(* end with a stage that was neither finished nor given up.  Not with      *)
(* both: see OrphansLive; nor in a worker that dies between                *)
(* mark_dispatched and the publish, nor by a rejected message.             *)
THEOREM NoStageLostCorrect ==
  ASSUME Stages \subseteq Handlers,
         FaultKinds \subseteq {"crash", "disconnect"},
         MaxFaults <= 1 \/ FaultKinds # {"crash", "disconnect"}
  PROVE  Spec => []NoStageLost
<1> DEFINE F == {"pending", "running"}
           Inv == IInv /\ InGoodHands(Busy, F) /\ OrphansLive
<1>0. Chosen(Busy, F)
  BY DEF Chosen
<1> HIDE DEF F
<1>1. Init => Inv
  BY <1>0, InitHands, InitIInv DEF OrphansLive, Init
<1>2. Inv /\ [Next]_vars => Inv'
  <2> SUFFICES ASSUME Inv, [Next]_vars PROVE Inv'
    OBVIOUS
  <2>1. IInv'
    BY NextIInv
  <2>2. CASE UNCHANGED vars
    BY <2>1, <2>2, StutterHands DEF OrphansLive, vars
  <2>3. ASSUME NEW x \in Slots, Consume(x) PROVE Inv'
    <3>1. InGoodHands(Busy, F)'
      BY <1>0, <2>3, ConsumeHands DEF F
    <3>2. OrphansLive'
      <4>1. faults' = faults /\ \A z \in Slots : orphan'[z] => orphan[z]
        BY <2>3 DEF Consume, Deliver, begin_stage, HandlerSucceeds, HandlerRaises, Quarantine,
           complete_stage, mark_dispatched, PublishFollower, fail_stage_retry, PublishRetry,
           Expire, fail_stage_dead, fail_document, dead_letter, Ack, Release, IInv, TypeOK
      <4> QED
        BY <4>1 DEF OrphansLive
    <3> QED
      BY <2>1, <3>1, <3>2
  <2>4. ASSUME NEW x \in Slots, Crash(x) PROVE Inv'
    <3>1. pc[x] # "publish" /\ "crash" \in FaultKinds /\ faults < MaxFaults
      BY <2>4 DEF Crash, Fault
    <3>2. ~orphan[x] /\ faults \in Nat /\ MaxFaults \in Nat
      BY <3>1, ConsumerAssumption DEF OrphansLive, IInv, TypeOK
    <3>3. InGoodHands(Busy, F)'
      BY <1>0, <2>4, <3>1, <3>2, CrashHands DEF Crash
    <3>4. OrphansLive'
      BY <2>4, <3>2 DEF OrphansLive, Crash, Fault
    <3> QED
      BY <2>1, <3>3, <3>4
  <2>5. ASSUME NEW x \in Slots, NEW y \in Slots, LoseConnection(x, y) PROVE Inv'
    <3>1. InGoodHands(Busy, F)'
      BY <1>0, <2>5, LoseHands
    <3>2. OrphansLive'
      <4>1. "disconnect" \in FaultKinds /\ faults < MaxFaults /\ faults' = faults + 1
        BY <2>5 DEF LoseConnection, Fault
      <4>2. faults \in Nat /\ MaxFaults \in Nat
        BY ConsumerAssumption DEF IInv, TypeOK
      <4>3. "crash" \in FaultKinds => MaxFaults <= 1
        BY <4>1
      <4>4. "crash" \notin FaultKinds \/ faults' >= MaxFaults
        BY <4>1, <4>2, <4>3
      <4> QED
        BY <4>4 DEF OrphansLive
    <3> QED
      BY <2>1, <3>1, <3>2
  <2>6. ASSUME NEW x \in Slots, Reject(x) PROVE Inv'
    BY <2>6 DEF Reject, Fault
  <2> QED
    BY <2>2, <2>3, <2>4, <2>5, <2>6 DEF Next, Disturb
<1>3. Inv => NoStageLost
  BY <1>0, NobodyLeft DEF NoStageLost
<1> QED
  BY <1>1, <1>2, <1>3, PTL DEF Spec

(* The coroutine whose delivery was given out again meets no more faults.  *)
OrphansLast == \A x \in Slots : orphan[x] => faults >= MaxFaults

(* A run that ends short of the end has left a message in a dead-letter    *)
(* queue, whether workers died, store calls raised outside the handler, a  *)
(* stage has no handler, or, if nothing else went wrong, a delivery was    *)
(* given out twice.                                                        *)
THEOREM NotSilentlyStuckCorrect ==
  ASSUME FaultKinds \subseteq {"crash", "store", "disconnect"},
         MaxFaults <= 1 \/ "disconnect" \notin FaultKinds
  PROVE  Spec => []NotSilentlyStuck
<1> DEFINE W == Busy \cup Ending
           F == {"pending", "running", "failed"}
           Inv == /\ IInv
                  /\ dlq = {} => InGoodHands(W, F)
                  /\ OrphansLast
<1>0. Chosen(W, F)
  BY DEF Chosen
<1>a. "failed" \in F
  OBVIOUS
<1> HIDE DEF W, F
<1>1. Init => Inv
  BY <1>0, InitHands, InitIInv DEF OrphansLast, Init
<1>2. Inv /\ [Next]_vars => Inv'
  <2> SUFFICES ASSUME Inv, [Next]_vars PROVE Inv'
    OBVIOUS
  <2>1. IInv'
    BY NextIInv
  <2>0. dlq' = {} => dlq = {}
    BY DEF Next, Consume, Disturb, vars, Deliver, begin_stage, HandlerSucceeds, HandlerRaises,
       Quarantine, complete_stage, mark_dispatched, PublishFollower, fail_stage_retry,
       PublishRetry, Expire, fail_stage_dead, fail_document, dead_letter, Ack, Crash,
       LoseConnection, Reject
  <2>7. faults < MaxFaults => \A z \in Slots : ~orphan[z]
    BY ConsumerAssumption DEF OrphansLast, IInv, TypeOK
  <2>2. CASE UNCHANGED vars
    BY <2>1, <2>2, StutterHands DEF OrphansLast, vars
  <2>3. ASSUME NEW x \in Slots, Consume(x) PROVE Inv'
    <3>1. dlq' = {} => InGoodHands(W, F)'
      BY <1>0, <2>0, <2>3, ConsumeHands
    <3>2. OrphansLast'
      <4>1. faults' = faults /\ \A z \in Slots : orphan'[z] => orphan[z]
        BY <2>3 DEF Consume, Deliver, begin_stage, HandlerSucceeds, HandlerRaises, Quarantine,
           complete_stage, mark_dispatched, PublishFollower, fail_stage_retry, PublishRetry,
           Expire, fail_stage_dead, fail_document, dead_letter, Ack, Release, IInv, TypeOK
      <4> QED
        BY <4>1 DEF OrphansLast
    <3> QED
      BY <2>1, <3>1, <3>2
  <2>4. ASSUME NEW x \in Slots, Crash(x) PROVE Inv'
    <3>1. pc[x] # "publish" /\ \A z \in Slots : ~orphan[z]
      BY <2>4, <2>7 DEF Crash, Fault
    <3>3. OrphansLast'
      BY <2>4, <3>1 DEF OrphansLast, Crash
    <3>2. dlq' = {} => InGoodHands(W, F)'
      BY <1>0, <2>0, <2>4, <3>1, CrashHands DEF Crash
    <3> QED
      BY <2>1, <3>2, <3>3
  <2>5. ASSUME NEW x \in Slots, NEW y \in Slots, LoseConnection(x, y) PROVE Inv'
    <3>1. dlq' = {} => InGoodHands(W, F)'
      BY <1>0, <2>0, <2>5, LoseHands
    <3>2. OrphansLast'
      <4>1. "disconnect" \in FaultKinds /\ faults < MaxFaults /\ faults' = faults + 1
        BY <2>5 DEF LoseConnection, Fault
      <4>2. faults \in Nat /\ MaxFaults \in Nat
        BY ConsumerAssumption DEF IInv, TypeOK
      <4>3. faults' >= MaxFaults
        BY <4>1, <4>2
      <4> QED
        BY <4>3 DEF OrphansLast
    <3> QED
      BY <2>1, <3>1, <3>2
  <2>6. ASSUME NEW x \in Slots, Reject(x) PROVE Inv'
    <3>0. \A z \in Slots : ~orphan[z]
      BY <2>6, <2>7 DEF Reject, Fault
    <3>1. dlq' # {}
      BY <2>6, <3>0 DEF Reject
    <3>2. OrphansLast'
      BY <2>6, <3>0 DEF OrphansLast, Reject, Release, IInv, TypeOK
    <3> QED
      BY <2>1, <3>1, <3>2
  <2> QED
    BY <2>2, <2>3, <2>4, <2>5, <2>6 DEF Next, Disturb
<1>3. Inv => NotSilentlyStuck
  <2>1. ASSUME Inv, Quiescent, dlq = {} PROVE is_complete(docFamily, Completed(row))
    BY <1>0, <1>a, <2>1, NobodyLeft
  <2> QED
    BY <2>1 DEF NotSilentlyStuck
<1> QED
  BY <1>1, <1>2, <1>3, PTL DEF Spec

-----------------------------------------------------------------------------
(* When every message is delivered once, the consumers start each stage    *)
(* once, although reserving followers is a transaction of its own that     *)
(* other completions may overtake.  The reason is the shape of the graph:  *)
(* a stage that completes while its neighbour is between complete_stage    *)
(* and mark_dispatched cannot be waiting for the same follower.            *)

(* Stages of the path that become ready at the same moment. *)
Siblings(u, s) ==
  /\ u \in Path \ {Entry}
  /\ s \in Path \ {Entry}
  /\ effective_deps(u, docFamily) = effective_deps(s, docFamily)

(* What the row of a stage says when its one coroutine is at `where`. *)
RowFits(where, s, status) ==
  /\ where \in {"queued", "delayed", "begin"} =>
       status = "pending" \/ (s = Entry /\ status = "none")
  /\ where \in {"handle", "complete", "fail_retry", "fail_dead"} => status = "running"
  /\ where = "retry" => status = "pending"
  /\ where = "fail_document" => status = "failed"
  /\ where = "dead_letter" =>
       status \in {"pending", "failed"} \/ (s = Entry /\ status = "none")
  /\ where \in {"mark", "publish"} => status = "succeeded"

RowMatches == \A x \in Slots : RowFits(pc[x], msg[x].stage, row[msg[x].stage])

(* A follower still to be handed on is nobody else's business. *)
FollowersAreFresh ==
  /\ \A x \in Slots : \A s \in todo[x] :
       /\ pc[x] \in {"mark", "publish"}
       /\ row[s] = IF pc[x] = "mark" THEN "none" ELSE "pending"
       /\ \A y \in Slots : Active(y) => msg[y].stage # s
  /\ \A x, y \in Slots : x # y => todo[x] \cap todo[y] = {}

(* Siblings are reserved together. *)
SiblingsTogether ==
  \A u, s \in Stages : Siblings(u, s) =>
    /\ row[u] = "none" <=> row[s] = "none"
    /\ \A x \in Slots : pc[x] = "mark" => (u \in todo[x] <=> s \in todo[x])

(* Nothing that completed is taken back, and detection came first. *)
DoneStays ==
  /\ \A s \in done : row[s] = "succeeded"
  /\ done # {} => Entry \in done

FInv ==
  /\ faults = 0
  /\ SingleFlight
  /\ RowMatches
  /\ FollowersAreFresh
  /\ SiblingsTogether
  /\ DoneStays

-----------------------------------------------------------------------------

LEMMA InitFInv == Init => FInv
<1> SUFFICES ASSUME Init PROVE FInv
  OBVIOUS
<1> USE GraphAssumption, ConsumerAssumption DEF Init
<1>1. SingleFlight /\ RowMatches
  BY DEF SingleFlight, RowMatches, RowFits, Active, Live, Blank, StageMessage
<1>2. FollowersAreFresh /\ SiblingsTogether /\ DoneStays
  BY DEF FollowersAreFresh, SiblingsTogether, DoneStays
<1> QED
  BY <1>1, <1>2 DEF FInv

(* Places where a coroutine still works on its own stage. *)
BusyPlaces == {"queued", "delayed", "begin", "handle", "complete", "fail_retry",
               "fail_dead", "retry", "fail_document", "dead_letter"}

(* A stage somebody works on has not completed, and unless it is the entry *)
(* stage it has been reserved.                                             *)
LEMMA AtWork ==
  ASSUME IInv, FInv, NEW x \in Slots, pc[x] \in BusyPlaces
  PROVE  /\ msg[x].stage \in Stages \ done
         /\ msg[x].stage # Entry => row[msg[x].stage] # "none"
         /\ row[msg[x].stage] # "succeeded"
         /\ todo[x] = {}
         /\ Active(x)
BY DEF BusyPlaces, IInv, TypeOK, FInv, RowMatches, RowFits, DoneStays, FollowersAreFresh,
       Active, Live

(* A coroutine that only moves on, and perhaps rewrites the row of its own *)
(* stage, disturbs nobody.                                                 *)
LEMMA LocalStep ==
  ASSUME IInv, FInv,
         NEW x \in Slots, pc[x] \in BusyPlaces,
         NEW where \in BusyPlaces \cup {"ack"},
         NEW status \in RowStatus \ {"succeeded"},
         msg[x].stage # Entry => status # "none",
         RowFits(where, msg[x].stage, status),
         pc' = [pc EXCEPT ![x] = where],
         row' = [row EXCEPT ![msg[x].stage] = status],
         UNCHANGED <<docFamily, msg, todo, done, faults>>
  PROVE  FInv'
<1> DEFINE u == msg[x].stage
<1>1. /\ u \in Stages \ done
      /\ u # Entry => row[u] # "none"
      /\ todo[x] = {}
      /\ Active(x)
  BY AtWork
<1>2. \A y \in Slots : /\ Active(y)' => Active(y)
                       /\ y # x => pc'[y] = pc[y]
                       /\ pc'[x] = where
  BY <1>1 DEF IInv, TypeOK, Active, Live, BusyPlaces
<1>3. \A s \in Stages : s # u => row'[s] = row[s]
  BY DEF IInv, TypeOK
<1>4. row'[u] = status
  BY <1>1 DEF IInv, TypeOK
<1> HIDE DEF u
<1>5. SingleFlight'
  BY <1>2 DEF SingleFlight, FInv
<1>6. RowMatches'
  <2> SUFFICES ASSUME NEW y \in Slots
               PROVE  RowFits(pc'[y], msg[y].stage, row'[msg[y].stage])
    BY DEF RowMatches
  <2>1. CASE y = x
    BY <2>1, <1>2, <1>4 DEF u
  <2>2. CASE y # x /\ Active(y)
    <3>1. msg[y].stage # u /\ msg[y].stage \in Stages
      BY <2>2, <1>1 DEF FInv, SingleFlight, IInv, TypeOK, u
    <3> QED
      BY <2>2, <3>1, <1>2, <1>3 DEF FInv, RowMatches
  <2>3. CASE y # x /\ ~Active(y)
    BY <2>3, <1>2 DEF Active, Live, RowFits
  <2> QED
    BY <2>1, <2>2, <2>3
<1>7. FollowersAreFresh'
  <2>1. \A y \in Slots : y # x => \A s \in todo[y] : s # u /\ s \in Stages
    BY <1>1 DEF FInv, FollowersAreFresh, IInv, TypeOK, u
  <2> QED
    BY <2>1, <1>1, <1>2, <1>3 DEF FInv, FollowersAreFresh
<1>8. SiblingsTogether'
  <2>1. \A s \in Stages \ {Entry} : row'[s] = "none" <=> row[s] = "none"
    BY <1>1, <1>3, <1>4 DEF u
  <2>2. \A y \in Slots : pc'[y] = "mark" => pc[y] = "mark"
    BY <1>2 DEF BusyPlaces
  <2> QED
    BY <2>1, <2>2 DEF FInv, SiblingsTogether, Siblings, Path
<1>9. DoneStays'
  BY <1>1, <1>3 DEF FInv, DoneStays, IInv, TypeOK
<1> QED
  BY <1>5, <1>6, <1>7, <1>8, <1>9 DEF FInv

(* The heart of the matter: the followers complete_stage computes are      *)
(* nobody's yet, neither in a row nor in another coroutine's hands.        *)
LEMMA FollowersUnclaimed ==
  ASSUME IInv, FInv, NEW x \in Slots, pc[x] = "complete",
         NEW s \in next_messages(msg[x], [row EXCEPT ![msg[x].stage] = "succeeded"])
  PROVE  /\ s \in Path \ {Entry}
         /\ s # msg[x].stage
         /\ row[s] = "none"
         /\ effective_deps(s, docFamily) \subseteq done \cup {msg[x].stage}
         /\ \A y \in Slots : Active(y) => msg[y].stage # s
         /\ \A y \in Slots : s \notin todo[y]
<1> DEFINE u == msg[x].stage
           after == [row EXCEPT ![u] = "succeeded"]
<1>1. /\ u \in Stages \ done
      /\ u # Entry => row[u] # "none"
      /\ Active(x)
  BY AtWork DEF BusyPlaces
<1>2. docFamily \in Families /\ with_family(msg[x]) = docFamily
  BY DEF IInv, FamilyIsKnown, FamilyAdopted, with_family, Live
<1>3. /\ s \in Path
      /\ effective_deps(s, docFamily) \subseteq Completed(after)
      /\ s \notin Completed(after) \cup Dispatched(after)
  BY <1>2, ReadyStages DEF next_messages, Path
<1>4. s \in Stages
  BY <1>3, PathInStages DEF Path
<1>5. s # u /\ row[s] = "none"
  BY <1>1, <1>3, <1>4 DEF Dispatched, IInv, TypeOK
<1>6. Completed(after) \subseteq done \cup {u}
  BY <1>1 DEF Completed, IInv, TypeOK, DoneClosed
<1>7. s # Entry
  <2>1. CASE u = Entry
    BY <2>1, <1>5
  <2>2. CASE u # Entry
    <3>1. effective_deps(u, docFamily) # {} /\ effective_deps(u, docFamily) \subseteq done
      BY <2>2, <1>1, <1>2, ShapeAssumption
         DEF EntryIsFirst, IInv, MessagesOnTrack, OnTrack, Path, Active
    <3>2. Entry \in done
      BY <3>1 DEF FInv, DoneStays
    <3> QED
      BY <3>2, <1>5 DEF FInv, DoneStays
  <2> QED
    BY <2>1, <2>2
<1>8. ASSUME NEW y \in Slots, Active(y) PROVE msg[y].stage # s
  <2>1. CASE pc[y] \in BusyPlaces
    BY <2>1, <1>5, <1>7, AtWork
  <2>2. CASE pc[y] \in {"mark", "publish"}
    BY <2>2, <1>5 DEF FInv, RowMatches, RowFits
  <2> QED
    BY <1>8, <2>1, <2>2 DEF Active, Live, BusyPlaces, IInv, TypeOK, Waiting, Held
<1>9. ASSUME NEW y \in Slots, s \in todo[y] PROVE FALSE
  (* y reserved s and x completed u meanwhile: there is no place for u.    *)
  <2>1. pc[y] = "mark"
    BY <1>9, <1>5 DEF FInv, FollowersAreFresh
  <2>2. /\ effective_deps(s, docFamily) \subseteq done
        /\ done \in SUBSET stage_names_for(docFamily)
        /\ DownClosed(docFamily, done)
    BY <1>9 DEF IInv, FollowersOnTrack, OnTrack, DoneClosed, Path
  <2>3. /\ u \in stage_names_for(docFamily)
        /\ effective_deps(u, docFamily) \subseteq done
    BY <1>1, <1>2, EntryOnPath DEF IInv, MessagesOnTrack, OnTrack, Path, Active
  <2>4. ~Before(u, s, docFamily)
    BY <1>1, <2>2 DEF Before
  <2>5. ~Before(s, u, docFamily)
    <3>1. s \notin done
      BY <1>5 DEF FInv, DoneStays
    <3> QED
      BY <3>1, <2>2, <2>3 DEF Before
  <2>6. effective_deps(u, docFamily) = effective_deps(s, docFamily)
    BY <1>2, <1>3, <1>5, <2>3, <2>4, <2>5, ShapeAssumption DEF Layered, Path
  <2>7. u # Entry
    BY <2>6, <1>2, <1>3, <1>7, EntryHasNoDeps, ShapeAssumption DEF EntryIsFirst, Path
  <2>8. Siblings(u, s)
    BY <2>3, <2>6, <2>7, <1>3, <1>7 DEF Siblings, Path
  <2> QED
    BY <2>7, <2>8, <1>1, <1>4, <1>5 DEF FInv, SiblingsTogether
<1> QED
  BY <1>3, <1>5, <1>6, <1>7, <1>8, <1>9

LEMMA CompleteStep ==
  ASSUME IInv, FInv, NEW x \in Slots, complete_stage(x)
  PROVE  FInv'
<1> DEFINE u == msg[x].stage
           after == [row EXCEPT ![u] = "succeeded"]
           followers == next_messages(msg[x], after)
           where == IF followers = {} THEN "ack" ELSE "mark"
<1>1. /\ pc[x] = "complete"
      /\ row' = after
      /\ done' = done \cup {u}
      /\ todo' = [todo EXCEPT ![x] = followers]
      /\ pc' = [pc EXCEPT ![x] = where]
      /\ UNCHANGED <<docFamily, msg, faults>>
  BY DEF complete_stage, Goto
<1>2. /\ u \in Stages \ done
      /\ u # Entry => row[u] # "none"
      /\ todo[x] = {}
      /\ Active(x)
  BY <1>1, AtWork DEF BusyPlaces
<1>3. \A s \in followers :
        /\ s \in Path \ {Entry}
        /\ s # u
        /\ row[s] = "none"
        /\ \A y \in Slots : Active(y) => msg[y].stage # s
        /\ \A y \in Slots : s \notin todo[y]
  BY <1>1, FollowersUnclaimed
<1>4. /\ row'[u] = "succeeded"
      /\ \A s \in Stages : s # u => row'[s] = row[s]
      /\ pc'[x] = where /\ todo'[x] = followers
      /\ \A y \in Slots \ {x} : pc'[y] = pc[y] /\ todo'[y] = todo[y]
      /\ \A y \in Slots : Active(y)' => Active(y)
      /\ where \in {"ack", "mark"} /\ (followers # {} => where = "mark")
  BY <1>1, <1>2 DEF IInv, TypeOK, Active, Live
<1>5. followers \subseteq Stages
  BY <1>3, PathInStages DEF Path
<1>6. docFamily \in Families /\ with_family(msg[x]) = docFamily
  BY <1>1 DEF IInv, FamilyIsKnown, FamilyAdopted, with_family, Live
<1>7. \A s \in Stages : s \in followers <=>
        /\ s \in Path
        /\ after[s] = "none"
        /\ effective_deps(s, docFamily) \subseteq Completed(after)
  BY <1>6 DEF next_messages, ready_stages, Path, Completed, Dispatched
<1> HIDE DEF u, after, followers, where
<1>8. SingleFlight'
  BY <1>1, <1>4 DEF SingleFlight, FInv
<1>9. RowMatches'
  <2> SUFFICES ASSUME NEW y \in Slots
               PROVE  RowFits(pc'[y], msg[y].stage, row'[msg[y].stage])
    BY <1>1 DEF RowMatches
  <2>1. CASE y = x
    BY <2>1, <1>4 DEF u, RowFits
  <2>2. CASE y # x /\ Active(y)
    <3>1. msg[y].stage # u /\ msg[y].stage \in Stages
      BY <2>2, <1>2 DEF FInv, SingleFlight, IInv, TypeOK, u
    <3> QED
      BY <2>2, <3>1, <1>4 DEF FInv, RowMatches
  <2>3. CASE y # x /\ ~Active(y)
    BY <2>3, <1>4 DEF Active, Live, RowFits
  <2> QED
    BY <2>1, <2>2, <2>3
<1>10. FollowersAreFresh'
  <2>1. \A y \in Slots \ {x} : \A s \in todo[y] : s # u /\ s \in Stages
    BY <1>2 DEF FInv, FollowersAreFresh, IInv, TypeOK, u
  <2>2. ASSUME NEW y \in Slots, NEW s \in todo'[y]
        PROVE  /\ pc'[y] \in {"mark", "publish"}
               /\ row'[s] = IF pc'[y] = "mark" THEN "none" ELSE "pending"
               /\ \A z \in Slots : Active(z)' => msg'[z].stage # s
    <3>1. CASE y = x
      BY <2>2, <3>1, <1>1, <1>3, <1>4, <1>5
    <3>2. CASE y # x
      BY <2>1, <2>2, <3>2, <1>1, <1>4 DEF FInv, FollowersAreFresh
    <3> QED
      BY <3>1, <3>2
  <2>3. \A y, z \in Slots : y # z => todo'[y] \cap todo'[z] = {}
    BY <1>3, <1>4 DEF FInv, FollowersAreFresh
  <2> QED
    BY <2>2, <2>3 DEF FollowersAreFresh
<1>11. SiblingsTogether'
  <2> SUFFICES ASSUME NEW v \in Stages, NEW s \in Stages, Siblings(v, s)
               PROVE  /\ row'[v] = "none" <=> row'[s] = "none"
                      /\ \A y \in Slots : pc'[y] = "mark" => (v \in todo'[y] <=> s \in todo'[y])
    BY <1>1 DEF SiblingsTogether, Siblings, Path
  <2>1. row'[v] = "none" <=> row'[s] = "none"
    BY <1>2, <1>4 DEF FInv, SiblingsTogether, Siblings, u
  <2>2. v \in followers <=> s \in followers
    BY <2>1, <1>1, <1>7 DEF Siblings
  <2> QED
    BY <2>1, <2>2, <1>4 DEF FInv, SiblingsTogether
<1>12. DoneStays'
  <2>1. \A s \in done' : row'[s] = "succeeded"
    BY <1>1, <1>2, <1>4 DEF FInv, DoneStays, IInv, TypeOK
  <2>2. Entry \in done'
    <3>1. CASE u = Entry
      BY <3>1, <1>1
    <3>2. CASE u # Entry
      <4>1. effective_deps(u, docFamily) # {} /\ effective_deps(u, docFamily) \subseteq done
        BY <3>2, <1>2, <1>6, ShapeAssumption
           DEF EntryIsFirst, IInv, MessagesOnTrack, OnTrack, Path, Active, u
      <4> QED
        BY <4>1, <1>1 DEF FInv, DoneStays
    <3> QED
      BY <3>1, <3>2
  <2> QED
    BY <2>1, <2>2 DEF DoneStays
<1> QED
  BY <1>1, <1>8, <1>9, <1>10, <1>11, <1>12 DEF FInv

LEMMA MarkStep ==
  ASSUME IInv, FInv, NEW x \in Slots, mark_dispatched(x)
  PROVE  FInv'
<1>1. /\ pc[x] = "mark"
      /\ row' = [s \in Stages |-> IF s \in todo[x] /\ row[s] = "none" THEN "pending" ELSE row[s]]
      /\ pc' = [pc EXCEPT ![x] = "publish"]
      /\ UNCHANGED <<docFamily, msg, todo, done, faults>>
  BY DEF mark_dispatched, Goto
<1>2. /\ pc'[x] = "publish"
      /\ \A y \in Slots \ {x} : pc'[y] = pc[y]
      /\ \A y \in Slots : Active(y)' <=> Active(y)
  BY <1>1 DEF IInv, TypeOK, Active, Live
<1>3. /\ \A s \in todo[x] : row[s] = "none" /\ row'[s] = "pending" /\ s \in Stages
      /\ \A s \in Stages \ todo[x] : row'[s] = row[s]
  BY <1>1 DEF FInv, FollowersAreFresh, IInv, TypeOK
<1>4. SingleFlight'
  BY <1>1, <1>2 DEF SingleFlight, FInv
<1>5. RowMatches'
  <2> SUFFICES ASSUME NEW y \in Slots
               PROVE  RowFits(pc'[y], msg[y].stage, row'[msg[y].stage])
    BY <1>1 DEF RowMatches
  <2>1. CASE Active(y)
    <3>1. msg[y].stage \in Stages \ todo[x]
      BY <2>1 DEF FInv, FollowersAreFresh, IInv, TypeOK
    <3>2. RowFits(pc[y], msg[y].stage, row'[msg[y].stage])
      BY <3>1, <1>3 DEF FInv, RowMatches
    <3> QED
      BY <3>2, <1>1, <1>2 DEF RowFits
  <2>2. CASE ~Active(y)
    BY <2>2, <1>1, <1>2 DEF Active, Live, RowFits
  <2> QED
    BY <2>1, <2>2
<1>6. FollowersAreFresh'
  BY <1>1, <1>2, <1>3 DEF FInv, FollowersAreFresh, IInv, TypeOK
<1>7. SiblingsTogether'
  <2> SUFFICES ASSUME NEW u \in Stages, NEW s \in Stages, Siblings(u, s)
               PROVE  /\ row'[u] = "none" <=> row'[s] = "none"
                      /\ \A y \in Slots : pc'[y] = "mark" => (u \in todo[y] <=> s \in todo[y])
    BY <1>1 DEF SiblingsTogether, Siblings, Path
  <2>1. u \in todo[x] <=> s \in todo[x]
    BY <1>1 DEF FInv, SiblingsTogether
  <2> QED
    BY <2>1, <1>2, <1>3 DEF FInv, SiblingsTogether
<1>8. DoneStays'
  BY <1>1, <1>3 DEF FInv, DoneStays, IInv, TypeOK
<1> QED
  BY <1>1, <1>4, <1>5, <1>6, <1>7, <1>8 DEF FInv

LEMMA PublishStep ==
  ASSUME IInv, FInv, NEW x \in Slots, NEW s \in Stages, NEW y \in Slots,
         PublishFollower(x, s, y)
  PROVE  FInv'
<1> DEFINE where == IF todo[x] = {s} THEN "ack" ELSE "publish"
<1>1. /\ pc[x] = "publish" /\ pc[y] = "free" /\ x # y
      /\ s \in todo[x]
      /\ todo' = [todo EXCEPT ![x] = @ \ {s}]
      /\ pc' = [pc EXCEPT ![x] = where, ![y] = "queued"]
      /\ msg' = [msg EXCEPT ![y] = for_stage(msg[x], s)]
      /\ UNCHANGED <<row, docFamily, done, faults>>
  BY DEF PublishFollower, Send
<1>2. /\ pc'[x] = where /\ pc'[y] = "queued"
      /\ msg'[y].stage = s /\ msg'[x] = msg[x]
      /\ \A z \in Slots \ {x, y} : pc'[z] = pc[z] /\ msg'[z] = msg[z]
      /\ todo'[x] = todo[x] \ {s}
      /\ \A z \in Slots \ {x} : todo'[z] = todo[z]
      /\ \A z \in Slots \ {y} : Active(z)' => Active(z)
  BY <1>1 DEF IInv, TypeOK, Active, Live, for_stage, StageMessage
<1>3. /\ row[s] = "pending"
      /\ \A z \in Slots : Active(z) => msg[z].stage # s
      /\ \A z \in Slots \ {x} : s \notin todo[z]
      /\ where = "publish" \/ todo'[x] = {}
  BY <1>1, <1>2 DEF FInv, FollowersAreFresh
<1> HIDE DEF where
<1>4. where \in {"ack", "publish"}
  BY DEF where
<1>5. SingleFlight'
  <2>1. \A z \in Slots \ {y} : Active(z)' => msg'[z].stage # s /\ msg'[z] = msg[z]
    BY <1>1, <1>2, <1>3
  <2> QED
    BY <2>1, <1>2 DEF SingleFlight, FInv
<1>6. RowMatches'
  <2> SUFFICES ASSUME NEW z \in Slots
               PROVE  RowFits(pc'[z], msg'[z].stage, row[msg'[z].stage])
    BY <1>1 DEF RowMatches
  <2>1. CASE z = y
    BY <2>1, <1>2, <1>3 DEF RowFits
  <2>2. CASE z = x
    BY <2>2, <1>1, <1>2, <1>4 DEF FInv, RowMatches, RowFits
  <2>3. CASE z \notin {x, y}
    BY <2>3, <1>2 DEF FInv, RowMatches
  <2> QED
    BY <2>1, <2>2, <2>3
<1>7. FollowersAreFresh'
  <2>1. todo[y] = {}
    BY <1>1 DEF FInv, FollowersAreFresh
  <2>2. ASSUME NEW z \in Slots, NEW v \in todo'[z]
        PROVE  /\ pc'[z] \in {"mark", "publish"}
               /\ row'[v] = IF pc'[z] = "mark" THEN "none" ELSE "pending"
               /\ \A w \in Slots : Active(w)' => msg'[w].stage # v
    <3>1. v \in todo[z] /\ v # s /\ z # y
      BY <2>1, <2>2, <1>2, <1>3
    <3>2. \A w \in Slots : Active(w)' => msg'[w].stage # v
      BY <3>1, <1>1, <1>2 DEF FInv, FollowersAreFresh
    <3>3. CASE z = x
      <4>1. pc'[z] = "publish"
        BY <2>2, <3>3, <1>2, <1>3
      <4>2. row'[v] = "pending"
        BY <3>1, <3>3, <1>1 DEF FInv, FollowersAreFresh
      <4> QED
        BY <3>2, <4>1, <4>2
    <3>4. CASE z # x
      <4>1. pc'[z] = pc[z]
        BY <3>1, <3>4, <1>2
      <4>2. /\ pc[z] \in {"mark", "publish"}
            /\ row[v] = IF pc[z] = "mark" THEN "none" ELSE "pending"
        BY <3>1 DEF FInv, FollowersAreFresh
      <4> QED
        BY <3>2, <4>1, <4>2, <1>1
    <3> QED
      BY <3>3, <3>4
  <2>3. \A z, w \in Slots : z # w => todo'[z] \cap todo'[w] = {}
    BY <1>2 DEF FInv, FollowersAreFresh
  <2> QED
    BY <2>2, <2>3 DEF FollowersAreFresh
<1>8. SiblingsTogether'
  <2>1. \A z \in Slots : pc'[z] = "mark" => pc[z] = "mark" /\ todo'[z] = todo[z]
    BY <1>2, <1>4
  <2> QED
    BY <1>1, <2>1 DEF FInv, SiblingsTogether, Siblings, Path
<1>9. DoneStays'
  BY <1>1 DEF FInv, DoneStays
<1> QED
  BY <1>1, <1>5, <1>6, <1>7, <1>8, <1>9 DEF FInv

LEMMA RetryStep ==
  ASSUME IInv, FInv, NEW x \in Slots, NEW y \in Slots, PublishRetry(x, y)
  PROVE  FInv'
<1> DEFINE u == msg[x].stage
<1>1. /\ pc[x] = "retry" /\ pc[y] = "free" /\ x # y
      /\ pc' = [pc EXCEPT ![x] = "ack", ![y] = "delayed"]
      /\ msg' = [msg EXCEPT ![y] = retried(msg[x])]
      /\ UNCHANGED <<row, docFamily, todo, done, faults>>
  BY DEF PublishRetry, Send
<1>2. /\ pc'[x] = "ack" /\ pc'[y] = "delayed"
      /\ msg'[y].stage = u
      /\ \A z \in Slots \ {x, y} : pc'[z] = pc[z]
      /\ \A z \in Slots \ {y} : msg'[z] = msg[z]
      /\ \A z \in Slots \ {x, y} : Active(z)' => Active(z)
      /\ ~Active(x)' /\ Active(x)
  BY <1>1 DEF IInv, TypeOK, Active, Live, retried
<1>3. todo[x] = {} /\ todo[y] = {} /\ row[u] = "pending"
  BY <1>1 DEF FInv, FollowersAreFresh, RowMatches, RowFits
<1>4. SingleFlight'
  BY <1>2 DEF FInv, SingleFlight
<1>5. RowMatches'
  <2> SUFFICES ASSUME NEW z \in Slots
               PROVE  RowFits(pc'[z], msg'[z].stage, row[msg'[z].stage])
    BY <1>1 DEF RowMatches
  <2>1. CASE z = y
    BY <2>1, <1>2, <1>3 DEF RowFits
  <2>2. CASE z = x
    BY <2>2, <1>2 DEF RowFits
  <2>3. CASE z \notin {x, y}
    BY <2>3, <1>2 DEF FInv, RowMatches
  <2> QED
    BY <2>1, <2>2, <2>3
<1>6. FollowersAreFresh'
  <2>1. ASSUME NEW z \in Slots, NEW w \in Slots, NEW v \in todo[z], Active(w)'
        PROVE  msg'[w].stage # v
    <3>1. CASE w = y
      BY <3>1, <1>2 DEF FInv, FollowersAreFresh
    <3>2. CASE w # y
      BY <2>1, <3>2, <1>2 DEF FInv, FollowersAreFresh
    <3> QED
      BY <3>1, <3>2
  <2>2. ASSUME NEW z \in Slots, NEW v \in todo[z]
        PROVE  /\ pc'[z] \in {"mark", "publish"}
               /\ row[v] = IF pc'[z] = "mark" THEN "none" ELSE "pending"
    <3>1. pc'[z] = pc[z]
      BY <2>2, <1>2, <1>3
    <3> QED
      BY <3>1 DEF FInv, FollowersAreFresh
  <2>3. \A z, w \in Slots : z # w => todo[z] \cap todo[w] = {}
    BY DEF FInv, FollowersAreFresh
  <2> QED
    BY <2>1, <2>2, <2>3, <1>1 DEF FollowersAreFresh
<1>7. SiblingsTogether'
  BY <1>1, <1>2 DEF FInv, SiblingsTogether, Siblings, Path
<1>8. DoneStays'
  BY <1>1 DEF FInv, DoneStays
<1> QED
  BY <1>1, <1>4, <1>5, <1>6, <1>7, <1>8 DEF FInv

LEMMA AckStep ==
  ASSUME IInv, FInv, NEW x \in Slots, Ack(x)
  PROVE  FInv'
<1>1. /\ pc[x] = "ack"
      /\ pc' = [pc EXCEPT ![x] = "free"]
      /\ msg' = [msg EXCEPT ![x] = Blank]
      /\ todo' = [todo EXCEPT ![x] = {}]
      /\ UNCHANGED <<row, docFamily, done, faults>>
  BY DEF Ack, Release
<1>2. /\ pc'[x] = "free" /\ todo'[x] = {}
      /\ \A z \in Slots \ {x} : pc'[z] = pc[z] /\ msg'[z] = msg[z] /\ todo'[z] = todo[z]
      /\ \A z \in Slots : Active(z)' => Active(z) /\ z # x
  BY <1>1 DEF IInv, TypeOK, Active, Live
<1>3. SingleFlight'
  BY <1>2 DEF FInv, SingleFlight
<1>4. RowMatches'
  <2> SUFFICES ASSUME NEW z \in Slots
               PROVE  RowFits(pc'[z], msg'[z].stage, row[msg'[z].stage])
    BY <1>1 DEF RowMatches
  <2>1. CASE z = x
    BY <2>1, <1>2 DEF RowFits
  <2>2. CASE z # x
    BY <2>2, <1>2 DEF FInv, RowMatches
  <2> QED
    BY <2>1, <2>2
<1>5. FollowersAreFresh'
  BY <1>1, <1>2 DEF FInv, FollowersAreFresh
<1>6. SiblingsTogether'
  BY <1>1, <1>2 DEF FInv, SiblingsTogether, Siblings, Path
<1>7. DoneStays'
  BY <1>1 DEF FInv, DoneStays
<1> QED
  BY <1>1, <1>3, <1>4, <1>5, <1>6, <1>7 DEF FInv

(* Every step a coroutine takes, as long as nothing is disturbed. *)
LEMMA ConsumeStep ==
  ASSUME IInv, FInv, NEW x \in Slots, Consume(x)
  PROVE  FInv'
<1>0. row \in [Stages -> RowStatus] /\ msg[x].stage \in Stages
  BY DEF IInv, TypeOK
<1>1. CASE Deliver(x)
  <2> DEFINE where == IF msg[x].stage \in Handlers THEN "begin" ELSE "dead_letter"
  <2>1. /\ pc[x] = "queued" /\ pc' = [pc EXCEPT ![x] = where]
        /\ row' = [row EXCEPT ![msg[x].stage] = row[msg[x].stage]]
        /\ UNCHANGED <<docFamily, msg, todo, done, faults>>
    BY <1>0, <1>1 DEF Deliver, Goto
  <2>2. RowFits(where, msg[x].stage, row[msg[x].stage])
    BY <2>1 DEF FInv, RowMatches, RowFits
  <2> QED
    BY <1>0, <2>1, <2>2, AtWork, LocalStep DEF BusyPlaces
<1>2. CASE begin_stage(x)
  BY <1>2, LocalStep DEF begin_stage, Goto, SetRow, BusyPlaces, RowFits, RowStatus
<1>3. CASE HandlerSucceeds(x)
  <2>1. /\ pc[x] = "handle" /\ pc' = [pc EXCEPT ![x] = "complete"]
        /\ row' = [row EXCEPT ![msg[x].stage] = row[msg[x].stage]]
        /\ UNCHANGED <<docFamily, msg, todo, done, faults>>
    BY <1>0, <1>3 DEF HandlerSucceeds, Goto
  <2>2. RowFits("complete", msg[x].stage, row[msg[x].stage])
    BY <2>1 DEF FInv, RowMatches, RowFits
  <2> QED
    BY <1>0, <2>1, <2>2, AtWork, LocalStep DEF BusyPlaces
<1>4. ASSUME NEW permanent \in BOOLEAN, HandlerRaises(x, permanent) PROVE FInv'
  <2> DEFINE where == IF PlansRetry(msg[x], permanent) THEN "fail_retry" ELSE "fail_dead"
  <2>1. /\ pc[x] = "handle" /\ pc' = [pc EXCEPT ![x] = where]
        /\ row' = [row EXCEPT ![msg[x].stage] = row[msg[x].stage]]
        /\ UNCHANGED <<docFamily, msg, todo, done, faults>>
    BY <1>0, <1>4 DEF HandlerRaises, Goto
  <2>2. where \in {"fail_retry", "fail_dead"}
    OBVIOUS
  <2> HIDE DEF where
  <2>3. RowFits(where, msg[x].stage, row[msg[x].stage])
    BY <2>1, <2>2 DEF FInv, RowMatches, RowFits
  <2> QED
    BY <1>0, <2>1, <2>2, <2>3, AtWork, LocalStep DEF BusyPlaces
<1>5. CASE Quarantine(x)
  <2>1. /\ pc[x] = "handle" /\ pc' = [pc EXCEPT ![x] = "fail_dead"]
        /\ row' = [row EXCEPT ![msg[x].stage] = row[msg[x].stage]]
        /\ UNCHANGED <<docFamily, msg, todo, done, faults>>
    BY <1>0, <1>5 DEF Quarantine, At, Goto
  <2>2. RowFits("fail_dead", msg[x].stage, row[msg[x].stage])
    BY <2>1 DEF FInv, RowMatches, RowFits
  <2> QED
    BY <1>0, <2>1, <2>2, AtWork, LocalStep DEF BusyPlaces
<1>6. CASE fail_stage_retry(x)
  BY <1>6, LocalStep DEF fail_stage_retry, Goto, SetRow, BusyPlaces, RowFits, RowStatus
<1>7. CASE Expire(x)
  <2>1. /\ pc[x] = "delayed" /\ pc' = [pc EXCEPT ![x] = "queued"]
        /\ row' = [row EXCEPT ![msg[x].stage] = row[msg[x].stage]]
        /\ UNCHANGED <<docFamily, msg, todo, done, faults>>
    BY <1>0, <1>7 DEF Expire, Goto
  <2>2. RowFits("queued", msg[x].stage, row[msg[x].stage])
    BY <2>1 DEF FInv, RowMatches, RowFits
  <2> QED
    BY <1>0, <2>1, <2>2, AtWork, LocalStep DEF BusyPlaces
<1>8. CASE fail_stage_dead(x)
  BY <1>8, LocalStep DEF fail_stage_dead, Goto, SetRow, BusyPlaces, RowFits, RowStatus
<1>9. CASE fail_document(x)
  <2>1. /\ pc[x] = "fail_document" /\ pc' = [pc EXCEPT ![x] = "dead_letter"]
        /\ row' = [row EXCEPT ![msg[x].stage] = row[msg[x].stage]]
        /\ UNCHANGED <<docFamily, msg, todo, done, faults>>
    BY <1>0, <1>9 DEF fail_document, Goto
  <2>2. RowFits("dead_letter", msg[x].stage, row[msg[x].stage])
    BY <2>1 DEF FInv, RowMatches, RowFits
  <2> QED
    BY <1>0, <2>1, <2>2, AtWork, LocalStep DEF BusyPlaces
<1>10. CASE dead_letter(x)
  <2>1. /\ pc[x] = "dead_letter" /\ pc' = [pc EXCEPT ![x] = "ack"]
        /\ row' = [row EXCEPT ![msg[x].stage] = row[msg[x].stage]]
        /\ UNCHANGED <<docFamily, msg, todo, done, faults>>
    BY <1>0, <1>10 DEF dead_letter, Goto
  <2>2. RowFits("ack", msg[x].stage, row[msg[x].stage])
    BY DEF RowFits
  <2> QED
    BY <1>0, <2>1, <2>2, AtWork, LocalStep DEF BusyPlaces
<1> QED
  BY <1>1, <1>2, <1>3, <1>4, <1>5, <1>6, <1>7, <1>8, <1>9, <1>10,
     CompleteStep, MarkStep, PublishStep, RetryStep, AckStep DEF Consume

LEMMA NextFInv ==
  ASSUME IInv, faults = 0 => FInv, [Next]_vars, faults' = 0
  PROVE  faults = 0 /\ FInv'
<1>1. ASSUME NEW x \in Slots, Disturb(x) PROVE FALSE
  <2>1. faults' = faults + 1 /\ faults \in Nat
    BY <1>1, ConsumerAssumption
    DEF Disturb, Crash, LoseConnection, Reject, Fault, IInv, TypeOK
  <2> QED
    BY <2>1
<1>2. CASE UNCHANGED vars
  BY <1>2 DEF vars, FInv, SingleFlight, RowMatches, FollowersAreFresh, SiblingsTogether,
     DoneStays, Active, Live, Siblings, Path
<1>3. ASSUME NEW x \in Slots, Consume(x) PROVE faults = 0 /\ FInv'
  <2>1. faults' = faults
    BY <1>3 DEF Consume, Deliver, begin_stage, HandlerSucceeds, HandlerRaises,
       Quarantine, complete_stage, mark_dispatched, PublishFollower, fail_stage_retry,
       PublishRetry, Expire, fail_stage_dead, fail_document, dead_letter, Ack
  <2> QED
    BY <1>3, <2>1, ConsumeStep
<1> QED
  BY <1>1, <1>2, <1>3 DEF Next, vars

LEMMA SpecFInv == Spec => [](faults = 0 => FInv)
<1>1. IInv /\ (faults = 0 => FInv) /\ [Next]_vars => (faults = 0 => FInv)'
  BY NextFInv
<1>2. Init => (faults = 0 => FInv)
  BY InitFInv
<1> QED
  BY <1>1, <1>2, SpecIInv, PTL DEF Spec

(* Until a fault happens, no two coroutines work on the same stage.        *)
THEOREM SingleFlightUntilFault == Spec => [](faults = 0 => SingleFlight)
<1>1. (faults = 0 => FInv) => (faults = 0 => SingleFlight)
  BY DEF FInv
<1> QED
  BY <1>1, SpecFInv, PTL

LEMMA NoFaults == MaxFaults = 0 /\ TypeOK => faults = 0
BY DEF TypeOK

(* When no delivery is duplicated, no two coroutines work on the same      *)
(* stage, on any layered graph and for any number of messages: reserving   *)
(* followers after the completion's transaction is safe.                   *)
THEOREM SingleFlightCorrect == MaxFaults = 0 => (Spec => []SingleFlight)
<1> SUFFICES ASSUME MaxFaults = 0 PROVE Spec => []SingleFlight
  OBVIOUS
<1>1. TypeOK /\ (faults = 0 => SingleFlight) => SingleFlight
  BY NoFaults
<1> QED
  BY <1>1, TypeCorrect, SingleFlightUntilFault, PTL

-----------------------------------------------------------------------------
(* The consumers implement the schedule. *)

Phases == [s \in Stages |-> PhaseOf(row[s])]

LEMMA PhaseOfRow ==
  ASSUME NEW r
  PROVE  /\ r = "none" => PhaseOf(r) = "waiting"
         /\ r \in {"pending", "running"} => PhaseOf(r) = "active"
         /\ r \in {"succeeded", "failed"} => PhaseOf(r) = r
BY DEF PhaseOf

LEMMA InitSchedule == Init => Schedule!Init
<1> SUFFICES ASSUME Init PROVE Schedule!Init
  OBVIOUS
<1>1. docFamily \in Families \cup {Unsupported}
  BY ConsumerAssumption DEF Init
<1>2. \A s \in Stages : row[s] = "none"
  BY DEF Init
<1>3. Phases = [s \in Stages |-> "waiting"]
  BY <1>2, PhaseOfRow DEF Phases
<1> QED
  BY <1>1, <1>3 DEF Schedule!Init, Phases

(* A coroutine that ends a stage ends it in the schedule. *)
LEMMA FinishStep ==
  ASSUME IInv, NEW u \in Stages, row[u] = "running",
         NEW outcome \in {"succeeded", "failed"},
         row' = [row EXCEPT ![u] = outcome], UNCHANGED docFamily
  PROVE  Schedule!Next
<1>1. Phases[u] = "active"
  BY PhaseOfRow DEF Phases
<1>2. Phases' = [Phases EXCEPT ![u] = outcome]
  <2>1. \A s \in Stages : Phases'[s] = IF s = u THEN outcome ELSE Phases[s]
    BY PhaseOfRow DEF Phases, IInv, TypeOK
  <2> QED
    BY <2>1 DEF Phases
<1>3. Schedule!Finish(u, outcome)
  BY <1>1, <1>2 DEF Schedule!Finish, Phases
<1> QED
  BY <1>3 DEF Schedule!Next

LEMMA ScheduleStutter ==
  ASSUME UNCHANGED docFamily,
         \A s \in Stages : PhaseOf(row'[s]) = PhaseOf(row[s])
  PROVE  UNCHANGED <<docFamily, Phases>>
BY DEF Phases

(* Reserving the followers starts them, all together. *)
LEMMA MarkStarts ==
  ASSUME IInv, FInv, NEW x \in Slots, mark_dispatched(x)
  PROVE  Schedule!Next \/ UNCHANGED <<docFamily, Phases>>
<1>1. /\ pc[x] = "mark"
      /\ row' = [s \in Stages |-> IF s \in todo[x] /\ row[s] = "none" THEN "pending" ELSE row[s]]
      /\ UNCHANGED docFamily
  BY DEF mark_dispatched
<1>2. \A s \in todo[x] : /\ s \in Stages
                         /\ row[s] = "none"
                         /\ OnTrack(s)
                         /\ docFamily \in Families
  BY <1>1 DEF FInv, FollowersAreFresh, IInv, TypeOK, FollowersOnTrack
<1>3. Phases' = [s \in Stages |-> IF s \in todo[x] THEN "active" ELSE Phases[s]]
  <2>1. \A s \in Stages : PhaseOf(row'[s]) = IF s \in todo[x] THEN "active" ELSE PhaseOf(row[s])
    BY <1>1, <1>2, PhaseOfRow
  <2> QED
    BY <2>1 DEF Phases
<1>4. CASE todo[x] = {}
  <2>1. \A s \in Stages : PhaseOf(row'[s]) = PhaseOf(row[s])
    BY <1>1, <1>4
  <2> QED
    BY <2>1, <1>1, ScheduleStutter
<1>5. CASE todo[x] # {}
  <2>1. Entry \in done
    <3>1. row[msg[x].stage] = "succeeded" /\ msg[x].stage \in Stages
      BY <1>1 DEF FInv, RowMatches, RowFits, IInv, TypeOK
    <3> QED
      BY <3>1 DEF IInv, DoneClosed, FInv, DoneStays
  <2>2. done = Schedule!Succeeded
    BY PhaseOfRow DEF IInv, TypeOK, DoneClosed, FInv, DoneStays, Schedule!Succeeded,
       Phases, PhaseOf, RowStatus
  <2>3. ASSUME NEW s \in todo[x] PROVE s \in Schedule!Startable
    <3>1. s # Entry
      BY <2>1, <1>2 DEF FInv, DoneStays
    <3>2. /\ s \in stage_names_for(docFamily)
          /\ effective_deps(s, docFamily) \subseteq done
          /\ effective_deps(s, docFamily) # {}
      BY <3>1, <1>2, ShapeAssumption DEF OnTrack, Path, EntryIsFirst
    <3>3. PhaseOf(row[s]) = "waiting"
      BY <1>2, PhaseOfRow
    <3> QED
      BY <2>2, <3>2, <3>3, <1>2
         DEF Schedule!Startable, Schedule!stage_names_for, Schedule!effective_deps,
             stage_names_for, effective_deps
  <2>4. Schedule!Start
    <3>1. todo[x] \in (SUBSET Schedule!Startable) \ {{}}
      BY <1>5, <2>3
    <3> QED
      BY <3>1, <1>1, <1>3 DEF Schedule!Start, Phases
  <2> QED
    BY <2>4 DEF Schedule!Next
<1> QED
  BY <1>4, <1>5

LEMMA BeginStarts ==
  ASSUME IInv, FInv, NEW x \in Slots, begin_stage(x)
  PROVE  Schedule!Next \/ UNCHANGED <<docFamily, Phases>>
<1> DEFINE u == msg[x].stage
<1>1. /\ pc[x] = "begin" /\ u \in Stages
      /\ row' = [row EXCEPT ![u] = "running"]
      /\ row[u] = "pending" \/ (u = Entry /\ row[u] = "none")
      /\ UNCHANGED docFamily
  BY DEF begin_stage, SetRow, IInv, TypeOK, FInv, RowMatches, RowFits
<1>2. \A s \in Stages : PhaseOf(row'[s]) = IF s = u THEN "active" ELSE PhaseOf(row[s])
  BY <1>1, PhaseOfRow DEF IInv, TypeOK
<1> HIDE DEF u
<1>3. CASE row[u] = "pending"
  <2>1. \A s \in Stages : PhaseOf(row'[s]) = PhaseOf(row[s])
    BY <1>2, <1>3, PhaseOfRow
  <2> QED
    BY <2>1, <1>1, ScheduleStutter
<1>4. CASE u = Entry /\ row[u] = "none"
  <2>1. PhaseOf(row[Entry]) = "waiting" /\ Entry \in Stages
    BY <1>1, <1>4, PhaseOfRow
  <2>2. Phases' = [Phases EXCEPT ![Entry] = "active"]
    BY <1>2, <1>4 DEF Phases
  <2>3. Schedule!StartDetection
    BY <2>1, <2>2, <1>1 DEF Schedule!StartDetection, Phases
  <2> QED
    BY <2>3 DEF Schedule!Next
<1> QED
  BY <1>1, <1>3, <1>4

LEMMA NextSchedule ==
  ASSUME MaxFaults = 0, IInv, FInv, [Next]_vars
  PROVE  Schedule!Next \/ UNCHANGED <<docFamily, Phases>>
<1>1. ASSUME UNCHANGED <<row, docFamily>> PROVE UNCHANGED <<docFamily, Phases>>
  BY <1>1 DEF Phases
<1>2. ASSUME NEW x \in Slots, Consume(x)
      PROVE  Schedule!Next \/ UNCHANGED <<docFamily, Phases>>
  <2>1. msg[x].stage \in Stages
    BY DEF IInv, TypeOK
  <2>2. CASE complete_stage(x)
    <3>1. row[msg[x].stage] = "running"
      BY <2>2 DEF complete_stage, FInv, RowMatches, RowFits
    <3> QED
      BY <2>1, <2>2, <3>1, FinishStep DEF complete_stage
  <2>3. CASE fail_stage_dead(x)
    <3>1. row[msg[x].stage] = "running"
      BY <2>3 DEF fail_stage_dead, FInv, RowMatches, RowFits
    <3> QED
      BY <2>1, <2>3, <3>1, FinishStep DEF fail_stage_dead, SetRow
  <2>4. CASE fail_stage_retry(x)
    <3>1. row[msg[x].stage] = "running" /\ row' = [row EXCEPT ![msg[x].stage] = "pending"]
      BY <2>4 DEF fail_stage_retry, SetRow, FInv, RowMatches, RowFits
    <3>2. \A s \in Stages : PhaseOf(row'[s]) = PhaseOf(row[s])
      BY <2>1, <3>1, PhaseOfRow DEF IInv, TypeOK
    <3> QED
      BY <2>4, <3>2, ScheduleStutter DEF fail_stage_retry
  <2>5. CASE \/ Deliver(x) \/ HandlerSucceeds(x) \/ Quarantine(x) \/ Expire(x)
             \/ fail_document(x) \/ dead_letter(x) \/ Ack(x)
             \/ \E permanent \in BOOLEAN : HandlerRaises(x, permanent)
             \/ \E s \in Stages, y \in Slots : PublishFollower(x, s, y)
             \/ \E y \in Slots : PublishRetry(x, y)
    <3>1. UNCHANGED <<row, docFamily>>
      BY <2>5 DEF Deliver, HandlerSucceeds, HandlerRaises, Quarantine, PublishFollower,
         PublishRetry, Expire, fail_document, dead_letter, Ack
    <3> QED
      BY <3>1, <1>1
  <2> QED
    BY <1>2, <2>2, <2>3, <2>4, <2>5, MarkStarts, BeginStarts DEF Consume
<1>3. ASSUME NEW x \in Slots, Disturb(x) PROVE FALSE
  BY <1>3 DEF Disturb, Crash, LoseConnection, Reject, Fault, FInv
<1>4. CASE UNCHANGED vars
  BY <1>1, <1>4 DEF vars
<1> QED
  BY <1>2, <1>3, <1>4 DEF Next

(* Seen through the stage rows, the consumers start every stage at most    *)
(* once, after all it depends on, and never take an outcome back: without  *)
(* duplicated deliveries they implement StageSchedule.                     *)
THEOREM ScheduleCorrect == MaxFaults = 0 => (Spec => ImplementsSchedule)
<1> SUFFICES ASSUME MaxFaults = 0 PROVE Spec => ImplementsSchedule
  OBVIOUS
<1>1. IInv /\ (faults = 0 => FInv) /\ [Next]_vars =>
        [Schedule!Next]_<<docFamily, [s \in Stages |-> PhaseOf(row[s])]>>
  BY NextSchedule, NoFaults DEF Phases, IInv
<1> QED
  BY <1>1, InitSchedule, SpecIInv, SpecFInv, PTL
     DEF Spec, ImplementsSchedule, Schedule!Spec

-----------------------------------------------------------------------------
(* How a run ends *)

(* What documents.status says of the rows. *)
StatusMatches ==
  /\ docStatus = "quarantined" => docFamily = Unsupported
  /\ docStatus = "failed" => \E s \in Stages : row[s] = "failed"
  /\ docStatus = "ready" => Passed(TERMINAL_STAGE)

(* Until a fault happens, the outcome of a stage is never overwritten. *)
LEMMA OutcomesStay ==
  ASSUME IInv, FInv, [Next]_vars, faults' = 0,
         NEW s \in Stages, row[s] \in {"succeeded", "failed"}
  PROVE  row'[s] = row[s]
<1>0. row \in [Stages -> RowStatus] /\ \A x \in Slots : msg[x].stage \in Stages
  BY DEF IInv, TypeOK
<1>1. ASSUME NEW x \in Slots, Consume(x) PROVE row'[s] = row[s]
  <2>1. CASE begin_stage(x) \/ complete_stage(x) \/ fail_stage_retry(x) \/ fail_stage_dead(x)
    <3>1. row[msg[x].stage] \notin {"succeeded", "failed"}
      BY <2>1 DEF begin_stage, complete_stage, fail_stage_retry, fail_stage_dead,
                  FInv, RowMatches, RowFits
    <3>2. PICK status : row' = [row EXCEPT ![msg[x].stage] = status]
      BY <2>1 DEF begin_stage, complete_stage, fail_stage_retry, fail_stage_dead, SetRow
    <3> QED
      BY <1>0, <3>1, <3>2
  <2>2. CASE mark_dispatched(x)
    BY <1>0, <2>2 DEF mark_dispatched
  <2>3. CASE \/ Deliver(x) \/ HandlerSucceeds(x) \/ Quarantine(x) \/ Expire(x)
             \/ fail_document(x) \/ dead_letter(x) \/ Ack(x)
             \/ \E permanent \in BOOLEAN : HandlerRaises(x, permanent)
             \/ \E u \in Stages, y \in Slots : PublishFollower(x, u, y)
             \/ \E y \in Slots : PublishRetry(x, y)
    BY <2>3 DEF Deliver, HandlerSucceeds, HandlerRaises, Quarantine, PublishFollower,
       PublishRetry, Expire, fail_document, dead_letter, Ack
  <2> QED
    BY <1>1, <2>1, <2>2, <2>3 DEF Consume
<1>2. ASSUME NEW x \in Slots, Disturb(x) PROVE row' = row
  BY <1>2 DEF Disturb, Crash, LoseConnection, Reject
<1> QED
  BY <1>1, <1>2 DEF Next, vars

(* When the document is ready no handler is at work on it, and nobody is   *)
(* about to declare it failed.                                             *)
LEMMA ReadyIsQuiet ==
  ASSUME IInv, ReadyNeedsAllStages, FInv, StatusMatches, docStatus = "ready",
         NEW x \in Slots
  PROVE  pc[x] \notin {"handle", "fail_dead", "fail_document"}
<1> SUFFICES ASSUME pc[x] \in {"handle", "fail_dead", "fail_document"}
             PROVE  FALSE
  OBVIOUS
<1>1. msg[x].stage \in Stages \ done /\ Active(x)
  BY AtWork DEF BusyPlaces
<1>2. msg[x].stage \in Path
  BY <1>1, EntryOnPath DEF IInv, FamilyIsKnown, MessagesOnTrack, OnTrack, Path, Active
<1>3. msg[x].stage = TERMINAL_STAGE
  BY <1>1, <1>2 DEF ReadyNeedsAllStages
<1>4. PICK y \in Slots : At(y, TERMINAL_STAGE, "complete")
  BY <1>1, <1>3 DEF StatusMatches, Passed
<1>5. x # y /\ Active(y)
  BY <1>4 DEF At, Active, Live
<1> QED
  BY <1>1, <1>3, <1>4, <1>5 DEF FInv, SingleFlight, At

(* A stage that is past its handler completes, and nothing else. *)
LEMMA PassedStays ==
  ASSUME IInv, FInv, [Next]_vars, faults' = 0, NEW s, Passed(s)
  PROVE  Passed(s)'
<1>0. TypeOK /\ done \subseteq done'
  BY DEF IInv, Next, vars, Consume, Disturb, Deliver, begin_stage, HandlerSucceeds,
     HandlerRaises, Quarantine, complete_stage, mark_dispatched, PublishFollower,
     fail_stage_retry, PublishRetry, Expire, fail_stage_dead, fail_document, dead_letter,
     Ack, Crash, LoseConnection, Reject
<1>1. CASE s \in done
  BY <1>0, <1>1 DEF Passed
<1>2. ASSUME NEW z \in Slots, At(z, s, "complete") PROVE Passed(s)'
  <2>1. ASSUME NEW x \in Slots, Consume(x) PROVE Passed(s)'
    <3>1. CASE x # z
      BY <1>0, <1>2, <2>1, <3>1, OthersKeep DEF At, Passed
    <3>2. CASE x = z
      <4>1. complete_stage(x)
        BY <1>2, <2>1, <3>2 DEF At, Consume, Deliver, begin_stage, HandlerSucceeds,
           HandlerRaises, Quarantine, mark_dispatched, PublishFollower, fail_stage_retry,
           PublishRetry, Expire, fail_stage_dead, fail_document, dead_letter, Ack
      <4> QED
        BY <1>2, <3>2, <4>1 DEF complete_stage, At, Passed
    <3> QED
      BY <3>1, <3>2
  <2>2. ASSUME NEW x \in Slots, Disturb(x) PROVE FALSE
    <3>1. faults' = faults + 1 /\ faults = 0
      BY <2>2 DEF Disturb, Crash, LoseConnection, Reject, Fault, FInv
    <3> QED
      BY <3>1
  <2>3. CASE UNCHANGED vars
    BY <1>2, <2>3 DEF vars, At, Passed
  <2> QED
    BY <2>1, <2>2, <2>3 DEF Next
<1> QED
  BY <1>1, <1>2 DEF Passed

(* What a step makes of documents.status. *)
LEMMA StatusSteps ==
  ASSUME IInv, FInv, [Next]_vars, faults' = 0, docStatus' # docStatus
  PROVE  \E x \in Slots :
           \/ HandlerSucceeds(x) /\ docStatus' = StatusAfter(msg[x].stage)
           \/ Quarantine(x) /\ docStatus' = "quarantined" /\ docFamily = Unsupported
           \/ fail_document(x) /\ docStatus' = "failed"
<1>1. PICK x \in Slots : Consume(x) \/ Disturb(x)
  BY DEF Next, vars
<1>2. HandlerSucceeds(x) \/ Quarantine(x) \/ fail_document(x)
  BY <1>1 DEF Consume, Disturb, Deliver, begin_stage, HandlerRaises, complete_stage,
     mark_dispatched, PublishFollower, fail_stage_retry, PublishRetry, Expire,
     fail_stage_dead, dead_letter, Ack, Crash, LoseConnection, Reject
<1> QED
  BY <1>2 DEF HandlerSucceeds, Quarantine, fail_document

LEMMA ReadyIsKept ==
  ASSUME IInv, ReadyNeedsAllStages, FInv, StatusMatches, docStatus = "ready",
         [Next]_vars, faults' = 0
  PROVE  docStatus' = "ready"
<1> SUFFICES ASSUME docStatus' # docStatus PROVE FALSE
  OBVIOUS
<1> QED
  BY StatusSteps, ReadyIsQuiet DEF HandlerSucceeds, Quarantine, At, fail_document

LEMMA NextStatusMatches ==
  ASSUME IInv, FInv, StatusMatches, [Next]_vars, faults' = 0
  PROVE  StatusMatches'
<1>0. docFamily' = docFamily
  BY DEF Next, vars, Consume, Disturb, Deliver, begin_stage, HandlerSucceeds,
     HandlerRaises, Quarantine, complete_stage, mark_dispatched, PublishFollower,
     fail_stage_retry, PublishRetry, Expire, fail_stage_dead, fail_document, dead_letter,
     Ack, Crash, LoseConnection, Reject
<1>1. CASE docStatus' = docStatus
  BY <1>0, <1>1, OutcomesStay, PassedStays DEF StatusMatches
<1>2. CASE docStatus' # docStatus
  <2>1. PICK x \in Slots :
          \/ HandlerSucceeds(x) /\ docStatus' = StatusAfter(msg[x].stage)
          \/ Quarantine(x) /\ docStatus' = "quarantined" /\ docFamily = Unsupported
          \/ fail_document(x) /\ docStatus' = "failed"
    BY <1>2, StatusSteps
  <2>2. CASE HandlerSucceeds(x) /\ docStatus' = StatusAfter(msg[x].stage)
    <3>1. docStatus' \in {"ready", "processing"}
      BY <1>2, <2>2 DEF StatusAfter
    <3>2. CASE msg[x].stage = TERMINAL_STAGE
      <4>1. At(x, TERMINAL_STAGE, "complete")'
        BY <2>2, <3>2 DEF HandlerSucceeds, Goto, At, IInv, TypeOK
      <4> QED
        BY <3>1, <4>1 DEF StatusMatches, Passed
    <3>3. CASE msg[x].stage # TERMINAL_STAGE
      BY <1>2, <2>2, <3>3 DEF StatusAfter, StatusMatches
    <3> QED
      BY <3>2, <3>3
  <2>3. CASE Quarantine(x) /\ docStatus' = "quarantined" /\ docFamily = Unsupported
    BY <1>0, <2>3 DEF StatusMatches
  <2>4. CASE fail_document(x) /\ docStatus' = "failed"
    <3>1. row[msg[x].stage] = "failed" /\ msg[x].stage \in Stages /\ row' = row
      BY <2>4 DEF fail_document, FInv, RowMatches, RowFits, IInv, TypeOK
    <3> QED
      BY <2>4, <3>1 DEF StatusMatches
  <2> QED
    BY <2>1, <2>2, <2>3, <2>4
<1> QED
  BY <1>1, <1>2

(* Everything that holds of a run until a fault happens. *)
UntilFault == faults = 0 => FInv /\ StatusMatches

LEMMA SpecUntilFault == Spec => [](IInv /\ ReadyNeedsAllStages /\ UntilFault)
<1>1. Init => UntilFault
  BY InitFInv DEF UntilFault, StatusMatches, Init
<1>2. IInv /\ UntilFault /\ [Next]_vars => UntilFault'
  BY NextFInv, NextStatusMatches DEF UntilFault
<1> QED
  BY <1>1, <1>2, SpecIInv, ReadyCorrect, PTL DEF Spec

(* A ready document stays ready until a fault happens: no handler of an    *)
(* earlier stage is still to set 'processing', nobody to set 'failed'.     *)
THEOREM ReadyStays == Spec => [][docStatus = "ready" /\ faults' = 0 => docStatus' = "ready"]_vars
<1>1. IInv /\ ReadyNeedsAllStages /\ UntilFault /\ [Next]_vars =>
        [docStatus = "ready" /\ faults' = 0 => docStatus' = "ready"]_vars
  BY NextFInv, ReadyIsKept DEF UntilFault
<1> QED
  BY <1>1, SpecUntilFault, PTL DEF Spec
=============================================================================
