--------------------------- MODULE ProgressProofs ---------------------------
(***************************************************************************)
(* Proofs about Progress: watching does not disturb the consumers, and no  *)
(* browser is ever told more than has happened, whatever crashes, is lost  *)
(* or overtakes.                                                           *)
(***************************************************************************)
EXTENDS Progress, StageConsumerProofs, SequenceTheorems

LEMMA ProgressStepRefines == [ProgressNext]_progressVars => [Next]_vars
<1>1. ASSUME NEW x \in Slots, Work(x) \/ disturbed(x) PROVE [Next]_vars
  <2>1. CASE handler_done(x)
    BY <2>1 DEF handler_done, Next, Consume
  <2>2. CASE publish(x)
    BY <2>2 DEF publish
  <2>3. CASE carry_on(x)
    BY <2>3 DEF carry_on, Next
  <2>4. CASE disturbed(x)
    BY <2>4 DEF disturbed, Next
  <2> QED
    BY <1>1, <2>1, <2>2, <2>3, <2>4 DEF Work
<1>2. CASE Relay
  BY <1>2 DEF Relay, snapshot_status, snapshot_stages, subscribe, Api
<1>3. ASSUME NEW f \in Fetches, Request(f) \/ open_page(f) PROVE UNCHANGED vars
  BY <1>3 DEF Request, list_documents, detail_status, detail_stages, patch, open_page,
     Api, Browser
<1>4. CASE Listen
  BY <1>4 DEF Listen, on_snapshot, on_progress, Browser
<1>5. CASE UNCHANGED progressVars
  BY <1>5 DEF progressVars
<1> QED
  BY <1>1, <1>2, <1>3, <1>4, <1>5 DEF ProgressNext

(* Events, streams and browsers leave the consumers' protocol as it is.    *)
THEOREM ProgressImplements == ProgressSpec => Spec
<1>1. ProgressInit => Init
  BY DEF ProgressInit
<1> QED
  BY <1>1, ProgressStepRefines, PTL DEF ProgressSpec, Spec

-----------------------------------------------------------------------------

(* Until a fault happens: how the document ended, and the rows that        *)
(* explain it are in the store, and in the body if it has rows at all.     *)
Explained(body) ==
  /\ body.status = "ready" =>
       \A s \in Path \ {TERMINAL_STAGE} :
         row[s] = "succeeded" /\ (body.rows # NoRows => body.rows[s] = "succeeded")
  /\ body.status = "failed" =>
       /\ \E s \in Stages : row[s] = "failed"
       /\ body.rows # NoRows => \E s \in Stages : body.rows[s] = "failed"
  /\ body.status = "quarantined" => docFamily = Unsupported

(* What the store may say, now or before: nothing that is not done.        *)
Earned(body) ==
  /\ \A s \in Stages : body.rows[s] = "succeeded" => s \in done
  /\ body.status = "ready" => Path \ {TERMINAL_STAGE} \subseteq done
  /\ faults = 0 => Explained(body)

EarnedBodies == {body \in Bodies : Earned(body)}

(* Everything on its way to the browser was read from the store.           *)
WInv ==
  /\ view \in EarnedBodies
  /\ head \in EarnedBodies
  /\ fetch \in [Fetches -> [what : {"idle", "list", "detail", "stages", "answer"},
                            body : EarnedBodies]]
  /\ stream \in Seq([type : {"snapshot", "progress"}, body : EarnedBodies, event : Events])
  /\ announce \in [Slots -> Seq(Events)]

(* The parts of the consumers' invariant that the store's answers rest on. *)
StoreInv == IInv /\ ReadyNeedsAllStages /\ UntilFault

(* The family of a document is never changed, nor a completion forgotten.  *)
LEMMA DoneGrows ==
  ASSUME [Next]_vars
  PROVE  docFamily' = docFamily /\ done \subseteq done'
BY DEF Next, vars, Consume, Disturb, Deliver, begin_stage, HandlerSucceeds, HandlerRaises,
   Quarantine, complete_stage, mark_dispatched, PublishFollower, fail_stage_retry,
   PublishRetry, Expire, fail_stage_dead, fail_document, dead_letter, Ack, Crash,
   LoseConnection, Reject

(* What was earned stays so. *)
LEMMA EarnedGrows ==
  ASSUME StoreInv, [Next]_vars
  PROVE  EarnedBodies \subseteq EarnedBodies'
<1> SUFFICES ASSUME NEW body \in EarnedBodies PROVE Earned(body)'
  BY DEF EarnedBodies
<1>1. docFamily' = docFamily /\ done \subseteq done'
  BY DoneGrows
<1>2. ASSUME faults' = 0 PROVE Explained(body)'
  <2>1. faults = 0 /\ FInv
    BY <1>2, NextFInv DEF StoreInv, UntilFault
  <2>2. \A s \in Stages : row[s] \in {"succeeded", "failed"} => row'[s] = row[s]
    BY <1>2, <2>1, OutcomesStay DEF StoreInv
  <2>3. Path \subseteq Stages
    BY PathInStages DEF Path
  <2>4. Explained(body)
    BY <2>1 DEF EarnedBodies, Earned
  <2> QED
    BY <1>1, <2>2, <2>3, <2>4 DEF Explained, Path
<1> QED
  BY <1>1, <1>2 DEF EarnedBodies, Earned, Path

LEMMA NoBodyEarned == NoBody \in EarnedBodies
BY DEF NoBody, NoRows, Body, Bodies, EarnedBodies, Earned, Explained, RowStatus, DocStatus

(* The two statements of document_detail, and the one of the list.         *)
LEMMA AnswersEarned ==
  ASSUME StoreInv
  PROVE  /\ Body(docStatus, NoRows) \in EarnedBodies
         /\ \A body \in EarnedBodies :
              Body(body.status, Reported(row)) \in EarnedBodies
<1>1. row \in [Stages -> RowStatus] /\ docStatus \in DocStatus /\ Path \subseteq Stages
  BY PathInStages DEF StoreInv, IInv, TypeOK, Path
<1>2. Body(docStatus, NoRows) \in EarnedBodies
  <2>1. ASSUME faults = 0 PROVE Explained(Body(docStatus, NoRows))
    <3>1. FInv /\ StatusMatches /\ ReadyNeedsAllStages
      BY <2>1 DEF StoreInv, UntilFault
    <3> QED
      BY <3>1 DEF Explained, Body, FInv, DoneStays, StatusMatches, ReadyNeedsAllStages
  <2> QED
    BY <1>1, <2>1 DEF StoreInv, ReadyNeedsAllStages, Body, NoRows, Bodies, EarnedBodies,
       Earned, RowStatus
<1>3. ASSUME NEW body \in EarnedBodies
      PROVE  Body(body.status, Reported(row)) \in EarnedBodies
  <2>1. Reported(row) \in [Stages -> RowStatus]
    BY <1>1 DEF Reported, RowStatus
  <2>2. \A s \in Stages : /\ Reported(row)[s] = "succeeded" => s \in done
                          /\ row[s] \in {"succeeded", "failed"} => Reported(row)[s] = row[s]
    BY <1>1 DEF Reported, StoreInv, IInv, DoneClosed
  <2>3. faults = 0 => Explained(Body(body.status, Reported(row)))
    BY <1>1, <2>2 DEF EarnedBodies, Earned, Explained, Body
  <2> QED
    BY <1>3, <2>1, <2>2, <2>3 DEF Body, Bodies, EarnedBodies, Earned
<1> QED
  BY <1>2, <1>3

LEMMA LongerAlphabet ==
  ASSUME NEW S, NEW T, S \subseteq T, NEW q \in Seq(S)
  PROVE  q \in Seq(T)
<1>1. Len(q) \in Nat /\ q \in [1 .. Len(q) -> S]
  OBVIOUS
<1>2. q \in [1 .. Len(q) -> T]
  BY <1>1
<1> QED
  BY <1>1, <1>2

LEMMA InitWInv == ProgressInit => WInv
BY NoBodyEarned DEF ProgressInit, WInv, NoFetch

(* No field of the watching side is touched, but its bodies stay earned.   *)
LEMMA WatchingKept ==
  ASSUME StoreInv, WInv, [Next]_vars
  PROVE  /\ view \in EarnedBodies'
         /\ head \in EarnedBodies'
         /\ fetch \in [Fetches -> [what : {"idle", "list", "detail", "stages", "answer"},
                                   body : EarnedBodies']]
         /\ stream \in Seq([type : {"snapshot", "progress"}, body : EarnedBodies',
                            event : Events])
<1>1. EarnedBodies \subseteq EarnedBodies'
  BY EarnedGrows
<1> DEFINE Items(B) == [type : {"snapshot", "progress"}, body : B, event : Events]
           Fetched(B) == [what : {"idle", "list", "detail", "stages", "answer"}, body : B]
<1>2. Items(EarnedBodies) \subseteq Items(EarnedBodies')
  BY <1>1
<1>3. Fetched(EarnedBodies) \subseteq Fetched(EarnedBodies')
  BY <1>1
<1>4. fetch \in [Fetches -> Fetched(EarnedBodies')]
  BY <1>3 DEF WInv
<1>5. stream \in Seq(Items(EarnedBodies'))
  <2>1. stream \in Seq(Items(EarnedBodies))
    BY DEF WInv
  <2> HIDE DEF Items
  <2> QED
    BY <2>1, <1>2, LongerAlphabet
<1> QED
  BY <1>1, <1>4, <1>5 DEF WInv

-----------------------------------------------------------------------------

(* A worker's step: it adds to the stream an event that carries no body.   *)
LEMMA WorkerWInv ==
  ASSUME StoreInv, WInv, [Next]_vars, NEW x \in Slots, Work(x) \/ disturbed(x)
  PROVE  WInv'
<1>0. msg[x].stage \in Stages /\ announce \in [Slots -> Seq(Events)]
  BY DEF StoreInv, IInv, TypeOK, WInv
<1>1. CASE handler_done(x)
  <2>1. EventsOf(msg[x].stage) \in Seq(Events) /\ <<"quarantined">> \in Seq(Events)
    <3>1. msg[x].stage \in Events /\ "ready" \in Events /\ "quarantined" \in Events
      BY <1>0 DEF Events
    <3>2. <<msg[x].stage>> \in Seq(Events) /\ <<msg[x].stage, "ready">> \in Seq(Events)
      BY <3>1
    <3> QED
      BY <3>1, <3>2 DEF EventsOf
  <2>2. announce' \in [Slots -> Seq(Events)]
    BY <1>0, <1>1, <2>1 DEF handler_done
  <2> QED
    BY <1>1, <2>2, WatchingKept DEF handler_done, watching, WInv
<1>2. CASE publish(x)
  <2> DEFINE Item == [type : {"snapshot", "progress"}, body : EarnedBodies', event : Events]
  <2>1. announce[x] \in Seq(Events) /\ announce[x] # <<>>
    BY <1>0, <1>2 DEF publish
  <2>2. Tail(announce[x]) \in Seq(Events) /\ Head(announce[x]) \in Events
    BY <2>1
  <2>3. announce' \in [Slots -> Seq(Events)]
    BY <1>0, <1>2, <2>2 DEF publish
  <2>4. Event(Head(announce[x])) \in Item
    BY <2>2, NoBodyEarned, EarnedGrows DEF Event
  <2>5. stream \in Seq(Item)
    BY WatchingKept
  <2>6. stream' \in Seq(Item)
    <3> HIDE DEF Item
    <3> QED
      BY <1>2, <2>4, <2>5 DEF publish
  <2> QED
    BY <1>2, <2>3, <2>6, WatchingKept DEF publish, WInv
<1>3. CASE carry_on(x)
  BY <1>0, <1>3, WatchingKept DEF carry_on, watching, WInv
<1>4. CASE disturbed(x)
  <2>1. announce' \in [Slots -> Seq(Events)]
    BY <1>0, <1>4 DEF disturbed
  <2> QED
    BY <1>4, <2>1, WatchingKept DEF disturbed, watching, WInv
<1> QED
  BY <1>1, <1>2, <1>3, <1>4 DEF Work

(* A step of the API: what it adds was read from the store just now.       *)
LEMMA ApiWInv ==
  ASSUME StoreInv, WInv, [Next]_vars,
         \/ Relay
         \/ \E f \in Fetches : list_documents(f) \/ detail_status(f) \/ detail_stages(f)
  PROVE  WInv'
<1>0. Api /\ announce' \in [Slots -> Seq(Events)]
  BY DEF Relay, snapshot_status, snapshot_stages, subscribe, list_documents, detail_status,
     detail_stages, Api, WInv
<1>a. NoBody \in EarnedBodies' /\ EarnedBodies \subseteq EarnedBodies'
  BY NoBodyEarned, EarnedGrows
<1>b. \A body \in EarnedBodies : /\ document_detail(1, body) \in EarnedBodies'
                                /\ document_detail(2, body) \in EarnedBodies'
  BY <1>a, AnswersEarned DEF document_detail
<1>1. CASE snapshot_status
  BY <1>0, <1>1, <1>b, NoBodyEarned, WatchingKept DEF snapshot_status, Api, WInv
<1>2. CASE snapshot_stages
  <2> DEFINE Item == [type : {"snapshot", "progress"}, body : EarnedBodies', event : Events]
  <2>1. Snapshot(document_detail(2, head)) \in Item
    BY <1>b, GraphAssumption DEF Snapshot, WInv, Events
  <2>2. stream \in Seq(Item)
    BY WatchingKept
  <2>3. stream' \in Seq(Item)
    <3> HIDE DEF Item
    <3> QED
      BY <1>2, <2>1, <2>2 DEF snapshot_stages
  <2> QED
    BY <1>0, <1>2, <1>a, <2>3, WatchingKept DEF snapshot_stages, Api, WInv
<1>3. CASE subscribe
  BY <1>0, <1>3, WatchingKept DEF subscribe, Api, WInv
<1>4. ASSUME NEW f \in Fetches, list_documents(f) \/ detail_status(f) \/ detail_stages(f)
      PROVE  WInv'
  <2>1. fetch[f].body \in EarnedBodies
    BY DEF WInv
  <2>2. PICK body \in EarnedBodies', to \in {"answer", "stages"} :
          fetch' = [fetch EXCEPT ![f] = [what |-> to, body |-> body]]
    BY <1>4, <1>a, <1>b, <2>1, NoBodyEarned, AnswersEarned
       DEF list_documents, detail_status, detail_stages, Fetch
  <2>3. UNCHANGED <<view, head, stream>>
    BY <1>4 DEF list_documents, detail_status, detail_stages, Api
  <2> QED
    BY <1>0, <2>2, <2>3, WatchingKept DEF WInv
<1> QED
  BY <1>1, <1>2, <1>3, <1>4 DEF Relay

(* A step of the browser: it only moves bodies it was sent.                *)
LEMMA BrowserWInv ==
  ASSUME StoreInv, WInv, [Next]_vars,
         Listen \/ \E f \in Fetches : patch(f) \/ open_page(f)
  PROVE  WInv'
<1> DEFINE Item == [type : {"snapshot", "progress"}, body : EarnedBodies', event : Events]
<1>0. Browser /\ announce' \in [Slots -> Seq(Events)]
  BY DEF Listen, on_snapshot, on_progress, patch, open_page, Browser, WInv
<1>a. NoBody \in EarnedBodies' /\ EarnedBodies \subseteq EarnedBodies'
  BY NoBodyEarned, EarnedGrows
<1>b. /\ stream \in Seq(Item)
      /\ stream # <<>> => Head(stream) \in Item /\ Tail(stream) \in Seq(Item)
  <2>1. stream \in Seq(Item)
    BY WatchingKept
  <2> HIDE DEF Item
  <2> QED
    BY <2>1
<1>c. ASSUME NEW body \in EarnedBodies', NEW rest \in Seq(Item), show(body, rest)
      PROVE  view' \in EarnedBodies' /\ head' \in EarnedBodies' /\ stream' \in Seq(Item)
  <2>1. view' \in EarnedBodies' /\ head' \in EarnedBodies'
    BY <1>c, <1>a, WatchingKept DEF show
  <2>2. stream' = rest \/ stream' = <<>>
    BY <1>c DEF show
  <2>3. <<>> \in Seq(Item)
    <3> HIDE DEF Item
    <3> QED
      OBVIOUS
  <2>4. stream' \in Seq(Item)
    BY <1>c, <2>2, <2>3
  <2> QED
    BY <2>1, <2>4
<1>1. CASE on_snapshot
  <2>1. Head(stream).body \in EarnedBodies'
    BY <1>1, <1>b DEF on_snapshot
  <2> QED
    BY <1>0, <1>1, <1>b, <1>c, <2>1, WatchingKept DEF on_snapshot, WInv
<1>2. ASSUME NEW f \in Fetches, on_progress(f) PROVE WInv'
  <2>1. PICK to \in {"detail", "list"} :
          fetch' = [fetch EXCEPT ![f] = [what |-> to, body |-> NoBody]]
    BY <1>2 DEF on_progress, Fetch
  <2> QED
    BY <1>0, <1>2, <1>a, <1>b, <2>1, WatchingKept DEF on_progress, WInv
<1>3. ASSUME NEW f \in Fetches, patch(f) PROVE WInv'
  <2>1. fetch' = [fetch EXCEPT ![f] = [what |-> "idle", body |-> NoBody]]
    BY <1>3 DEF patch, Fetch
  <2>2. fetch[f].body \in EarnedBodies'
    BY <1>a DEF WInv
  <2>3. view' \in EarnedBodies' /\ head' \in EarnedBodies' /\ stream' \in Seq(Item)
    BY <1>3, <1>b, <1>c, <2>2, WatchingKept DEF patch
  <2> QED
    BY <1>0, <1>a, <2>1, <2>3, WatchingKept DEF WInv
<1>4. ASSUME NEW f \in Fetches, open_page(f) PROVE WInv'
  <2>1. fetch' = [fetch EXCEPT ![f] = [what |-> "list", body |-> NoBody]]
    BY <1>4 DEF open_page, Fetch
  <2> QED
    BY <1>0, <1>4, <1>a, <2>1, WatchingKept DEF open_page, WInv
<1> QED
  BY <1>1, <1>2, <1>3, <1>4 DEF Listen

LEMMA NextWInv == StoreInv /\ WInv /\ [ProgressNext]_progressVars => WInv'
<1> SUFFICES ASSUME StoreInv, WInv, [ProgressNext]_progressVars PROVE WInv'
  OBVIOUS
<1>0. [Next]_vars
  BY ProgressStepRefines
<1>1. CASE \E x \in Slots : Work(x) \/ disturbed(x)
  BY <1>0, <1>1, WorkerWInv
<1>2. CASE Relay \/ \E f \in Fetches : list_documents(f) \/ detail_status(f) \/ detail_stages(f)
  BY <1>0, <1>2, ApiWInv
<1>3. CASE Listen \/ \E f \in Fetches : patch(f) \/ open_page(f)
  BY <1>0, <1>3, BrowserWInv
<1>4. CASE UNCHANGED progressVars
  BY <1>0, <1>4, WatchingKept DEF progressVars, watching, WInv
<1> QED
  BY <1>1, <1>2, <1>3, <1>4 DEF ProgressNext, Request

LEMMA SpecWInv == ProgressSpec => [](StoreInv /\ WInv)
<1>1. ProgressSpec => []StoreInv
  BY SpecUntilFault, ProgressImplements, PTL DEF StoreInv
<1> QED
  BY <1>1, InitWInv, NextWInv, PTL DEF ProgressSpec

(* The browser never runs ahead of the store: what it shows was read from  *)
(* it, and what was true of it stays earned.                               *)
THEOREM ShownCorrect == ProgressSpec => []ShownIsEarned
<1>1. WInv => ShownIsEarned
  BY DEF WInv, EarnedBodies, Earned, ShownIsEarned
<1> QED
  BY <1>1, SpecWInv, PTL

(* A browser is shown why the document ended as it did, as long as no      *)
(* fault takes rows back: the rows are read after the status, and outcomes *)
(* stay.                                                                   *)
THEOREM ExplainedCorrect == ProgressSpec => []EndIsExplained
<1>1. WInv => EndIsExplained
  BY DEF WInv, EarnedBodies, Earned, Explained, EndIsExplained
<1> QED
  BY <1>1, SpecWInv, PTL

-----------------------------------------------------------------------------
(* Types *)

(* The parts of ProgressTypeOK that WInv does not give: where coroutines   *)
(* stand that have events to publish, and when a stream is empty.          *)
PlacesOK ==
  /\ \A x \in Slots : announce[x] # <<>> => pc[x] \in {"complete", "fail_dead"}
  /\ relay \in {"closed", "open", "stages", "subscribe", "live"}
  /\ relay = "closed" => stream = <<>>
  /\ heard \in BOOLEAN
  /\ lost \in 0 .. MaxTrouble

LEMMA InitPlacesOK == ProgressInit => PlacesOK
<1>1. 0 \in 0 .. MaxTrouble
  BY ProgressAssumption
<1> QED
  BY <1>1 DEF ProgressInit, PlacesOK

LEMMA LoseCounts ==
  ASSUME StoreInv, PlacesOK, Lose
  PROVE  lost' \in 0 .. MaxTrouble
<1>1. faults \in Nat /\ lost \in 0 .. MaxTrouble /\ MaxTrouble \in Nat
  BY ConsumerAssumption, ProgressAssumption DEF StoreInv, IInv, TypeOK, PlacesOK
<1> QED
  BY <1>1 DEF Lose, Spared

(* A coroutine that has published everything is the only one to move on.   *)
LEMMA WorkerPlaces ==
  ASSUME StoreInv, WInv, PlacesOK, NEW x \in Slots, Work(x) \/ disturbed(x)
  PROVE  PlacesOK'
<1>0. /\ TypeOK /\ announce \in [Slots -> Seq(Events)]
      /\ pc \in [Slots -> {"free"} \cup Waiting \cup Held]
  BY DEF StoreInv, IInv, TypeOK, WInv
<1>1. ASSUME UNCHANGED watching PROVE (\A y \in Slots : announce'[y] # <<>> =>
                                          pc'[y] \in {"complete", "fail_dead"}) => PlacesOK'
  BY <1>1 DEF watching, PlacesOK
<1>2. ASSUME Consume(x) \/ Disturb(x),
             \A y \in Slots \ {x} : announce'[y] = announce[y],
             announce'[x] # <<>> => pc'[x] \in {"complete", "fail_dead"}
      PROVE  \A y \in Slots : announce'[y] # <<>> => pc'[y] \in {"complete", "fail_dead"}
  BY <1>0, <1>2, OthersKeep DEF PlacesOK
<1>3. CASE handler_done(x)
  <2>1. pc'[x] \in {"complete", "fail_dead"}
    BY <1>0, <1>3 DEF handler_done, HandlerSucceeds, Quarantine, Goto
  <2>2. \A y \in Slots \ {x} : announce'[y] = announce[y]
    BY <1>0, <1>3 DEF handler_done
  <2> QED
    BY <1>1, <1>2, <1>3, <2>1, <2>2 DEF handler_done, Consume
<1>4. CASE publish(x)
  <2>1. \A y \in Slots : announce'[y] # <<>> => announce[y] # <<>>
    BY <1>0, <1>4 DEF publish
  <2>2. lost' \in 0 .. MaxTrouble
    BY <1>4, LoseCounts DEF publish, PlacesOK
  <2> QED
    BY <1>4, <2>1, <2>2 DEF publish, vars, PlacesOK
<1>5. CASE carry_on(x)
  BY <1>1, <1>2, <1>5 DEF carry_on
<1>6. CASE disturbed(x)
  <2>1. \A y \in Slots \ {x} : announce'[y] = announce[y]
    BY <1>0, <1>6 DEF disturbed
  <2>2. announce'[x] # <<>> => pc'[x] \in {"complete", "fail_dead"}
    BY <1>0, <1>6 DEF disturbed, PlacesOK
  <2> QED
    BY <1>1, <1>2, <1>6, <2>1, <2>2 DEF disturbed
<1> QED
  BY <1>3, <1>4, <1>5, <1>6 DEF Work

LEMMA NextPlacesOK ==
  ASSUME StoreInv, WInv, PlacesOK, [ProgressNext]_progressVars
  PROVE  PlacesOK'
<1>1. CASE \E x \in Slots : Work(x) \/ disturbed(x)
  BY <1>1, WorkerPlaces
<1>2. CASE Relay
  BY <1>2, LoseCounts
  DEF Relay, snapshot_status, snapshot_stages, subscribe, Api, vars, PlacesOK
<1>3. CASE \E f \in Fetches : list_documents(f) \/ detail_status(f) \/ detail_stages(f)
  BY <1>3 DEF list_documents, detail_status, detail_stages, Api, vars, PlacesOK
<1>4. CASE on_snapshot
  BY <1>4 DEF on_snapshot, show, Browser, vars, PlacesOK
<1>5. ASSUME NEW f \in Fetches, on_progress(f) \/ open_page(f) PROVE PlacesOK'
  BY <1>5 DEF on_progress, open_page, Browser, vars, PlacesOK
<1>6. ASSUME NEW f \in Fetches, patch(f) PROVE PlacesOK'
  <2>1. lost' \in 0 .. MaxTrouble
    BY <1>6, LoseCounts DEF patch, PlacesOK
  <2> QED
    BY <1>6, <2>1 DEF patch, show, Browser, vars, PlacesOK
<1>7. CASE UNCHANGED progressVars
  BY <1>7 DEF progressVars, watching, vars, PlacesOK
<1> QED
  BY <1>1, <1>2, <1>3, <1>4, <1>5, <1>6, <1>7 DEF ProgressNext, Request, Listen

LEMMA SpecPlacesOK == ProgressSpec => []PlacesOK
<1>1. StoreInv /\ WInv /\ PlacesOK /\ [ProgressNext]_progressVars => PlacesOK'
  BY NextPlacesOK
<1> QED
  BY <1>1, InitPlacesOK, SpecWInv, PTL DEF ProgressSpec

(* Events are published before their coroutine goes on, and nothing is on  *)
(* a stream that is not open, whatever crashes or is lost.                 *)
THEOREM ProgressTypeCorrect == ProgressSpec => []ProgressTypeOK
<1>1. WInv /\ PlacesOK => ProgressTypeOK
  <2> SUFFICES ASSUME WInv, PlacesOK PROVE ProgressTypeOK
    OBVIOUS
  <2>1. EarnedBodies \subseteq Bodies
    BY DEF EarnedBodies
  <2> DEFINE Items(B) == [type : {"snapshot", "progress"}, body : B, event : Events]
  <2>2. stream \in Seq(Items(Bodies))
    <3>1. stream \in Seq(Items(EarnedBodies)) /\ Items(EarnedBodies) \subseteq Items(Bodies)
      BY <2>1 DEF WInv
    <3> HIDE DEF Items
    <3> QED
      BY <3>1, LongerAlphabet
  <2> QED
    BY <2>1, <2>2 DEF WInv, PlacesOK, ProgressTypeOK
<1> QED
  BY <1>1, SpecWInv, SpecPlacesOK, PTL

-----------------------------------------------------------------------------
(* Sequences, by what is on them *)

LEMMA RangeOfEmpty == Range(<<>>) = {}
BY DEF Range

LEMMA RangeOfAppend ==
  ASSUME NEW S, NEW q \in Seq(S), NEW e \in S
  PROVE  Range(Append(q, e)) = Range(q) \cup {e}
<1>1. Range(q) = {q[i] : i \in 1 .. Len(q)} /\ Len(q) \in Nat
  BY RangeEquality
<1>2. Append(q, e) \in Seq(S) /\ Len(Append(q, e)) = Len(q) + 1
  BY AppendProperties
<1>3. Range(Append(q, e)) = {Append(q, e)[i] : i \in 1 .. Len(q) + 1}
  BY <1>2, RangeEquality
<1>4. /\ \A i \in 1 .. Len(q) : Append(q, e)[i] = q[i]
      /\ Append(q, e)[Len(q) + 1] = e
  BY AppendProperties
<1> QED
  BY <1>1, <1>3, <1>4

LEMMA RangeOfTail ==
  ASSUME NEW S, NEW q \in Seq(S), q # <<>>
  PROVE  Range(q) = {Head(q)} \cup Range(Tail(q))
<1>1. Range(q) = {q[i] : i \in 1 .. Len(q)} /\ Len(q) \in Nat \ {0}
  BY RangeEquality, EmptySeq
<1>2. /\ Tail(q) \in Seq(S) /\ Len(Tail(q)) = Len(q) - 1
      /\ \A i \in 1 .. Len(q) - 1 : Tail(q)[i] = q[i + 1]
      /\ Head(q) = q[1]
  BY HeadTailProperties
<1>3. Range(Tail(q)) = {Tail(q)[i] : i \in 1 .. Len(q) - 1}
  BY <1>2, RangeEquality
<1>4. ASSUME NEW i \in 1 .. Len(q) PROVE q[i] \in {Head(q)} \cup Range(Tail(q))
  <2>1. CASE i = 1
    BY <2>1, <1>2
  <2>2. CASE i # 1
    <3>1. i - 1 \in 1 .. Len(q) - 1 /\ q[i] = Tail(q)[i - 1]
      BY <1>1, <1>2, <2>2
    <3> QED
      BY <3>1, <1>3
  <2> QED
    BY <2>1, <2>2
<1>5. ASSUME NEW i \in 1 .. Len(q) - 1 PROVE Tail(q)[i] \in Range(q)
  <2>1. i + 1 \in 1 .. Len(q) /\ Tail(q)[i] = q[i + 1]
    BY <1>1, <1>2
  <2> QED
    BY <2>1, <1>1
<1>6. Head(q) \in Range(q)
  BY <1>1, <1>2
<1> QED
  BY <1>1, <1>3, <1>4, <1>5, <1>6

-----------------------------------------------------------------------------
(* What has been heard gets shown *)

(* 'ready' is announced, and heard, only when the document is ready. *)
ReadyIsTrue ==
  /\ \A x \in Slots : "ready" \in Range(announce[x]) => docStatus = "ready"
  /\ heard => docStatus = "ready"

(* What is on its way has a status the store had. *)
Answered ==
  /\ relay = "stages" => head.status # "absent"
  /\ \A f \in Fetches : fetch[f].what \in {"stages", "answer"} => fetch[f].body.status # "absent"
  /\ \A item \in Range(stream) : item.type = "snapshot" => item.body.status # "absent"

(* An item of the stream that makes the browser show 'ready', or ask. *)
Telling(item) == item.type = "progress" \/ item.body.status = "ready"

(* A request that was answered 'ready', or is going to be. *)
Promising(f) ==
  \/ fetch[f].what \in {"list", "detail"}
  \/ fetch[f].what \in {"stages", "answer"} /\ fetch[f].body.status = "ready"

(* 'ready' is shown, or on its way, or will be asked for. *)
Promised ==
  \/ view.status = "ready"
  \/ relay = "open"
  \/ relay = "stages" /\ head.status = "ready"
  \/ \E item \in Range(stream) : Telling(item)
  \/ \E f \in Fetches : Promising(f)

PInv == Undisturbed => ReadyIsTrue /\ Answered /\ (heard => Promised)

Items == [type : {"snapshot", "progress"}, body : EarnedBodies, event : Events]

LEMMA InitPInv == ProgressInit => PInv
BY RangeOfEmpty DEF ProgressInit, PInv, ReadyIsTrue, Answered, NoFetch

(* Everything the proof of a step may use. *)
Steady == StoreInv /\ WInv /\ PInv /\ PlacesOK

(* Trouble only grows. *)
LEMMA UndisturbedBefore ==
  ASSUME Steady, [ProgressNext]_progressVars, Undisturbed'
  PROVE  /\ Undisturbed /\ FInv /\ StatusMatches /\ ReadyNeedsAllStages /\ IInv
         /\ ReadyIsTrue /\ Answered /\ (heard => Promised)
         /\ [Next]_vars /\ ~Lose
<1>1. [Next]_vars
  BY ProgressStepRefines
<1>2. faults = 0
  BY <1>1, NextFInv DEF Steady, StoreInv, UntilFault, Undisturbed
<1>3. lost \in Nat
  BY ProgressAssumption DEF Steady, PlacesOK
<1>4. ~Lose
  BY <1>3 DEF Lose, Undisturbed
<1>5. lost' = lost
  <2>1. CASE UNCHANGED progressVars
    BY <2>1 DEF progressVars, watching
  <2>2. ASSUME NEW x \in Slots, Work(x) \/ disturbed(x) PROVE lost' = lost
    BY <2>2, <1>4 DEF Work, handler_done, publish, carry_on, disturbed, watching
  <2>3. CASE Relay
    BY <2>3, <1>4 DEF Relay, snapshot_status, snapshot_stages, subscribe
  <2>4. ASSUME NEW f \in Fetches, Request(f) \/ open_page(f) PROVE lost' = lost
    BY <2>4, <1>4 DEF Request, list_documents, detail_status, detail_stages, patch, open_page
  <2>5. CASE Listen
    BY <2>5 DEF Listen, on_snapshot, on_progress
  <2> QED
    BY <2>1, <2>2, <2>3, <2>4, <2>5 DEF ProgressNext
<1>6. Undisturbed
  BY <1>2, <1>5 DEF Undisturbed
<1> QED
  BY <1>1, <1>2, <1>4, <1>6 DEF Steady, PInv, StoreInv, UntilFault

(* When the document is ready, no earlier answer says that it failed: what *)
(* is on its way says 'pending', 'processing' or 'ready'.                  *)
LEMMA ReadyOrBefore ==
  ASSUME StoreInv, faults = 0, docStatus = "ready",
         NEW body \in EarnedBodies, body.status # "absent"
  PROVE  body.status = "ready" \/ Streamed(body)
<1>1. IInv /\ FInv /\ StatusMatches /\ ReadyNeedsAllStages /\ Explained(body)
  BY DEF StoreInv, UntilFault, EarnedBodies, Earned
<1>2. docFamily \in Families /\ docFamily # Unsupported
  BY <1>1, ConsumerAssumption DEF IInv, FamilyIsKnown
<1>3. ASSUME body.status = "failed" PROVE FALSE
  <2>1. PICK s \in Stages : row[s] = "failed"
    BY <1>1, <1>3 DEF Explained
  <2>2. s \in Path
    BY <1>1, <1>2, <2>1, EntryOnPath DEF IInv, RowsOnTrack, OnTrack, Path
  <2>3. s \notin done
    BY <1>1, <2>1 DEF FInv, DoneStays
  <2>4. s = TERMINAL_STAGE
    BY <1>1, <2>2, <2>3 DEF ReadyNeedsAllStages
  <2>5. PICK y \in Slots : At(y, s, "complete")
    BY <1>1, <2>3, <2>4 DEF StatusMatches, Passed
  <2> QED
    BY <1>1, <2>1, <2>5 DEF At, FInv, RowMatches, RowFits
<1>4. body.status # "quarantined"
  BY <1>1, <1>2 DEF Explained
<1>5. body.status \in DocStatus \cup {"absent"}
  BY DEF EarnedBodies, Bodies
<1> QED
  BY <1>3, <1>4, <1>5 DEF DocStatus, Streamed

(* Showing a body leaves 'ready' promised if the body says so, or if       *)
(* something else that is kept does: another request, or the stream.       *)
LEMMA ShowPromised ==
  ASSUME StoreInv, faults = 0, docStatus = "ready",
         NEW body \in EarnedBodies, body.status # "absent", NEW rest, show(body, rest),
         \/ view.status = "ready"
         \/ relay = "open"
         \/ relay = "stages" /\ head.status = "ready"
         \/ body.status = "ready"
         \/ \E item \in Range(rest) : Telling(item)
         \/ \E f \in Fetches : Promising(f)'
  PROVE  Promised'
<1>1. CASE body.status = view.status
  BY <1>1 DEF show, Promised
<1>2. CASE body.status # view.status
  BY <1>2, ReadyOrBefore DEF show, Promised
<1> QED
  BY <1>1, <1>2

LEMMA WorkerPInv ==
  ASSUME Steady, [ProgressNext]_progressVars, Undisturbed',
         NEW x \in Slots, Work(x) \/ disturbed(x)
  PROVE  ReadyIsTrue' /\ Answered' /\ (heard' => Promised')
<1>0. /\ Undisturbed /\ FInv /\ StatusMatches /\ ReadyNeedsAllStages /\ IInv
      /\ ReadyIsTrue /\ Answered /\ (heard => Promised)
      /\ [Next]_vars /\ ~Lose
  BY UndisturbedBefore
<1>1. docStatus = "ready" => docStatus' = "ready"
  BY <1>0, ReadyIsKept DEF Undisturbed
<1>2. /\ announce \in [Slots -> Seq(Events)] /\ stream \in Seq(Items)
      /\ msg[x].stage \in Stages
  BY <1>0 DEF Steady, WInv, Items, IInv, TypeOK
<1>3. ASSUME UNCHANGED watching PROVE Answered' /\ (heard' => heard /\ Promised')
  BY <1>0, <1>3 DEF watching, Answered, Promised, Promising
<1>4. CASE handler_done(x)
  <2>1. "ready" \in Range(announce'[x]) => docStatus' = "ready"
    <3>1. CASE HandlerSucceeds(x) /\ msg[x].stage = TERMINAL_STAGE
      BY <3>1 DEF HandlerSucceeds, StatusAfter
    <3>2. CASE HandlerSucceeds(x) /\ msg[x].stage # TERMINAL_STAGE /\ ~Quarantine(x)
      <4>1. announce'[x] = <<msg[x].stage>>
        BY <1>2, <1>4, <3>2 DEF handler_done, EventsOf
      <4>2. msg[x].stage # "ready"
        BY <1>2, ProgressAssumption
      <4> QED
        BY <4>1, <4>2 DEF Range
    <3>3. CASE Quarantine(x)
      <4>1. ~HandlerSucceeds(x)
        BY <3>3 DEF Quarantine, HandlerSucceeds, At
      <4>2. announce'[x] = <<"quarantined">>
        BY <1>2, <1>4, <4>1 DEF handler_done
      <4> QED
        BY <4>2 DEF Range
    <3> QED
      BY <1>4, <3>1, <3>2, <3>3 DEF handler_done
  <2>2. \A y \in Slots \ {x} : announce'[y] = announce[y]
    BY <1>2, <1>4 DEF handler_done
  <2>3. UNCHANGED watching
    BY <1>4 DEF handler_done
  <2> QED
    BY <1>0, <1>1, <1>3, <2>1, <2>2, <2>3 DEF ReadyIsTrue
<1>5. CASE publish(x)
  <2> DEFINE e == Head(announce[x])
  <2>1. /\ announce[x] \in Seq(Events) /\ announce[x] # <<>>
        /\ announce' = [announce EXCEPT ![x] = Tail(@)]
        /\ UNCHANGED <<vars, relay, head, fetch, view>>
    BY <1>2, <1>5 DEF publish
  <2>2. Range(announce[x]) = {e} \cup Range(Tail(announce[x])) /\ e \in Events
    BY <2>1, RangeOfTail, HeadTailProperties
  <2>3. \A y \in Slots : Range(announce'[y]) \subseteq Range(announce[y])
    BY <1>2, <2>1, <2>2
  <2>4. docStatus' = docStatus
    BY <2>1 DEF vars
  <2>5. CASE relay = "live" /\ stream' = Append(stream, Event(e)) /\ heard' = (heard \/ e = "ready")
    <3>1. Event(e) \in Items
      BY <2>2, NoBodyEarned DEF Event, Items
    <3>2. Range(stream') = Range(stream) \cup {Event(e)}
      BY <1>2, <2>5, <3>1, RangeOfAppend
    <3>3. Telling(Event(e)) /\ Event(e).type # "snapshot"
      BY DEF Telling, Event
    <3>4. ReadyIsTrue'
      BY <1>0, <2>2, <2>3, <2>4, <2>5 DEF ReadyIsTrue
    <3>5. Answered'
      BY <1>0, <2>1, <3>2, <3>3 DEF Answered
    <3> QED
      BY <3>2, <3>3, <3>4, <3>5 DEF Promised
  <2>6. CASE UNCHANGED <<stream, heard>>
    BY <1>0, <2>1, <2>3, <2>4, <2>6 DEF ReadyIsTrue, Answered, Promised, Promising
  <2> QED
    BY <1>0, <1>5, <2>5, <2>6 DEF publish
<1>6. CASE carry_on(x) \/ disturbed(x)
  <2>1. UNCHANGED watching
    BY <1>6 DEF carry_on, disturbed
  <2>2. \A y \in Slots : announce'[y] = announce[y] \/ announce'[y] = <<>>
    BY <1>2, <1>6 DEF carry_on, disturbed
  <2> QED
    BY <1>0, <1>1, <1>3, <2>1, <2>2, RangeOfEmpty DEF ReadyIsTrue
<1> QED
  BY <1>4, <1>5, <1>6 DEF Work

(* The API turns one promise into the next: the snapshot reads the status  *)
(* a new stream was opened for, and a request reads 'ready' when it is.    *)
LEMMA ApiPInv ==
  ASSUME Steady, [ProgressNext]_progressVars, Undisturbed',
         \/ Relay
         \/ \E f \in Fetches : list_documents(f) \/ detail_status(f) \/ detail_stages(f)
  PROVE  ReadyIsTrue' /\ Answered' /\ (heard' => Promised')
<1>0. /\ Undisturbed /\ IInv /\ ReadyIsTrue /\ Answered /\ (heard => Promised) /\ ~Lose
  BY UndisturbedBefore
<1>1. UNCHANGED <<vars, announce, view, heard>>
  BY DEF Relay, snapshot_status, snapshot_stages, subscribe, list_documents, detail_status,
     detail_stages, Api
<1>2. docStatus' = docStatus /\ docStatus # "absent" /\ ReadyIsTrue'
  BY <1>0, <1>1 DEF vars, ReadyIsTrue, IInv, TypeOK, DocStatus
<1>3. stream \in Seq(Items) /\ head \in EarnedBodies
      /\ fetch \in [Fetches -> [what : {"idle", "list", "detail", "stages", "answer"},
                               body : EarnedBodies]]
  BY DEF Steady, WInv, Items
<1>4. CASE snapshot_status
  <2>1. relay' = "stages" /\ head'.status = docStatus /\ UNCHANGED <<stream, fetch>>
    BY <1>4 DEF snapshot_status, document_detail, Body
  <2>2. Answered'
    BY <1>0, <1>2, <2>1 DEF Answered
  <2>3. heard' => Promised'
    BY <1>0, <1>1, <2>1 DEF Promised, ReadyIsTrue
  <2> QED
    BY <1>2, <2>2, <2>3
<1>5. CASE snapshot_stages
  <2> DEFINE item == Snapshot(document_detail(2, head))
  <2>1. /\ relay = "stages" /\ relay' = "subscribe" /\ fetch' = fetch
        /\ stream' = Append(stream, item)
    BY <1>0, <1>5 DEF snapshot_stages
  <2>2. /\ item.type = "snapshot" /\ item.body.status = head.status
        /\ item \in Items
    BY <1>3, AnswersEarned, GraphAssumption
    DEF Snapshot, document_detail, Body, Items, Steady, Events
  <2> HIDE DEF item
  <2>3. Range(stream') = Range(stream) \cup {item}
    BY <1>3, <2>1, <2>2, RangeOfAppend
  <2>4. Answered'
    BY <1>0, <2>1, <2>2, <2>3 DEF Answered
  <2>5. heard' => Promised'
    BY <1>0, <1>1, <2>1, <2>2, <2>3 DEF Promised, Promising, Telling
  <2> QED
    BY <1>2, <2>4, <2>5
<1>6. CASE subscribe
  BY <1>0, <1>1, <1>2, <1>6 DEF subscribe, Answered, Promised, Promising
<1>7. ASSUME NEW f \in Fetches, list_documents(f) \/ detail_status(f) \/ detail_stages(f)
      PROVE  Answered' /\ (heard' => Promised')
  <2>1. \E to \in {"answer", "stages"} : \E body :
          /\ fetch' = [fetch EXCEPT ![f] = [what |-> to, body |-> body]]
          /\ \/ body.status = docStatus
             \/ fetch[f].what = "stages" /\ body.status = fetch[f].body.status
    <3>1. CASE list_documents(f)
      <4> DEFINE b == Body(docStatus, NoRows)
      <4>1. b.status = docStatus
        BY DEF Body
      <4>2. fetch' = [fetch EXCEPT ![f] = [what |-> "answer", body |-> b]]
        BY <3>1 DEF list_documents, Fetch
      <4> HIDE DEF b
      <4> QED
        BY <4>1, <4>2
    <3>2. CASE detail_status(f)
      <4> DEFINE b == document_detail(1, NoBody)
      <4>1. b.status = docStatus
        BY DEF Body, document_detail
      <4>2. fetch' = [fetch EXCEPT ![f] = [what |-> "stages", body |-> b]]
        BY <3>2 DEF detail_status, Fetch
      <4> HIDE DEF b
      <4> QED
        BY <4>1, <4>2
    <3>3. CASE detail_stages(f)
      <4> DEFINE b == document_detail(2, fetch[f].body)
      <4>1. b.status = fetch[f].body.status
        BY DEF Body, document_detail
      <4>2. fetch' = [fetch EXCEPT ![f] = [what |-> "answer", body |-> b]] /\ fetch[f].what = "stages"
        BY <3>3 DEF detail_stages, Fetch
      <4> HIDE DEF b
      <4> QED
        BY <4>1, <4>2
    <3> QED
      BY <1>7, <3>1, <3>2, <3>3
  <2>2. PICK to \in {"answer", "stages"} : \E body :
          /\ fetch' = [fetch EXCEPT ![f] = [what |-> to, body |-> body]]
          /\ \/ body.status = docStatus
             \/ fetch[f].what = "stages" /\ body.status = fetch[f].body.status
    BY <2>1
  <2>3. PICK body :
          /\ fetch' = [fetch EXCEPT ![f] = [what |-> to, body |-> body]]
          /\ \/ body.status = docStatus
             \/ fetch[f].what = "stages" /\ body.status = fetch[f].body.status
    BY <2>2
  <2>4. UNCHANGED <<relay, head, stream>>
    BY <1>7 DEF list_documents, detail_status, detail_stages
  <2>5. /\ fetch'[f].what \in {"answer", "stages"} /\ fetch'[f].body.status = body.status
        /\ \A g \in Fetches \ {f} : fetch'[g] = fetch[g]
    BY <1>3, <2>3
  <2>6. Answered'
    BY <1>0, <1>2, <2>3, <2>4, <2>5 DEF Answered
  <2>7. heard /\ Promising(f) => Promising(f)'
    BY <1>0, <1>7, <2>3, <2>5
    DEF Promising, ReadyIsTrue, list_documents, detail_status, detail_stages, Fetch
  <2>8. \A g \in Fetches \ {f} : Promising(g) => Promising(g)'
    BY <2>5 DEF Promising
  <2>9. heard' => Promised'
    BY <1>0, <1>1, <2>4, <2>7, <2>8 DEF Promised
  <2> QED
    BY <2>6, <2>9
<1> QED
  BY <1>2, <1>4, <1>5, <1>6, <1>7 DEF Relay

(* The browser answers an event with a request, shows an answer, or drops  *)
(* the stream and opens another one.                                       *)
LEMMA BrowserPInv ==
  ASSUME Steady, [ProgressNext]_progressVars, Undisturbed',
         Listen \/ \E f \in Fetches : patch(f) \/ open_page(f)
  PROVE  ReadyIsTrue' /\ Answered' /\ (heard' => Promised')
<1>0. /\ Undisturbed /\ ReadyIsTrue /\ Answered /\ (heard => Promised) /\ ~Lose
      /\ StoreInv /\ faults = 0
  BY UndisturbedBefore DEF Steady, Undisturbed
<1>1. UNCHANGED <<vars, announce, heard>>
  BY DEF Listen, on_snapshot, on_progress, patch, open_page, Browser
<1>2. ReadyIsTrue' /\ (heard => docStatus = "ready")
  BY <1>0, <1>1 DEF vars, ReadyIsTrue
<1>3. stream \in Seq(Items)
      /\ fetch \in [Fetches -> [what : {"idle", "list", "detail", "stages", "answer"},
                               body : EarnedBodies]]
  BY DEF Steady, WInv, Items
<1>4. ASSUME stream # <<>>
      PROVE  /\ Range(stream) = {Head(stream)} \cup Range(Tail(stream))
             /\ Head(stream) \in Items
  BY <1>3, <1>4, RangeOfTail, HeadTailProperties
<1>5. CASE on_snapshot
  <2> DEFINE body == Head(stream).body
             rest == Tail(stream)
  <2>1. /\ Head(stream).type = "snapshot" /\ show(body, rest) /\ fetch' = fetch
        /\ Range(stream) = {Head(stream)} \cup Range(rest) /\ Head(stream) \in Items
    BY <1>4, <1>5 DEF on_snapshot
  <2>2. body \in EarnedBodies /\ body.status # "absent"
    BY <1>0, <2>1 DEF Answered, Items
  <2>3. Telling(Head(stream)) => body.status = "ready"
    BY <2>1 DEF Telling
  <2>4. Answered'
    BY <1>0, <2>1, RangeOfEmpty DEF Answered, show
  <2>5. \A f \in Fetches : Promising(f) => Promising(f)'
    BY <2>1 DEF Promising
  <2>6. ASSUME heard' PROVE Promised'
    <3>1. Promised /\ docStatus = "ready"
      BY <1>0, <1>1, <1>2, <2>6
    <3>2. \/ view.status = "ready"
          \/ relay = "open"
          \/ relay = "stages" /\ head.status = "ready"
          \/ body.status = "ready"
          \/ \E item \in Range(rest) : Telling(item)
          \/ \E f \in Fetches : Promising(f)'
      BY <2>1, <2>3, <2>5, <3>1 DEF Promised
    <3>3. show(body, rest)
      BY <2>1
    <3> HIDE DEF body, rest
    <3> QED
      BY <1>0, <2>2, <3>1, <3>2, <3>3, ShowPromised
  <2> QED
    BY <1>2, <2>4, <2>6
<1>6. ASSUME NEW f \in Fetches, on_progress(f) PROVE Answered' /\ (heard' => Promised')
  <2>1. PICK to \in {"detail", "list"} :
          fetch' = [fetch EXCEPT ![f] = [what |-> to, body |-> NoBody]]
    BY <1>6 DEF on_progress, Fetch
  <2>2. fetch'[f].what \in {"detail", "list"} /\ \A g \in Fetches \ {f} : fetch'[g] = fetch[g]
    BY <1>3, <2>1
  <2>3. Range(stream') \subseteq Range(stream) /\ UNCHANGED <<relay, head>>
    BY <1>4, <1>6 DEF on_progress
  <2> QED
    BY <1>0, <2>2, <2>3 DEF Answered, Promised, Promising
<1>7. ASSUME NEW f \in Fetches, patch(f) PROVE Answered' /\ (heard' => Promised')
  <2> DEFINE body == fetch[f].body
  <2>1. /\ fetch[f].what = "answer" /\ show(body, stream)
        /\ fetch' = [fetch EXCEPT ![f] = [what |-> "idle", body |-> NoBody]]
    BY <1>0, <1>7 DEF patch, Fetch
  <2>2. body \in EarnedBodies /\ body.status # "absent"
    BY <1>0, <1>3, <2>1 DEF Answered
  <2>3. fetch'[f].what = "idle" /\ \A g \in Fetches \ {f} : fetch'[g] = fetch[g]
    BY <1>3, <2>1
  <2>4. Promising(f) => body.status = "ready"
    BY <2>1 DEF Promising
  <2>5. Answered'
    BY <1>0, <2>1, <2>3, RangeOfEmpty DEF Answered, show
  <2>6. \A g \in Fetches \ {f} : Promising(g) => Promising(g)'
    BY <2>3 DEF Promising
  <2>7. ASSUME heard' PROVE Promised'
    <3>1. Promised /\ docStatus = "ready"
      BY <1>0, <1>1, <1>2, <2>7
    <3>2. \/ view.status = "ready"
          \/ relay = "open"
          \/ relay = "stages" /\ head.status = "ready"
          \/ body.status = "ready"
          \/ \E item \in Range(stream) : Telling(item)
          \/ \E g \in Fetches : Promising(g)'
      BY <2>4, <2>6, <3>1 DEF Promised
    <3>3. show(body, stream)
      BY <2>1
    <3> HIDE DEF body
    <3> QED
      BY <1>0, <2>2, <3>1, <3>2, <3>3, ShowPromised
  <2> QED
    BY <2>5, <2>7
<1>8. ASSUME NEW f \in Fetches, open_page(f) PROVE Answered' /\ (heard' => Promised')
  <2>1. fetch'[f].what = "list" /\ \A g \in Fetches \ {f} : fetch'[g] = fetch[g]
    BY <1>3, <1>8 DEF open_page, Fetch
  <2> QED
    BY <1>0, <1>8, <2>1 DEF open_page, Answered, Promised, Promising
<1> QED
  BY <1>2, <1>5, <1>6, <1>7, <1>8 DEF Listen

LEMMA NextPInv ==
  ASSUME Steady, [ProgressNext]_progressVars
  PROVE  PInv'
<1> SUFFICES ASSUME Undisturbed'
             PROVE  ReadyIsTrue' /\ Answered' /\ (heard' => Promised')
  BY DEF PInv
<1>1. CASE \E x \in Slots : Work(x) \/ disturbed(x)
  BY <1>1, WorkerPInv
<1>2. CASE Relay \/ \E f \in Fetches : list_documents(f) \/ detail_status(f) \/ detail_stages(f)
  BY <1>2, ApiPInv
<1>3. CASE Listen \/ \E f \in Fetches : patch(f) \/ open_page(f)
  BY <1>3, BrowserPInv
<1>4. CASE UNCHANGED progressVars
  BY <1>4, UndisturbedBefore
  DEF progressVars, watching, vars, ReadyIsTrue, Answered, Promised, Promising
<1> QED
  BY <1>1, <1>2, <1>3, <1>4 DEF ProgressNext, Request

(* A browser that was subscribed when 'ready' was published ends up        *)
(* showing it, for any number of requests overtaking each other: whatever  *)
(* takes the news off its way puts it back on, until it is shown.          *)
THEOREM HeardCorrect == ProgressSpec => []HeardIsShown
<1>1. StoreInv /\ WInv /\ PlacesOK /\ PInv /\ [ProgressNext]_progressVars => PInv'
  BY NextPInv DEF Steady
<1>2. ProgressSpec => []PInv
  BY <1>1, InitPInv, SpecWInv, SpecPlacesOK, PTL DEF ProgressSpec
<1>3. PInv => HeardIsShown
  <2> SUFFICES ASSUME PInv, AtRest, heard, Undisturbed PROVE view.status = "ready"
    BY DEF HeardIsShown
  <2>1. Promised /\ Range(stream) = {} /\ relay \notin {"open", "stages"}
    BY RangeOfEmpty DEF PInv, AtRest
  <2>2. \A f \in Fetches : ~Promising(f)
    BY DEF AtRest, NoFetch, Promising
  <2> QED
    BY <2>1, <2>2 DEF Promised
<1> QED
  BY <1>2, <1>3, PTL
=============================================================================
