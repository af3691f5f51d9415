------------------------------ MODULE Progress ------------------------------
(***************************************************************************)
(* Who watches a document: the workers publish an event when a handler is  *)
(* through (ragent/pipeline/progress.py), the API relays the events of an  *)
(* open stream after a snapshot (document_events of ragent/api/main.py),   *)
(* and the browser fetches the document again for each event it hears      *)
(* (web/components/Sidebar.tsx).  Composed with StageConsumer, which       *)
(* writes what they read.                                                  *)
(*                                                                         *)
(* Left out: the text of events, SSE framing, and other documents in the   *)
(* list (a change of their status opens this document's stream anew too).  *)
(***************************************************************************)
EXTENDS StageConsumer

CONSTANTS
  Fetches,     \* requests the browser can have under way at once
  MaxTrouble   \* faults, and events or answers lost, together

(* An event that is about the document is told from one about a stage by   *)
(* the stage's name.                                                       *)
ASSUME ProgressAssumption ==
  /\ MaxTrouble \in Nat
  /\ Stages \cap {"ready", "quarantined"} = {}

VARIABLES
  announce,  \* events each coroutine's handler has still to publish
  relay,     \* where document_events is for this browser
  head,      \* the status its snapshot has read
  stream,    \* what was sent on the open stream and not handled yet
  fetch,     \* the browser's requests, with what their answers have so far
  view,      \* the document as the browser shows it
  heard,     \* history: 'ready' was relayed
  lost

watching == <<relay, head, stream, fetch, view, heard, lost>>

progressVars == <<vars, announce, watching>>

Events == Stages \cup {"ready", "quarantined"}

NoRows == [s \in Stages |-> "none"]

(* The body of an answer: documents.status, and the status by stage. *)
Body(status, rows) == [status |-> status, rows |-> rows]

NoBody == Body("absent", NoRows)   \* the page is not open yet

Bodies == [status : DocStatus \cup {"absent"}, rows : [Stages -> RowStatus]]

(* A stage without a row is reported as pending. *)
Reported(r) == [s \in Stages |-> IF r[s] = "none" THEN "pending" ELSE r[s]]

NoFetch == [what |-> "idle", body |-> NoBody]

Snapshot(body) == [type |-> "snapshot", body |-> body, event |-> Entry]
Event(e) == [type |-> "progress", body |-> NoBody, event |-> e]

Spared == faults + lost < MaxTrouble

Lose == Spared /\ lost' = lost + 1

-----------------------------------------------------------------------------
(* The workers *)

(* Every handler reports its stage, and embed the whole document. *)
EventsOf(s) == IF s = TERMINAL_STAGE THEN <<s, "ready">> ELSE <<s>>

(* The handler has written its status and publishes. *)
handler_done(x) ==
  /\ \/ HandlerSucceeds(x) /\ announce' = [announce EXCEPT ![x] = EventsOf(msg[x].stage)]
     \/ Quarantine(x) /\ announce' = [announce EXCEPT ![x] = <<"quarantined">>]
  /\ UNCHANGED watching

(* publish reaches whoever is subscribed now, and nobody later.  What goes *)
(* wrong in it is swallowed.                                               *)
publish(x) ==
  /\ announce[x] # <<>>
  /\ announce' = [announce EXCEPT ![x] = Tail(@)]
  /\ \/ /\ relay = "live"
        /\ stream' = Append(stream, Event(Head(announce[x])))
        /\ heard' = (heard \/ Head(announce[x]) = "ready")
        /\ UNCHANGED lost
     \/ relay # "live" /\ UNCHANGED <<stream, heard, lost>>
     \/ relay = "live" /\ Lose /\ UNCHANGED <<stream, heard>>
  /\ UNCHANGED <<vars, relay, head, fetch, view>>

(* Mutation: publish is not awaited. *)
carry_on_unawaited(x) ==
  /\ Consume(x)
  /\ pc[x] = "handle" => pc'[x] # "complete" /\ docStatus' = docStatus
  /\ UNCHANGED <<announce, watching>>

(* Any other step of a consumer waits until the handler has published. *)
carry_on(x) ==
  /\ announce[x] = <<>>
  /\ Consume(x)
  /\ pc[x] = "handle" => pc'[x] # "complete" /\ docStatus' = docStatus
  /\ UNCHANGED <<announce, watching>>

(* What the handler has not published when its worker dies, nobody will. *)
disturbed(x) ==
  /\ Spared
  /\ Disturb(x)
  /\ pc'[x] = pc[x] \/ pc'[x] = "queued" \/ announce[x] = <<>>
  /\ announce' = IF pc'[x] = pc[x] THEN announce ELSE [announce EXCEPT ![x] = <<>>]
  /\ UNCHANGED watching

-----------------------------------------------------------------------------
(* The API *)

Api == UNCHANGED <<vars, announce, view, heard>>

(* Mutation: the stages are read before the status. *)
document_detail_backwards(step, body) ==
  CASE step = 1 -> Body("pending", Reported(row))
    [] step = 2 -> Body(docStatus, body.rows)

(* Two statements outside any transaction. *)
document_detail(step, body) ==
  CASE step = 1 -> Body(docStatus, NoRows)
    [] step = 2 -> Body(body.status, Reported(row))

snapshot_status ==
  /\ relay = "open"
  /\ relay' = "stages"
  /\ head' = document_detail(1, NoBody)
  /\ UNCHANGED <<stream, fetch, lost>>
  /\ Api

(* An error of the snapshot is suppressed. *)
snapshot_stages ==
  /\ relay = "stages"
  /\ relay' = "subscribe"
  /\ \/ /\ stream' = Append(stream, Snapshot(document_detail(2, head)))
        /\ UNCHANGED lost
     \/ Lose /\ UNCHANGED stream
  /\ head' = NoBody
  /\ UNCHANGED fetch
  /\ Api

(* The channel is subscribed to when the snapshot has been sent. *)
subscribe ==
  /\ relay = "subscribe"
  /\ relay' = "live"
  /\ UNCHANGED <<head, stream, fetch, lost>>
  /\ Api

Fetch(f, from, to, body) ==
  /\ fetch[f].what = from
  /\ fetch' = [fetch EXCEPT ![f] = [what |-> to, body |-> body]]

(* The list is one statement, and has no stages. *)
list_documents(f) ==
  /\ Fetch(f, "list", "answer", Body(docStatus, NoRows))
  /\ UNCHANGED <<relay, head, stream, lost>>
  /\ Api

detail_status(f) ==
  /\ Fetch(f, "detail", "stages", document_detail(1, NoBody))
  /\ UNCHANGED <<relay, head, stream, lost>>
  /\ Api

detail_stages(f) ==
  /\ Fetch(f, "stages", "answer", document_detail(2, fetch[f].body))
  /\ UNCHANGED <<relay, head, stream, lost>>
  /\ Api

-----------------------------------------------------------------------------
(* The browser *)

Browser == UNCHANGED <<vars, announce, heard>>

Streamed(body) == body.status \in {"pending", "processing"}

(* Mutation: only the list of documents decides which streams are open. *)
show_quiet(body, rest) ==
  /\ view' = body
  /\ head' = head
  /\ relay' = IF view = NoBody /\ Streamed(body) THEN "open" ELSE relay
  /\ stream' = rest

(* A new status makes the effect run again: it closes the stream, drops    *)
(* what is left of it, and opens one if the document is not finished.      *)
show(body, rest) ==
  /\ view' = body
  /\ IF body.status = view.status
       THEN stream' = rest /\ UNCHANGED <<relay, head>>
       ELSE /\ relay' = IF Streamed(body) THEN "open" ELSE "closed"
            /\ head' = NoBody
            /\ stream' = <<>>

(* The page is opened, any time after the upload. *)
open_page(f) ==
  /\ view = NoBody
  /\ \A g \in Fetches : fetch[g] = NoFetch
  /\ Fetch(f, "idle", "list", NoBody)
  /\ UNCHANGED <<relay, head, stream, view, lost>>
  /\ Browser

on_snapshot ==
  /\ stream # <<>>
  /\ Head(stream).type = "snapshot"
  /\ show(Head(stream).body, Tail(stream))
  /\ UNCHANGED <<fetch, lost>>
  /\ Browser

(* Mutation: the event itself is shown, which says the stage succeeded. *)
on_progress_trusting(f) ==
  /\ stream # <<>>
  /\ Head(stream).type = "progress"
  /\ view' = IF Head(stream).event \in Stages
               THEN [view EXCEPT !.rows[Head(stream).event] = "succeeded"]
               ELSE view
  /\ stream' = Tail(stream)
  /\ UNCHANGED <<relay, head, fetch, lost>>
  /\ Browser

(* Each event starts a request of its own, which is not waited for. *)
on_progress(f) ==
  /\ stream # <<>>
  /\ Head(stream).type = "progress"
  /\ Fetch(f, "idle", IF Head(stream).event \in Stages THEN "detail" ELSE "list", NoBody)
  /\ stream' = Tail(stream)
  /\ UNCHANGED <<relay, head, view, lost>>
  /\ Browser

(* Answers are shown as they come, in any order.  An error shows nothing. *)
patch(f) ==
  /\ Fetch(f, "answer", "idle", NoBody)
  /\ \/ show(fetch[f].body, stream) /\ UNCHANGED lost
     \/ Lose /\ UNCHANGED <<relay, head, stream, view>>
  /\ Browser

-----------------------------------------------------------------------------

ProgressInit ==
  /\ Init
  /\ announce = [x \in Slots |-> <<>>]
  /\ relay = "closed"
  /\ head = NoBody
  /\ stream = <<>>
  /\ fetch = [f \in Fetches |-> NoFetch]
  /\ view = NoBody
  /\ heard = FALSE
  /\ lost = 0

Work(x) == handler_done(x) \/ publish(x) \/ carry_on(x)

Relay == snapshot_status \/ snapshot_stages \/ subscribe

Request(f) == list_documents(f) \/ detail_status(f) \/ detail_stages(f) \/ patch(f)

Listen == on_snapshot \/ \E f \in Fetches : on_progress(f)

ProgressNext ==
  \/ \E x \in Slots : Work(x) \/ disturbed(x)
  \/ Relay
  \/ \E f \in Fetches : Request(f) \/ open_page(f)
  \/ Listen

ProgressSpec == ProgressInit /\ [][ProgressNext]_progressVars

-----------------------------------------------------------------------------
(* Properties *)

(* Types; the events of a handler are published before its coroutine goes  *)
(* on, and nothing is on a stream that is not open.                        *)
ProgressTypeOK ==
  /\ announce \in [Slots -> Seq(Events)]
  /\ \A x \in Slots : announce[x] # <<>> => pc[x] \in {"complete", "fail_dead"}
  /\ relay \in {"closed", "open", "stages", "subscribe", "live"}
  /\ head \in Bodies
  /\ stream \in Seq([type : {"snapshot", "progress"}, body : Bodies, event : Events])
  /\ relay = "closed" => stream = <<>>
  /\ fetch \in [Fetches -> [what : {"idle", "list", "detail", "stages", "answer"},
                            body : Bodies]]
  /\ view \in Bodies
  /\ heard \in BOOLEAN
  /\ lost \in 0 .. MaxTrouble

(* The browser never runs ahead: a stage it shows as succeeded has         *)
(* succeeded, and a document it shows as ready has every other stage done, *)
(* though events are published before complete_stage and answers overtake  *)
(* each other.                                                             *)
ShownIsEarned ==
  /\ \A s \in Stages : view.rows[s] = "succeeded" => s \in done
  /\ view.status = "ready" => Path \ {TERMINAL_STAGE} \subseteq done

(* An answer that says how the document ended shows why, although          *)
(* document_detail reads the status and the stages in two statements: the  *)
(* stages it lists all succeeded, or one of them failed.  Redelivery takes *)
(* rows back, and then it does not.                                        *)
EndIsExplained ==
  (view.rows # NoRows /\ faults = 0) =>
    /\ view.status = "ready" =>
         \A s \in Path \ {TERMINAL_STAGE} : view.rows[s] = "succeeded"
    /\ view.status = "failed" => \E s \in Stages : view.rows[s] = "failed"

Undisturbed == faults = 0 /\ lost = 0

(* Nothing is under way: all that is left is to open the page. *)
AtRest ==
  /\ Quiescent
  /\ relay \in {"closed", "live"}
  /\ stream = <<>>
  /\ \A f \in Fetches : fetch[f] = NoFetch

(* A browser that was subscribed when 'ready' was published ends up        *)
(* showing it, whatever older answers arrive after the one it asked for    *)
(* then: showing an old status opens the stream anew, and with it comes a  *)
(* new snapshot.                                                           *)
HeardIsShown == (AtRest /\ heard /\ Undisturbed) => view.status = "ready"
=============================================================================
