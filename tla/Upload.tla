------------------------------- MODULE Upload -------------------------------
(***************************************************************************)
(* POST /documents (ragent/api/main.py): one upload writes three stores in *)
(* turn, the object store, Postgres (two statements, each committed by     *)
(* itself) and the broker, without a transaction across them.  Requests    *)
(* for the same bytes overlap and are sent again after an error, the API   *)
(* may die between any two awaits, and the worker takes the first message  *)
(* as soon as the broker has it, which may be before the client hears.     *)
(*                                                                         *)
(* A file is its content (what sha256_of tells apart) and its name's       *)
(* extension, which the object's key keeps.  Rows and objects are never    *)
(* deleted, so a content stands for its document and for its run.          *)
(***************************************************************************)
EXTENDS Naturals, FiniteSets

CONSTANTS
  Requests,    \* uploads that clients send, retries included
  Contents,    \* file contents that can be stored
  Unusable,    \* bodies that are turned away: empty, or over MAX_UPLOAD_BYTES
  Extensions,  \* what a file's name may end in
  NoOne,       \* nobody holds the lock; no document
  MaxTrouble   \* failures that may happen

ASSUME UploadAssumption ==
  /\ Contents \cap Unusable = {}
  /\ NoOne \notin Requests
  /\ NoOne \notin Extensions
  /\ MaxTrouble \in Nat

VARIABLES
  place,      \* the await each request is at
  file,       \* what each request carries
  told,       \* what its client was told
  objects,    \* keys in the bucket
  source,     \* documents.source_uri by content, NoOne when there is no row
  runs,       \* contents whose document has a row in ingest_runs
  lock,       \* who holds _Broker._lock
  channel,    \* the publisher's channel: "none", "open" or "closed"
  queued,     \* messages in the queue of detect, by content
  consumed,   \* messages a worker has taken from it
  creator,    \* history: the request that inserted the document
  trouble     \* failures so far

rows == <<source, runs>>
broker == <<lock, channel, queued, consumed>>
uvars == <<place, file, told, objects, source, runs, lock, channel, queued,
           consumed, creator, trouble>>

Places == {"idle", "put", "insert", "run", "wait", "connect", "declare", "publish", "answered"}
Replies == {"none", "queued", "duplicate", "refused", "error"}

UploadInit ==
  /\ place = [r \in Requests |-> "idle"]
  /\ file \in [Requests -> [content : Contents \cup Unusable, extension : Extensions]]
  /\ told = [r \in Requests |-> "none"]
  /\ objects = {}
  /\ source = [c \in Contents |-> NoOne]
  /\ runs = {}
  /\ lock = NoOne
  /\ channel = "none"
  /\ queued = [c \in Contents |-> 0]
  /\ consumed = [c \in Contents |-> 0]
  /\ creator = [c \in Contents |-> NoOne]
  /\ trouble = 0

Key(r) == <<file[r].content, file[r].extension>>

Proceed(r, from, to) ==
  /\ place[r] = from
  /\ place' = [place EXCEPT ![r] = to]
  /\ UNCHANGED <<file, told>>

Reply(r, what) ==
  /\ place' = [place EXCEPT ![r] = "answered"]
  /\ told' = [told EXCEPT ![r] = what]
  /\ UNCHANGED file

-----------------------------------------------------------------------------
(* The handler *)

(* The body is read and judged. *)
upload(r) ==
  /\ place[r] = "idle"
  /\ IF file[r].content \in Unusable
       THEN Reply(r, "refused")
       ELSE Proceed(r, "idle", "put")
  /\ UNCHANGED <<objects, rows, broker, creator, trouble>>

put_object(r) ==
  /\ Proceed(r, "put", "insert")
  /\ objects' = objects \cup {Key(r)}
  /\ UNCHANGED <<rows, broker, creator, trouble>>

(* Mutation: the dedupe reads and inserts in two steps, so two may insert. *)
create_document_racing(r) ==
  LET c == file[r].content IN
  /\ place[r] = "insert"
  /\ IF source[c] = NoOne \/ c \notin runs
       THEN /\ source' = [source EXCEPT ![c] = file[r].extension]
            /\ creator' = [creator EXCEPT ![c] = r]
            /\ Proceed(r, "insert", "run")
       ELSE /\ Reply(r, "duplicate")
            /\ UNCHANGED <<source, creator>>
  /\ UNCHANGED <<objects, runs, broker, trouble>>

(* INSERT ... ON CONFLICT DO NOTHING decides who created the document.     *)
create_document(r) ==
  LET c == file[r].content IN
  /\ place[r] = "insert"
  /\ IF source[c] = NoOne
       THEN /\ source' = [source EXCEPT ![c] = file[r].extension]
            /\ creator' = [creator EXCEPT ![c] = r]
            /\ Proceed(r, "insert", "run")
       ELSE /\ Reply(r, "duplicate")
            /\ UNCHANGED <<source, creator>>
  /\ UNCHANGED <<objects, runs, broker, trouble>>

(* Mutation: the message is sent before the run exists. *)
ensure_run_late(r) ==
  /\ Proceed(r, "run", "wait")
  /\ UNCHANGED <<objects, rows, broker, creator, trouble>>

ensure_run(r) ==
  /\ Proceed(r, "run", "wait")
  /\ runs' = runs \cup {file[r].content}
  /\ UNCHANGED <<objects, source, broker, creator, trouble>>

(* _Broker.exchange: one connection for all requests, opened by the first  *)
(* that finds none, under a lock.                                          *)
exchange(r) ==
  /\ lock = NoOne
  /\ IF channel = "open"
       THEN Proceed(r, "wait", "publish") /\ UNCHANGED lock
       ELSE Proceed(r, "wait", "connect") /\ lock' = r
  /\ UNCHANGED <<objects, rows, channel, queued, consumed, creator, trouble>>

(* The channel is kept before anything is declared on it. *)
connect(r) ==
  /\ Proceed(r, "connect", "declare")
  /\ channel' = "open"
  /\ UNCHANGED <<objects, rows, lock, queued, consumed, creator, trouble>>

(* Declaring on a closed channel raises.  A request that fails here leaves *)
(* the channel to the others, who do not declare again.                    *)
declare(r) ==
  /\ IF channel = "open" THEN Proceed(r, "declare", "publish")
     ELSE place[r] = "declare" /\ Reply(r, "error")
  /\ lock' = NoOne
  /\ UNCHANGED <<objects, rows, channel, queued, consumed, creator, trouble>>

(* The broker confirms (publisher_confirms), and the client is told. *)
publish_detect(r) ==
  /\ place[r] = "publish"
  /\ channel = "open"
  /\ queued' = [queued EXCEPT ![file[r].content] = @ + 1]
  /\ Reply(r, "queued")
  /\ UNCHANGED <<objects, rows, lock, channel, consumed, creator, trouble>>

(* Mutation: "queued" is answered although the channel was closed. *)
publish_unchecked(r) ==
  /\ place[r] = "publish"
  /\ channel # "open"
  /\ Reply(r, "queued")
  /\ UNCHANGED <<objects, rows, broker, creator, trouble>>

(* A publish on a closed channel raises. *)
publish_closed(r) ==
  /\ place[r] = "publish"
  /\ channel # "open"
  /\ Reply(r, "error")
  /\ UNCHANGED <<objects, rows, broker, creator, trouble>>

(* A consumer of detect. *)
take(c) ==
  /\ queued[c] > 0
  /\ queued' = [queued EXCEPT ![c] = @ - 1]
  /\ consumed' = [consumed EXCEPT ![c] = @ + 1]
  /\ UNCHANGED <<place, file, told, objects, rows, lock, channel, creator, trouble>>

-----------------------------------------------------------------------------
(* Failures *)

Trouble == trouble < MaxTrouble /\ trouble' = trouble + 1

Waiting(r) == place[r] \notin {"idle", "answered"}

(* Mutation: the lock is acquired and released by hand, and an error skips the release. *)
ReleasedByHand(r) == lock

(* `async with` releases the lock, whatever the block raised. *)
Released(r) == IF lock = r THEN NoOne ELSE lock

(* Mutation: a failure is answered like a refusal. *)
raise_quietly(r) ==
  /\ Waiting(r)
  /\ Trouble
  /\ Reply(r, "refused")
  /\ lock' = Released(r)
  /\ UNCHANGED <<objects, rows, channel, queued, consumed, creator>>

(* The await raises: the exception handler answers 500.                    *)
raise(r) ==
  /\ Waiting(r)
  /\ Trouble
  /\ Reply(r, "error")
  /\ lock' = Released(r)
  /\ UNCHANGED <<objects, rows, channel, queued, consumed, creator>>

(* The message reaches the broker and the confirmation does not come back. *)
confirm_lost(r) ==
  /\ place[r] = "publish"
  /\ channel = "open"
  /\ Trouble
  /\ queued' = [queued EXCEPT ![file[r].content] = @ + 1]
  /\ Reply(r, "error")
  /\ UNCHANGED <<objects, rows, lock, channel, consumed, creator>>

(* The broker goes away: channel.is_closed becomes true. *)
channel_closes ==
  /\ channel = "open"
  /\ Trouble
  /\ channel' = "closed"
  /\ UNCHANGED <<place, file, told, objects, rows, lock, queued, consumed, creator>>

(* The API process dies and is started again. *)
restart ==
  /\ \E r \in Requests : Waiting(r)
  /\ Trouble
  /\ place' = [r \in Requests |-> IF Waiting(r) THEN "answered" ELSE place[r]]
  /\ told' = [r \in Requests |-> IF Waiting(r) THEN "error" ELSE told[r]]
  /\ lock' = NoOne
  /\ channel' = "none"
  /\ UNCHANGED <<file, objects, rows, queued, consumed, creator>>

Serve(r) ==
  \/ put_object(r)
  \/ create_document(r)
  \/ ensure_run(r)
  \/ exchange(r)
  \/ connect(r)
  \/ declare(r)
  \/ publish_detect(r)
  \/ publish_closed(r)

UploadNext ==
  \/ \E r \in Requests : upload(r) \/ Serve(r) \/ raise(r) \/ confirm_lost(r)
  \/ \E c \in Contents : take(c)
  \/ channel_closes
  \/ restart

UploadSpec == UploadInit /\ [][UploadNext]_uvars

(* The API goes on with what it accepted, and a worker serves the queue;   *)
(* clients need not send anything, and nothing has to fail.                *)
FairUpload ==
  /\ UploadSpec
  /\ \A r \in Requests : WF_uvars(Serve(r))
  /\ \A c \in Contents : WF_uvars(take(c))

-----------------------------------------------------------------------------
(* Properties *)

Inserted(c) == source[c] # NoOne
Messages(c) == queued[c] + consumed[c]

(* Type invariant; the lock is held by the one request that connects.      *)
UploadTypeOK ==
  /\ place \in [Requests -> Places]
  /\ file \in [Requests -> [content : Contents \cup Unusable, extension : Extensions]]
  /\ told \in [Requests -> Replies]
  /\ objects \subseteq Contents \X Extensions
  /\ source \in [Contents -> Extensions \cup {NoOne}]
  /\ runs \subseteq Contents
  /\ lock \in Requests \cup {NoOne}
  /\ \A r \in Requests : lock = r <=> place[r] \in {"connect", "declare"}
  /\ channel \in {"none", "open", "closed"}
  /\ queued \in [Contents -> Nat]
  /\ consumed \in [Contents -> Nat]
  /\ creator \in [Contents -> Requests \cup {NoOne}]
  /\ trouble \in 0 .. MaxTrouble

(* Whatever fails, a worker never meets a message whose run, document or   *)
(* object does not exist: the object's key is that of the upload that won  *)
(* the insert, although others wrote keys of their own for the same bytes. *)
NothingDangles ==
  \A c \in Contents :
    /\ Messages(c) > 0 => c \in runs
    /\ c \in runs => Inserted(c)
    /\ Inserted(c) => <<c, source[c]>> \in objects

(* However many clients send the same bytes, at once or again after an     *)
(* error, the pipeline is entered once.                                    *)
EnteredOnce == \A c \in Contents : Messages(c) <= 1

(* What a client is told is true and stays true: "queued" means that the   *)
(* message is there, "duplicate" that the document is.                     *)
AnswersAreTrue ==
  \A r \in Requests :
    /\ told[r] = "queued" => Messages(file[r].content) = 1
    /\ told[r] = "duplicate" => Inserted(file[r].content)

(* A document that no worker will ever hear of is the work of a request    *)
(* that failed after its insert, and that client was told of an error.     *)
(* (Nobody else can mend it: further uploads told "duplicate".)          *)
StrandedWasTold ==
  \A c \in Contents :
    (Inserted(c) /\ Messages(c) = 0) =>
      \/ place[creator[c]] \in {"run", "wait", "connect", "declare", "publish"}
      \/ told[creator[c]] = "error"

(* Every request is answered: a failure while connecting leaves no lock    *)
(* behind that the others would wait for.                                  *)
EveryoneIsAnswered ==
  \A r \in Requests : (place[r] = "put") ~> (place[r] = "answered")
=============================================================================
