---------------------------- MODULE UploadProofs ----------------------------
(***************************************************************************)
(* For any number of uploads, contents and failures: what is published can *)
(* be worked on, it is published once, and the answers are true.           *)
(*                                                                         *)
(* The insert elects one request for each content, its creator, and only   *)
(* the creator gets past it.  So whatever depends on the content is the    *)
(* work of one request, which has done it in order.                        *)
(***************************************************************************)
EXTENDS Upload, TLAPS

AfterInsert == {"run", "wait", "connect", "declare", "publish"}

(* Only usable bodies get past the checks, and only what was stored goes   *)
(* into the table.                                                         *)
PlacesEarned ==
  \A r \in Requests :
    /\ place[r] \notin {"idle", "answered"} => file[r].content \in Contents
    /\ place[r] = "insert" => Key(r) \in objects
    /\ place[r] \in AfterInsert => creator[file[r].content] = r
    /\ told[r] \in {"queued", "duplicate"} => file[r].content \in Contents

(* A row is the creator's, with the extension of its file. *)
RowsAreCreators ==
  \A c \in Contents :
    IF source[c] = NoOne THEN creator[c] = NoOne
    ELSE /\ creator[c] \in Requests
         /\ file[creator[c]].content = c
         /\ source[c] = file[creator[c]].extension
         /\ <<c, source[c]>> \in objects

(* How far the creator is says how far the document is. *)
CreatorsProgress ==
  \A c \in Contents : creator[c] \in Requests =>
    LET r == creator[c] IN
    /\ place[r] \in AfterInsert \cup {"answered"}
    /\ place[r] \in AfterInsert => Messages(c) = 0
    /\ place[r] \in AfterInsert \ {"run"} => c \in runs
    /\ place[r] = "answered" => told[r] \in {"queued", "error"}
    /\ (place[r] = "answered" /\ told[r] = "queued") => Messages(c) = 1

(* Nobody but the creator could have written a run or a message. *)
OnlyFromCreators ==
  \A c \in Contents :
    /\ creator[c] = NoOne => c \notin runs
    /\ c \notin runs => Messages(c) = 0

IInv ==
  /\ UploadTypeOK
  /\ PlacesEarned
  /\ RowsAreCreators
  /\ CreatorsProgress
  /\ OnlyFromCreators
  /\ EnteredOnce
  /\ AnswersAreTrue

-----------------------------------------------------------------------------

LEMMA InitIInv == UploadInit => IInv
<1> SUFFICES ASSUME UploadInit PROVE IInv
  OBVIOUS
<1> USE UploadAssumption DEF UploadInit, Messages, Inserted
<1>1. UploadTypeOK
  BY DEF UploadTypeOK, Places, Replies
<1>2. PlacesEarned /\ RowsAreCreators
  BY DEF PlacesEarned, RowsAreCreators, AfterInsert
<1>3. CreatorsProgress /\ OnlyFromCreators
  BY DEF CreatorsProgress, OnlyFromCreators, AfterInsert
<1>4. EnteredOnce /\ AnswersAreTrue
  BY DEF EnteredOnce, AnswersAreTrue
<1> QED
  BY <1>1, <1>2, <1>3, <1>4 DEF IInv

(* A request that fails before or after the insert, by itself or with the  *)
(* process, changes nothing that others rely on.                           *)
LEMMA FailKeeps ==
  ASSUME IInv, NEW R \in SUBSET Requests,
         \A r \in R : Waiting(r),
         place' = [r \in Requests |-> IF r \in R THEN "answered" ELSE place[r]],
         told' = [r \in Requests |-> IF r \in R THEN "error" ELSE told[r]],
         UNCHANGED <<file, objects, rows, queued, consumed, creator>>
  PROVE  /\ PlacesEarned' /\ RowsAreCreators' /\ CreatorsProgress'
         /\ OnlyFromCreators' /\ EnteredOnce' /\ AnswersAreTrue'
<1> USE DEF IInv, Messages, Inserted, rows
<1>1. PlacesEarned' /\ RowsAreCreators'
  BY DEF PlacesEarned, RowsAreCreators, AfterInsert, Key, UploadTypeOK
<1>2. CreatorsProgress'
  BY DEF CreatorsProgress, RowsAreCreators, AfterInsert, UploadTypeOK
<1>3. OnlyFromCreators' /\ EnteredOnce' /\ AnswersAreTrue'
  BY DEF OnlyFromCreators, EnteredOnce, AnswersAreTrue, UploadTypeOK
<1> QED
  BY <1>1, <1>2, <1>3

LEMMA NextIInv == IInv /\ [UploadNext]_uvars => IInv'
<1> SUFFICES ASSUME IInv, [UploadNext]_uvars PROVE IInv'
  OBVIOUS
<1> USE UploadAssumption DEF IInv, Messages, Inserted, rows, broker
<1>1. ASSUME NEW r \in Requests, upload(r) PROVE IInv'
  <2> USE <1>1 DEF upload, Proceed, Reply
  <2>1. UploadTypeOK'
    BY DEF UploadTypeOK, Places, Replies
  <2>2. PlacesEarned' /\ RowsAreCreators'
    BY DEF UploadTypeOK, PlacesEarned, RowsAreCreators, AfterInsert, Key
  <2>3. CreatorsProgress' /\ OnlyFromCreators'
    BY DEF UploadTypeOK, CreatorsProgress, RowsAreCreators, OnlyFromCreators, AfterInsert
  <2>4. EnteredOnce' /\ AnswersAreTrue'
    BY DEF UploadTypeOK, EnteredOnce, AnswersAreTrue
  <2> QED
    BY <2>1, <2>2, <2>3, <2>4
<1>2. ASSUME NEW r \in Requests, put_object(r) PROVE IInv'
  <2> USE <1>2 DEF put_object, Proceed
  <2>1. UploadTypeOK'
    BY DEF UploadTypeOK, Places, PlacesEarned, Key
  <2>2. PlacesEarned' /\ RowsAreCreators'
    BY DEF UploadTypeOK, PlacesEarned, RowsAreCreators, AfterInsert, Key
  <2>3. CreatorsProgress' /\ OnlyFromCreators'
    BY DEF UploadTypeOK, CreatorsProgress, RowsAreCreators, OnlyFromCreators, AfterInsert
  <2>4. EnteredOnce' /\ AnswersAreTrue'
    BY DEF UploadTypeOK, EnteredOnce, AnswersAreTrue
  <2> QED
    BY <2>1, <2>2, <2>3, <2>4
<1>3. ASSUME NEW r \in Requests, create_document(r) PROVE IInv'
  <2> DEFINE c == file[r].content
  <2>0. c \in Contents /\ Key(r) \in objects
    BY <1>3 DEF create_document, PlacesEarned, Places, UploadTypeOK
  <2>1. CASE source[c] = NoOne
    <3> USE <1>3, <2>0, <2>1 DEF create_document, Proceed
    <3>0. creator[c] = NoOne /\ c \notin runs /\ Messages(c) = 0
      BY DEF RowsAreCreators, OnlyFromCreators
    <3>x. file[r].extension \in Extensions
      BY DEF UploadTypeOK
    <3>y. place' = [place EXCEPT ![r] = "run"] /\ place' \in [Requests -> Places]
      BY DEF UploadTypeOK, Places
    <3>z. source' = [source EXCEPT ![c] = file[r].extension] /\ creator' = [creator EXCEPT ![c] = r]
      OBVIOUS
    <3>a. /\ source' \in [Contents -> Extensions \cup {NoOne}]
          /\ creator' \in [Contents -> Requests \cup {NoOne}]
      BY <3>x, <3>z DEF UploadTypeOK
    <3>b. \A q \in Requests : lock = q <=> place'[q] \in {"connect", "declare"}
      BY DEF UploadTypeOK
    <3>1. UploadTypeOK'
      BY <3>a, <3>b, <3>y DEF UploadTypeOK
    <3>2. PlacesEarned'
      <4> SUFFICES ASSUME NEW q \in Requests
                   PROVE  /\ place'[q] \notin {"idle", "answered"} => file[q].content \in Contents
                          /\ place'[q] = "insert" => Key(q) \in objects
                          /\ place'[q] \in AfterInsert => creator'[file[q].content] = q
                          /\ told[q] \in {"queued", "duplicate"} => file[q].content \in Contents
        BY DEF PlacesEarned, Key
      <4>1. CASE q = r
        BY <4>1 DEF UploadTypeOK
      <4>2. CASE q # r
        BY <4>2, <3>0 DEF UploadTypeOK, PlacesEarned, AfterInsert
      <4> QED
        BY <4>1, <4>2
    <3>3. RowsAreCreators'
      <4> SUFFICES ASSUME NEW d \in Contents
                   PROVE  IF source'[d] = NoOne THEN creator'[d] = NoOne
                          ELSE /\ creator'[d] \in Requests
                               /\ file[creator'[d]].content = d
                               /\ source'[d] = file[creator'[d]].extension
                               /\ <<d, source'[d]>> \in objects
        BY DEF RowsAreCreators
      <4>1. CASE d = c
        BY <4>1, <3>x, <3>z DEF UploadTypeOK, Key
      <4>2. CASE d # c
        BY <4>2, <3>z DEF UploadTypeOK, RowsAreCreators
      <4> QED
        BY <4>1, <4>2
    <3>4. CreatorsProgress'
      <4> SUFFICES ASSUME NEW d \in Contents, creator'[d] \in Requests
                   PROVE  LET q == creator'[d] IN
                          /\ place'[q] \in AfterInsert \cup {"answered"}
                          /\ place'[q] \in AfterInsert => Messages(d) = 0
                          /\ place'[q] \in AfterInsert \ {"run"} => d \in runs
                          /\ place'[q] = "answered" => told[q] \in {"queued", "error"}
                          /\ (place'[q] = "answered" /\ told[q] = "queued") => Messages(d) = 1
        BY DEF CreatorsProgress
      <4>1. CASE d = c
        BY <4>1, <3>0 DEF UploadTypeOK, AfterInsert
      <4>2. CASE d # c
        <5>1. creator'[d] = creator[d] /\ creator[d] # r
          BY <4>2 DEF UploadTypeOK, RowsAreCreators
        <5> QED
          BY <5>1, <4>2 DEF UploadTypeOK, CreatorsProgress
      <4> QED
        BY <4>1, <4>2
    <3>5. OnlyFromCreators' /\ EnteredOnce'
      BY DEF UploadTypeOK, OnlyFromCreators, EnteredOnce
    <3>7. AnswersAreTrue'
      <4> SUFFICES ASSUME NEW q \in Requests
                   PROVE  /\ told[q] = "queued" => Messages(file[q].content) = 1
                          /\ told[q] = "duplicate" => source'[file[q].content] # NoOne
        BY DEF AnswersAreTrue
      <4>1. told[q] = "queued" => Messages(file[q].content) = 1
        BY DEF AnswersAreTrue
      <4>2. told[q] = "duplicate" => source[file[q].content] # NoOne
        BY DEF AnswersAreTrue
      <4>3. source[file[q].content] # NoOne => source'[file[q].content] # NoOne
        BY <3>x, <3>z DEF UploadTypeOK
      <4> QED
        BY <4>1, <4>2, <4>3
    <3> QED
      BY <3>1, <3>2, <3>3, <3>4, <3>5, <3>7
  <2>2. CASE source[c] # NoOne
    <3> USE <1>3, <2>0, <2>2 DEF create_document, Reply
    <3>a. place' \in [Requests -> Places] /\ told' \in [Requests -> Replies]
      BY DEF UploadTypeOK, Places, Replies
    <3>b. \A q \in Requests : lock = q <=> place'[q] \in {"connect", "declare"}
      BY DEF UploadTypeOK
    <3>1. UploadTypeOK'
      BY <3>a, <3>b DEF UploadTypeOK
    <3>2. PlacesEarned' /\ RowsAreCreators'
      BY DEF UploadTypeOK, PlacesEarned, RowsAreCreators, AfterInsert, Key
    <3>3. CreatorsProgress' /\ OnlyFromCreators'
      BY DEF UploadTypeOK, CreatorsProgress, RowsAreCreators, OnlyFromCreators, AfterInsert
    <3>4. EnteredOnce' /\ AnswersAreTrue'
      BY DEF UploadTypeOK, EnteredOnce, AnswersAreTrue
    <3> QED
      BY <3>1, <3>2, <3>3, <3>4
  <2> QED
    BY <2>1, <2>2
<1>4. ASSUME NEW r \in Requests, ensure_run(r) PROVE IInv'
  <2> USE <1>4 DEF ensure_run, Proceed
  <2>0. file[r].content \in Contents /\ creator[file[r].content] = r
    BY DEF PlacesEarned, AfterInsert
  <2>1. UploadTypeOK'
    BY <2>0 DEF UploadTypeOK, Places
  <2>2. PlacesEarned' /\ RowsAreCreators'
    BY DEF UploadTypeOK, PlacesEarned, RowsAreCreators, AfterInsert, Key
  <2>3. CreatorsProgress'
    <3> SUFFICES ASSUME NEW d \in Contents, creator[d] \in Requests
                 PROVE  LET q == creator[d] IN
                        /\ place'[q] \in AfterInsert \cup {"answered"}
                        /\ place'[q] \in AfterInsert => Messages(d) = 0
                        /\ place'[q] \in AfterInsert \ {"run"} => d \in runs'
                        /\ place'[q] = "answered" => told[q] \in {"queued", "error"}
                        /\ (place'[q] = "answered" /\ told[q] = "queued") => Messages(d) = 1
      BY DEF CreatorsProgress
    <3>1. CASE creator[d] = r
      <4>1. d = file[r].content
        BY <3>1, UploadAssumption DEF RowsAreCreators
      <4> QED
        BY <3>1, <4>1 DEF UploadTypeOK, CreatorsProgress, AfterInsert
    <3>2. CASE creator[d] # r
      BY <3>2 DEF UploadTypeOK, CreatorsProgress
    <3> QED
      BY <3>1, <3>2
  <2>5. OnlyFromCreators'
    BY <2>0 DEF UploadTypeOK, OnlyFromCreators
  <2>4. EnteredOnce' /\ AnswersAreTrue'
    BY DEF UploadTypeOK, EnteredOnce, AnswersAreTrue
  <2> QED
    BY <2>1, <2>2, <2>3, <2>4, <2>5
<1>5. ASSUME NEW r \in Requests,
             exchange(r) \/ connect(r) \/ (declare(r) /\ channel = "open") PROVE IInv'
  <2> USE <1>5 DEF exchange, connect, declare, Proceed
  <2>1. UploadTypeOK'
    BY DEF UploadTypeOK, Places
  <2>2. PlacesEarned' /\ RowsAreCreators'
    BY DEF UploadTypeOK, PlacesEarned, RowsAreCreators, AfterInsert, Key
  <2>3. CreatorsProgress' /\ OnlyFromCreators'
    BY DEF UploadTypeOK, CreatorsProgress, RowsAreCreators, OnlyFromCreators, AfterInsert
  <2>4. EnteredOnce' /\ AnswersAreTrue'
    BY DEF UploadTypeOK, EnteredOnce, AnswersAreTrue
  <2> QED
    BY <2>1, <2>2, <2>3, <2>4
<1>6. ASSUME NEW r \in Requests, publish_detect(r) \/ confirm_lost(r) PROVE IInv'
  <2> DEFINE c == file[r].content
  <2> USE <1>6 DEF publish_detect, confirm_lost, Trouble, Reply
  <2>0. c \in Contents /\ creator[c] = r /\ c \in runs /\ Messages(c) = 0
    BY DEF PlacesEarned, CreatorsProgress, AfterInsert
  <2>1. Messages(c)' = 1 /\ \A d \in Contents \ {c} : Messages(d)' = Messages(d)
    BY <2>0 DEF UploadTypeOK
  <2>a. /\ place' \in [Requests -> Places]
        /\ told' \in [Requests -> Replies]
    BY DEF UploadTypeOK, Places, Replies
  <2>d. queued' \in [Contents -> Nat]
    BY <2>0 DEF UploadTypeOK
  <2>b. trouble' \in 0 .. MaxTrouble
    BY DEF UploadTypeOK
  <2>c. \A q \in Requests : lock' = q <=> place'[q] \in {"connect", "declare"}
    BY DEF UploadTypeOK
  <2>2. UploadTypeOK'
    BY <2>a, <2>b, <2>c, <2>d DEF UploadTypeOK
  <2> HIDE DEF Messages
  <2>3. PlacesEarned' /\ RowsAreCreators'
    BY DEF UploadTypeOK, PlacesEarned, RowsAreCreators, AfterInsert, Key
  <2>4. CreatorsProgress'
    <3> SUFFICES ASSUME NEW d \in Contents, creator[d] \in Requests
                 PROVE  LET q == creator[d] IN
                        /\ place'[q] \in AfterInsert \cup {"answered"}
                        /\ place'[q] \in AfterInsert => Messages(d)' = 0
                        /\ place'[q] \in AfterInsert \ {"run"} => d \in runs
                        /\ place'[q] = "answered" => told'[q] \in {"queued", "error"}
                        /\ (place'[q] = "answered" /\ told'[q] = "queued") => Messages(d)' = 1
      BY DEF CreatorsProgress
    <3>1. CASE d = c
      <4>1. place'[r] = "answered" /\ told'[r] \in {"queued", "error"}
        BY DEF UploadTypeOK
      <4> QED
        BY <3>1, <4>1, <2>0, <2>1 DEF AfterInsert
    <3>2. CASE d # c
      <4>1. creator[d] # r /\ Messages(d)' = Messages(d)
        BY <3>2, <2>1 DEF RowsAreCreators
      <4> QED
        BY <4>1 DEF UploadTypeOK, CreatorsProgress
    <3> QED
      BY <3>1, <3>2
  <2>5. OnlyFromCreators' /\ EnteredOnce'
    BY <2>0, <2>1 DEF OnlyFromCreators, EnteredOnce
  <2>6. AnswersAreTrue'
    <3> SUFFICES ASSUME NEW q \in Requests
                 PROVE  /\ told'[q] = "queued" => Messages(file[q].content)' = 1
                        /\ told'[q] = "duplicate" => source[file[q].content] # NoOne
      BY DEF AnswersAreTrue
    <3>1. CASE q = r
      BY <3>1, <2>1 DEF UploadTypeOK
    <3>2. CASE q # r /\ file[q].content = c
      <4>1. told'[q] = told[q] /\ told[q] # "queued"
        BY <3>2, <2>0 DEF UploadTypeOK, AnswersAreTrue
      <4> QED
        BY <3>2, <4>1 DEF AnswersAreTrue
    <3>3. CASE q # r /\ file[q].content # c
      <4>1. told'[q] = told[q]
        BY <3>3 DEF UploadTypeOK
      <4>2. told[q] \in {"queued", "duplicate"} =>
              Messages(file[q].content)' = Messages(file[q].content)
        BY <3>3, <2>1 DEF PlacesEarned
      <4> QED
        BY <4>1, <4>2 DEF AnswersAreTrue
    <3> QED
      BY <3>1, <3>2, <3>3
  <2> QED
    BY <2>2, <2>3, <2>4, <2>5, <2>6
<1>7. ASSUME NEW r \in Requests,
             publish_closed(r) \/ raise(r) \/ (declare(r) /\ channel # "open") PROVE IInv'
  <2> USE <1>7 DEF publish_closed, raise, declare, Trouble, Reply
  <2>a. /\ place' \in [Requests -> Places]
        /\ told' \in [Requests -> Replies]
    BY DEF UploadTypeOK, Places, Replies
  <2>b. lock' \in Requests \cup {NoOne} /\ trouble' \in 0 .. MaxTrouble
    BY DEF UploadTypeOK, Released
  <2>c. \A q \in Requests : lock' = q <=> place'[q] \in {"connect", "declare"}
    BY DEF UploadTypeOK, Released
  <2>1. UploadTypeOK'
    BY <2>a, <2>b, <2>c DEF UploadTypeOK
  <2>2. /\ \A q \in {r} : Waiting(q)
        /\ place' = [q \in Requests |-> IF q \in {r} THEN "answered" ELSE place[q]]
        /\ told' = [q \in Requests |-> IF q \in {r} THEN "error" ELSE told[q]]
        /\ UNCHANGED <<file, objects, rows, queued, consumed, creator>>
    BY DEF UploadTypeOK, Waiting
  <2> QED
    BY <2>1, <2>2, FailKeeps
<1>8. CASE restart
  <2> DEFINE R == {r \in Requests : Waiting(r)}
  <2>1. UploadTypeOK'
    BY <1>8 DEF restart, Trouble, UploadTypeOK, Places, Replies, Waiting
  <2>2. /\ \A q \in R : Waiting(q)
        /\ place' = [q \in Requests |-> IF q \in R THEN "answered" ELSE place[q]]
        /\ told' = [q \in Requests |-> IF q \in R THEN "error" ELSE told[q]]
        /\ UNCHANGED <<file, objects, rows, queued, consumed, creator>>
    BY <1>8 DEF restart
  <2> HIDE DEF R
  <2>3. R \in SUBSET Requests
    BY DEF R
  <2> QED
    BY <2>1, <2>2, <2>3, FailKeeps
<1>9. ASSUME NEW d \in Contents, take(d) PROVE IInv'
  <2> USE <1>9 DEF take
  <2>1. UploadTypeOK'
    BY DEF UploadTypeOK
  <2>2. \A c \in Contents : Messages(c)' = Messages(c)
    BY DEF UploadTypeOK
  <2> HIDE DEF Messages
  <2>3. PlacesEarned' /\ RowsAreCreators'
    BY DEF PlacesEarned, RowsAreCreators, Key
  <2>4. CreatorsProgress' /\ OnlyFromCreators' /\ EnteredOnce'
    BY <2>2 DEF CreatorsProgress, OnlyFromCreators, EnteredOnce
  <2>5. AnswersAreTrue'
    BY <2>2 DEF AnswersAreTrue, PlacesEarned
  <2> QED
    BY <2>1, <2>3, <2>4, <2>5
<1>10. CASE channel_closes \/ UNCHANGED uvars
  <2> USE <1>10 DEF channel_closes, Trouble, uvars
  <2>1. UploadTypeOK'
    BY DEF UploadTypeOK
  <2>2. PlacesEarned' /\ RowsAreCreators' /\ CreatorsProgress'
    BY DEF PlacesEarned, RowsAreCreators, CreatorsProgress, Key
  <2>3. OnlyFromCreators' /\ EnteredOnce' /\ AnswersAreTrue'
    BY DEF OnlyFromCreators, EnteredOnce, AnswersAreTrue
  <2> QED
    BY <2>1, <2>2, <2>3
<1> HIDE DEF IInv, Messages, Inserted, rows, broker
<1>11. ASSUME NEW r \in Requests, Serve(r) PROVE IInv'
  <2>1. CASE declare(r)
    BY ONLY <2>1, <1>5, <1>7, r \in Requests
  <2>2. CASE put_object(r) \/ create_document(r) \/ ensure_run(r)
    BY ONLY <2>2, <1>2, <1>3, <1>4, r \in Requests
  <2>3. CASE exchange(r) \/ connect(r) \/ publish_detect(r) \/ publish_closed(r)
    BY ONLY <2>3, <1>5, <1>6, <1>7, r \in Requests
  <2> QED
    BY ONLY <1>11, <2>1, <2>2, <2>3 DEF Serve
<1> QED
  BY <1>1, <1>6, <1>7, <1>8, <1>9, <1>10, <1>11 DEF UploadNext

-----------------------------------------------------------------------------

THEOREM UploadInvariant == UploadSpec => []IInv
<1> QED
  BY InitIInv, NextIInv, PTL DEF UploadSpec

(* The state is well typed, and the lock is held by the request that       *)
(* connects and nobody else.                                               *)
THEOREM UploadTypeCorrect == UploadSpec => []UploadTypeOK
<1>1. IInv => UploadTypeOK
  BY DEF IInv
<1> QED
  BY <1>1, UploadInvariant, PTL

(* No message is without its run, its document and its object. *)
THEOREM NothingDanglesCorrect == UploadSpec => []NothingDangles
<1>1. IInv => NothingDangles
  BY DEF IInv, NothingDangles, RowsAreCreators, OnlyFromCreators, Inserted, Messages,
     UploadTypeOK
<1> QED
  BY <1>1, UploadInvariant, PTL

(* Equal bytes enter the pipeline once, however often they are sent. *)
THEOREM EnteredOnceCorrect == UploadSpec => []EnteredOnce
<1>1. IInv => EnteredOnce
  BY DEF IInv
<1> QED
  BY <1>1, UploadInvariant, PTL

(* Clients are told what is true. *)
THEOREM AnswersCorrect == UploadSpec => []AnswersAreTrue
<1>1. IInv => AnswersAreTrue
  BY DEF IInv
<1> QED
  BY <1>1, UploadInvariant, PTL

(* A document is stranded only with an error to its creator. *)
THEOREM StrandedCorrect == UploadSpec => []StrandedWasTold
<1>1. ASSUME IInv, NEW c \in Contents, Inserted(c), Messages(c) = 0
      PROVE  \/ place[creator[c]] \in {"run", "wait", "connect", "declare", "publish"}
             \/ told[creator[c]] = "error"
  <2>1. creator[c] \in Requests
    BY <1>1 DEF IInv, RowsAreCreators, Inserted
  <2>2. /\ place[creator[c]] \in AfterInsert \cup {"answered"}
        /\ place[creator[c]] = "answered" => told[creator[c]] \in {"queued", "error"}
        /\ (place[creator[c]] = "answered" /\ told[creator[c]] = "queued") => Messages(c) = 1
    BY <1>1, <2>1 DEF IInv, CreatorsProgress
  <2> QED
    BY <1>1, <2>2 DEF AfterInsert
<1>2. IInv => StrandedWasTold
  BY <1>1 DEF StrandedWasTold
<1> QED
  BY <1>2, UploadInvariant, PTL
=============================================================================
