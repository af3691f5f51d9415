---------------------------- MODULE EventStream ----------------------------
(***************************************************************************)
(* POST /ask as the browser sees it: the frames of Answer on the wire, as  *)
(* sse-starlette writes them, streamEvents (web/lib/api.ts), which cuts    *)
(* them out of whatever pieces the network delivers, and the turn they     *)
(* build (web/components/Ask.tsx).                                         *)
(***************************************************************************)
EXTENDS Answer

CONSTANTS
  MaxRead,    \* bounds the tokens of one read; more is like several reads
  MaxTears,   \* bounds the reads that end between CR and LF
  MaxPings    \* bounds the keep-alive comments of the server

ASSUME StreamAssumption == MaxRead \in Nat \ {0} /\ MaxTears \in Nat /\ MaxPings \in Nat

VARIABLES
  wire,      \* the tokens the server has sent
  pings,     \* the comments among them
  taken,     \* the tokens the browser has read
  buffer,    \* streamEvents' buffer
  handled,   \* history: the frames its handlers were called with
  turn,      \* the turn on the page
  tears      \* history: reads that ended between CR and LF

bvars == <<wire, pings, taken, buffer, handled, turn, tears>>
svars == <<avars, bvars>>

(* Tokens: the ends of lines, and the lines of frame n, or of a comment. *)
CR == <<"CR", 0>>
LF == <<"LF", 0>>
Written(n) == <<<<"event", n>>, CR, LF, <<"data", n>>, CR, LF, CR, LF>>
Comment == <<<<":", 0>>, CR, LF, CR, LF>>

EmptyTurn ==
  [passages |-> <<>>, answer |-> <<>>, citations |-> <<>>, usage |-> <<>>,
   done |-> FALSE, crashed |-> FALSE]

StreamInit ==
  /\ AnswerInit
  /\ wire = <<>> /\ pings = 0 /\ taken = 0
  /\ buffer = <<>>
  /\ handled = <<>>
  /\ turn = EmptyTurn
  /\ tears = 0

-----------------------------------------------------------------------------
(* The server's side *)

(* The frames of a step of the endpoint go out as they are yielded.        *)
answer ==
  /\ AnswerNext
  /\ wire' = IF endpoint # "ask" THEN wire
             ELSE wire \o FlattenSeq([i \in 1 .. Len(frames') - Len(frames) |->
                                         Written(Len(frames) + i)])
  /\ UNCHANGED <<pings, taken, buffer, handled, turn, tears>>

ping ==
  /\ endpoint = "ask" /\ step = "text"
  /\ pings < MaxPings
  /\ pings' = pings + 1
  /\ wire' = wire \o Comment
  /\ UNCHANGED <<avars, taken, buffer, handled, turn, tears>>

-----------------------------------------------------------------------------
(* The browser's side *)

(* .replace(/\r\n?/g, "\n") on one chunk. *)
Normalised(chunk) ==
  LET afterCR(i) == chunk[i] = LF /\ i > 1 /\ chunk[i - 1] = CR
      kept == InOrder({i \in DOMAIN chunk : ~afterCR(i)}, <)
  IN [k \in DOMAIN kept |-> IF chunk[kept[k]] = CR THEN LF ELSE chunk[kept[k]]]

(* split("\n\n"): the frames that are complete, and the rest.  The ends of  *)
(* lines that follow each other are paired from the first on.              *)
Split(text) ==
  LET inRun(i) == i - Max({0} \cup {j \in 1 .. i - 1 : text[j] # LF})
      breaks == InOrder({i \in 1 .. Len(text) - 1 : /\ text[i] = LF /\ text[i + 1] = LF
                                                    /\ inRun(i) % 2 = 1}, <)
      start(k) == IF k = 1 THEN 1 ELSE breaks[k - 1] + 2
  IN [frames |-> [k \in DOMAIN breaks |-> SubSeq(text, start(k), breaks[k] - 1)],
      rest |-> SubSeq(text, start(Len(breaks) + 1), Len(text))]

(* A frame calls a handler if it has one data line that parses, and the    *)
(* event that its last event line names, "message" without one, is known.  *)
Dispatched(frame) ==
  LET line(field) == {i \in DOMAIN frame : frame[i][1] = field}
  IN IF Cardinality(line("data")) = 1 /\ line("event") # {}
     THEN <<<<frame[Max(line("event"))][2], frame[Max(line("data"))][2]>>>> ELSE <<>>

(* WithCitations maps over the citations: what is not an array takes the   *)
(* whole page down when it is rendered.                                    *)
WithCitations(data) == data.json = "array"

(* The handlers of Ask.tsx, and the rendering that follows. *)
Handle(t, call) ==
  LET event == frames[call[1]].event  data == frames[call[2]] IN
  IF t.crashed THEN t
  ELSE CASE event = "passages" -> [t EXCEPT !.passages = data.value]
         [] event = "delta" -> [t EXCEPT !.answer = @ \o data.value]
         [] event = "citations" -> [t EXCEPT !.citations = data.value,
                                             !.crashed = ~WithCitations(data)]
         [] event = "usage" -> [t EXCEPT !.usage = data.value]
         [] event = "done" -> [t EXCEPT !.done = TRUE]

(* Mutation: what is left of a chunk is dropped. *)
streamEvents_dropping(n) ==
  LET chunk == SubSeq(wire, taken + 1, taken + n)
      split == Split(buffer \o Normalised(chunk))
      calls == FlattenSeq([i \in DOMAIN split.frames |-> Dispatched(split.frames[i])])
  IN /\ taken + n <= Len(wire)
     /\ taken' = taken + n
     /\ buffer' = <<>>
     /\ handled' = handled \o calls
     /\ turn' = FoldLeft(Handle, turn, calls)
     /\ tears' = tears + IF Last(chunk) = CR THEN 1 ELSE 0
     /\ tears' <= MaxTears
     /\ UNCHANGED <<avars, wire, pings>>

(* One read of n tokens. *)
streamEvents(n) ==
  LET chunk == SubSeq(wire, taken + 1, taken + n)
      split == Split(buffer \o Normalised(chunk))
      calls == FlattenSeq([i \in DOMAIN split.frames |-> Dispatched(split.frames[i])])
  IN /\ taken + n <= Len(wire)
     /\ taken' = taken + n
     /\ buffer' = split.rest
     /\ handled' = handled \o calls
     /\ turn' = FoldLeft(Handle, turn, calls)
     /\ tears' = tears + IF Last(chunk) = CR THEN 1 ELSE 0
     /\ tears' <= MaxTears
     /\ UNCHANGED <<avars, wire, pings>>

StreamNext ==
  \/ answer
  \/ ping
  \/ \E n \in 1 .. MaxRead : streamEvents(n)

StreamSpec == StreamInit /\ [][StreamNext]_svars

-----------------------------------------------------------------------------
(* Properties *)

StreamTypeOK ==
  /\ AnswerTypeOK
  /\ pings \in 0 .. MaxPings
  /\ taken \in 0 .. Len(wire)
  /\ tears \in 0 .. MaxTears
  /\ turn.done => handled # <<>>

(* However the network cuts the stream, a handler gets the data of its own *)
(* event, in the order sent and never twice; and as long as no read ends   *)
(* between CR and LF, that of every frame that has been read whole.        *)
HandledAsSent ==
  /\ \A i \in DOMAIN handled : handled[i][1] = handled[i][2]
  /\ \A i, j \in DOMAIN handled : i < j => handled[i][1] < handled[j][1]
  /\ tears = 0 => Len(handled) = Cardinality({p \in 1 .. taken - 4 :
                 wire[p][1] = "data" /\ p + 4 <= taken})

(* A partial frame stays in the buffer until its end arrives: no frame     *)
(* that has been read whole is lost, wherever the reads cut the stream.    *)
FramesStayWhole ==
  \A p \in 1 .. taken : (wire[p][1] = "data" /\ p + 4 <= taken) =>
    \E i \in DOMAIN handled : handled[i][2] = wire[p][2]

(* Markers that name no citation are shown as text, and the turn goes on,  *)
(* also when the answer has no other markers.                              *)
TextOtherwise == ~turn.crashed
=============================================================================
