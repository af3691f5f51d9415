---------------------------- MODULE FlowChunking ----------------------------
(***************************************************************************)
(* parse_flow_stage and chunk_stage (ragent/ingest/stages): a text file is *)
(* split into blocks, the blocks are stored and loaded again, and chunked. *)
(* A paged document comes with the blocks that parse found.                *)
(***************************************************************************)
EXTENDS Chunking, FlowText

CONSTANT Paged   \* what stands for the extension of a paged document

ASSUME PagedAssumption == Paged \notin Markdown \cup Tables /\ Texts[Paged] = {<<>>}

vars == <<cvars, fvars>>

(* A paged document is chunked at once; a text has to be split first, and  *)
(* the chunker is not called yet.                                          *)
Init ==
  /\ FlowInit
  /\ IF extension = Paged THEN ChunkInit
     ELSE /\ Called({}, "layout") /\ target = Min(Targets) /\ overlap = Min(Overlaps)
          /\ pc = "waiting"

(* The text of a block: its lines with content, a CSV's under the header.  *)
WordsOf(b) ==
  LET content == InOrder({n \in flow[b].first .. flow[b].last : ~Blank(n)}, <)
      text == IF flow[b].header THEN <<1>> \o content ELSE content
  IN [w \in DOMAIN text |->
        [units |-> lines[text[w]].units, line |-> text[w],
         stop |-> lines[text[w]].kind = "paragraph",
         gap |-> IF ~(flow[b].header /\ w = 1) /\ text[w] < Len(lines) /\ Blank(text[w] + 1)
                 THEN 1 ELSE 2]]

SourceBlocks ==
  {[order |-> b, kind |-> flow[b].kind, section |-> flow[b].section, words |-> WordsOf(b)] :
     b \in DOMAIN flow}

split ==
  /\ pc = "waiting"
  /\ FlowNext
  /\ UNCHANGED cvars

(* A text without blocks fails for good. *)
refuse ==
  /\ pc = "waiting"
  /\ FlowDone /\ flow = <<>>
  /\ pc' = "failed"
  /\ UNCHANGED <<input, i, j, tokens, todo, pieces, sims, chunks, fvars>>

(* The blocks are written, loaded in reading order, and chunked. *)
hand_over ==
  /\ pc = "waiting"
  /\ FlowDone /\ flow # <<>>
  /\ strategy' \in DOMAIN Documents
  /\ target' \in Targets
  /\ overlap' \in OverlapsOf(strategy')
  /\ blocks' = _prepare(SourceBlocks)
  /\ words' = _flatten(blocks')
  /\ i' = StartOf(strategy')
  /\ todo' = RangesOf(strategy', Len(words'))
  /\ pc' = IF words' = <<>> THEN "done" ELSE FirstStep[strategy']
  /\ UNCHANGED <<j, tokens, pieces, sims, chunks, fvars>>

chunk ==
  /\ ChunkNext
  /\ UNCHANGED fvars

Next == split \/ refuse \/ hand_over \/ chunk

(* Both stages are handlers that run by themselves. *)
Spec == Init /\ [][Next]_vars /\ WF_vars(Next)

-----------------------------------------------------------------------------
(* Properties *)

(* Type invariant of both parts.                                           *)
TypeOK == ChunkTypeOK /\ FlowTypeOK

(* No line is lost between the file and the index: when its text has been  *)
(* chunked, by whatever strategy, each line with content is in the text of *)
(* a chunk, and a file fails only if there is no such line, or none but a  *)
(* header.                                                                 *)
EveryLineIsChunked ==
  LET content == {n \in DOMAIN lines : ~Blank(n)}
  IN /\ pc = "done" =>
          \A n \in content : \E c \in DOMAIN chunks :
            \E w \in chunks[c].from .. chunks[c].to : words[w].line = n
     /\ pc = "failed" => content \subseteq IF header THEN {1} ELSE {}

(* Every file is chunked or refused: scaling a window back, splitting a    *)
(* text and stepping back for the overlap come to an end, whatever the     *)
(* budget.                                                                 *)
EveryFileIsDone == <>(pc \in {"done", "error", "failed"})
=============================================================================
