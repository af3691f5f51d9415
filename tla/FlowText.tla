------------------------------ MODULE FlowText ------------------------------
(***************************************************************************)
(* split_flow (ragent/ingest/flowtext.py): markdown, CSV and plain text    *)
(* are cut into blocks, line by line.  A line is what the expressions of   *)
(* the module tell apart: [kind, mark], where a heading's mark is its      *)
(* level and a fence's its marker.  A block takes the lines first .. last  *)
(* and is filed under the headings of its section, which are named by      *)
(* their lines.                                                            *)
(***************************************************************************)
EXTENDS Naturals, Sequences, FiniteSets, FiniteSetsExt, SequencesExt

CONSTANTS
  Texts,            \* by extension, the texts that are split
  rows_per_block    \* rows of a CSV that make a block

(* What the expressions of the module tell apart, and how many units the   *)
(* token counter sees in the line.                                         *)
LineKinds == {"blank", "heading", "fence", "paragraph", "list", "table"}
Lines == [kind : LineKinds, mark : Nat, units : Nat]

ASSUME FlowTextAssumption ==
  /\ rows_per_block \in Nat \ {0}
  /\ \A e \in DOMAIN Texts : Texts[e] \subseteq Seq(Lines)

VARIABLES
  extension, lines,   \* the arguments of split_flow
  at,                 \* next line; past the end when all are read
  pending,            \* pending_start, 0 when nothing is pending; group[0]
  rows,               \* len(group)
  stack,              \* headings that are open, outermost first
  header,             \* whether a CSV's first line is its header
  flow                \* the blocks so far: [kind, first, last, section, header]

fvars == <<extension, lines, at, pending, rows, stack, header, flow>>

Markdown == {"md", "markdown"}
Tables == {"csv", "tsv"}

Blank(n) == lines[n].kind = "blank"

FlowInit ==
  /\ extension \in DOMAIN Texts
  /\ lines \in Texts[extension]
  /\ at = IF extension \in Tables THEN 0 ELSE 1
  /\ pending = 0
  /\ rows = 0
  /\ stack = <<>>
  /\ header = FALSE
  /\ flow = <<>>

(* split_flow returns no block for a text that is blank throughout.        *)
Empty == \A n \in DOMAIN lines : Blank(n)
Reading(kinds) == extension \in kinds /\ ~Empty /\ at <= Len(lines)

(* A block is trimmed to its first and last line with content.             *)
_emit(kind, first, last, section) ==
  LET content == {n \in first .. last : ~Blank(n)} IN
  IF content = {} THEN <<>>
  ELSE <<[kind |-> kind, first |-> Min(content), last |-> Max(content),
          section |-> section, header |-> FALSE]>>

-----------------------------------------------------------------------------
(* split_markdown *)

(* flush: what is pending becomes a block of the section it was read in.   *)
Pending ==
  IF pending = 0 THEN <<>> ELSE _emit(lines[pending].kind, pending, at - 1, stack)

SameFence(n, m) ==
  lines[n].kind = "fence" /\ lines[m].kind = "fence" /\ lines[n].mark = lines[m].mark

(* Mutation: any marker closes a fence.                                    *)
read_fence_any ==
  /\ Reading(Markdown)
  /\ lines[at].kind = "fence"
  /\ LET closing == {n \in at + 1 .. Len(lines) : lines[n].kind = "fence"}
         close == Min(closing \cup {Len(lines)})
     IN /\ flow' = flow \o Pending \o _emit("paragraph", at, close, stack)
        /\ at' = close + 1
  /\ pending' = 0
  /\ UNCHANGED <<extension, lines, rows, stack, header>>

(* A fence reaches to the next line with its marker, or to the end.        *)
read_fence ==
  /\ Reading(Markdown)
  /\ lines[at].kind = "fence"
  /\ LET closing == {n \in at + 1 .. Len(lines) : SameFence(n, at)}
         close == Min(closing \cup {Len(lines)})
     IN /\ flow' = flow \o Pending \o _emit("paragraph", at, close, stack)
        /\ at' = close + 1
  /\ pending' = 0
  /\ UNCHANGED <<extension, lines, rows, stack, header>>

(* Mutation: a heading closes only one heading of its level or below.      *)
Opened_once(s, n) ==
  (IF s # <<>> /\ lines[Last(s)].mark >= lines[n].mark THEN Front(s) ELSE s) \o <<n>>

(* The stack after a heading: what is not above it is popped.              *)
Opened(s, n) ==
  LET above == {m \in 0 .. Len(s) : m = 0 \/ lines[s[m]].mark < lines[n].mark}
  IN SubSeq(s, 1, Max(above)) \o <<n>>

read_heading ==
  /\ Reading(Markdown)
  /\ lines[at].kind = "heading"
  /\ stack' = Opened(stack, at)
  /\ flow' = flow \o Pending \o _emit("heading", at, at, stack')
  /\ pending' = 0
  /\ at' = at + 1
  /\ UNCHANGED <<extension, lines, rows, header>>

read_blank ==
  /\ Reading(Markdown)
  /\ Blank(at)
  /\ flow' = flow \o Pending
  /\ pending' = 0
  /\ at' = at + 1
  /\ UNCHANGED <<extension, lines, rows, stack, header>>

(* Lines of one kind, of text, a list or a table, make a block.            *)
read_text ==
  /\ Reading(Markdown)
  /\ lines[at].kind \in {"paragraph", "list", "table"}
  /\ IF pending # 0 /\ lines[pending].kind = lines[at].kind
       THEN UNCHANGED <<pending, flow>>
       ELSE pending' = at /\ flow' = flow \o Pending
  /\ at' = at + 1
  /\ UNCHANGED <<extension, lines, rows, stack, header>>

flush_last ==
  /\ extension \in Markdown
  /\ pending # 0 /\ at > Len(lines)
  /\ flow' = flow \o Pending
  /\ pending' = 0
  /\ UNCHANGED <<extension, lines, at, rows, stack, header>>

-----------------------------------------------------------------------------
(* split_csv *)

(* The first line is the header; a blank first line is a row like others,  *)
(* and so is one that csv.reader fails on.                                 *)
read_header ==
  /\ Reading(Tables)
  /\ at = 0
  /\ \/ ~Blank(1) /\ header' = TRUE /\ at' = 2
     \/ header' = FALSE /\ at' = 1
  /\ UNCHANGED <<extension, lines, pending, rows, stack, flow>>

(* flush_group: the rows from pending on, under the header. *)
Group(first, last) ==
  <<[kind |-> "table", first |-> first, section |-> <<>>, header |-> header,
     last |-> Max({n \in first .. last : ~Blank(n)})]>>

(* Mutation: a group is closed one row late.                               *)
read_row_late ==
  /\ Reading(Tables)
  /\ at > 0
  /\ IF Blank(at) THEN UNCHANGED <<pending, rows, flow>>
     ELSE LET first == IF pending = 0 THEN at ELSE pending IN
          IF rows + 1 > rows_per_block
            THEN flow' = flow \o Group(first, at) /\ pending' = 0 /\ rows' = 0
            ELSE pending' = first /\ rows' = rows + 1 /\ UNCHANGED flow
  /\ at' = at + 1
  /\ UNCHANGED <<extension, lines, stack, header>>

(* Blank rows are passed over, and a full group is closed.                 *)
read_row ==
  /\ Reading(Tables)
  /\ at > 0
  /\ IF Blank(at) THEN UNCHANGED <<pending, rows, flow>>
     ELSE LET first == IF pending = 0 THEN at ELSE pending IN
          IF rows + 1 >= rows_per_block
            THEN flow' = flow \o Group(first, at) /\ pending' = 0 /\ rows' = 0
            ELSE pending' = first /\ rows' = rows + 1 /\ UNCHANGED flow
  /\ at' = at + 1
  /\ UNCHANGED <<extension, lines, stack, header>>

flush_group ==
  /\ extension \in Tables
  /\ pending # 0 /\ at > Len(lines)
  /\ flow' = flow \o Group(pending, Len(lines))
  /\ pending' = 0
  /\ rows' = 0
  /\ UNCHANGED <<extension, lines, at, stack, header>>

-----------------------------------------------------------------------------
(* split_plain: paragraphs are what stands between blank lines.            *)
read_paragraph ==
  /\ extension \notin Markdown \cup Tables
  /\ ~Empty /\ at <= Len(lines)
  /\ LET stop == Min({n \in at .. Len(lines) : Blank(n)} \cup {Len(lines) + 1})
     IN /\ flow' = flow \o _emit("paragraph", at, stop - 1, <<>>)
        /\ at' = stop + 1
  /\ UNCHANGED <<extension, lines, pending, rows, stack, header>>

FlowNext ==
  \/ read_fence \/ read_heading \/ read_blank \/ read_text \/ flush_last
  \/ read_header \/ read_row \/ flush_group
  \/ read_paragraph

FlowDone == Empty \/ (at > Len(lines) /\ pending = 0)

-----------------------------------------------------------------------------
(* Properties *)

(* Type invariant; what is pending begins with a line that was read.       *)
FlowTypeOK ==
  /\ at \in 0 .. Len(lines) + 2
  /\ pending \in 0 .. Len(lines) /\ (pending # 0 => pending < at /\ ~Blank(pending))
  /\ rows \in 0 .. rows_per_block - 1
  /\ header \in BOOLEAN
  /\ \A m \in DOMAIN stack : stack[m] \in DOMAIN lines
  /\ \A b \in DOMAIN flow :
       flow[b].first \in DOMAIN lines /\ flow[b].last \in flow[b].first .. Len(lines)

(* The section of a block is the trail of headings it is under: those with *)
(* no later heading of their level or above before the block.              *)
SectionIsTrail ==
  \A b \in DOMAIN flow :
    LET headings == {flow[c].first : c \in {d \in 1 .. b : flow[d].kind = "heading"}}
        trail == {h \in headings : \A g \in headings : g > h => lines[g].mark > lines[h].mark}
    IN /\ Range(flow[b].section) = trail
       /\ \A m \in 1 .. Len(flow[b].section) - 1 : flow[b].section[m] < flow[b].section[m + 1]

(* Fenced text is atomic: a block that begins with a fence ends with the   *)
(* next fence of its marker, and what looks like a heading in between is   *)
(* none.  A group of a CSV has as many rows as make a block, but the last. *)
BlocksAreWhole ==
  \A b \in DOMAIN flow :
    LET inside == {n \in flow[b].first + 1 .. flow[b].last : ~Blank(n)}
        opening == lines[flow[b].first]
        closing == {n \in DOMAIN lines : n > flow[b].first /\ SameFence(n, flow[b].first)}
    IN /\ (extension \in Markdown /\ opening.kind = "fence") =>
            IF closing = {} THEN b = Len(flow) ELSE flow[b].last = Min(closing)
       /\ (extension \in Markdown /\ opening.kind # "fence") =>
            \A n \in inside : lines[n].kind = opening.kind
       /\ extension \in Tables =>
            /\ Cardinality(inside) + 1 <= rows_per_block
            /\ b < Len(flow) => Cardinality(inside) + 1 = rows_per_block
=============================================================================
