------------------------------ MODULE Chunking ------------------------------
(***************************************************************************)
(* The four chunkers (ragent/ingest/chunking.py).  A document is flattened *)
(* to a sequence of words; a chunk takes the words from .. to for itself,  *)
(* and its text begins at lead, before from when an overlap was put in     *)
(* front.  A word keeps its block, how many units the token counter sees   *)
(* in it, the gap after it and whether a sentence ends there; characters   *)
(* are left out.                                                           *)
(*                                                                         *)
(* Each chunker is a loop, and a turn of the loop is a step.  Which of the *)
(* four runs, its budget and its overlap are chosen at the start.          *)
(***************************************************************************)
EXTENDS Integers, FiniteSets, Sequences, FiniteSetsExt, SequencesExt, Ordering

CONSTANTS
  Documents,       \* by strategy, the sets of source blocks a run may meet
  Targets,         \* values of CHUNK_TARGET_TOKENS
  Overlaps,        \* values of CHUNK_OVERLAP_TOKENS
  Similarities     \* cosines that two neighbouring sentences may have

Strategies == {"fixed", "recursive", "layout", "semantic"}

(* block_kind, of the database that the blocks are loaded from.            *)
Kinds == {"title", "heading", "paragraph", "list", "table", "figure", "caption", "footnote",
          "header", "footer", "page_number"}

(* A parse numbers its blocks, so that no two of a document share a place. *)
Blocks == [order : Nat, kind : Kinds, section : Seq(Nat),
           words : Seq([units : Nat, gap : Nat, stop : BOOLEAN, line : Nat])]

ASSUME ChunkingAssumption ==
  /\ Targets \subseteq Nat \ {0}
  /\ Overlaps \subseteq Nat
  /\ Similarities \subseteq Int
  /\ DOMAIN Documents \subseteq Strategies
  /\ \A s \in DOMAIN Documents : \A source \in Documents[s] :
       /\ IsFiniteSet(source) /\ source \subseteq Blocks
       /\ \A a, b \in source : a.order = b.order => a = b

VARIABLES
  strategy, target, overlap,   \* the arguments of chunk_document
  blocks,    \* _prepare's result: [order, kind, section, words]
  words,     \* _flatten's result: [block, line, stop, gap, start, end]
  pc,        \* where the chunker is
  i,         \* start of the window, buffer, chunk or run of sentences; 0 is none
  j,         \* next word, block or gap
  tokens,    \* tokens counted into what is open
  todo,      \* ranges still to be split
  pieces,    \* ranges that are not split further; the sentences
  sims,      \* similarity of sentence n to sentence n + 1
  chunks

input == <<strategy, target, overlap, blocks, words>>
cvars == <<input, pc, i, j, tokens, todo, pieces, sims, chunks>>

(* The token counter, which chunk_stage leaves at its default: 1.3 tokens  *)
(* to a unit, rounded half to even.  So counts do not add up: 1 + 1 is     *)
(* less than the count of two units, and 3 + 3 more than that of four.     *)
approx_tokens(units) ==
  LET whole == (13 * units) \div 10
      rest == (13 * units) % 10
  IN IF rest < 5 \/ (rest = 5 /\ whole % 2 = 0) THEN whole ELSE whole + 1

(* Mutation: headings are taken for running headers.                       *)
is_furniture_headings(b) == b.kind \in {"header", "heading", "footer", "page_number"}

is_atomic(b) == b.kind \in {"table", "figure"}
is_boundary(b) == b.kind \in {"title", "heading"}
is_furniture(b) == b.kind \in {"header", "footer", "page_number"}

-----------------------------------------------------------------------------
(* The document *)

(* Separators, strongest first: a blank line, a line, ". ", "; ", ", ", " ". *)
Separators == 1 .. 6

(* Page furniture and empty blocks go, and the rest is put in reading order. *)
_prepare(source) ==
  InOrder({b \in source : b.words # <<>> /\ ~is_furniture(b)},
          LAMBDA a, b : a.order < b.order)

(* Blocks are joined by a blank line, and nothing follows the last word.   *)
(* A word has its place in the text.                                       *)
_flatten(bs) ==
  LET place == InOrder(UNION {{n} \X DOMAIN bs[n].words : n \in DOMAIN bs},
                       LAMBDA a, b : a[1] < b[1] \/ (a[1] = b[1] /\ a[2] < b[2]))
      word(w) == bs[place[w][1]].words[place[w][2]]
      ends[w \in 0 .. Len(place)] == IF w = 0 THEN 0 ELSE ends[w - 1] + word(w).units
      last(w) == place[w][2] = Len(bs[place[w][1]].words)
  IN [w \in DOMAIN place |->
        [block |-> place[w][1], line |-> word(w).line, stop |-> word(w).stop,
         gap |-> IF w = Len(place) THEN 0 ELSE IF last(w) THEN 1 ELSE word(w).gap,
         start |-> ends[w - 1], end |-> ends[w]]]

(* count_tokens of the text from a word to a word, and of one word. *)
Count(from, to) == IF from > to THEN 0 ELSE approx_tokens(words[to].end - words[from].start)
Cost(w) == Count(w, w)

(* What the loops add up, word by word. *)
Estimate(from, to) == MapThenSumSet(Cost, from .. to)

(* The blocks that a stretch of the text touches. *)
_blocks_in_range(from, to) ==
  [n \in 1 .. words[to].block - words[from].block + 1 |-> words[from].block + n - 1]

(* The words of a block. *)
First(b) == Min({w \in DOMAIN words : words[w].block = b})
Final(b) == Max({w \in DOMAIN words : words[w].block = b})
BlockCount(b) == Count(First(b), Final(b))

(* The next chunk, if its text is not empty. *)
_assemble(from, to) ==
  IF from > to THEN chunks
  ELSE Append(chunks, [from |-> from, to |-> to, lead |-> from,
                       blocks |-> _blocks_in_range(from, to)])

-----------------------------------------------------------------------------
(* chunk_document *)

FirstStep == [fixed |-> "grow", recursive |-> "split",
              layout |-> "pack blocks", semantic |-> "embed"]

(* Semantic chunking ignores the overlap. *)
OverlapsOf(s) == IF s = "semantic" THEN {0} ELSE Overlaps

(* Where a chunker begins on a text of n words.                            *)
StartOf(s) == IF s \in {"fixed", "semantic"} THEN 1 ELSE 0
RangesOf(s, n) ==
  IF s = "recursive" THEN <<[from |-> 1, to |-> n, level |-> 1]>> ELSE <<>>

Called(source, s) ==
  /\ strategy = s
  /\ target \in Targets
  /\ overlap \in OverlapsOf(s)
  /\ blocks = _prepare(source)
  /\ words = _flatten(blocks)
  /\ i = StartOf(s)
  /\ j = 1
  /\ tokens = 0
  /\ todo = RangesOf(s, Len(words))
  /\ pieces = <<>>
  /\ sims = <<>>
  /\ chunks = <<>>

(* A document without text has no chunks. *)
chunk_document(source, s) ==
  /\ Called(source, s)
  /\ pc = IF words = <<>> THEN "done" ELSE FirstStep[s]

ChunkInit == \E s \in DOMAIN Documents : \E source \in Documents[s] : chunk_document(source, s)

-----------------------------------------------------------------------------
(* fixed: a window of the words i .. j - 1 *)

(* Words are taken while their costs add up to the budget.                 *)
FitEstimate ==
  /\ pc = "grow"
  /\ LET fits == {m \in i .. Len(words) : Estimate(i, m) <= target}
     IN IF fits = {} THEN j' = i + 1 /\ pc' = "emit"
        ELSE j' = Max(fits) + 1 /\ pc' = "verify"
  /\ UNCHANGED <<input, i, tokens, todo, pieces, sims, chunks>>

(* Mutation: the estimate is trusted.                                      *)
FitVerified_trusting ==
  /\ pc = "verify"
  /\ pc' = "emit"
  /\ UNCHANGED <<input, i, j, tokens, todo, pieces, sims, chunks>>

(* Mutation: the scaled window is rounded up.                              *)
FitVerified_up ==
  /\ pc = "verify"
  /\ LET actual == Count(i, j - 1)
         span == j - i
     IN IF span = 1 \/ actual <= target
          THEN pc' = "emit" /\ UNCHANGED j
          ELSE j' = i + (span * target + actual - 1) \div actual /\ UNCHANGED pc
  /\ UNCHANGED <<input, i, tokens, todo, pieces, sims, chunks>>

(* The text is counted, and the window scaled back until it fits.          *)
FitVerified ==
  /\ pc = "verify"
  /\ LET actual == Count(i, j - 1)
         span == j - i
         scaled == Max({1, (span * target) \div actual})
     IN IF span = 1 \/ actual <= target
          THEN pc' = "emit" /\ UNCHANGED j
          ELSE j' = i + (IF scaled < span THEN scaled ELSE span - 1) /\ UNCHANGED pc
  /\ UNCHANGED <<input, i, tokens, todo, pieces, sims, chunks>>

(* The next window starts up to the overlap before the end of this one,    *)
(* and after its start.                                                    *)
EmitWindow ==
  /\ pc = "emit"
  /\ chunks' = _assemble(i, j - 1)
  /\ IF j > Len(words)
       THEN pc' = "done" /\ UNCHANGED i
       ELSE /\ pc' = "grow"
            /\ i' = Min({m \in i + 1 .. j : Estimate(m, j - 1) <= overlap})
  /\ UNCHANGED <<input, j, tokens, todo, pieces, sims>>

-----------------------------------------------------------------------------
(* recursive: split, pack, overlap *)

(* A separator is found in the gap after a word; ". ", "; " and ", "       *)
(* contain the last one.                                                   *)
Separates(w, level) ==
  words[w].gap = level \/ (level = 6 /\ words[w].gap \in 3 .. 6)

(* The pieces one separator leaves.  A blank line is two newlines, so that *)
(* splitting at newlines leaves a piece without words.                     *)
Parts(range) ==
  LET cuts == {w \in range.from .. range.to : Separates(w, range.level)}
      starts == {range.from} \cup {w + 1 : w \in cuts \ {range.to}}
      ends(s) == Min({w \in cuts : w >= s} \cup {range.to})
      blank == IF range.level = 2
               THEN {w \in range.from .. range.to : words[w].gap = 1} ELSE {}
      part(from, to) == [from |-> from, to |-> to, level |-> range.level + 1]
  IN InOrder({part(s, ends(s)) : s \in starts} \cup {part(w + 1, w) : w \in blank},
             LAMBDA p, q : p.from < q.from \/ (p.from = q.from /\ p.to < q.to))

(* Text that fits, or that no separator is left for, is not split further. *)
Whole(range) == Count(range.from, range.to) <= target \/ range.level \notin Separators

KeepRange ==
  /\ pc = "split" /\ todo # <<>>
  /\ Whole(Head(todo))
  /\ pieces' = Append(pieces, Head(todo))
  /\ todo' = Tail(todo)
  /\ UNCHANGED <<input, pc, i, j, tokens, sims, chunks>>

(* Mutation: the text after the last separator is dropped.                 *)
SplitRange_short ==
  /\ pc = "split" /\ todo # <<>>
  /\ ~Whole(Head(todo))
  /\ todo' = (IF Len(Parts(Head(todo))) > 1 /\ ~Separates(Head(todo).to, Head(todo).level)
              THEN Front(Parts(Head(todo))) ELSE Parts(Head(todo))) \o Tail(todo)
  /\ UNCHANGED <<input, pc, i, j, tokens, pieces, sims, chunks>>

SplitRange ==
  /\ pc = "split" /\ todo # <<>>
  /\ ~Whole(Head(todo))
  /\ todo' = Parts(Head(todo)) \o Tail(todo)
  /\ UNCHANGED <<input, pc, i, j, tokens, pieces, sims, chunks>>

SplitDone ==
  /\ pc = "split" /\ todo = <<>>
  /\ pc' = "pack"
  /\ UNCHANGED <<input, i, j, tokens, todo, pieces, sims, chunks>>

(* Pieces join the open chunk i .. j - 1 while the budget lasts.           *)
PackPiece ==
  /\ pc = "pack" /\ pieces # <<>>
  /\ LET p == Head(pieces)
         cost == Count(p.from, p.to)
     IN IF i # 0 /\ tokens + cost > target
          THEN chunks' = _assemble(i, j - 1) /\ i' = p.from /\ tokens' = cost
          ELSE /\ UNCHANGED chunks
               /\ i' = IF i = 0 THEN p.from ELSE i
               /\ tokens' = tokens + cost
  /\ j' = Head(pieces).to + 1
  /\ pieces' = Tail(pieces)
  /\ UNCHANGED <<input, pc, todo, sims>>

PackDone ==
  /\ pc = "pack" /\ pieces = <<>>
  /\ chunks' = _assemble(i, j - 1)
  /\ pc' = IF overlap > 0 THEN "overlap" ELSE "done"
  /\ UNCHANGED <<input, i, j, tokens, todo, pieces, sims>>

(* The last words of a chunk that the overlap has room for. *)
Carried(c) == {w \in c.from .. c.to : Estimate(w, c.to) <= overlap}

(* Mutation: the tail is taken for the start of the chunk before.          *)
_apply_text_overlap_first ==
  LET Joined(prev, cur) ==
        IF Carried(prev) = {} THEN cur
        ELSE [cur EXCEPT !.lead = Min(Carried(prev)),
                         !.blocks = IF prev.blocks[1] = @[1] THEN @
                                    ELSE <<prev.blocks[1]>> \o @]
  IN [n \in DOMAIN chunks |-> IF n = 1 THEN chunks[1] ELSE Joined(chunks[n - 1], chunks[n])]

(* Each chunk is given the tail of the one before it, and that one's last block. *)
_apply_text_overlap ==
  LET Joined(prev, cur) ==
        IF Carried(prev) = {} THEN cur
        ELSE [cur EXCEPT !.lead = Min(Carried(prev)),
                         !.blocks = IF Last(prev.blocks) = @[1] THEN @
                                    ELSE <<Last(prev.blocks)>> \o @]
  IN [n \in DOMAIN chunks |-> IF n = 1 THEN chunks[1] ELSE Joined(chunks[n - 1], chunks[n])]

-----------------------------------------------------------------------------
(* layout: a buffer of the blocks i .. j - 1 *)

Atomic(c) == is_atomic(blocks[c.blocks[1]])

(* flush: the chunk of the buffered blocks, if there are any. *)
Flushed == IF i = 0 THEN chunks ELSE _assemble(First(i), Final(j - 1))

PackAtomic ==
  /\ pc = "pack blocks" /\ j <= Len(blocks)
  /\ is_atomic(blocks[j])
  /\ chunks' = Append(Flushed, [from |-> First(j), to |-> Final(j), lead |-> First(j),
                                blocks |-> <<j>>])
  /\ i' = 0 /\ j' = j + 1 /\ tokens' = 0
  /\ UNCHANGED <<input, pc, todo, pieces, sims>>

StartsChunk ==
  \/ is_boundary(blocks[j])
  \/ i # 0 /\ blocks[j - 1].section # blocks[j].section
  \/ tokens + BlockCount(j) > target

PackBlock ==
  /\ pc = "pack blocks" /\ j <= Len(blocks)
  /\ ~is_atomic(blocks[j])
  /\ IF StartsChunk
       THEN chunks' = Flushed /\ i' = j /\ tokens' = BlockCount(j)
       ELSE /\ UNCHANGED chunks
            /\ i' = IF i = 0 THEN j ELSE i
            /\ tokens' = tokens + BlockCount(j)
  /\ j' = j + 1
  /\ UNCHANGED <<input, pc, todo, pieces, sims>>

PackBlocksDone ==
  /\ pc = "pack blocks" /\ j > Len(blocks)
  /\ chunks' = Flushed
  /\ pc' = IF overlap > 0 THEN "overlap" ELSE "done"
  /\ UNCHANGED <<input, i, j, tokens, todo, pieces, sims>>

(* Mutation: a table, too, is given the block before it.                   *)
_apply_block_overlap_everywhere ==
  LET Joined(prev, cur) ==
        LET b == Last(prev.blocks) IN
        IF BlockCount(b) > overlap THEN cur
        ELSE [cur EXCEPT !.lead = First(b), !.blocks = <<b>> \o @]
  IN [n \in DOMAIN chunks |-> IF n = 1 THEN chunks[1] ELSE Joined(chunks[n - 1], chunks[n])]

(* The last block of the chunk before, if it is small and neither is a table. *)
_apply_block_overlap ==
  LET Joined(prev, cur) ==
        LET b == Last(prev.blocks) IN
        IF Atomic(prev) \/ Atomic(cur) \/ BlockCount(b) > overlap THEN cur
        ELSE [cur EXCEPT !.lead = First(b), !.blocks = <<b>> \o @]
  IN [n \in DOMAIN chunks |-> IF n = 1 THEN chunks[1] ELSE Joined(chunks[n - 1], chunks[n])]

ApplyOverlap ==
  /\ pc = "overlap"
  /\ chunks' = IF strategy = "layout" THEN _apply_block_overlap ELSE _apply_text_overlap
  /\ pc' = "done"
  /\ UNCHANGED <<input, i, j, tokens, todo, pieces, sims>>

-----------------------------------------------------------------------------
(* semantic: a run of the sentences i .. j *)

Sentences ==
  LET ends == {w \in DOMAIN words : words[w].stop} \cup {Len(words)}
      sentence(e) == [from |-> Max({0} \cup {s \in ends : s < e}) + 1, to |-> e]
  IN InOrder({sentence(e) : e \in ends}, LAMBDA a, b : a.from < b.from)

SentenceCost(n) == Count(pieces[n].from, pieces[n].to)

(* Four times the 25th percentile of the similarities, by interpolation.   *)
_percentile ==
  LET n == Len(sims)
      ordered == SortSeq(sims, LAMBDA a, b : a < b)
      lo == (n - 1) \div 4 + 1
      hi == IF lo < n THEN lo + 1 ELSE lo
  IN 4 * ordered[lo] + (ordered[hi] - ordered[lo]) * ((n - 1) % 4)

(* A single sentence is one chunk.  Else the sentences are embedded, and   *)
(* an answer of another length is an error.                                *)
EmbedSentences ==
  /\ pc = "embed"
  /\ pieces' = Sentences
  /\ \/ /\ Len(Sentences) = 1
        /\ chunks' = _assemble(1, Len(words))
        /\ pc' = "done"
        /\ UNCHANGED <<tokens, sims>>
     \/ /\ Len(Sentences) > 1
        /\ pc' = "error"
        /\ UNCHANGED <<tokens, sims, chunks>>
     \/ /\ Len(Sentences) > 1
        /\ sims' \in [1 .. Len(Sentences) - 1 -> Similarities]
        /\ tokens' = Count(Sentences[1].from, Sentences[1].to)
        /\ pc' = "cut"
        /\ UNCHANGED chunks
  /\ UNCHANGED <<input, i, j, todo>>

(* The topic shifts where the similarity is strictly below the percentile. *)
Shifts == 4 * sims[j] < _percentile

ReadGap ==
  /\ pc = "cut" /\ j <= Len(sims)
  /\ LET next_cost == SentenceCost(j + 1)
     IN IF Shifts \/ tokens + next_cost > target
          THEN /\ chunks' = _assemble(pieces[i].from, pieces[j].to)
               /\ i' = j + 1
               /\ tokens' = next_cost
          ELSE /\ tokens' = tokens + next_cost
               /\ UNCHANGED <<chunks, i>>
  /\ j' = j + 1
  /\ UNCHANGED <<input, pc, todo, pieces, sims>>

GapsDone ==
  /\ pc = "cut" /\ j > Len(sims)
  /\ chunks' = _assemble(pieces[i].from, Len(words))
  /\ pc' = "done"
  /\ UNCHANGED <<input, i, j, tokens, todo, pieces, sims>>

-----------------------------------------------------------------------------
ChunkNext ==
  \/ FitEstimate \/ FitVerified \/ EmitWindow
  \/ KeepRange \/ SplitRange \/ SplitDone \/ PackPiece \/ PackDone
  \/ PackAtomic \/ PackBlock \/ PackBlocksDone
  \/ ApplyOverlap
  \/ EmbedSentences \/ ReadGap \/ GapsDone

ChunkSpec == ChunkInit /\ [][ChunkNext]_cvars

-----------------------------------------------------------------------------
(* Properties *)

(* Type invariant; a chunk has words of its own, and names blocks.  (It is *)
(* FlowChunking that waits for a text to be split, and may fail.)          *)
ChunkTypeOK ==
  /\ strategy \in Strategies /\ target \in Targets /\ overlap \in OverlapsOf(strategy)
  /\ pc \in {"grow", "verify", "emit", "split", "pack", "pack blocks", "overlap",
             "embed", "cut", "done", "error", "waiting", "failed"}
  /\ i \in 0 .. Len(words) + 1 /\ j \in 1 .. Len(words) + 1 /\ tokens \in Nat
  /\ \A n \in DOMAIN chunks :
       /\ 1 <= chunks[n].lead /\ chunks[n].lead <= chunks[n].from
       /\ chunks[n].from <= chunks[n].to /\ chunks[n].to <= Len(words)
       /\ chunks[n].blocks # <<>>

(* "No content may be silently dropped on the floor": the chunks take the  *)
(* words in order and leave none out, and a chunker that ends has taken    *)
(* the last one; only the windows of "fixed" share words of their own.     *)
NothingSkipped ==
  /\ \A n \in DOMAIN chunks :
       IF n = 1 THEN chunks[1].from = 1
       ELSE /\ chunks[n].from <= chunks[n - 1].to + 1
            /\ IF strategy = "fixed" THEN chunks[n].from > chunks[n - 1].from
               ELSE chunks[n].from = chunks[n - 1].to + 1
  /\ (pc = "done" /\ words # <<>>) => chunks # <<>> /\ Last(chunks).to = Len(words)

(* The blocks of the text from a word to the end of a chunk.               *)
TouchedFrom(w, c) == {words[v].block : v \in w .. c.to}

(* Provenance, exactly: a chunk names the blocks that its text is in, all  *)
(* of them and no others, in reading order.  Only "recursive" does less:   *)
(* of the tail that it puts in front it names the last block.              *)
BlocksAreNamed ==
  \A n \in DOMAIN chunks :
    LET c == chunks[n]
        named == Range(c.blocks)
    IN /\ named = TouchedFrom(IF c.lead < c.from THEN c.from - 1 ELSE c.from, c)
       /\ strategy # "recursive" => named = TouchedFrom(c.lead, c)
       /\ \A m \in 1 .. Len(c.blocks) - 1 : c.blocks[m] < c.blocks[m + 1]

(* "A chunk always knows which blocks it drew from": whatever words are in *)
(* its text, those of an overlap included, it names their blocks.          *)
TextIsNamed ==
  \A n \in DOMAIN chunks :
    TouchedFrom(chunks[n].lead, chunks[n]) \subseteq Range(chunks[n].blocks)

(* The budget of "fixed" is kept by the real count, which is not the sum   *)
(* of the counts: only a word that is over it by itself exceeds it.        *)
WindowsFit ==
  strategy = "fixed" =>
    \A n \in DOMAIN chunks :
      chunks[n].from < chunks[n].to => Count(chunks[n].from, chunks[n].to) <= target

(* Under "layout", of what a chunk names but for a block carried over: a   *)
(* heading comes first, all are in one section, and a table is alone, here *)
(* and in no other chunk.  A block is carried over only as an overlap, and *)
(* it is the last of the chunk before, no table, and small enough.         *)
StructureIsKept ==
  strategy = "layout" =>
    \A n \in DOMAIN chunks :
      LET c == chunks[n]
          carried == c.lead < c.from
          first == IF carried THEN 2 ELSE 1
      IN /\ \A m \in first .. Len(c.blocks) :
              LET b == blocks[c.blocks[m]] IN
              /\ is_boundary(b) => m = first
              /\ b.section = blocks[c.blocks[first]].section
              /\ is_atomic(b) =>
                   Len(c.blocks) = 1 /\ \A k \in DOMAIN chunks \ {n} :
                      c.blocks[m] \notin Range(chunks[k].blocks)
         /\ carried =>
              /\ overlap > 0 /\ BlockCount(c.blocks[1]) <= overlap
              /\ n > 1 /\ c.blocks[1] = Last(chunks[n - 1].blocks)
              /\ ~is_atomic(blocks[c.blocks[1]])

(* "A heading starts a new chunk" and "prose [of two sections] must never  *)
(* share a chunk": the rules of "layout", of all the blocks a chunk names. *)
RulesAreKept ==
  strategy = "layout" =>
    \A n \in DOMAIN chunks :
      LET named == chunks[n].blocks IN
      /\ \A m \in 2 .. Len(named) : ~is_boundary(blocks[named[m]])
      /\ \A k, m \in DOMAIN named :
           LET a == blocks[named[k]].section  b == blocks[named[m]].section
           IN a = <<>> \/ b = <<>> \/ a = b
=============================================================================
