------------------------- MODULE FlowChunkingProofs -------------------------
(***************************************************************************)
(* For texts of any length and groups of any size: split_flow files every  *)
(* block under the trail of headings it stands below, and cuts neither a   *)
(* fenced block nor a group of rows in two.                                *)
(*                                                                         *)
(* For documents, budgets and overlaps of any size: the four chunkers take *)
(* every word in order, name the blocks of what they take, keep the budget *)
(* of fixed and the structure of layout; and together with split_flow they *)
(* lose no line of a file.                                                 *)
(***************************************************************************)
EXTENDS FlowChunking, OrderingProofs

-----------------------------------------------------------------------------
(* Trails *)

(* split_flow makes blocks of these kinds. *)
FlowKinds == {"heading", "paragraph", "list", "table"}

FlowBlocks ==
  [kind : FlowKinds, first : Nat, last : Nat, section : Seq(Nat), header : BOOLEAN]

Headings(fl, b) == {fl[c].first : c \in {d \in 1 .. b : fl[d].kind = "heading"}}

Trail(H) == {h \in H : \A g \in H : g > h => lines[g].mark > lines[h].mark}

Ascending(s) == \A m \in 1 .. Len(s) - 1 : s[m] < s[m + 1]

(* The blocks of fl are filed under their trails, and st is the trail they *)
(* leave open.                                                             *)
Filed(fl, st) ==
  /\ \A b \in DOMAIN fl :
       /\ Range(fl[b].section) = Trail(Headings(fl, b))
       /\ Ascending(fl[b].section)
  /\ Range(st) = Trail(Headings(fl, Len(fl)))
  /\ Ascending(st)

(* fl is a list of blocks, and all of them end before line n. *)
Before(fl, n) ==
  /\ fl \in Seq(FlowBlocks)
  /\ \A b \in DOMAIN fl :
       fl[b].first \in DOMAIN lines /\ fl[b].last \in fl[b].first .. Len(lines) /\ fl[b].last < n

LEMMA FlowAppend ==
  ASSUME NEW fl \in Seq(FlowBlocks), NEW x \in FlowBlocks
  PROVE  /\ fl \o <<x>> \in Seq(FlowBlocks)
         /\ Len(fl \o <<x>>) = Len(fl) + 1 /\ Len(fl) \in Nat
         /\ DOMAIN fl = 1 .. Len(fl) /\ DOMAIN (fl \o <<x>>) = 1 .. Len(fl) + 1
         /\ \A b \in 1 .. Len(fl) : (fl \o <<x>>)[b] = fl[b]
         /\ (fl \o <<x>>)[Len(fl) + 1] = x
<1>1. fl \o <<x>> = Append(fl, x)
  BY AppendIsConcat
<1> QED
  BY <1>1, AppendProperties, LenProperties

LEMMA HeadingsAppend ==
  ASSUME NEW fl \in Seq(FlowBlocks), NEW x \in FlowBlocks
  PROVE  /\ \A b \in 1 .. Len(fl) : Headings(fl \o <<x>>, b) = Headings(fl, b)
         /\ Headings(fl \o <<x>>, Len(fl) + 1) =
              IF x.kind = "heading" THEN Headings(fl, Len(fl)) \cup {x.first}
              ELSE Headings(fl, Len(fl))
<1> DEFINE fx == fl \o <<x>>
<1>1. /\ Len(fl) \in Nat
      /\ \A b \in 1 .. Len(fl) : fx[b] = fl[b]
      /\ fx[Len(fl) + 1] = x
  BY FlowAppend
<1> HIDE DEF fx
<1>2. \A b \in 0 .. Len(fl) : {d \in 1 .. b : fx[d].kind = "heading"}
                               = {d \in 1 .. b : fl[d].kind = "heading"}
  BY <1>1
<1>3. \A b \in 0 .. Len(fl) : Headings(fx, b) = Headings(fl, b)
  BY <1>1, <1>2 DEF Headings
<1>4. {d \in 1 .. Len(fl) + 1 : fx[d].kind = "heading"}
        = IF x.kind = "heading"
          THEN {d \in 1 .. Len(fl) : fx[d].kind = "heading"} \cup {Len(fl) + 1}
          ELSE {d \in 1 .. Len(fl) : fx[d].kind = "heading"}
  BY <1>1
<1>5. Headings(fx, Len(fl) + 1) =
        IF x.kind = "heading" THEN Headings(fx, Len(fl)) \cup {fx[Len(fl) + 1].first}
        ELSE Headings(fx, Len(fl))
  <2>1. CASE x.kind = "heading"
    <3>1. Headings(fx, Len(fl) + 1) =
            {fx[c].first : c \in {d \in 1 .. Len(fl) : fx[d].kind = "heading"} \cup {Len(fl) + 1}}
      BY <1>4, <2>1 DEF Headings
    <3> QED
      BY <2>1, <3>1 DEF Headings
  <2>2. CASE x.kind # "heading"
    BY <1>4, <2>2 DEF Headings
  <2> QED
    BY <2>1, <2>2
<1>6. Headings(fx, Len(fl) + 1) =
        IF x.kind = "heading" THEN Headings(fl, Len(fl)) \cup {x.first} ELSE Headings(fl, Len(fl))
  <2>1. Headings(fx, Len(fl)) = Headings(fl, Len(fl))
    BY <1>1, <1>3
  <2> QED
    BY <1>1, <1>5, <2>1
<1>7. \A b \in 1 .. Len(fl) : Headings(fx, b) = Headings(fl, b)
  BY <1>1, <1>3
<1> QED
  BY <1>6, <1>7 DEF fx

(* A block that is no heading is filed under the trail that is open. *)
LEMMA FileBlock ==
  ASSUME NEW fl \in Seq(FlowBlocks), NEW st, Filed(fl, st),
         NEW x \in FlowBlocks, x.kind # "heading", x.section = st
  PROVE  Filed(fl \o <<x>>, st)
<1> DEFINE fx == fl \o <<x>>
<1>1. /\ Len(fx) = Len(fl) + 1 /\ Len(fl) \in Nat /\ DOMAIN fl = 1 .. Len(fl)
      /\ DOMAIN fx = 1 .. Len(fl) + 1
      /\ \A b \in 1 .. Len(fl) : fx[b] = fl[b]
      /\ fx[Len(fl) + 1] = x
  BY FlowAppend
<1>2. /\ \A b \in 1 .. Len(fl) : Headings(fx, b) = Headings(fl, b)
      /\ Headings(fx, Len(fl) + 1) = Headings(fl, Len(fl))
  BY HeadingsAppend
<1> HIDE DEF fx
<1>3. ASSUME NEW b \in DOMAIN fx
      PROVE  Range(fx[b].section) = Trail(Headings(fx, b)) /\ Ascending(fx[b].section)
  <2>1. CASE b \in 1 .. Len(fl)
    BY <2>1, <1>1, <1>2 DEF Filed
  <2>2. CASE b = Len(fl) + 1
    BY <2>2, <1>1, <1>2 DEF Filed
  <2> QED
    BY <1>1, <2>1, <2>2
<1> QED
  BY <1>1, <1>2, <1>3 DEF Filed, fx

(* What is numbered in ascending order is numbered so throughout. *)
LEMMA AscendingAll ==
  ASSUME NEW s \in Seq(Nat), Ascending(s)
  PROVE  \A m, n \in 1 .. Len(s) : m < n => s[m] < s[n]
<1>1. Len(s) \in Nat /\ \A m \in 1 .. Len(s) : s[m] \in Nat
  BY LenProperties
<1>2. ASSUME NEW m \in 1 .. Len(s), NEW k \in 1 .. Len(s), m < k, s[k] <= s[m] PROVE FALSE
  <2> DEFINE Bad == {n \in 1 .. Len(s) : m < n /\ s[n] <= s[m]}
  <2>1. PICK n \in Bad : \A o \in Bad : n <= o
    <3>1. k \in Bad /\ Bad \in SUBSET Nat
      BY <1>2
    <3> HIDE DEF Bad
    <3> QED
      BY <3>1, LeastNatural
  <2>2. n - 1 \in 1 .. Len(s) - 1 /\ s[n - 1] < s[n]
    BY <1>1, <1>2, <2>1 DEF Ascending
  <2>3. CASE n - 1 = m
    BY <1>1, <2>2, <2>3
  <2>4. CASE n - 1 # m
    <3>1. n - 1 \in 1 .. Len(s) /\ m < n - 1 /\ n - 1 < n
      BY <1>1, <2>1, <2>2, <2>4
    <3>2. s[n - 1] \in Nat /\ s[n] \in Nat /\ s[m] \in Nat /\ s[n] <= s[m]
      BY <1>1, <3>1
    <3>3. n - 1 \in Bad
      BY <2>2, <3>1, <3>2
    <3>4. n <= n - 1
      BY <2>1, <3>3
    <3> QED
      BY <3>1, <3>4
  <2> QED
    BY <2>3, <2>4
<1> QED
  BY <1>1, <1>2

(* The headings that are open under a trail have ascending levels.         *)
LEMMA TrailMarks ==
  ASSUME NEW H, NEW st \in Seq(Nat), Range(st) = Trail(H), Ascending(st)
  PROVE  \A m, n \in 1 .. Len(st) : m < n => lines[st[n]].mark > lines[st[m]].mark
<1>1. \A m \in 1 .. Len(st) : st[m] \in Trail(H)
  BY RangeEquality
<1> QED
  BY <1>1, AscendingAll DEF Trail

(* After a heading the trail consists of the open headings above it, and   *)
(* of itself.                                                              *)
LEMMA TrailOpened ==
  ASSUME NEW H \in SUBSET Nat, NEW st \in Seq(Nat), Range(st) = Trail(H), Ascending(st),
         NEW n \in Nat, \A h \in H : h < n,
         \A h \in H \cup {n} : lines[h].mark \in Nat
  PROVE  /\ Opened(st, n) \in Seq(Nat)
         /\ Range(Opened(st, n)) = Trail(H \cup {n})
         /\ Ascending(Opened(st, n))
<1> DEFINE above == {m \in 0 .. Len(st) : m = 0 \/ lines[st[m]].mark < lines[n].mark}
           top == Max(above)
           kept == SubSeq(st, 1, top)
<1>1. /\ Len(st) \in Nat /\ \A m \in 1 .. Len(st) : st[m] \in Nat
      /\ Range(st) = {st[m] : m \in 1 .. Len(st)}
  BY LenProperties, RangeEquality
<1>2. top \in above /\ \A m \in above : m <= top
  <2>1. 0 \in above /\ above \in SUBSET (0 .. Len(st))
    BY <1>1
  <2> HIDE DEF above
  <2> QED
    BY <1>1, <2>1, GreatestIn
<1>3. \A m \in 1 .. Len(st) : m <= top <=> lines[st[m]].mark < lines[n].mark
  <2> SUFFICES ASSUME NEW m \in 1 .. Len(st)
               PROVE  m <= top <=> lines[st[m]].mark < lines[n].mark
    OBVIOUS
  <2>1. lines[st[m]].mark < lines[n].mark => m <= top
    BY <1>1, <1>2
  <2>2. st[m] \in H /\ (top # 0 => st[top] \in H)
    BY <1>1, <1>2 DEF Trail
  <2>3. ASSUME m <= top PROVE lines[st[m]].mark < lines[n].mark
    <3>1. top \in 1 .. Len(st) /\ lines[st[top]].mark < lines[n].mark
      BY <1>1, <1>2, <2>3
    <3>2. /\ lines[st[m]].mark \in Nat /\ lines[st[top]].mark \in Nat /\ lines[n].mark \in Nat
      BY <2>2, <3>1
    <3>3. m = top \/ lines[st[top]].mark > lines[st[m]].mark
      <4> HIDE DEF top, above
      <4>1. \A p, q \in 1 .. Len(st) : p < q => lines[st[q]].mark > lines[st[p]].mark
        BY TrailMarks
      <4>2. m = top \/ m < top
        BY <1>1, <2>3, <3>1
      <4> QED
        BY <3>1, <4>1, <4>2
    <3> HIDE DEF top, above
    <3> QED
      BY <3>1, <3>2, <3>3
  <2> QED
    BY <2>1, <2>3
<1> HIDE DEF above, top
<1>4. /\ top \in 0 .. Len(st)
      /\ kept \in Seq(Nat) /\ Len(kept) = top
      /\ \A m \in 1 .. top : kept[m] = st[m]
  <2>1. top \in 0 .. Len(st)
    BY <1>2 DEF above
  <2>2. \A m \in 1 .. top : st[m] \in Nat
    BY <1>1, <2>1
  <2> QED
    BY <1>1, <2>1, <2>2, SubSeqProperties
<1>5. Opened(st, n) = kept \o <<n>>
  BY DEF Opened, above, top
<1> HIDE DEF kept
<1> DEFINE o == Append(kept, n)
<1>6. Opened(st, n) = o
  BY <1>4, <1>5, AppendIsConcat
<1>7. /\ o \in Seq(Nat) /\ Len(o) = top + 1
      /\ \A m \in 1 .. top : o[m] = st[m]
      /\ o[top + 1] = n
  BY <1>4, AppendProperties
<1> HIDE DEF o
<1>8. Ascending(o)
  <2>1. \A m \in 1 .. Len(st) : st[m] < n
    BY <1>1 DEF Trail
  <2>2. ASSUME NEW m \in 1 .. Len(o) - 1 PROVE o[m] < o[m + 1]
    <3>1. m \in 1 .. top /\ m \in 1 .. Len(st) /\ o[m] = st[m]
      BY <1>1, <1>4, <1>7
    <3>2. CASE m = top
      BY <1>7, <2>1, <3>1, <3>2
    <3>3. CASE m # top
      <4>1. m + 1 \in 1 .. top /\ m \in 1 .. Len(st) - 1
        BY <1>1, <1>4, <3>1, <3>3
      <4> QED
        BY <1>7, <3>1, <4>1 DEF Ascending
    <3> QED
      BY <3>2, <3>3
  <2> QED
    BY <2>2 DEF Ascending
<1>9. Range(o) = {st[m] : m \in 1 .. top} \cup {n}
  <2>1. Range(o) = {o[m] : m \in 1 .. top + 1}
    BY <1>7, RangeEquality
  <2>2. 1 .. top + 1 = (1 .. top) \cup {top + 1}
    BY <1>4
  <2>3. Range(o) = {o[m] : m \in 1 .. top} \cup {o[top + 1]}
    BY <2>1, <2>2
  <2>4. {o[m] : m \in 1 .. top} = {st[m] : m \in 1 .. top}
    BY <1>7
  <2> QED
    BY <1>7, <2>3, <2>4
<1>10. Trail(H \cup {n}) = {h \in Trail(H) : lines[h].mark < lines[n].mark} \cup {n}
  <2>1. \A h \in H : h \in Nat /\ n > h /\ ~(h > n)
    OBVIOUS
  <2>2. n \in Trail(H \cup {n})
    BY <2>1 DEF Trail
  <2>3. ASSUME NEW h \in H
        PROVE  h \in Trail(H \cup {n}) <=> h \in Trail(H) /\ lines[n].mark > lines[h].mark
    BY <2>1 DEF Trail
  <2>4. \A h \in H : lines[n].mark > lines[h].mark <=> lines[h].mark < lines[n].mark
    OBVIOUS
  <2>5. Trail(H) \subseteq H /\ Trail(H \cup {n}) \subseteq H \cup {n}
    BY DEF Trail
  <2> QED
    BY <2>2, <2>3, <2>4, <2>5
<1>11. {h \in Trail(H) : lines[h].mark < lines[n].mark} = {st[m] : m \in 1 .. top}
  <2>1. ASSUME NEW h \in Trail(H), lines[h].mark < lines[n].mark
        PROVE  h \in {st[m] : m \in 1 .. top}
    <3>1. PICK m \in 1 .. Len(st) : h = st[m]
      BY <1>1
    <3>2. m \in 1 .. top
      BY <1>1, <1>3, <1>4, <2>1, <3>1
    <3> QED
      BY <3>1, <3>2
  <2>2. ASSUME NEW m \in 1 .. top
        PROVE  st[m] \in Trail(H) /\ lines[st[m]].mark < lines[n].mark
    <3>1. m \in 1 .. Len(st)
      BY <1>1, <1>4
    <3> QED
      BY <1>1, <1>3, <1>4, <3>1
  <2> QED
    BY <2>1, <2>2
<1> QED
  BY <1>6, <1>7, <1>8, <1>9, <1>10, <1>11

LEMMA HeadingOpens ==
  ASSUME lines \in Seq(Lines), NEW n \in DOMAIN lines, NEW fl, Before(fl, n),
         NEW st \in Seq(Nat), Filed(fl, st)
  PROVE  /\ Opened(st, n) \in Seq(Nat)
         /\ Range(Opened(st, n)) = Trail(Headings(fl, Len(fl)) \cup {n})
         /\ Ascending(Opened(st, n))
<1> DEFINE H == Headings(fl, Len(fl))
<1>0. /\ fl \in Seq(FlowBlocks) /\ DOMAIN fl = 1 .. Len(fl)
      /\ n \in Nat /\ DOMAIN lines = 1 .. Len(lines) /\ Len(lines) \in Nat
  BY LenProperties DEF Before
<1>3. \A h \in H : h \in DOMAIN lines /\ h < n
  <2>1. ASSUME NEW b \in DOMAIN fl PROVE fl[b].first \in DOMAIN lines /\ fl[b].first < n
    <3>1. fl[b].first \in DOMAIN lines /\ fl[b].last \in fl[b].first .. Len(lines) /\ fl[b].last < n
      BY DEF Before
    <3> QED
      BY <1>0, <3>1
  <2> QED
    BY <1>0, <2>1 DEF Headings
<1>4. \A h \in H \cup {n} : lines[h].mark \in Nat
  <2>1. \A h \in DOMAIN lines : lines[h] \in Lines
    BY <1>0, ElementOfSeq
  <2> HIDE DEF H
  <2> QED
    BY <1>3, <2>1 DEF Lines
<1>5. Range(st) = Trail(H) /\ Ascending(st)
  BY DEF Filed
<1>6. H \in SUBSET Nat
  BY <1>0, <1>3
<1> HIDE DEF H
<1>7. /\ Opened(st, n) \in Seq(Nat)
      /\ Range(Opened(st, n)) = Trail(H \cup {n})
      /\ Ascending(Opened(st, n))
  BY <1>0, <1>3, <1>4, <1>5, <1>6, TrailOpened
<1> QED
  BY <1>7 DEF H

(* A heading is filed under the trail that it opens.                       *)
LEMMA FileHeading ==
  ASSUME lines \in Seq(Lines), NEW n \in DOMAIN lines, NEW fl, Before(fl, n),
         NEW st \in Seq(Nat), Filed(fl, st),
         NEW x \in FlowBlocks, x.kind = "heading", x.first = n, x.section = Opened(st, n)
  PROVE  Filed(fl \o <<x>>, Opened(st, n))
<1> DEFINE fx == fl \o <<x>>
           H == Headings(fl, Len(fl))
<1>0. fl \in Seq(FlowBlocks)
  BY DEF Before
<1>1. /\ Len(fx) = Len(fl) + 1 /\ Len(fl) \in Nat /\ DOMAIN fl = 1 .. Len(fl)
      /\ DOMAIN fx = 1 .. Len(fl) + 1
      /\ \A b \in 1 .. Len(fl) : fx[b] = fl[b]
      /\ fx[Len(fl) + 1] = x
  BY <1>0, FlowAppend
<1>2. /\ \A b \in 1 .. Len(fl) : Headings(fx, b) = Headings(fl, b)
      /\ Headings(fx, Len(fl) + 1) = H \cup {n}
  BY <1>0, HeadingsAppend
<1>7. Range(Opened(st, n)) = Trail(H \cup {n}) /\ Ascending(Opened(st, n))
  BY HeadingOpens
<1> HIDE DEF fx, H
<1>8. ASSUME NEW b \in DOMAIN fx
      PROVE  Range(fx[b].section) = Trail(Headings(fx, b)) /\ Ascending(fx[b].section)
  <2>1. CASE b \in 1 .. Len(fl)
    BY <2>1, <1>1, <1>2 DEF Filed
  <2>2. CASE b = Len(fl) + 1
    BY <2>2, <1>1, <1>2, <1>7
  <2> QED
    BY <1>1, <2>1, <2>2
<1> QED
  BY <1>1, <1>2, <1>7, <1>8 DEF Filed, fx

-----------------------------------------------------------------------------
(* Blocks that are not cut *)

Content(n, m) == {k \in n .. m : ~Blank(k)}

Closing(n) == {m \in DOMAIN lines : m > n /\ SameFence(m, n)}

(* A block that ends where its text does.                                  *)
UncutBlock(x) ==
  /\ extension \in Markdown =>
       IF lines[x.first].kind = "fence"
         THEN Closing(x.first) # {} /\ x.last = Min(Closing(x.first))
         ELSE \A n \in Content(x.first + 1, x.last) : lines[n].kind = lines[x.first].kind
  /\ extension \in Tables => Cardinality(Content(x.first + 1, x.last)) + 1 = rows_per_block

(* A block that ends with the whole text.                                  *)
LastBlock(x) ==
  /\ extension \in Markdown => lines[x.first].kind = "fence" /\ Closing(x.first) = {}
  /\ extension \in Tables => Cardinality(Content(x.first + 1, x.last)) + 1 <= rows_per_block

Uncut(fl, over) ==
  \A b \in DOMAIN fl : UncutBlock(fl[b]) \/ (over /\ b = Len(fl) /\ LastBlock(fl[b]))

(* What is known of the blocks fl that are finished before line n.         *)
Laid(fl, n, st, over) == Before(fl, n) /\ Filed(fl, st) /\ Uncut(fl, over)

LEMMA LaterStill ==
  ASSUME NEW fl, NEW n \in Nat, NEW m \in Nat, n <= m, lines \in Seq(Lines), Before(fl, n)
  PROVE  Before(fl, m)
<1>1. Len(lines) \in Nat /\ DOMAIN lines = 1 .. Len(lines)
  BY LenProperties
<1> QED
  BY <1>1 DEF Before

LEMMA LaidLater ==
  ASSUME NEW fl, NEW n \in Nat, NEW m \in Nat, n <= m, lines \in Seq(Lines),
         NEW st, NEW over, Laid(fl, n, st, FALSE)
  PROVE  Laid(fl, m, st, over)
BY LaterStill DEF Laid, Uncut

LEMMA AddBlock ==
  ASSUME lines \in Seq(Lines), NEW n \in Nat, NEW m \in Nat, NEW over \in BOOLEAN,
         NEW fl, Before(fl, n), Uncut(fl, FALSE),
         NEW x \in FlowBlocks, x.first \in DOMAIN lines, n <= x.first,
         x.last \in x.first .. Len(lines), x.last < m,
         UncutBlock(x) \/ (over /\ LastBlock(x))
  PROVE  Before(fl \o <<x>>, m) /\ Uncut(fl \o <<x>>, over)
<1> DEFINE fx == fl \o <<x>>
<1>1. Len(lines) \in Nat /\ DOMAIN lines = 1 .. Len(lines) /\ fl \in Seq(FlowBlocks)
  BY LenProperties DEF Before
<1>2. /\ fx \in Seq(FlowBlocks)
      /\ Len(fx) = Len(fl) + 1 /\ Len(fl) \in Nat /\ DOMAIN fl = 1 .. Len(fl)
      /\ DOMAIN fx = 1 .. Len(fl) + 1
      /\ \A b \in 1 .. Len(fl) : fx[b] = fl[b]
      /\ fx[Len(fl) + 1] = x
  BY <1>1, FlowAppend
<1>3. n <= m
  BY <1>1
<1>4. Before(fl, m)
  BY <1>3, LaterStill
<1> HIDE DEF fx
<1>5. ASSUME NEW b \in DOMAIN fx
      PROVE  /\ fx[b].first \in DOMAIN lines /\ fx[b].last \in fx[b].first .. Len(lines)
             /\ fx[b].last < m
             /\ UncutBlock(fx[b]) \/ (over /\ b = Len(fx) /\ LastBlock(fx[b]))
  <2>1. CASE b \in 1 .. Len(fl)
    BY <2>1, <1>2, <1>4 DEF Before, Uncut
  <2>2. CASE b = Len(fl) + 1
    BY <2>2, <1>2
  <2> QED
    BY <1>2, <2>1, <2>2
<1> QED
  BY <1>2, <1>5 DEF Before, Uncut, fx

(* The lines from one with content on are trimmed to the last of them.     *)
LEMMA ContentEnds ==
  ASSUME lines \in Seq(Lines), NEW n \in DOMAIN lines, ~Blank(n), NEW m \in n .. Len(lines)
  PROVE  /\ Content(n, m) # {}
         /\ Min(Content(n, m)) = n
         /\ Max(Content(n, m)) \in Content(n, m)
         /\ \A k \in Content(n, m) : k <= Max(Content(n, m))
<1> DEFINE S == Content(n, m)
<1>1. Len(lines) \in Nat /\ DOMAIN lines = 1 .. Len(lines)
  BY LenProperties
<1>2. n \in S /\ S \in SUBSET (0 .. m) /\ m \in Nat /\ \A k \in S : n <= k
  BY <1>1 DEF Content
<1> HIDE DEF S
<1>3. Max(S) \in S /\ \A k \in S : k <= Max(S)
  BY <1>2, GreatestIn
<1>4. Min(S) \in S /\ \A k \in S : Min(S) <= k
  BY <1>2, LeastIn
<1>5. Min(S) = n
  BY <1>2, <1>4
<1> QED
  BY <1>2, <1>3, <1>5 DEF S

LEMMA EmitFrom ==
  ASSUME lines \in Seq(Lines), NEW n \in DOMAIN lines, ~Blank(n), NEW m \in n .. Len(lines),
         NEW kind \in FlowKinds, NEW st \in Seq(Nat)
  PROVE  \E x \in FlowBlocks :
           /\ _emit(kind, n, m, st) = <<x>>
           /\ x.kind = kind /\ x.first = n /\ x.section = st
           /\ x.last = Max(Content(n, m)) /\ x.last \in n .. m
<1> DEFINE x == [kind |-> kind, first |-> n, last |-> Max(Content(n, m)),
                 section |-> st, header |-> FALSE]
<1>1. Len(lines) \in Nat /\ DOMAIN lines = 1 .. Len(lines)
  BY LenProperties
<1>2. _emit(kind, n, m, st) = <<x>>
  BY ContentEnds DEF _emit, Content
<1>3. Max(Content(n, m)) \in n .. m
  BY ContentEnds DEF Content
<1>4. x \in FlowBlocks
  BY <1>1, <1>3 DEF FlowBlocks
<1> QED
  BY <1>2, <1>3, <1>4

-----------------------------------------------------------------------------
(* The invariant *)

(* Blocks may still begin at this line. *)
Start == IF pending = 0 THEN at ELSE pending

Over == at > Len(lines) /\ pending = 0

(* What is pending in a markdown text is all of one kind. *)
OneKind ==
  (extension \in Markdown /\ pending # 0) =>
    /\ lines[pending].kind \in {"paragraph", "list", "table"}
    /\ \A n \in pending .. at - 1 : lines[n].kind = lines[pending].kind

(* And in a table, as many rows as were counted. *)
RowsCounted ==
  /\ rows \in 0 .. rows_per_block - 1
  /\ pending = 0 => rows = 0
  /\ (extension \in Tables /\ pending # 0) =>
        rows = Cardinality(Content(pending + 1, at - 1)) + 1
  /\ extension \notin Tables => rows = 0

Reached ==
  /\ lines \in Seq(Lines)
  /\ at \in 0 .. Len(lines) + 2
  /\ extension \in Markdown \cup Tables => at <= Len(lines) + 1
  /\ extension \notin Tables => at # 0
  /\ pending \in 0 .. Len(lines)
  /\ pending # 0 => pending < at /\ ~Blank(pending) /\ extension \in Markdown \cup Tables
  /\ header \in BOOLEAN
  /\ stack \in Seq(Nat)
  /\ extension \notin Markdown => stack = <<>>

FlowInv == Reached /\ OneKind /\ RowsCounted /\ Laid(flow, Start, stack, Over)

LEMMA FlowTypes ==
  ASSUME Reached
  PROVE  /\ Len(lines) \in Nat /\ DOMAIN lines = 1 .. Len(lines)
         /\ \A n \in DOMAIN lines : lines[n] \in Lines /\ lines[n].kind \in LineKinds
         /\ at \in Nat /\ pending \in Nat /\ Start \in Nat
<1>1. lines \in Seq(Lines)
  BY DEF Reached
<1>2. Len(lines) \in Nat /\ DOMAIN lines = 1 .. Len(lines)
  BY <1>1, LenProperties
<1>3. \A n \in DOMAIN lines : lines[n] \in Lines
  BY <1>1, <1>2, ElementOfSeq
<1>4. \A x \in Lines : x.kind \in LineKinds
  BY DEF Lines
<1> QED
  BY <1>2, <1>3, <1>4 DEF Reached, Start

LEMMA InitFlowInv == FlowInit => FlowInv
<1> SUFFICES ASSUME FlowInit PROVE FlowInv
  OBVIOUS
<1> USE FlowTextAssumption DEF FlowInit
<1>1. lines \in Seq(Lines) /\ Len(lines) \in Nat
  BY LenProperties
<1>2. Reached
  <2>1. at \in {0, 1} /\ (at = 0 <=> extension \in Tables) /\ at \in 0 .. Len(lines) + 1
    BY <1>1
  <2>2. pending \in 0 .. Len(lines) /\ header \in BOOLEAN
    <3>1. pending \in 0 .. Len(lines)
      BY <1>1
    <3>2. header = FALSE
      BY ONLY FlowInit DEF FlowInit
    <3> QED
      BY ONLY <3>1, <3>2
  <2>3. at <= Len(lines) + 1 /\ at \in 0 .. Len(lines) + 2
    BY <1>1, <2>1
  <2>4. pending = 0 /\ stack = <<>>
    OBVIOUS
  <2>5. stack \in Seq(Nat)
    <3>1. <<>> \in Seq(Nat)
      BY ONLY EmptySeq
    <3> QED
      BY ONLY <2>4, <3>1
  <2> QED
    BY ONLY <1>1, <2>1, <2>2, <2>3, <2>4, <2>5 DEF Reached
<1>3. OneKind /\ RowsCounted
  BY DEF OneKind, RowsCounted
<1>4. Before(<<>>, Start) /\ Uncut(<<>>, Over)
  BY DEF Before, Uncut
<1>5. Filed(<<>>, <<>>)
  <2>1. Range(<<>>) = {} /\ Ascending(<<>>)
    BY DEF Range, Ascending
  <2>2. Trail(Headings(<<>>, 0)) = {}
    BY DEF Trail, Headings
  <2> QED
    BY <2>1, <2>2 DEF Filed
<1> QED
  BY <1>2, <1>3, <1>4, <1>5 DEF FlowInv, Laid

(* What is pending in a markdown text becomes a block of its own.          *)
LEMMA PendingLaid ==
  ASSUME FlowInv, extension \in Markdown, ~Over
  PROVE  Laid(flow \o Pending, at, stack, FALSE)
<1> USE DEF FlowInv
<1>0. /\ Len(lines) \in Nat /\ DOMAIN lines = 1 .. Len(lines) /\ at \in Nat /\ pending \in Nat
      /\ lines \in Seq(Lines) /\ \A n \in DOMAIN lines : lines[n].kind \in LineKinds
      /\ stack \in Seq(Nat)
  BY FlowTypes DEF Reached
<1>1. flow \in Seq(FlowBlocks) /\ Filed(flow, stack) /\ Before(flow, Start) /\ Uncut(flow, FALSE)
  BY DEF Laid, Before, Uncut
<1>2. CASE pending = 0
  <2>1. flow \o Pending = flow
    BY <1>1, <1>2, ConcatEmptySeq DEF Pending
  <2> QED
    BY <1>1, <1>2, <2>1 DEF Laid, Start
<1>3. CASE pending # 0
  <2> DEFINE kind == lines[pending].kind
  <2>1. /\ pending \in DOMAIN lines /\ ~Blank(pending) /\ at - 1 \in pending .. Len(lines)
        /\ kind \in {"paragraph", "list", "table"} /\ kind \in FlowKinds
        /\ \A n \in pending .. at - 1 : lines[n].kind = kind
    BY <1>0, <1>3 DEF Reached, OneKind, FlowKinds
  <2> HIDE DEF kind
  <2>2. PICK x \in FlowBlocks :
           /\ _emit(kind, pending, at - 1, stack) = <<x>>
           /\ x.kind = kind /\ x.first = pending /\ x.section = stack
           /\ x.last \in pending .. at - 1
    <3>1. \E x \in FlowBlocks :
            /\ _emit(kind, pending, at - 1, stack) = <<x>>
            /\ x.kind = kind /\ x.first = pending /\ x.section = stack
            /\ x.last = Max(Content(pending, at - 1)) /\ x.last \in pending .. at - 1
      <4>1. lines \in Seq(Lines) /\ stack \in Seq(Nat)
        BY ONLY <1>0
      <4>2. pending \in DOMAIN lines /\ ~Blank(pending) /\ kind \in FlowKinds
        BY ONLY <2>1
      <4>3. at - 1 \in pending .. Len(lines)
        BY ONLY <2>1
      <4> QED
        BY ONLY <4>1, <4>2, <4>3, EmitFrom
    <3> QED
      BY <3>1
  <2>3. Pending = <<x>>
    BY <1>3, <2>2 DEF Pending, kind
  <2>4. UncutBlock(x)
    <3>1. lines[x.first].kind = kind /\ kind # "fence"
      BY <1>0, <2>1, <2>2
    <3>2. \A n \in Content(x.first + 1, x.last) : lines[n].kind = kind
      BY <1>0, <2>1, <2>2 DEF Content
    <3>3. extension \notin Tables
      BY DEF Markdown, Tables
    <3> QED
      BY <3>1, <3>2, <3>3 DEF UncutBlock
  <2>5. Filed(flow \o <<x>>, stack)
    BY <1>1, <2>1, <2>2, FileBlock
  <2>6. Before(flow \o <<x>>, at) /\ Uncut(flow \o <<x>>, FALSE)
    <3>1. /\ x.first \in DOMAIN lines /\ Start <= x.first /\ Start \in Nat
          /\ x.last \in x.first .. Len(lines) /\ x.last < at
      BY <1>0, <1>3, <2>1, <2>2 DEF Start
    <3> QED
      BY <1>0, <1>1, <2>4, <3>1, AddBlock
  <2> QED
    BY <2>3, <2>5, <2>6 DEF Laid
<1> QED
  BY <1>2, <1>3

(* The text does not change while it is split.                             *)
LEMMA SameText ==
  ASSUME lines' = lines, extension' = extension, Laid(flow', Start', stack', Over')
  PROVE  Laid(flow, Start, stack, Over)'
<1>1. Before(flow, Start)'
  BY DEF Laid, Before
<1>2. Filed(flow, stack)'
  BY DEF Laid, Filed, Headings, Trail, Ascending
<1>3. \A x : (UncutBlock(x) => UncutBlock(x)') /\ (LastBlock(x) => LastBlock(x)')
  BY DEF UncutBlock, LastBlock, Closing, Content, SameFence, Blank
<1>4. Uncut(flow, Over)'
  BY <1>3 DEF Laid, Uncut
<1> QED
  BY <1>1, <1>2, <1>4 DEF Laid

LEMMA ReadFence ==
  ASSUME FlowInv, read_fence
  PROVE  FlowInv'
<1> USE DEF FlowInv
<1> DEFINE closing == {n \in at + 1 .. Len(lines) : SameFence(n, at)}
           close == Min(closing \cup {Len(lines)})
           fl == flow \o Pending
<1>0. /\ Len(lines) \in Nat /\ DOMAIN lines = 1 .. Len(lines) /\ at \in Nat /\ pending \in Nat
      /\ lines \in Seq(Lines) /\ \A n \in DOMAIN lines : lines[n].kind \in LineKinds
      /\ stack \in Seq(Nat)
  BY FlowTypes DEF Reached
<1>1. /\ extension \in Markdown /\ extension \notin Tables /\ at \in DOMAIN lines /\ ~Over
      /\ lines[at].kind = "fence" /\ ~Blank(at)
  BY <1>0 DEF read_fence, Reading, Markdown, Tables, Reached, Over, Blank
<1>2. /\ flow' = fl \o _emit("paragraph", at, close, stack)
      /\ at' = close + 1 /\ pending' = 0
      /\ UNCHANGED <<extension, lines, rows, stack, header>>
  BY DEF read_fence
<1>3. Laid(fl, at, stack, FALSE)
  BY <1>1, PendingLaid
<1> HIDE DEF fl
<1>4. /\ close \in at .. Len(lines)
      /\ closing = Closing(at)
      /\ IF closing = {} THEN close = Len(lines) ELSE close = Min(closing) /\ close \in closing
  <2>1. closing = Closing(at)
    BY <1>0, <1>1 DEF Closing
  <2>2. closing \in SUBSET Nat /\ \A m \in closing : m >= at + 1 /\ m <= Len(lines)
    BY <1>0
  <2> HIDE DEF closing
  <2>3. CASE closing = {}
    <3>1. {Len(lines)} \in SUBSET Nat
      BY <1>0
    <3>2. close = Len(lines)
      BY <2>3, <3>1, LeastIn
    <3> QED
      BY <1>0, <1>1, <2>1, <2>3, <3>2
  <2>4. CASE closing # {}
    <3>1. closing \in SUBSET Nat /\ closing \cup {Len(lines)} \in SUBSET Nat
      BY ONLY <1>0, <2>2
    <3>2. Min(closing) \in closing /\ \A m \in closing : Min(closing) <= m
      BY <2>4, <3>1, LeastIn
    <3>3. close \in closing \cup {Len(lines)} /\ \A m \in closing \cup {Len(lines)} : close <= m
      BY <3>1, LeastIn
    <3>4. close = Min(closing)
      <4>1. Min(closing) \in Nat /\ close <= Min(closing) /\ Min(closing) <= Len(lines)
        BY <2>2, <3>1, <3>2, <3>3
      <4>2. close \in Nat /\ Min(closing) <= close
        BY <1>0, <3>1, <3>2, <3>3, <4>1
      <4> HIDE DEF close
      <4> QED
        BY ONLY <4>1, <4>2
    <3> QED
      BY <1>0, <1>1, <2>1, <2>2, <2>4, <3>2, <3>4
  <2> QED
    BY <2>3, <2>4
<1> HIDE DEF closing, close
<1>n. /\ Len(lines) \in Nat /\ at \in Nat /\ close \in Nat
      /\ 1 <= at /\ at <= close /\ close <= Len(lines)
  <2>1. Len(lines) \in Nat /\ at \in 1 .. Len(lines) /\ close \in at .. Len(lines)
    BY <1>0, <1>1, <1>4
  <2> QED
    BY ONLY <2>1
<1>5. PICK x \in FlowBlocks :
        /\ _emit("paragraph", at, close, stack) = <<x>>
        /\ x.kind = "paragraph" /\ x.first = at /\ x.section = stack
        /\ x.last = Max(Content(at, close)) /\ x.last \in at .. close
  <2>1. "paragraph" \in FlowKinds
    BY DEF FlowKinds
  <2>2. \E x \in FlowBlocks :
          /\ _emit("paragraph", at, close, stack) = <<x>>
          /\ x.kind = "paragraph" /\ x.first = at /\ x.section = stack
          /\ x.last = Max(Content(at, close)) /\ x.last \in at .. close
    <3>1. lines \in Seq(Lines) /\ at \in DOMAIN lines /\ ~Blank(at) /\ stack \in Seq(Nat)
      BY <1>0, <1>1
    <3>2. close \in at .. Len(lines)
      BY <1>4
    <3> QED
      BY ONLY <2>1, <3>1, <3>2, EmitFrom
  <2> QED
    BY <2>2
<1>6. UncutBlock(x) \/ (Over' /\ LastBlock(x))
  <2>1. CASE closing = {}
    BY <1>0, <1>1, <1>2, <1>4, <1>5, <2>1 DEF Over, LastBlock
  <2>2. CASE closing # {}
    <3>1. close \in Closing(at)
      BY <1>4, <2>2
    <3>3. ~Blank(close)
      BY ONLY <3>1 DEF Closing, SameFence, Blank
    <3>4. close \in Content(at, close)
      <4>1. close \in at .. close
        BY ONLY <1>n
      <4> QED
        BY ONLY <3>3, <4>1 DEF Content
    <3>2. x.last = close
      <4>1. close <= x.last
        BY ONLY <1>0, <1>1, <1>4, <1>5, <3>4, ContentEnds
      <4>2. x.last \in at .. close
        BY <1>5
      <4> QED
        BY ONLY <1>n, <4>1, <4>2
    <3> QED
      BY <1>1, <1>4, <1>5, <2>2, <3>2 DEF UncutBlock
  <2> QED
    BY <2>1, <2>2
<1>7. Laid(flow', at', stack, Over')
  <2>1. /\ x.first \in DOMAIN lines /\ at <= x.first /\ at' \in Nat
        /\ x.last \in x.first .. Len(lines) /\ x.last < at' /\ x.kind # "heading"
    <3>1. x.first = at /\ at \in DOMAIN lines /\ at' = close + 1 /\ x.kind = "paragraph"
      BY ONLY <1>1, <1>2, <1>5
    <3>2. x.last \in at .. close
      BY ONLY <1>5
    <3>3. x.last \in at .. Len(lines) /\ x.last < close + 1 /\ close + 1 \in Nat
      BY ONLY <1>n, <3>2
    <3>4. at <= at
      BY ONLY <1>n
    <3> QED
      BY ONLY <3>1, <3>3, <3>4
  <2>5. Over' \in BOOLEAN
    BY ONLY DEF Over
  <2>6. fl \in Seq(FlowBlocks)
    BY ONLY <1>3 DEF Laid, Before
  <2>2. Before(fl, at) /\ Filed(fl, stack) /\ Uncut(fl, FALSE)
    BY <1>3 DEF Laid
  <2>3. Before(fl \o <<x>>, at') /\ Uncut(fl \o <<x>>, Over')
    BY ONLY <1>0, <1>6, <2>1, <2>2, <2>5, AddBlock
  <2>4. Filed(fl \o <<x>>, stack)
    BY ONLY <1>5, <2>1, <2>2, <2>6, FileBlock
  <2> QED
    BY <1>2, <1>5, <2>3, <2>4 DEF Laid
<1>8. Laid(flow, Start, stack, Over)'
  <2>1. Start' = at' /\ stack' = stack
    BY <1>2 DEF Start
  <2>2. Laid(flow', Start', stack', Over')
    BY ONLY <1>7, <2>1
  <2> QED
    BY ONLY <1>2, <2>2, SameText
<1>9. Reached'
  <2>1. /\ at' \in 0 .. Len(lines) + 2 /\ at' <= Len(lines) + 1 /\ at' # 0
    BY ONLY <1>n, <1>2
  <2>2. pending' \in 0 .. Len(lines)
    BY <1>0, <1>2
  <2> QED
    BY <1>0, <1>1, <1>2, <2>1, <2>2 DEF Reached
<1>10. OneKind' /\ RowsCounted'
  BY <1>1, <1>2 DEF OneKind, RowsCounted
<1> QED
  BY <1>8, <1>9, <1>10

LEMMA ReadHeading ==
  ASSUME FlowInv, read_heading
  PROVE  FlowInv'
<1> USE DEF FlowInv
<1> DEFINE fl == flow \o Pending
<1>0. /\ Len(lines) \in Nat /\ DOMAIN lines = 1 .. Len(lines) /\ at \in Nat /\ pending \in Nat
      /\ lines \in Seq(Lines) /\ stack \in Seq(Nat)
  BY FlowTypes DEF Reached
<1>1. /\ extension \in Markdown /\ extension \notin Tables /\ at \in DOMAIN lines /\ ~Over
      /\ lines[at].kind = "heading" /\ ~Blank(at)
  BY <1>0 DEF read_heading, Reading, Markdown, Tables, Reached, Over, Blank
<1>2. /\ stack' = Opened(stack, at)
      /\ flow' = fl \o _emit("heading", at, at, stack')
      /\ at' = at + 1 /\ pending' = 0
      /\ UNCHANGED <<extension, lines, rows, header>>
  BY DEF read_heading
<1>3. Laid(fl, at, stack, FALSE)
  BY <1>1, PendingLaid
<1> HIDE DEF fl
<1>4. Before(fl, at) /\ Filed(fl, stack) /\ Uncut(fl, FALSE) /\ fl \in Seq(FlowBlocks)
  BY <1>3 DEF Laid, Before
<1>5. stack' \in Seq(Nat)
  BY <1>0, <1>1, <1>2, <1>4, HeadingOpens
<1>n. Len(lines) \in Nat /\ at \in Nat /\ 1 <= at /\ at <= Len(lines) /\ at \in at .. Len(lines)
  BY ONLY <1>0, <1>1
<1>6. PICK x \in FlowBlocks :
        /\ _emit("heading", at, at, stack') = <<x>>
        /\ x.kind = "heading" /\ x.first = at /\ x.section = stack' /\ x.last \in at .. at
  <2>1. "heading" \in FlowKinds
    BY DEF FlowKinds
  <2>2. \A st \in Seq(Nat) : \E x \in FlowBlocks :
          /\ _emit("heading", at, at, st) = <<x>>
          /\ x.kind = "heading" /\ x.first = at /\ x.section = st
          /\ x.last = Max(Content(at, at)) /\ x.last \in at .. at
    <3>1. lines \in Seq(Lines) /\ at \in DOMAIN lines /\ ~Blank(at)
      BY <1>0, <1>1
    <3> QED
      BY ONLY <1>n, <2>1, <3>1, EmitFrom
  <2> QED
    BY <1>5, <2>2
<1>7. UncutBlock(x)
  <2>1. x.last = at
    BY ONLY <1>n, <1>6
  <2>2. Content(x.first + 1, x.last) = {}
    BY ONLY <1>n, <1>6, <2>1 DEF Content
  <2> QED
    BY <1>1, <1>6, <2>2 DEF UncutBlock
<1>8. Laid(flow', Start', stack', Over')
  <2>1. /\ x.first \in DOMAIN lines /\ at <= x.first /\ at' \in Nat
        /\ x.last \in x.first .. Len(lines) /\ x.last < at'
    BY ONLY <1>0, <1>1, <1>2, <1>6, <1>n
  <2>2. Over' \in BOOLEAN /\ Start' = at'
    BY <1>2 DEF Over, Start
  <2>3. Before(fl \o <<x>>, at') /\ Uncut(fl \o <<x>>, Over')
    BY ONLY <1>0, <1>4, <1>7, <2>1, <2>2, AddBlock
  <2>4. x.section = Opened(stack, at)
    BY <1>2, <1>6
  <2>5. Filed(fl \o <<x>>, Opened(stack, at))
    BY ONLY <1>0, <1>1, <1>4, <1>6, <2>4, FileHeading
  <2> QED
    BY <1>2, <1>6, <2>2, <2>3, <2>5 DEF Laid
<1>9. Laid(flow, Start, stack, Over)'
  BY ONLY <1>2, <1>8, SameText
<1>10. Reached'
  <2>1. at' \in 0 .. Len(lines) + 2 /\ at' <= Len(lines) + 1 /\ at' # 0
    BY ONLY <1>n, <1>2
  <2>2. pending' \in 0 .. Len(lines)
    BY <1>0, <1>2
  <2> QED
    BY <1>0, <1>1, <1>2, <1>5, <2>1, <2>2 DEF Reached
<1>11. OneKind' /\ RowsCounted'
  BY <1>1, <1>2 DEF OneKind, RowsCounted
<1> QED
  BY <1>9, <1>10, <1>11

LEMMA ReadBlank ==
  ASSUME FlowInv, read_blank \/ flush_last
  PROVE  FlowInv'
<1> USE DEF FlowInv
<1> DEFINE fl == flow \o Pending
<1>0. /\ Len(lines) \in Nat /\ DOMAIN lines = 1 .. Len(lines) /\ at \in Nat /\ pending \in Nat
      /\ lines \in Seq(Lines) /\ stack \in Seq(Nat)
  BY FlowTypes DEF Reached
<1>1. extension \in Markdown /\ extension \notin Tables /\ ~Over
  BY <1>0 DEF read_blank, flush_last, Reading, Markdown, Tables, Over
<1>2. /\ flow' = fl /\ pending' = 0
      /\ at' = at \/ (at <= Len(lines) /\ at' = at + 1)
      /\ UNCHANGED <<extension, lines, rows, stack, header>>
  BY DEF read_blank, flush_last, Reading
<1>3. Laid(fl, at, stack, FALSE)
  BY <1>1, PendingLaid
<1> HIDE DEF fl
<1>4. Laid(flow', Start', stack', Over')
  <2>1. Start' \in Nat /\ at <= Start'
    BY <1>0, <1>2 DEF Start
  <2> QED
    BY <1>0, <1>2, <1>3, <2>1, LaidLater
<1>5. Laid(flow, Start, stack, Over)'
  BY ONLY <1>2, <1>4, SameText
<1>6. Reached'
  <2>1. at' \in 0 .. Len(lines) + 2 /\ at' <= Len(lines) + 1 /\ at' # 0
    BY <1>0, <1>1, <1>2 DEF Reached
  <2>2. pending' \in 0 .. Len(lines)
    BY <1>0, <1>2
  <2> QED
    BY <1>0, <1>1, <1>2, <2>1, <2>2 DEF Reached
<1>7. OneKind' /\ RowsCounted'
  BY <1>1, <1>2 DEF OneKind, RowsCounted
<1> QED
  BY <1>5, <1>6, <1>7

LEMMA ReadText ==
  ASSUME FlowInv, read_text
  PROVE  FlowInv'
<1> USE DEF FlowInv
<1> DEFINE more == pending # 0 /\ lines[pending].kind = lines[at].kind
<1>0. /\ Len(lines) \in Nat /\ DOMAIN lines = 1 .. Len(lines) /\ at \in Nat /\ pending \in Nat
      /\ lines \in Seq(Lines) /\ stack \in Seq(Nat)
  BY FlowTypes DEF Reached
<1>1. /\ extension \in Markdown /\ extension \notin Tables /\ at \in DOMAIN lines /\ ~Over
      /\ lines[at].kind \in {"paragraph", "list", "table"} /\ ~Blank(at)
  BY <1>0 DEF read_text, Reading, Markdown, Tables, Reached, Over, Blank
<1>2. /\ at' = at + 1
      /\ UNCHANGED <<extension, lines, rows, stack, header>>
      /\ IF more THEN pending' = pending /\ flow' = flow
         ELSE pending' = at /\ flow' = flow \o Pending
  BY DEF read_text
<1>3. Len(lines) \in Nat /\ at \in Nat /\ 1 <= at /\ at <= Len(lines)
  BY ONLY <1>0, <1>1
<1>4. pending' \in 1 .. at /\ ~Blank(pending')
  BY <1>0, <1>1, <1>2, <1>3 DEF Reached
<1>5. Laid(flow', Start', stack', Over')
  <2>1. Over' = FALSE /\ Start' = pending' /\ Over = FALSE
    BY <1>0, <1>1, <1>4 DEF Over, Start
  <2>2. CASE more
    BY <1>2, <2>1, <2>2 DEF Start
  <2>3. CASE ~more
    BY <1>1, <1>2, <2>1, <2>3, PendingLaid
  <2> QED
    BY <2>2, <2>3
<1>6. Laid(flow, Start, stack, Over)'
  BY ONLY <1>2, <1>5, SameText
<1>7. Reached'
  <2>1. at' \in 0 .. Len(lines) + 2 /\ at' <= Len(lines) + 1 /\ at' # 0
    BY ONLY <1>2, <1>3
  <2>2. pending' \in 0 .. Len(lines) /\ pending' < at'
    BY ONLY <1>2, <1>3, <1>4
  <2>3. ~Blank(pending)'
    BY <1>2, <1>4 DEF Blank
  <2> QED
    BY <1>0, <1>1, <1>2, <2>1, <2>2, <2>3 DEF Reached
<1>8. OneKind'
  <2>1. lines[pending'].kind = lines[at].kind
    BY <1>2
  <2>2. \A n \in pending' .. at : lines[n].kind = lines[at].kind
    <3>1. CASE more
      <4>1. \A n \in pending .. at - 1 : lines[n].kind = lines[at].kind
        BY <1>1, <3>1 DEF OneKind
      <4>2. pending' = pending /\ \A n \in pending .. at : n = at \/ n \in pending .. at - 1
        BY <1>0, <1>2, <3>1
      <4> QED
        BY <4>1, <4>2
    <3>2. CASE ~more
      BY <1>2, <1>3, <3>2
    <3> QED
      BY <3>1, <3>2
  <2>3. at' - 1 = at
    BY ONLY <1>2, <1>3
  <2> QED
    BY <1>1, <1>2, <2>1, <2>2, <2>3 DEF OneKind
<1>9. RowsCounted'
  BY <1>1, <1>2 DEF RowsCounted
<1> QED
  BY <1>6, <1>7, <1>8, <1>9

LEMMA ReadHeader ==
  ASSUME FlowInv, read_header
  PROVE  FlowInv'
<1> USE DEF FlowInv
<1>0. /\ Len(lines) \in Nat /\ DOMAIN lines = 1 .. Len(lines) /\ at = 0 /\ pending = 0
      /\ lines \in Seq(Lines) /\ stack \in Seq(Nat) /\ stack = <<>>
      /\ extension \in Tables /\ extension \notin Markdown
  BY FlowTypes DEF read_header, Reading, Reached, Markdown, Tables
<1>1. /\ at' \in {1, 2} /\ header' \in BOOLEAN
      /\ UNCHANGED <<extension, lines, pending, rows, stack, flow>>
  BY DEF read_header
<1>2. 1 <= Len(lines)
  <2>1. DOMAIN lines # {}
    BY DEF read_header, Reading, Empty
  <2> QED
    BY <1>0, <2>1
<1>3. Laid(flow', Start', stack', Over')
  <2>1. Start = 0 /\ Start' = at' /\ Over = FALSE
    BY <1>0, <1>1 DEF Start, Over
  <2>2. Laid(flow, 0, stack, FALSE)
    BY <2>1
  <2>3. Laid(flow, at', stack, Over')
    <3>1. at' \in Nat /\ 0 \in Nat /\ 0 <= at' /\ lines \in Seq(Lines)
      BY <1>0, <1>1
    <3> QED
      BY ONLY <2>2, <3>1, LaidLater
  <2> QED
    BY <1>1, <2>1, <2>3
<1>4. Laid(flow, Start, stack, Over)'
  BY ONLY <1>1, <1>3, SameText
<1>5. Reached'
  BY <1>0, <1>1, <1>2 DEF Reached
<1>6. OneKind' /\ RowsCounted'
  BY <1>0, <1>1 DEF OneKind, RowsCounted
<1> QED
  BY <1>4, <1>5, <1>6

(* The row at hand is one of the group that begins at Start.               *)
LEMMA RowAdded ==
  ASSUME Reached, RowsCounted, extension \in Tables, at \in DOMAIN lines, ~Blank(at)
  PROVE  /\ Start \in 1 .. at /\ ~Blank(Start)
         /\ rows + 1 = Cardinality(Content(Start + 1, at)) + 1
<1>0. /\ Len(lines) \in Nat /\ DOMAIN lines = 1 .. Len(lines) /\ pending \in Nat
  BY FlowTypes
<1>1. at \in Nat /\ 1 <= at /\ pending \in 0 .. at /\ pending # at /\ rows \in Nat
  BY <1>0, FlowTextAssumption DEF Reached, RowsCounted
<1>2. CASE pending = 0
  <2>1. Start = at /\ rows = 0 /\ Content(at + 1, at) = {}
    BY <1>1, <1>2 DEF Start, RowsCounted, Content
  <2> QED
    BY <1>1, <2>1, FS_EmptySet
<1>3. CASE pending # 0
  <2> DEFINE S == Content(pending + 1, at - 1)
  <2>1. Start = pending /\ ~Blank(pending) /\ rows = Cardinality(S) + 1
    BY <1>3 DEF Start, Reached, RowsCounted
  <2>2. Content(pending + 1, at) = S \cup {at} /\ at \notin S
    BY <1>1, <1>3 DEF Content
  <2>3. IsFiniteSet(S)
    <3>1. IsFiniteSet(pending + 1 .. at - 1)
      BY <1>1, FS_Interval
    <3> QED
      BY <3>1, FS_Subset DEF Content
  <2> HIDE DEF S
  <2>4. Cardinality(S \cup {at}) = Cardinality(S) + 1
    BY <2>2, <2>3, FS_AddElement
  <2>5. rows + 1 = Cardinality(Content(pending + 1, at)) + 1
    BY <2>1, <2>2, <2>4
  <2> QED
    BY <1>1, <1>3, <2>1, <2>5
<1> QED
  BY <1>2, <1>3

(* A group of rows, from its first to its last.                            *)
LEMMA GroupFrom ==
  ASSUME lines \in Seq(Lines), NEW n \in DOMAIN lines, ~Blank(n), NEW m \in n .. Len(lines),
         header \in BOOLEAN
  PROVE  \E x \in FlowBlocks :
           /\ Group(n, m) = <<x>>
           /\ x.kind = "table" /\ x.first = n /\ x.section = <<>>
           /\ x.last \in n .. m /\ Content(n + 1, x.last) = Content(n + 1, m)
<1> DEFINE x == [kind |-> "table", first |-> n, section |-> <<>>, header |-> header,
                 last |-> Max(Content(n, m))]
<1>1. Len(lines) \in Nat /\ DOMAIN lines = 1 .. Len(lines)
  BY LenProperties
<1>2. Group(n, m) = <<x>>
  BY DEF Group, Content
<1>3. Max(Content(n, m)) \in n .. m /\ \A k \in Content(n, m) : k <= Max(Content(n, m))
  BY ContentEnds DEF Content
<1>4. x \in FlowBlocks
  <2>1. <<>> \in Seq(Nat)
    BY ONLY EmptySeq
  <2>2. n \in Nat /\ Max(Content(n, m)) \in Nat
    BY <1>1, <1>3
  <2>3. "table" \in FlowKinds
    BY DEF FlowKinds
  <2> QED
    BY <2>1, <2>2, <2>3 DEF FlowBlocks
<1>5. Content(n + 1, x.last) = Content(n + 1, m)
  <2> DEFINE last == Max(Content(n, m))
  <2>1. last \in n .. m /\ n \in Nat /\ m \in Nat /\ \A k \in Content(n, m) : k <= last
    BY <1>1, <1>3
  <2>2. x.last = last
    OBVIOUS
  <2> HIDE DEF last, x
  <2>3. \A k \in Content(n + 1, m) : k \in Content(n, m) /\ k \in Content(n + 1, last)
    BY <2>1 DEF Content
  <2>4. \A k \in Content(n + 1, last) : k \in Content(n + 1, m)
    BY <2>1 DEF Content
  <2> QED
    BY <2>2, <2>3, <2>4
<1> QED
  BY <1>2, <1>3, <1>4, <1>5

(* A row is passed over, or joins the group that begins at Start.          *)
LEMMA ReadRow ==
  ASSUME FlowInv, read_row
  PROVE  FlowInv'
<1> USE DEF FlowInv
<1>0. /\ Len(lines) \in Nat /\ DOMAIN lines = 1 .. Len(lines) /\ at \in Nat /\ pending \in Nat
      /\ lines \in Seq(Lines) /\ stack = <<>> /\ stack \in Seq(Nat) /\ header \in BOOLEAN
      /\ extension \in Tables /\ extension \notin Markdown
      /\ 1 <= at /\ at <= Len(lines) /\ at \in DOMAIN lines /\ pending < at
  BY FlowTypes DEF read_row, Reading, Reached, Markdown, Tables
<1>1. at' = at + 1 /\ UNCHANGED <<extension, lines, stack, header>>
  BY DEF read_row
<1>2. Laid(flow, Start, stack, FALSE) /\ Start \in Nat /\ Start <= at
  <2>1. Over = FALSE
    BY <1>0 DEF Over
  <2>2. Laid(flow, Start, stack, FALSE)
    BY <2>1
  <2>3. Start \in Nat /\ Start <= at
    BY ONLY <1>0 DEF Start
  <2> QED
    BY <2>2, <2>3
<1>3. rows \in 0 .. rows_per_block - 1 /\ rows_per_block \in Nat \ {0}
  BY FlowTextAssumption DEF RowsCounted
<1>4. CASE Blank(at)
  <2>1. UNCHANGED <<pending, rows, flow>>
    BY <1>4 DEF read_row
  <2>2. Laid(flow', Start', stack', Over')
    <3>1. Start' \in Nat /\ Start <= Start'
      BY <1>0, <1>1, <2>1 DEF Start
    <3>2. Laid(flow, Start', stack, Over')
      BY ONLY <1>0, <1>2, <3>1, LaidLater
    <3> QED
      BY <1>1, <2>1, <3>2
  <2>3. Reached'
    <3>1. at' \in 0 .. Len(lines) + 2 /\ at' <= Len(lines) + 1 /\ pending < at'
      BY ONLY <1>0, <1>1
    <3>2. ~Blank(pending)' <=> ~Blank(pending)
      BY <1>1, <2>1 DEF Blank
    <3> QED
      BY <1>0, <1>1, <2>1, <3>1, <3>2 DEF Reached
  <2>4. RowsCounted'
    <3>1. pending # 0 => Content(pending + 1, at) = Content(pending + 1, at - 1)
      BY <1>0, <1>4 DEF Content
    <3>2. at' - 1 = at
      BY ONLY <1>0, <1>1
    <3>3. Content(pending + 1, at - 1)' = Content(pending + 1, at)
      BY <1>1, <2>1, <3>2 DEF Content, Blank
    <3> QED
      BY <1>0, <1>1, <1>3, <2>1, <3>1, <3>2, <3>3 DEF RowsCounted
  <2>5. OneKind'
    BY <1>0, <1>1 DEF OneKind
  <2> QED
    BY ONLY <1>1, <2>2, <2>3, <2>4, <2>5, SameText DEF FlowInv
<1>5. CASE ~Blank(at)
  <2>1. /\ Start \in 1 .. at /\ ~Blank(Start)
        /\ rows + 1 = Cardinality(Content(Start + 1, at)) + 1
    BY <1>0, <1>5, RowAdded
  <2>2. IF rows + 1 >= rows_per_block
          THEN flow' = flow \o Group(Start, at) /\ pending' = 0 /\ rows' = 0
          ELSE pending' = Start /\ rows' = rows + 1 /\ UNCHANGED flow
    BY <1>5 DEF read_row, Start
  <2>3. at' \in 0 .. Len(lines) + 2 /\ at' <= Len(lines) + 1 /\ at' # 0
    BY ONLY <1>0, <1>1
  <2>4. CASE rows + 1 >= rows_per_block
    <3>1. flow' = flow \o Group(Start, at) /\ pending' = 0 /\ rows' = 0
      BY <2>2, <2>4
    <3>2. Start \in DOMAIN lines /\ at \in Start .. Len(lines)
      BY ONLY <1>0, <2>1
    <3>3. PICK x \in FlowBlocks :
            /\ Group(Start, at) = <<x>>
            /\ x.kind = "table" /\ x.first = Start /\ x.section = <<>>
            /\ x.last \in Start .. at /\ Content(Start + 1, x.last) = Content(Start + 1, at)
      BY <1>0, <2>1, <3>2, GroupFrom
    <3>4. UncutBlock(x)
      <4>1. rows + 1 = rows_per_block
        BY ONLY <1>3, <2>4
      <4> QED
        BY <1>0, <2>1, <3>3, <4>1 DEF UncutBlock
    <3>5. Laid(flow', Start', stack', Over')
      <4>1. /\ x.first \in DOMAIN lines /\ Start <= x.first /\ Start \in Nat /\ at' \in Nat
            /\ x.last \in x.first .. Len(lines) /\ x.last < at' /\ x.kind # "heading"
        BY ONLY <1>0, <1>1, <2>1, <3>2, <3>3
      <4>2. Over' \in BOOLEAN /\ Start' = at'
        BY <3>1 DEF Over, Start
      <4>3. Before(flow, Start) /\ Filed(flow, stack) /\ Uncut(flow, FALSE) /\ flow \in Seq(FlowBlocks)
        BY ONLY <1>2 DEF Laid, Before
      <4>4. Before(flow \o <<x>>, at') /\ Uncut(flow \o <<x>>, Over')
        BY ONLY <1>0, <3>4, <4>1, <4>2, <4>3, AddBlock
      <4>5. Filed(flow \o <<x>>, stack)
        BY ONLY <1>0, <3>3, <4>1, <4>3, FileBlock
      <4> QED
        BY <1>1, <3>1, <3>3, <4>2, <4>4, <4>5 DEF Laid
    <3>6. Reached'
      BY <1>0, <1>1, <2>3, <3>1 DEF Reached
    <3>7. RowsCounted' /\ OneKind'
      <4>1. 0 \in 0 .. rows_per_block - 1
        BY ONLY <1>3
      <4> QED
        BY <3>1, <4>1 DEF RowsCounted, OneKind
    <3> QED
      BY ONLY <1>1, <3>5, <3>6, <3>7, SameText DEF FlowInv
  <2>5. CASE ~(rows + 1 >= rows_per_block)
    <3>1. pending' = Start /\ rows' = rows + 1 /\ flow' = flow
      BY <2>2, <2>5
    <3>2. pending' # 0 /\ pending' \in 0 .. Len(lines) /\ pending' < at'
      BY ONLY <1>0, <1>1, <2>1, <3>1
    <3>3. Laid(flow', Start', stack', Over')
      <4>1. Over' = FALSE /\ Start' = Start
        BY <3>1, <3>2 DEF Over, Start
      <4> QED
        BY <1>1, <1>2, <3>1, <4>1
    <3>4. Reached'
      <4>1. ~Blank(pending)'
        BY <1>1, <2>1, <3>1 DEF Blank
      <4> QED
        BY <1>0, <1>1, <2>3, <3>2, <4>1 DEF Reached
    <3>5. RowsCounted'
      <4>1. rows' \in 0 .. rows_per_block - 1
        BY ONLY <1>3, <2>5, <3>1
      <4>2. at' - 1 = at
        BY ONLY <1>0, <1>1
      <4>3. Content(pending + 1, at - 1)' = Content(Start + 1, at)
        BY <1>1, <3>1, <4>2 DEF Content, Blank
      <4> QED
        BY <1>0, <1>1, <2>1, <3>1, <3>2, <4>1, <4>2, <4>3 DEF RowsCounted
    <3>6. OneKind'
      BY <1>0, <1>1 DEF OneKind
    <3> QED
      BY ONLY <1>1, <3>3, <3>4, <3>5, <3>6, SameText DEF FlowInv
  <2> QED
    BY <2>4, <2>5
<1> QED
  BY <1>4, <1>5

LEMMA FlushGroup ==
  ASSUME FlowInv, flush_group
  PROVE  FlowInv'
<1> USE DEF FlowInv
<1>0. /\ Len(lines) \in Nat /\ DOMAIN lines = 1 .. Len(lines)
      /\ lines \in Seq(Lines) /\ stack = <<>> /\ stack \in Seq(Nat) /\ header \in BOOLEAN
      /\ extension \in Tables /\ extension \notin Markdown
      /\ pending \in 1 .. Len(lines) /\ pending \in DOMAIN lines /\ ~Blank(pending)
  BY FlowTypes DEF flush_group, Reached, Markdown, Tables
<1>1. at = Len(lines) + 1
  BY FlowTypes DEF flush_group, Reached
<1>2. /\ flow' = flow \o Group(pending, Len(lines)) /\ pending' = 0 /\ rows' = 0
      /\ UNCHANGED <<extension, lines, at, stack, header>>
  BY DEF flush_group
<1>3. Start = pending /\ Over = FALSE
  BY <1>0 DEF Start, Over
<1>4. Before(flow, pending) /\ Filed(flow, stack) /\ Uncut(flow, FALSE) /\ flow \in Seq(FlowBlocks)
  BY <1>3 DEF Laid, Before
<1>5. PICK x \in FlowBlocks :
        /\ Group(pending, Len(lines)) = <<x>>
        /\ x.kind = "table" /\ x.first = pending /\ x.section = <<>>
        /\ x.last \in pending .. Len(lines)
        /\ Content(pending + 1, x.last) = Content(pending + 1, Len(lines))
  <2>1. Len(lines) \in pending .. Len(lines)
    BY ONLY <1>0
  <2> QED
    BY <1>0, <2>1, GroupFrom
<1>6. LastBlock(x)
  <2>1. at - 1 = Len(lines)
    BY ONLY <1>0, <1>1
  <2>2. rows = Cardinality(Content(pending + 1, Len(lines))) + 1
    BY <1>0, <2>1 DEF RowsCounted
  <2>3. rows <= rows_per_block
    BY FlowTextAssumption DEF RowsCounted
  <2> QED
    BY <1>0, <1>5, <2>2, <2>3 DEF LastBlock
<1>7. Laid(flow', Start', stack', Over')
  <2>1. /\ x.first \in DOMAIN lines /\ pending <= x.first /\ pending \in Nat /\ at \in Nat
        /\ x.last \in x.first .. Len(lines) /\ x.last < at /\ x.kind # "heading"
    BY ONLY <1>0, <1>1, <1>5
  <2>2. Over' = TRUE /\ Start' = at
    <3>1. at > Len(lines)
      BY ONLY <1>0, <1>1
    <3> QED
      BY <1>2, <3>1 DEF Over, Start
  <2>3. Before(flow \o <<x>>, at) /\ Uncut(flow \o <<x>>, TRUE)
    BY ONLY <1>0, <1>4, <1>6, <2>1, AddBlock
  <2>4. Filed(flow \o <<x>>, stack)
    BY ONLY <1>0, <1>4, <1>5, <2>1, FileBlock
  <2> QED
    BY <1>2, <1>5, <2>2, <2>3, <2>4 DEF Laid
<1>8. Reached'
  BY <1>0, <1>2 DEF Reached
<1>9. RowsCounted' /\ OneKind'
  <2>1. 0 \in 0 .. rows_per_block - 1
    BY ONLY FlowTextAssumption
  <2> QED
    BY <1>2, <2>1 DEF RowsCounted, OneKind
<1> QED
  BY ONLY <1>2, <1>7, <1>8, <1>9, SameText DEF FlowInv

LEMMA ReadParagraph ==
  ASSUME FlowInv, read_paragraph
  PROVE  FlowInv'
<1> USE DEF FlowInv
<1> DEFINE blanks == {n \in at .. Len(lines) : Blank(n)}
           stop == Min(blanks \cup {Len(lines) + 1})
<1>0. /\ Len(lines) \in Nat /\ DOMAIN lines = 1 .. Len(lines) /\ at \in Nat
      /\ lines \in Seq(Lines) /\ stack = <<>> /\ stack \in Seq(Nat) /\ header \in BOOLEAN
      /\ extension \notin Tables /\ extension \notin Markdown
      /\ 1 <= at /\ at <= Len(lines) /\ at \in DOMAIN lines
  BY FlowTypes DEF read_paragraph, Reached
<1>1. pending = 0
  BY <1>0 DEF Reached
<1>2. /\ flow' = flow \o _emit("paragraph", at, stop - 1, <<>>) /\ at' = stop + 1
      /\ UNCHANGED <<extension, lines, pending, rows, stack, header>>
  BY DEF read_paragraph
<1>3. Laid(flow, at, stack, FALSE)
  <2>1. Start = at /\ Over = FALSE
    BY <1>0, <1>1 DEF Start, Over
  <2> QED
    BY <2>1
<1>4. stop \in Nat /\ at <= stop /\ stop <= Len(lines) + 1 /\ (stop # at => ~Blank(at))
  <2>1. /\ blanks \in SUBSET Nat /\ \A n \in blanks : at <= n
        /\ Blank(at) => at \in blanks
    BY <1>0
  <2> HIDE DEF blanks
  <2>2. blanks \cup {Len(lines) + 1} \in SUBSET Nat
    <3>1. Len(lines) + 1 \in Nat
      BY ONLY <1>0
    <3>2. blanks \in SUBSET Nat
      BY ONLY <2>1
    <3> QED
      BY ONLY <3>1, <3>2
  <2>3. stop \in blanks \cup {Len(lines) + 1} /\ \A n \in blanks \cup {Len(lines) + 1} : stop <= n
    BY ONLY <2>2, LeastIn DEF stop
  <2> HIDE DEF stop
  <2>4. stop \in Nat /\ at <= stop /\ stop <= Len(lines) + 1
    BY ONLY <1>0, <2>1, <2>2, <2>3
  <2>5. Blank(at) => stop <= at
    BY ONLY <2>1, <2>3
  <2>6. stop # at => ~Blank(at)
    BY ONLY <1>0, <2>4, <2>5
  <2> QED
    BY ONLY <2>4, <2>6
<1> HIDE DEF blanks, stop
<1>5. at' \in Nat /\ at <= at' /\ at' \in 0 .. Len(lines) + 2 /\ at' # 0 /\ Start' = at'
  <2>1. at' \in Nat /\ at <= at' /\ at' \in 0 .. Len(lines) + 2 /\ at' # 0
    BY ONLY <1>0, <1>2, <1>4
  <2> QED
    BY <1>1, <1>2, <2>1 DEF Start
<1>6. Laid(flow', Start', stack', Over')
  <2>1. CASE stop = at
    <3>1. at .. stop - 1 = {}
      BY ONLY <1>0, <2>1
    <3>2. _emit("paragraph", at, stop - 1, <<>>) = <<>>
      BY ONLY <3>1 DEF _emit
    <3>3. flow \in Seq(FlowBlocks)
      BY ONLY <1>3 DEF Laid, Before
    <3>4. flow' = flow
      BY <1>2, <3>2, <3>3, ConcatEmptySeq
    <3>5. Laid(flow, at', stack, Over')
      BY ONLY <1>0, <1>3, <1>5, LaidLater
    <3> QED
      BY <1>2, <1>5, <3>4, <3>5
  <2>2. CASE stop # at
    <3>1. ~Blank(at) /\ stop - 1 \in at .. Len(lines)
      BY ONLY <1>0, <1>4, <2>2
    <3>2. PICK x \in FlowBlocks :
            /\ _emit("paragraph", at, stop - 1, <<>>) = <<x>>
            /\ x.kind = "paragraph" /\ x.first = at /\ x.section = stack
            /\ x.last \in at .. stop - 1
      <4>1. "paragraph" \in FlowKinds
        BY DEF FlowKinds
      <4>2. \E x \in FlowBlocks :
              /\ _emit("paragraph", at, stop - 1, stack) = <<x>>
              /\ x.kind = "paragraph" /\ x.first = at /\ x.section = stack
              /\ x.last = Max(Content(at, stop - 1)) /\ x.last \in at .. stop - 1
        <5>1. lines \in Seq(Lines) /\ at \in DOMAIN lines /\ stack \in Seq(Nat)
          BY ONLY <1>0
        <5> QED
          BY ONLY <3>1, <4>1, <5>1, EmitFrom
      <4> QED
        BY <1>0, <4>2
    <3>3. UncutBlock(x)
      BY <1>0 DEF UncutBlock
    <3>4. /\ x.first \in DOMAIN lines /\ at <= x.first
          /\ x.last \in x.first .. Len(lines) /\ x.last < at' /\ x.kind # "heading"
      BY ONLY <1>0, <1>2, <1>4, <3>1, <3>2
    <3>5. Before(flow, at) /\ Filed(flow, stack) /\ Uncut(flow, FALSE) /\ flow \in Seq(FlowBlocks)
      BY ONLY <1>3 DEF Laid, Before
    <3>6. Over' \in BOOLEAN
      BY ONLY DEF Over
    <3>7. Before(flow \o <<x>>, at') /\ Uncut(flow \o <<x>>, Over')
      BY ONLY <1>0, <1>5, <3>3, <3>4, <3>5, <3>6, AddBlock
    <3>8. Filed(flow \o <<x>>, stack)
      BY ONLY <3>2, <3>4, <3>5, FileBlock
    <3> QED
      BY <1>2, <1>5, <3>2, <3>7, <3>8 DEF Laid
  <2> QED
    BY <2>1, <2>2
<1>7. Reached'
  BY <1>0, <1>1, <1>2, <1>5 DEF Reached
<1>8. RowsCounted' /\ OneKind'
  BY <1>0, <1>1, <1>2 DEF RowsCounted, OneKind
<1> QED
  BY ONLY <1>2, <1>6, <1>7, <1>8, SameText DEF FlowInv

LEMMA StutterFlow ==
  ASSUME FlowInv, UNCHANGED fvars
  PROVE  FlowInv'
<1> USE DEF FlowInv, fvars
<1>1. Start' = Start /\ Over' = Over
  BY DEF Start, Over
<1>2. Laid(flow', Start', stack', Over')
  BY <1>1
<1>3. Laid(flow, Start, stack, Over)'
  BY <1>2, SameText
<1>4. Reached'
  BY DEF Reached, Blank
<1>5. OneKind' /\ RowsCounted'
  BY DEF OneKind, RowsCounted, Content, Blank
<1> QED
  BY <1>3, <1>4, <1>5

LEMMA NextFlowInv ==
  ASSUME FlowInv, FlowNext
  PROVE  FlowInv'
BY ReadFence, ReadHeading, ReadBlank, ReadText, ReadHeader, ReadRow, FlushGroup, ReadParagraph
   DEF FlowNext

-----------------------------------------------------------------------------
(* The theorems *)

LEMMA FlowInvCorrect == Spec => []FlowInv
<1>1. Init => FlowInv
  BY InitFlowInv DEF Init
<1>2. FlowInv /\ [Next]_vars => FlowInv'
  <2>1. ASSUME FlowInv, split PROVE FlowInv'
    BY <2>1, NextFlowInv DEF split
  <2>2. ASSUME FlowInv, refuse \/ hand_over \/ chunk \/ UNCHANGED vars PROVE FlowInv'
    <3>1. UNCHANGED fvars
      BY <2>2 DEF refuse, hand_over, chunk, vars, fvars
    <3> QED
      BY <2>2, <3>1, StutterFlow
  <2> QED
    BY <2>1, <2>2 DEF Next
<1> QED
  BY <1>1, <1>2, PTL DEF Spec

(* The splitter's variables keep their types, whatever the texts.          *)
THEOREM FlowTypeCorrect == Spec => []FlowTypeOK
<1>1. FlowInv => FlowTypeOK
  <2> SUFFICES ASSUME FlowInv PROVE FlowTypeOK
    OBVIOUS
  <2>1. Reached /\ RowsCounted /\ Before(flow, Start) /\ Filed(flow, stack)
    BY DEF FlowInv, Laid
  <2>2. \A b \in DOMAIN flow :
          flow[b].first \in DOMAIN lines /\ flow[b].last \in flow[b].first .. Len(lines)
    BY <2>1 DEF Before
  <2>3. \A m \in DOMAIN stack : stack[m] \in DOMAIN lines
    <3>1. Range(stack) \subseteq Headings(flow, Len(flow))
      BY <2>1 DEF Filed, Trail
    <3>2. DOMAIN flow = 1 .. Len(flow)
      BY <2>1, LenProperties DEF Before
    <3>3. Headings(flow, Len(flow)) \subseteq DOMAIN lines
      BY <2>2, <3>2 DEF Headings
    <3>4. \A m \in DOMAIN stack : stack[m] \in Range(stack)
      BY DEF Range
    <3> QED
      BY <3>1, <3>3, <3>4
  <2> QED
    BY <2>1, <2>2, <2>3 DEF FlowTypeOK, Reached, RowsCounted
<1> QED
  BY <1>1, FlowInvCorrect, PTL

(* Every block is filed under the headings it is under, outermost first:   *)
(* a heading that was popped too late or too early would be a section that *)
(* a chunk is cited with.                                                  *)
THEOREM SectionCorrect == Spec => []SectionIsTrail
<1>1. FlowInv => SectionIsTrail
  <2> SUFFICES ASSUME FlowInv, NEW b \in DOMAIN flow
               PROVE  /\ Range(flow[b].section) = Trail(Headings(flow, b))
                      /\ Ascending(flow[b].section)
    BY DEF SectionIsTrail, Trail, Headings, Ascending
  <2> QED
    BY DEF FlowInv, Laid, Filed
<1> QED
  BY <1>1, FlowInvCorrect, PTL

(* No fenced block ends before its closing fence, no block of text, of a   *)
(* list or of a table takes in lines of another kind, and no group but the *)
(* last has fewer rows than rows_per_block, nor any more.                  *)
THEOREM WholeCorrect == Spec => []BlocksAreWhole
<1>1. FlowInv => BlocksAreWhole
  <2> SUFFICES ASSUME FlowInv, NEW b \in DOMAIN flow
               PROVE
                 /\ (extension \in Markdown /\ lines[flow[b].first].kind = "fence") =>
                       IF Closing(flow[b].first) = {} THEN b = Len(flow)
                       ELSE flow[b].last = Min(Closing(flow[b].first))
                 /\ (extension \in Markdown /\ lines[flow[b].first].kind # "fence") =>
                       \A n \in Content(flow[b].first + 1, flow[b].last) :
                         lines[n].kind = lines[flow[b].first].kind
                 /\ extension \in Tables =>
                      /\ Cardinality(Content(flow[b].first + 1, flow[b].last)) + 1 <= rows_per_block
                      /\ b < Len(flow) =>
                           Cardinality(Content(flow[b].first + 1, flow[b].last)) + 1 = rows_per_block
    BY DEF BlocksAreWhole, Closing, Content
  <2> DEFINE x == flow[b]
  <2>1. UncutBlock(x) \/ (b = Len(flow) /\ LastBlock(x))
    BY DEF FlowInv, Laid, Uncut
  <2> HIDE DEF x
  <2>2. b \in Nat /\ Len(flow) \in Nat
    BY LenProperties DEF FlowInv, Laid, Before
  <2>3. CASE UncutBlock(x)
    BY <2>3, FlowTextAssumption DEF UncutBlock, x
  <2>4. CASE b = Len(flow) /\ LastBlock(x)
    BY <2>2, <2>4 DEF LastBlock, x
  <2> QED
    BY <2>1, <2>3, <2>4
<1> QED
  BY <1>1, FlowInvCorrect, PTL

-----------------------------------------------------------------------------
(* The text of a document *)

Word == [block : Nat, line : Nat, stop : BOOLEAN, gap : Nat, start : Nat, end : Nat]

(* ws are the words of the blocks bs, in order, laid end to end. *)
TextOf(ws, bs) ==
  /\ bs \in Seq(Blocks)
  /\ ws \in Seq(Word)
  /\ \A w \in 1 .. Len(ws) : ws[w].block \in 1 .. Len(bs)
  /\ \A b \in 1 .. Len(bs) : \E w \in 1 .. Len(ws) : ws[w].block = b
  /\ \A v, w \in 1 .. Len(ws) : v <= w => ws[v].block <= ws[w].block /\ ws[v].start <= ws[w].end

(* The fields of a block. *)
LEMMA BlockTypes ==
  ASSUME NEW b \in Blocks
  PROVE  /\ b.order \in Nat /\ b.kind \in Kinds /\ b.section \in Seq(Nat)
         /\ b.words \in Seq([units : Nat, gap : Nat, stop : BOOLEAN, line : Nat])
BY DEF Blocks

(* _prepare puts every block that stays in its result, once and in order. *)
LEMMA Prepared ==
  ASSUME NEW source \in SUBSET Blocks, IsFiniteSet(source),
         \A a, b \in source : a.order = b.order => a = b
  PROVE  LET bs == _prepare(source) IN
         /\ bs \in Seq(Blocks) /\ Len(bs) \in Nat /\ DOMAIN bs = 1 .. Len(bs)
         /\ \A n \in 1 .. Len(bs) : bs[n] \in source /\ bs[n].words # <<>>
         /\ \A b \in source : b.words # <<>> /\ ~is_furniture(b) =>
              \E n \in 1 .. Len(bs) : bs[n] = b
<1> DEFINE S == {b \in source : b.words # <<>> /\ ~is_furniture(b)}
           below == [x \in S |-> {y \in S : y.order < x.order}]
           s == Ranked(S, below)
<1>1. _prepare(source) = s
  BY DEF _prepare, InOrder
<1>2. IsFiniteSet(S) /\ S \subseteq source
  BY FS_Subset
<1>3. \A x \in S : x.order \in Nat
  BY BlockTypes
<1>4. \A x, y \in S : x.order = y.order => x = y
  OBVIOUS
<1>5. \A b \in S : b.words # <<>>
  OBVIOUS
<1>6. \A b \in source : b.words # <<>> /\ ~is_furniture(b) => b \in S
  OBVIOUS
<1> HIDE DEF S
<1>7. TotalOrder(S, below)
  <2>1. below \in [S -> SUBSET S] /\ \A x, y \in S : y \in below[x] <=> y.order < x.order
    OBVIOUS
  <2> HIDE DEF below
  <2>2. \A x, y \in S : x = y \/ x.order < y.order \/ y.order < x.order
    BY <1>3, <1>4
  <2>3. \A x, y \in S : y \in below[x] => below[y] \subseteq below[x]
    <3> SUFFICES ASSUME NEW x \in S, NEW y \in S, y \in below[x], NEW z \in below[y]
                 PROVE  z \in below[x]
      OBVIOUS
    <3>1. z \in S /\ z.order < y.order /\ y.order < x.order
      BY <2>1
    <3>2. z.order < x.order
      BY <1>3, <3>1
    <3> QED
      BY <2>1, <3>1, <3>2
  <2>4. \A x \in S : x \notin below[x]
    BY <1>3, <2>1
  <2> QED
    BY <2>1, <2>2, <2>3, <2>4 DEF TotalOrder
<1> HIDE DEF below
<1>8. /\ s \in Seq(S) /\ Len(s) \in Nat /\ DOMAIN s = 1 .. Len(s)
      /\ \A x \in S : \E n \in 1 .. Len(s) : s[n] = x
  BY <1>2, <1>7, RankedInOrder
<1> HIDE DEF s
<1>9. \A n \in 1 .. Len(s) : s[n] \in S
  BY <1>8, ElementOfSeq
<1>10. s \in Seq(Blocks)
  <2>1. S \subseteq Blocks
    BY <1>2
  <2>2. \A n \in 1 .. Len(s) : s[n] \in Blocks
    BY <1>9, <2>1
  <2>3. s = [n \in 1 .. Len(s) |-> s[n]]
    BY <1>8, SeqDef
  <2>4. s \in [1 .. Len(s) -> Blocks]
    BY <2>2, <2>3
  <2> QED
    BY <1>8, <2>4, SeqDef
<1> QED
  BY <1>1, <1>2, <1>5, <1>6, <1>8, <1>9, <1>10

(* The places of the words of bs, in order. *)
Places(bs) == UNION {{n} \X DOMAIN bs[n].words : n \in DOMAIN bs}
Earlier(a, b) == a[1] < b[1] \/ (a[1] = b[1] /\ a[2] < b[2])

(* A place is a block and a word of it, and there are finitely many. *)
LEMMA PlacesAre ==
  ASSUME NEW bs \in Seq(Blocks)
  PROVE  /\ IsFiniteSet(Places(bs))
         /\ \A p \in Places(bs) :
              /\ p = <<p[1], p[2]>> /\ p[1] \in 1 .. Len(bs) /\ p[2] \in 1 .. Len(bs[p[1]].words)
              /\ p[2] \in Nat /\ Len(bs[p[1]].words) \in Nat
              /\ bs[p[1]].words[p[2]] \in [units : Nat, gap : Nat, stop : BOOLEAN, line : Nat]
         /\ \A n \in 1 .. Len(bs) : \A k \in 1 .. Len(bs[n].words) : <<n, k>> \in Places(bs)
<1> DEFINE W == [units : Nat, gap : Nat, stop : BOOLEAN, line : Nat]
<1>1. Len(bs) \in Nat /\ DOMAIN bs = 1 .. Len(bs) /\ \A n \in 1 .. Len(bs) : bs[n] \in Blocks
  BY LenProperties, ElementOfSeq
<1>2. \A n \in 1 .. Len(bs) : bs[n].words \in Seq(W)
  BY <1>1, BlockTypes
<1> HIDE DEF W
<1>3. \A n \in 1 .. Len(bs) : /\ Len(bs[n].words) \in Nat
                              /\ DOMAIN bs[n].words = 1 .. Len(bs[n].words)
                              /\ \A k \in 1 .. Len(bs[n].words) : bs[n].words[k] \in W
  BY <1>2, LenProperties, ElementOfSeq
<1> DEFINE row(n) == {n} \X DOMAIN bs[n].words
           rows_ == {row(n) : n \in 1 .. Len(bs)}
<1>4. IsFiniteSet(rows_)
  <2>1. IsFiniteSet(1 .. Len(bs))
    BY <1>1, FS_Interval
  <2> DEFINE f == [n \in 1 .. Len(bs) |-> row(n)]
  <2>2. f \in Surjection(1 .. Len(bs), rows_)
    BY DEF Surjection
  <2> HIDE DEF rows_, f
  <2> QED
    BY <2>1, <2>2, FS_Surjection
<1>5. \A r \in rows_ : IsFiniteSet(r)
  <2> SUFFICES ASSUME NEW n \in 1 .. Len(bs) PROVE IsFiniteSet(row(n))
    OBVIOUS
  <2>1. IsFiniteSet({n})
    BY FS_Singleton
  <2>2. IsFiniteSet(DOMAIN bs[n].words)
    <3>1. DOMAIN bs[n].words = 1 .. Len(bs[n].words) /\ Len(bs[n].words) \in Nat
      BY <1>3
    <3>2. \A m \in Nat : IsFiniteSet(1 .. m)
      BY FS_Interval
    <3> QED
      BY <3>1, <3>2
  <2> QED
    BY <2>1, <2>2, FS_Product
<1>6. Places(bs) = UNION rows_
  BY <1>1 DEF Places
<1>7. IsFiniteSet(Places(bs))
  <2> HIDE DEF rows_
  <2> QED
    BY <1>4, <1>5, <1>6, FS_UNION
<1>8. \A p \in Places(bs) : \E n \in 1 .. Len(bs) : \E k \in 1 .. Len(bs[n].words) : p = <<n, k>>
  BY <1>1, <1>3 DEF Places
<1>9. \A n \in 1 .. Len(bs) : \A k \in 1 .. Len(bs[n].words) : <<n, k>> \in Places(bs)
  BY <1>1, <1>3 DEF Places
<1>10. \A p \in Places(bs) :
         /\ p = <<p[1], p[2]>> /\ p[1] \in 1 .. Len(bs) /\ p[2] \in 1 .. Len(bs[p[1]].words)
         /\ p[2] \in Nat /\ Len(bs[p[1]].words) \in Nat
         /\ bs[p[1]].words[p[2]] \in W
  <2> SUFFICES ASSUME NEW p \in Places(bs)
               PROVE  /\ p = <<p[1], p[2]>> /\ p[1] \in 1 .. Len(bs)
                      /\ p[2] \in 1 .. Len(bs[p[1]].words)
                      /\ p[2] \in Nat /\ Len(bs[p[1]].words) \in Nat
                      /\ bs[p[1]].words[p[2]] \in W
    OBVIOUS
  <2>1. PICK n \in 1 .. Len(bs) : \E k \in 1 .. Len(bs[n].words) : p = <<n, k>>
    BY <1>8
  <2>2. PICK k \in 1 .. Len(bs[n].words) : p = <<n, k>>
    BY <2>1
  <2>3. p[1] = n /\ p[2] = k
    BY <2>2
  <2>4. k \in Nat
    BY <1>3
  <2> QED
    BY <1>3, <2>2, <2>3, <2>4
<1> QED
  BY <1>7, <1>9, <1>10 DEF W

(* The places of a document, in reading order. *)
LEMMA PlacesInOrder ==
  ASSUME NEW bs \in Seq(Blocks)
  PROVE  LET place == InOrder(Places(bs), Earlier) IN
         /\ Len(place) \in Nat /\ DOMAIN place = 1 .. Len(place)
         /\ \A w \in 1 .. Len(place) : place[w] \in Places(bs)
         /\ \A p \in Places(bs) : \E w \in 1 .. Len(place) : place[w] = p
         /\ \A v, w \in 1 .. Len(place) : v < w => Earlier(place[v], place[w])
<1> DEFINE S == Places(bs)
           below == [x \in S |-> {y \in S : Earlier(y, x)}]
           s == Ranked(S, below)
<1>1. InOrder(S, Earlier) = s
  BY DEF InOrder
<1>2. IsFiniteSet(S)
  BY PlacesAre
<1>3. \A p \in S : p = <<p[1], p[2]>> /\ p[1] \in Nat /\ p[2] \in Nat
  <2>1. Len(bs) \in Nat
    BY LenProperties
  <2> QED
    BY <2>1, PlacesAre
<1> HIDE DEF S
<1>4. TotalOrder(S, below)
  <2>1. below \in [S -> SUBSET S] /\ \A x, y \in S : y \in below[x] <=> Earlier(y, x)
    OBVIOUS
  <2> HIDE DEF below
  <2>2. \A x, y \in S : x = y \/ Earlier(x, y) \/ Earlier(y, x)
    <3> SUFFICES ASSUME NEW x \in S, NEW y \in S, ~Earlier(x, y), ~Earlier(y, x) PROVE x = y
      OBVIOUS
    <3>1. x[1] = y[1] /\ x[2] = y[2]
      BY <1>3 DEF Earlier
    <3> QED
      BY <1>3, <3>1
  <2>3. \A x, y \in S : y \in below[x] => below[y] \subseteq below[x]
    <3> SUFFICES ASSUME NEW x \in S, NEW y \in S, y \in below[x], NEW z \in below[y]
                 PROVE  z \in below[x]
      OBVIOUS
    <3>1. z \in S /\ Earlier(z, y) /\ Earlier(y, x)
      BY <2>1
    <3>2. /\ x[1] \in Nat /\ x[2] \in Nat /\ y[1] \in Nat /\ y[2] \in Nat
          /\ z[1] \in Nat /\ z[2] \in Nat
      BY <1>3, <3>1
    <3>3. Earlier(z, x)
      BY <3>1, <3>2 DEF Earlier
    <3> QED
      BY <2>1, <3>1, <3>3
  <2>4. \A x \in S : x \notin below[x]
    BY <1>3, <2>1 DEF Earlier
  <2> QED
    BY <2>1, <2>2, <2>3, <2>4 DEF TotalOrder
<1>5. \A x, y \in S : y \in below[x] <=> Earlier(y, x)
  OBVIOUS
<1> HIDE DEF below
<1>6. /\ s \in Seq(S) /\ Len(s) \in Nat /\ DOMAIN s = 1 .. Len(s)
      /\ \A x \in S : \E n \in 1 .. Len(s) : s[n] = x
      /\ \A m, n \in 1 .. Len(s) : m < n => s[m] \in below[s[n]]
  BY <1>2, <1>4, RankedInOrder
<1> HIDE DEF s
<1>7. \A n \in 1 .. Len(s) : s[n] \in S
  BY <1>6, ElementOfSeq
<1>8. \A m, n \in 1 .. Len(s) : m < n => Earlier(s[m], s[n])
  BY <1>5, <1>6, <1>7
<1> QED
  BY <1>1, <1>6, <1>7, <1>8 DEF S

(* Sums of naturals only grow. *)
LEMMA SumsGrow ==
  ASSUME NEW N \in Nat, NEW u \in [1 .. N -> Nat],
         NEW f, f = [k \in 0 .. N |-> IF k = 0 THEN 0 ELSE f[k - 1] + u[k]]
  PROVE  /\ \A k \in 0 .. N : f[k] \in Nat
         /\ \A k \in 1 .. N : f[k] = f[k - 1] + u[k]
         /\ \A k, l \in 0 .. N : k <= l => f[k] <= f[l]
<1>1. f[0] = 0 /\ \A k \in 1 .. N : f[k] = f[k - 1] + u[k]
  <2>1. 0 \in 0 .. N /\ \A k \in 1 .. N : k \in 0 .. N /\ k # 0
    OBVIOUS
  <2> QED
    BY <2>1
<1>2. \A k \in 0 .. N : f[k] \in Nat
  <2> DEFINE T == {k \in 0 .. N : f[k] \notin Nat}
  <2> SUFFICES ASSUME T # {} PROVE FALSE
    OBVIOUS
  <2>1. PICK k \in T : \A m \in T : k <= m
    <3>1. T \in SUBSET Nat
      OBVIOUS
    <3> HIDE DEF T
    <3> QED
      BY <3>1, LeastNatural
  <2>2. k \in 1 .. N /\ k - 1 \in 0 .. N /\ k - 1 \notin T
    BY <1>1, <2>1
  <2>3. f[k - 1] \in Nat /\ f[k] = f[k - 1] + u[k] /\ u[k] \in Nat
    BY <1>1, <2>2
  <2> QED
    BY <2>3
<1>3. \A k \in 1 .. N : f[k - 1] <= f[k]
  <2> SUFFICES ASSUME NEW k \in 1 .. N PROVE f[k - 1] <= f[k]
    OBVIOUS
  <2>1. k - 1 \in 0 .. N /\ k \in 0 .. N
    OBVIOUS
  <2>2. f[k - 1] \in Nat /\ f[k] = f[k - 1] + u[k] /\ u[k] \in Nat
    BY <1>1, <1>2, <2>1
  <2> QED
    BY <2>2
<1>4. \A k, l \in 0 .. N : k <= l => f[k] <= f[l]
  <2> SUFFICES ASSUME NEW k \in 0 .. N PROVE \A l \in 0 .. N : k <= l => f[k] <= f[l]
    OBVIOUS
  <2> DEFINE T == {l \in 0 .. N : k <= l /\ ~(f[k] <= f[l])}
  <2> SUFFICES ASSUME T # {} PROVE FALSE
    OBVIOUS
  <2>1. PICK l \in T : \A m \in T : l <= m
    <3>1. T \in SUBSET Nat
      OBVIOUS
    <3> HIDE DEF T
    <3> QED
      BY <3>1, LeastNatural
  <2>2. f[k] \in Nat /\ f[l] \in Nat
    BY <1>2
  <2>3. l # k
    BY <2>2
  <2>4. l \in 1 .. N /\ l - 1 \in 0 .. N /\ k <= l - 1 /\ l - 1 \notin T
    BY <2>1, <2>3
  <2>5. f[k] <= f[l - 1] /\ f[l - 1] <= f[l] /\ f[l - 1] \in Nat
    BY <1>2, <1>3, <2>4
  <2> QED
    BY <2>2, <2>5
<1> QED
  BY <1>1, <1>2, <1>4

(* _flatten makes a text of the blocks, and loses no word. *)
LEMMA Flattened ==
  ASSUME NEW bs \in Seq(Blocks), \A n \in 1 .. Len(bs) : bs[n].words # <<>>
  PROVE  LET ws == _flatten(bs) IN
         /\ TextOf(ws, bs)
         /\ \A n \in 1 .. Len(bs) : \A k \in 1 .. Len(bs[n].words) :
              \E w \in 1 .. Len(ws) : ws[w].line = bs[n].words[k].line
         /\ \A w \in 1 .. Len(ws) : ws[w].gap \in Nat
<1> DEFINE W == [units : Nat, gap : Nat, stop : BOOLEAN, line : Nat]
           place == InOrder(Places(bs), Earlier)
           N == Len(place)
           word(w) == bs[place[w][1]].words[place[w][2]]
           ends == CHOOSE f : f = [w \in 0 .. N |-> IF w = 0 THEN 0 ELSE f[w - 1] + word(w).units]
           last(w) == place[w][2] = Len(bs[place[w][1]].words)
           ws == [w \in DOMAIN place |->
                    [block |-> place[w][1], line |-> word(w).line, stop |-> word(w).stop,
                     gap |-> IF w = N THEN 0 ELSE IF last(w) THEN 1 ELSE word(w).gap,
                     start |-> ends[w - 1], end |-> ends[w]]]
<1>1. _flatten(bs) = ws
  BY DEF _flatten, InOrder, Places, Earlier
<1>2. /\ N \in Nat /\ DOMAIN place = 1 .. N
      /\ \A w \in 1 .. N : place[w] \in Places(bs)
      /\ \A p \in Places(bs) : \E w \in 1 .. N : place[w] = p
      /\ \A v, w \in 1 .. N : v < w => Earlier(place[v], place[w])
  BY PlacesInOrder
<1> HIDE DEF place
<1>3. \A w \in 1 .. N : /\ place[w][1] \in 1 .. Len(bs) /\ place[w][1] \in Nat
                        /\ word(w) \in W
  <2>1. Len(bs) \in Nat
    BY LenProperties
  <2> QED
    BY <1>2, <2>1, PlacesAre
<1>4. \A w \in 1 .. N : /\ word(w).units \in Nat /\ word(w).gap \in Nat
                        /\ word(w).stop \in BOOLEAN /\ word(w).line \in Nat
  BY <1>3
<1> HIDE DEF word
<1> DEFINE u == [w \in 1 .. N |-> word(w).units]
<1>5. u \in [1 .. N -> Nat] /\ \A w \in 1 .. N : u[w] = word(w).units
  BY <1>4
<1> HIDE DEF N
<1>6. /\ ends = [w \in 0 .. N |-> IF w = 0 THEN 0 ELSE ends[w - 1] + word(w).units]
  <2>1. PICK f : f = [w \in 0 .. N |-> IF w = 0 THEN 0 ELSE f[w - 1] + u[w]]
    BY <1>2, SumsExist
  <2> HIDE DEF u
  <2>2. \A w \in 0 .. N : w # 0 => u[w] = word(w).units
    BY <1>2, <1>5
  <2>3. f = [w \in 0 .. N |-> IF w = 0 THEN 0 ELSE f[w - 1] + word(w).units]
    BY <2>1, <2>2
  <2> QED
    BY <2>3
<1> HIDE DEF ends
<1>7. ends = [w \in 0 .. N |-> IF w = 0 THEN 0 ELSE ends[w - 1] + u[w]]
  <2> HIDE DEF u
  <2>1. \A w \in 0 .. N : w # 0 => u[w] = word(w).units
    BY <1>2, <1>5
  <2> QED
    BY <1>6, <2>1
<1> HIDE DEF u
<1>8. /\ \A k \in 0 .. N : ends[k] \in Nat
      /\ \A k, l \in 0 .. N : k <= l => ends[k] <= ends[l]
  BY <1>2, <1>5, <1>7, SumsGrow
<1>9. \A w \in 1 .. N : /\ ws[w] \in Word
                        /\ ws[w].block = place[w][1] /\ ws[w].line = word(w).line
                        /\ ws[w].start = ends[w - 1] /\ ws[w].end = ends[w]
  <2> SUFFICES ASSUME NEW w \in 1 .. N
               PROVE  /\ ws[w] \in Word
                      /\ ws[w].block = place[w][1] /\ ws[w].line = word(w).line
                      /\ ws[w].start = ends[w - 1] /\ ws[w].end = ends[w]
    OBVIOUS
  <2>1. w - 1 \in 0 .. N /\ w \in 0 .. N
    BY <1>2
  <2>2. ends[w - 1] \in Nat /\ ends[w] \in Nat
    BY <1>8, <2>1
  <2>3. place[w][1] \in Nat /\ word(w).line \in Nat /\ word(w).stop \in BOOLEAN /\ word(w).gap \in Nat
    BY <1>3, <1>4
  <2>4. (IF w = N THEN 0 ELSE IF last(w) THEN 1 ELSE word(w).gap) \in Nat
    BY <2>3
  <2> HIDE DEF last
  <2>5. ws[w] = [block |-> place[w][1], line |-> word(w).line, stop |-> word(w).stop,
                 gap |-> IF w = N THEN 0 ELSE IF last(w) THEN 1 ELSE word(w).gap,
                 start |-> ends[w - 1], end |-> ends[w]]
    BY <1>2
  <2> HIDE DEF ws
  <2> QED
    BY <2>2, <2>3, <2>4, <2>5 DEF Word
<1>10. DOMAIN ws = 1 .. N
  BY <1>2
<1>11. ws \in Seq(Word) /\ Len(ws) = N
  <2>1. ws = [w \in 1 .. N |-> ws[w]]
    BY <1>10
  <2> HIDE DEF ws
  <2>2. ws \in [1 .. N -> Word]
    BY <1>9, <2>1
  <2> QED
    BY <1>2, <2>2, SeqDef, LenProperties
<1> HIDE DEF ws
<1>12. \A w \in 1 .. N : ws[w].block \in 1 .. Len(bs)
  BY <1>3, <1>9
<1>13. \A n \in 1 .. Len(bs) : \A k \in 1 .. Len(bs[n].words) :
         \E w \in 1 .. N : ws[w].block = n /\ ws[w].line = bs[n].words[k].line
  <2> SUFFICES ASSUME NEW n \in 1 .. Len(bs), NEW k \in 1 .. Len(bs[n].words)
               PROVE  \E w \in 1 .. N : ws[w].block = n /\ ws[w].line = bs[n].words[k].line
    OBVIOUS
  <2>1. <<n, k>> \in Places(bs)
    BY PlacesAre
  <2>2. PICK w \in 1 .. N : place[w] = <<n, k>>
    BY <1>2, <2>1
  <2>3. ws[w].block = n /\ ws[w].line = bs[n].words[k].line
    BY <1>9, <2>2 DEF word
  <2> QED
    BY <2>3
<1>14. \A n \in 1 .. Len(bs) : 1 \in 1 .. Len(bs[n].words)
  <2> SUFFICES ASSUME NEW n \in 1 .. Len(bs) PROVE 1 \in 1 .. Len(bs[n].words)
    OBVIOUS
  <2>1. bs[n] \in Blocks
    BY ElementOfSeq
  <2>2. bs[n].words \in Seq(W) /\ bs[n].words # <<>>
    BY <2>1, BlockTypes
  <2> HIDE DEF W
  <2> QED
    BY <2>2, EmptySeq, LenProperties
<1>15. \A b \in 1 .. Len(bs) : \E w \in 1 .. N : ws[w].block = b
  BY <1>13, <1>14
<1>16. \A v, w \in 1 .. N : v <= w => ws[v].block <= ws[w].block /\ ws[v].start <= ws[w].end
  <2> SUFFICES ASSUME NEW v \in 1 .. N, NEW w \in 1 .. N, v <= w
               PROVE  ws[v].block <= ws[w].block /\ ws[v].start <= ws[w].end
    OBVIOUS
  <2>1. v - 1 \in 0 .. N /\ w \in 0 .. N /\ v - 1 <= w
    BY <1>2
  <2>2. ws[v].start <= ws[w].end
    BY <1>8, <1>9, <2>1
  <2>3. v = w \/ v < w
    BY <1>2
  <2>4. v < w => Earlier(place[v], place[w])
    BY <1>2
  <2>5. place[v][1] <= place[w][1]
    BY <1>3, <2>3, <2>4 DEF Earlier
  <2> QED
    BY <1>9, <2>2, <2>5
<1>17. \A w \in 1 .. N : ws[w].gap \in Nat
  BY <1>9 DEF Word
<1> QED
  BY <1>1, <1>11, <1>12, <1>13, <1>15, <1>16, <1>17 DEF TextOf

Text == TextOf(words, blocks)

(* What is known of a text. *)
LEMMA TextTypes ==
  ASSUME Text
  PROVE  /\ Len(words) \in Nat /\ DOMAIN words = 1 .. Len(words)
         /\ Len(blocks) \in Nat /\ DOMAIN blocks = 1 .. Len(blocks)
         /\ \A b \in 1 .. Len(blocks) : blocks[b] \in Blocks
         /\ \A w \in 1 .. Len(words) :
              /\ words[w].block \in Nat /\ words[w].start \in Nat /\ words[w].end \in Nat
              /\ words[w].gap \in Nat
              /\ words[w].block \in 1 .. Len(blocks)
         /\ \A v, w \in 1 .. Len(words) : v <= w =>
              words[v].block <= words[w].block /\ words[v].start <= words[w].end
<1>1. words \in Seq(Word) /\ blocks \in Seq(Blocks)
  BY DEF Text, TextOf
<1>2. Len(words) \in Nat /\ DOMAIN words = 1 .. Len(words)
      /\ Len(blocks) \in Nat /\ DOMAIN blocks = 1 .. Len(blocks)
  BY <1>1, LenProperties
<1>3. \A w \in 1 .. Len(words) : words[w] \in Word
  BY <1>1, ElementOfSeq
<1>4. \A w \in 1 .. Len(words) :
        /\ words[w].block \in Nat /\ words[w].start \in Nat /\ words[w].end \in Nat
        /\ words[w].gap \in Nat
  BY <1>3 DEF Word
<1>5. \A b \in 1 .. Len(blocks) : blocks[b] \in Blocks
  BY <1>1, ElementOfSeq
<1> QED
  BY <1>2, <1>4, <1>5 DEF Text, TextOf

(* Tokens are counted in natural numbers. *)
LEMMA TokensAreCounted ==
  ASSUME NEW n \in Nat
  PROVE  approx_tokens(n) \in Nat
<1>1. (13 * n) \div 10 \in Nat
  OBVIOUS
<1> QED
  BY <1>1 DEF approx_tokens

(* And so are those of a stretch of the text. *)
LEMMA Counted ==
  ASSUME Text, NEW from \in Nat, NEW to \in Nat, from <= to => from \in 1 .. Len(words),
         from <= to => to \in 1 .. Len(words)
  PROVE  Count(from, to) \in Nat
<1>1. CASE from > to
  BY <1>1 DEF Count
<1>2. CASE from <= to
  <2>1. /\ words[from].start \in Nat /\ words[to].end \in Nat
        /\ words[from].start <= words[to].end
    BY <1>2, TextTypes
  <2>2. words[to].end - words[from].start \in Nat
    BY <2>1
  <2>3. Count(from, to) = approx_tokens(words[to].end - words[from].start)
    BY <1>2 DEF Count
  <2> QED
    BY <2>2, <2>3, TokensAreCounted
<1> QED
  BY <1>1, <1>2

(* The blocks that words from .. to are in. *)
Touched(from, to) == {words[w].block : w \in from .. to}

(* br is the list of these, in order. *)
Names(br, from, to) ==
  /\ br \in Seq(Nat) /\ br # <<>> /\ Len(br) \in Nat \ {0} /\ DOMAIN br = 1 .. Len(br)
  /\ Len(br) = words[to].block - words[from].block + 1
  /\ \A n \in 1 .. Len(br) : br[n] = words[from].block + n - 1
  /\ Range(br) = Touched(from, to)
  /\ Touched(from, to) = words[from].block .. words[to].block

(* _blocks_in_range names the blocks that are touched, and in order. *)
LEMMA BlocksInRange ==
  ASSUME Text, NEW from \in 1 .. Len(words), NEW to \in 1 .. Len(words), from <= to
  PROVE  Names(_blocks_in_range(from, to), from, to)
<1> DEFINE a == words[from].block
           z == words[to].block
           br == _blocks_in_range(from, to)
           N == z - a + 1
<1>1. a \in Nat /\ z \in Nat /\ a <= z /\ Len(words) \in Nat /\ a \in 1 .. Len(blocks)
      /\ z \in 1 .. Len(blocks) /\ Len(blocks) \in Nat
  BY TextTypes
<1>2. br = [n \in 1 .. N |-> a + n - 1]
  BY DEF _blocks_in_range
<1>3. N \in Nat /\ N >= 1
  BY <1>1
<1> HIDE DEF br
<1>4. Touched(from, to) = a .. z
  <2>1. \A w \in from .. to : words[w].block \in a .. z
    <3> SUFFICES ASSUME NEW w \in from .. to PROVE words[w].block \in a .. z
      OBVIOUS
    <3>1. w \in 1 .. Len(words) /\ from <= w /\ w <= to
      BY <1>1
    <3>2. words[w].block \in Nat /\ a <= words[w].block /\ words[w].block <= z
      BY <3>1, TextTypes
    <3> QED
      BY <1>1, <3>2
  <2>2. \A b \in a .. z : \E w \in from .. to : words[w].block = b
    <3> SUFFICES ASSUME NEW b \in a .. z PROVE \E w \in from .. to : words[w].block = b
      OBVIOUS
    <3>1. b \in 1 .. Len(blocks)
      BY <1>1
    <3>2. PICK w \in 1 .. Len(words) : words[w].block = b
      BY <3>1 DEF Text, TextOf
    <3>3. CASE w < from
      <4>1. b <= a
        BY <1>1, <3>2, <3>3, TextTypes
      <4>2. b = a
        BY <1>1, <4>1
      <4>3. from \in from .. to
        BY <1>1
      <4> QED
        BY <4>2, <4>3
    <3>4. CASE w > to
      <4>1. z <= b
        BY <1>1, <3>2, <3>4, TextTypes
      <4>2. b = z
        BY <1>1, <4>1
      <4>3. to \in from .. to
        BY <1>1
      <4> QED
        BY <4>2, <4>3
    <3>5. CASE w \in from .. to
      BY <3>2, <3>5
    <3> QED
      BY <1>1, <3>3, <3>4, <3>5
  <2> QED
    BY <2>1, <2>2 DEF Touched
<1> HIDE DEF a, z
<1>5. br \in [1 .. N -> Nat]
  BY <1>1, <1>2
<1>6. br \in Seq(Nat) /\ Len(br) = N /\ DOMAIN br = 1 .. N
  BY <1>3, <1>5, SeqDef, LenProperties
<1>7. br # <<>>
  BY <1>3, <1>6
<1>8. Range(br) = a .. z
  <2>1. Range(br) = {br[n] : n \in 1 .. N}
    BY <1>6 DEF Range
  <2>2. \A n \in 1 .. N : br[n] \in a .. z
    BY <1>1, <1>2
  <2>3. \A b \in a .. z : b - a + 1 \in 1 .. N /\ br[b - a + 1] = b
    BY <1>1, <1>2
  <2> QED
    BY <2>1, <2>2, <2>3
<1>9. \A n \in 1 .. Len(br) : br[n] = a + n - 1
  BY <1>2, <1>6
<1> QED
  BY <1>3, <1>4, <1>6, <1>7, <1>8, <1>9 DEF a, z, br, Names

(* The words of a block stand together.                                    *)
LEMMA BlockPlace ==
  ASSUME Text, NEW b \in 1 .. Len(blocks)
  PROVE  /\ First(b) \in 1 .. Len(words) /\ Final(b) \in 1 .. Len(words)
         /\ words[First(b)].block = b /\ words[Final(b)].block = b
         /\ First(b) <= Final(b)
         /\ \A w \in 1 .. Len(words) : words[w].block = b => First(b) <= w /\ w <= Final(b)
<1> DEFINE S == {w \in DOMAIN words : words[w].block = b}
<1>1. Len(words) \in Nat /\ DOMAIN words = 1 .. Len(words)
  BY TextTypes
<1>2. S # {}
  BY <1>1 DEF Text, TextOf
<1>3. S \in SUBSET Nat /\ S \in SUBSET (0 .. Len(words))
  BY <1>1
<1>4. First(b) = Min(S) /\ Final(b) = Max(S)
  BY DEF First, Final
<1>5. \A w \in S : w \in 1 .. Len(words) /\ words[w].block = b
  BY <1>1
<1>6. \A w \in 1 .. Len(words) : words[w].block = b => w \in S
  BY <1>1
<1> HIDE DEF S
<1>7. Min(S) \in S /\ \A m \in S : Min(S) <= m
  BY <1>2, <1>3, LeastIn
<1>8. Max(S) \in S /\ \A m \in S : m <= Max(S)
  BY <1>1, <1>2, <1>3, GreatestIn
<1> QED
  BY <1>4, <1>5, <1>6, <1>7, <1>8

(* Where the words of block b begin, or would. *)
FirstWord(b) == IF b <= Len(blocks) THEN First(b) ELSE Len(words) + 1

(* A block begins where the one before it ends. *)
LEMMA BlocksAdjoin ==
  ASSUME Text, NEW b \in 1 .. Len(blocks)
  PROVE  FirstWord(b + 1) = Final(b) + 1
<1>1. Len(words) \in Nat /\ Len(blocks) \in Nat
  BY TextTypes
<1>2. /\ Final(b) \in 1 .. Len(words) /\ words[Final(b)].block = b
      /\ \A w \in 1 .. Len(words) : words[w].block = b => w <= Final(b)
  BY BlockPlace
<1>3. CASE b = Len(blocks)
  <2>1. words[Len(words)].block = b
    <3>1. Len(words) \in 1 .. Len(words) /\ Final(b) <= Len(words)
      BY <1>1, <1>2
    <3>2. b <= words[Len(words)].block /\ words[Len(words)].block \in 1 .. Len(blocks)
      BY <1>2, <3>1, TextTypes
    <3> QED
      BY <1>1, <1>3, <3>2
  <2>2. Final(b) = Len(words)
    <3>1. Len(words) \in 1 .. Len(words)
      BY <1>1, <1>2
    <3>2. Len(words) <= Final(b)
      BY <1>2, <2>1, <3>1
    <3> QED
      BY <1>1, <1>2, <3>2
  <2> QED
    BY <1>1, <1>3, <2>2 DEF FirstWord
<1>4. CASE b # Len(blocks)
  <2>1. b + 1 \in 1 .. Len(blocks)
    BY <1>1, <1>4
  <2>2. /\ First(b + 1) \in 1 .. Len(words) /\ words[First(b + 1)].block = b + 1
        /\ \A w \in 1 .. Len(words) : words[w].block = b + 1 => First(b + 1) <= w
    BY <2>1, BlockPlace
  <2>3. First(b + 1) > Final(b)
    <3> SUFFICES ASSUME First(b + 1) <= Final(b) PROVE FALSE
      BY <1>1, <1>2, <2>2
    <3>1. b + 1 <= b
      BY <1>2, <2>2, TextTypes
    <3> QED
      BY <3>1
  <2> DEFINE w == Final(b) + 1
  <2>4. w \in 1 .. Len(words) /\ Final(b) <= w /\ w <= First(b + 1)
    BY <1>1, <1>2, <2>2, <2>3
  <2>5. words[w].block \in Nat /\ b <= words[w].block /\ words[w].block <= b + 1
    BY <1>2, <2>2, <2>4, TextTypes
  <2>6. words[w].block # b
    <3> SUFFICES ASSUME words[w].block = b PROVE FALSE
      OBVIOUS
    <3>1. w <= Final(b)
      BY <1>2, <2>4
    <3> QED
      BY <1>1, <1>2, <3>1
  <2>7. words[w].block = b + 1
    BY <2>5, <2>6
  <2>8. First(b + 1) <= w
    BY <2>2, <2>4, <2>7
  <2> QED
    BY <1>1, <1>2, <2>1, <2>2, <2>4, <2>8 DEF FirstWord
<1> QED
  BY <1>3, <1>4

(* The first block begins with the first word. *)
LEMMA FirstBlock ==
  ASSUME Text, words # <<>>
  PROVE  1 \in 1 .. Len(blocks) /\ FirstWord(1) = 1
<1>1. Len(words) \in Nat /\ Len(blocks) \in Nat /\ 1 \in 1 .. Len(words)
  <2>1. words \in Seq(Word)
    BY DEF Text, TextOf
  <2>2. Len(words) # 0
    BY <2>1, EmptySeq
  <2> QED
    BY <2>2, TextTypes
<1>2. words[1].block \in 1 .. Len(blocks)
  BY <1>1, TextTypes
<1>3. 1 \in 1 .. Len(blocks)
  BY <1>1, <1>2
<1>4. First(1) \in 1 .. Len(words) /\ words[First(1)].block = 1
      /\ \A w \in 1 .. Len(words) : words[w].block = 1 => First(1) <= w
  BY <1>3, BlockPlace
<1>5. words[1].block = 1
  <2>1. words[1].block <= 1
    BY <1>1, <1>4, TextTypes
  <2> QED
    BY <1>1, <1>2, <2>1
<1>6. First(1) <= 1
  BY <1>1, <1>4, <1>5
<1> QED
  BY <1>1, <1>3, <1>4, <1>6 DEF FirstWord

(* Each block has a word, so there are no more blocks than words.          *)
LEMMA FewerBlocks ==
  ASSUME Text
  PROVE  /\ \A b \in 1 .. Len(blocks) : b <= First(b)
         /\ Len(blocks) <= Len(words)
<1>1. Len(words) \in Nat /\ Len(blocks) \in Nat
  BY TextTypes
<1>2. \A b \in 1 .. Len(blocks) : b <= First(b)
  <2> DEFINE T == {b \in 1 .. Len(blocks) : ~(b <= First(b))}
  <2> SUFFICES ASSUME T # {} PROVE FALSE
    OBVIOUS
  <2>1. PICK b \in T : \A m \in T : b <= m
    <3>1. T \in SUBSET Nat
      BY <1>1
    <3> HIDE DEF T
    <3> QED
      BY <3>1, LeastNatural
  <2>2. b \in 1 .. Len(blocks) /\ ~(b <= First(b)) /\ First(b) \in 1 .. Len(words)
    BY BlockPlace
  <2>3. b # 1
    BY <1>1, <2>2
  <2>4. b - 1 \in 1 .. Len(blocks) /\ b - 1 \notin T
    BY <1>1, <2>1, <2>2, <2>3
  <2>5. b - 1 <= First(b - 1) /\ First(b - 1) \in 1 .. Len(words)
        /\ First(b - 1) <= Final(b - 1) /\ Final(b - 1) \in 1 .. Len(words)
    BY <2>4, BlockPlace
  <2>6. FirstWord((b - 1) + 1) = Final(b - 1) + 1
    BY <2>4, BlocksAdjoin
  <2>7. (b - 1) + 1 = b /\ b <= Len(blocks)
    BY <1>1, <2>2
  <2>8. First(b) = Final(b - 1) + 1
    BY <2>6, <2>7 DEF FirstWord
  <2> QED
    BY <1>1, <2>2, <2>5, <2>8
<1>3. Len(blocks) <= Len(words)
  <2> SUFFICES ASSUME Len(blocks) # 0 PROVE Len(blocks) <= Len(words)
    BY <1>1
  <2>1. Len(blocks) \in 1 .. Len(blocks)
    BY <1>1
  <2>2. Len(blocks) <= First(Len(blocks)) /\ First(Len(blocks)) \in 1 .. Len(words)
    BY <1>2, <2>1, BlockPlace
  <2> QED
    BY <1>1, <2>2
<1> QED
  BY <1>2, <1>3

-----------------------------------------------------------------------------
(* Lists of chunks *)

Chunk == [from : Nat, to : Nat, lead : Nat, blocks : Seq(Nat)]

(* The n-th chunk of c may begin at word f. *)
LinkAt(c, n, f) ==
  IF n = 1 THEN f = 1
  ELSE IF strategy = "fixed" THEN c[n - 1].from < f /\ f <= c[n - 1].to + 1
       ELSE f = c[n - 1].to + 1

(* Chunks follow each other. *)
Linked(c) ==
  /\ c \in Seq(Chunk)
  /\ \A n \in 1 .. Len(c) :
       /\ LinkAt(c, n, c[n].from)
       /\ 1 <= c[n].from /\ c[n].from <= c[n].to /\ c[n].to <= Len(words)

(* As they are before an overlap. *)
Plain(c) ==
  \A n \in 1 .. Len(c) :
    c[n].lead = c[n].from /\ c[n].blocks = _blocks_in_range(c[n].from, c[n].to)

(* BlocksAreNamed, of the chunks c. *)
Named(c) ==
  \A n \in 1 .. Len(c) :
    /\ Range(c[n].blocks) =
         Touched(IF c[n].lead < c[n].from THEN c[n].from - 1 ELSE c[n].from, c[n].to)
    /\ strategy # "recursive" => Range(c[n].blocks) = Touched(c[n].lead, c[n].to)
    /\ \A m \in 1 .. Len(c[n].blocks) - 1 : c[n].blocks[m] < c[n].blocks[m + 1]

(* What is known of chunks that follow each other. *)
LEMMA ChunkTypes ==
  ASSUME Text, NEW c, Linked(c)
  PROVE  /\ Len(c) \in Nat /\ DOMAIN c = 1 .. Len(c)
         /\ \A n \in 1 .. Len(c) :
              /\ c[n].from \in Nat /\ c[n].to \in Nat /\ c[n].lead \in Nat
              /\ c[n].blocks \in Seq(Nat)
              /\ c[n] = [from |-> c[n].from, to |-> c[n].to, lead |-> c[n].lead,
                         blocks |-> c[n].blocks]
              /\ c[n] \in Chunk
              /\ c[n].from \in 1 .. Len(words) /\ c[n].to \in 1 .. Len(words)
              /\ c[n].from <= c[n].to
<1>1. c \in Seq(Chunk) /\ Len(words) \in Nat
  BY TextTypes DEF Linked
<1>2. Len(c) \in Nat /\ DOMAIN c = 1 .. Len(c) /\ \A n \in 1 .. Len(c) : c[n] \in Chunk
  BY <1>1, LenProperties, ElementOfSeq
<1>3. \A n \in 1 .. Len(c) :
        /\ c[n].from \in Nat /\ c[n].to \in Nat /\ c[n].lead \in Nat
        /\ c[n].blocks \in Seq(Nat)
        /\ c[n] = [from |-> c[n].from, to |-> c[n].to, lead |-> c[n].lead, blocks |-> c[n].blocks]
  BY <1>2 DEF Chunk
<1>4. \A n \in 1 .. Len(c) :
        /\ c[n].from \in 1 .. Len(words) /\ c[n].to \in 1 .. Len(words) /\ c[n].from <= c[n].to
  <2> SUFFICES ASSUME NEW n \in 1 .. Len(c)
               PROVE  /\ c[n].from \in 1 .. Len(words) /\ c[n].to \in 1 .. Len(words)
                      /\ c[n].from <= c[n].to
    OBVIOUS
  <2>1. 1 <= c[n].from /\ c[n].from <= c[n].to /\ c[n].to <= Len(words)
    BY DEF Linked
  <2>2. c[n].from \in Nat /\ c[n].to \in Nat
    BY <1>3
  <2> QED
    BY <1>1, <2>1, <2>2
<1> QED
  BY <1>2, <1>3, <1>4

(* A chunk may be put behind the others. *)
LEMMA Added ==
  ASSUME Text, NEW c, Linked(c), Plain(c), NEW f \in 1 .. Len(words), NEW t \in 1 .. Len(words),
         f <= t, LinkAt(c, Len(c) + 1, f)
  PROVE  LET x == [from |-> f, to |-> t, lead |-> f, blocks |-> _blocks_in_range(f, t)]
             more == Append(c, x)
         IN /\ Linked(more) /\ Plain(more) /\ Len(more) = Len(c) + 1 /\ Len(c) \in Nat
            /\ more[Len(c) + 1] = x
            /\ \A n \in 1 .. Len(c) : more[n] = c[n]
<1> DEFINE x == [from |-> f, to |-> t, lead |-> f, blocks |-> _blocks_in_range(f, t)]
           more == Append(c, x)
<1>1. Len(words) \in Nat /\ f \in Nat /\ t \in Nat
  BY TextTypes
<1>2. _blocks_in_range(f, t) \in Seq(Nat)
  BY BlocksInRange DEF Names
<1>3. /\ x \in Chunk /\ x.from = f /\ x.to = t /\ x.lead = f
      /\ x.blocks = _blocks_in_range(f, t)
  BY <1>1, <1>2 DEF Chunk
<1> HIDE DEF x
<1>4. c \in Seq(Chunk) /\ Len(c) \in Nat /\ DOMAIN c = 1 .. Len(c)
  BY ChunkTypes DEF Linked
<1>5. /\ more \in Seq(Chunk) /\ Len(more) = Len(c) + 1
      /\ \A n \in 1 .. Len(c) : more[n] = c[n]
      /\ more[Len(c) + 1] = x
  BY <1>3, <1>4, AppendProperties
<1> HIDE DEF more
<1>6. Linked(more)
  <2> SUFFICES ASSUME NEW n \in 1 .. Len(c) + 1
               PROVE  /\ LinkAt(more, n, more[n].from)
                      /\ 1 <= more[n].from /\ more[n].from <= more[n].to /\ more[n].to <= Len(words)
    BY <1>5 DEF Linked
  <2>1. n # 1 => n - 1 \in 1 .. Len(c) /\ more[n - 1] = c[n - 1]
    BY <1>4, <1>5
  <2>2. CASE n \in 1 .. Len(c)
    <3>1. more[n] = c[n]
      BY <1>5, <2>2
    <3>2. LinkAt(c, n, c[n].from)
      BY <2>2 DEF Linked
    <3>3. LinkAt(more, n, c[n].from)
      BY <2>1, <3>2 DEF LinkAt
    <3> QED
      BY <2>2, <3>1, <3>3 DEF Linked
  <2>3. CASE n = Len(c) + 1
    <3>1. more[n].from = f /\ more[n].to = t
      BY <1>3, <1>5, <2>3
    <3>2. LinkAt(more, n, f)
      BY <2>1, <2>3 DEF LinkAt
    <3> QED
      BY <1>1, <3>1, <3>2
  <2> QED
    BY <1>4, <2>2, <2>3
<1>7. Plain(more)
  <2> SUFFICES ASSUME NEW n \in 1 .. Len(c) + 1
               PROVE  /\ more[n].lead = more[n].from
                      /\ more[n].blocks = _blocks_in_range(more[n].from, more[n].to)
    BY <1>5 DEF Plain
  <2>1. CASE n \in 1 .. Len(c)
    BY <1>5, <2>1 DEF Plain
  <2>2. CASE n = Len(c) + 1
    BY <1>3, <1>5, <2>2
  <2> QED
    BY <1>4, <2>1, <2>2
<1> QED
  BY <1>4, <1>5, <1>6, <1>7 DEF more, x

(* Chunks other than windows have no words in common. *)
LEMMA Apart ==
  ASSUME Text, NEW c, Linked(c), strategy # "fixed"
  PROVE  \A m, n \in 1 .. Len(c) : m < n => c[m].to < c[n].from
<1>1. /\ Len(c) \in Nat
      /\ \A n \in 1 .. Len(c) : c[n].from \in Nat /\ c[n].to \in Nat /\ c[n].from <= c[n].to
  BY ChunkTypes
<1> SUFFICES ASSUME NEW m \in 1 .. Len(c)
             PROVE  \A n \in 1 .. Len(c) : m < n => c[m].to < c[n].from
  OBVIOUS
<1> DEFINE T == {n \in 1 .. Len(c) : m < n /\ ~(c[m].to < c[n].from)}
<1> SUFFICES ASSUME T # {} PROVE FALSE
  OBVIOUS
<1>2. PICK n \in T : \A k \in T : n <= k
  <2>1. T \in SUBSET Nat
    BY <1>1
  <2> HIDE DEF T
  <2> QED
    BY <2>1, LeastNatural
<1>3. n \in 1 .. Len(c) /\ m < n /\ ~(c[m].to < c[n].from)
  OBVIOUS
<1>4. n - 1 \in 1 .. Len(c) /\ n - 1 \notin T /\ n # 1
  BY <1>1, <1>2, <1>3
<1>5. c[n].from = c[n - 1].to + 1
  BY <1>3, <1>4 DEF Linked, LinkAt
<1>6. m = n - 1 \/ c[m].to < c[n - 1].from
  BY <1>1, <1>3, <1>4
<1> QED
  BY SMTT(40), <1>1, <1>3, <1>4, <1>5, <1>6

(* Before their overlaps, chunks name the blocks of their own words. *)
LEMMA PlainNamed ==
  ASSUME Text, NEW c, Linked(c), Plain(c)
  PROVE  Named(c)
<1> SUFFICES ASSUME NEW n \in 1 .. Len(c)
             PROVE  /\ Range(c[n].blocks) =
                         Touched(IF c[n].lead < c[n].from THEN c[n].from - 1 ELSE c[n].from,
                                 c[n].to)
                    /\ Range(c[n].blocks) = Touched(c[n].lead, c[n].to)
                    /\ \A m \in 1 .. Len(c[n].blocks) - 1 : c[n].blocks[m] < c[n].blocks[m + 1]
  BY DEF Named
<1> DEFINE br == c[n].blocks
<1>1. /\ c[n].from \in 1 .. Len(words) /\ c[n].to \in 1 .. Len(words) /\ c[n].from <= c[n].to
      /\ c[n].lead = c[n].from /\ br = _blocks_in_range(c[n].from, c[n].to)
  BY ChunkTypes DEF Plain
<1>2. Names(br, c[n].from, c[n].to)
  BY <1>1, BlocksInRange
<1>3. words[c[n].from].block \in Nat
  BY <1>1, TextTypes
<1> HIDE DEF br
<1>4. \A m \in 1 .. Len(br) - 1 : br[m] < br[m + 1]
  <2> SUFFICES ASSUME NEW m \in 1 .. Len(br) - 1 PROVE br[m] < br[m + 1]
    OBVIOUS
  <2>1. m \in 1 .. Len(br) /\ m + 1 \in 1 .. Len(br)
    BY SMTT(40), <1>2 DEF Names
  <2>2. /\ br[m] = words[c[n].from].block + m - 1
        /\ br[m + 1] = words[c[n].from].block + (m + 1) - 1
    BY SMTT(40), <1>2, <2>1 DEF Names
  <2>3. m \in Nat
    BY <1>2 DEF Names
  <2> QED
    BY ONLY SMTT(40), <1>3, <2>2, <2>3
<1>5. Range(br) = Touched(c[n].from, c[n].to)
  BY <1>2 DEF Names
<1>6. ~(c[n].lead < c[n].from)
  <2>1. c[n].from \in Nat /\ c[n].lead = c[n].from
    BY <1>1, ChunkTypes
  <2> QED
    BY ONLY <2>1
<1> QED
  BY <1>1, <1>4, <1>5, <1>6 DEF br

(* d is c with overlaps.  A chunk has none, or its text begins in the one  *)
(* before it.  That one's last block is then named, and is another than    *)
(* the chunk's first, or is the same.                                      *)
Bare(d, c, n) == d[n].lead = c[n].from /\ d[n].blocks = c[n].blocks

Joined(d, c, n) ==
  /\ n > 1
  /\ d[n].blocks = <<words[c[n - 1].to].block>> \o c[n].blocks
  /\ words[c[n - 1].to].block # words[c[n].from].block
  /\ d[n].lead <= c[n - 1].to

Within(d, c, n) ==
  /\ n > 1
  /\ d[n].blocks = c[n].blocks
  /\ words[c[n - 1].to].block = words[c[n].from].block
  /\ d[n].lead <= c[n - 1].to

Lapped(d, c) ==
  /\ d \in Seq(Chunk) /\ Len(d) = Len(c)
  /\ \A n \in 1 .. Len(c) :
       /\ d[n].from = c[n].from /\ d[n].to = c[n].to
       /\ 1 <= d[n].lead /\ d[n].lead <= c[n].from
       /\ Bare(d, c, n) \/ Joined(d, c, n) \/ Within(d, c, n)

(* The overlaps are whole blocks, small enough, and neither a table's nor  *)
(* for a table.                                                            *)
BlockOverlaps(d, c) ==
  \A n \in 1 .. Len(c) :
    \/ Bare(d, c, n)
    \/ /\ Joined(d, c, n)
       /\ d[n].lead = First(words[c[n - 1].to].block)
       /\ overlap > 0 /\ BlockCount(words[c[n - 1].to].block) <= overlap
       /\ \A b \in Range(d[n].blocks) : ~is_atomic(blocks[b])

(* Overlaps leave the words that chunks take alone. *)
LEMMA LappedLinked ==
  ASSUME Text, NEW c, Linked(c), NEW d, Lapped(d, c)
  PROVE  Linked(d)
<1>1. Len(c) \in Nat
  BY ChunkTypes
<1> SUFFICES ASSUME NEW n \in 1 .. Len(c)
             PROVE  /\ LinkAt(d, n, d[n].from)
                    /\ 1 <= d[n].from /\ d[n].from <= d[n].to /\ d[n].to <= Len(words)
  BY DEF Linked, Lapped
<1>2. d[n].from = c[n].from /\ d[n].to = c[n].to
  BY DEF Lapped
<1>3. n # 1 => n - 1 \in 1 .. Len(c)
  BY <1>1
<1>4. n # 1 => d[n - 1].from = c[n - 1].from /\ d[n - 1].to = c[n - 1].to
  BY <1>3 DEF Lapped
<1> QED
  BY <1>2, <1>4 DEF Linked, LinkAt

(* A name in front of a list of names. *)
LEMMA Prefixed ==
  ASSUME NEW b \in Nat, NEW br \in Seq(Nat)
  PROVE  /\ <<b>> \o br \in Seq(Nat)
         /\ Len(<<b>> \o br) = 1 + Len(br) /\ Len(br) \in Nat
         /\ (<<b>> \o br)[1] = b
         /\ \A m \in 1 .. Len(br) : (<<b>> \o br)[m + 1] = br[m]
         /\ Range(<<b>> \o br) = {b} \cup Range(br)
         /\ Len(br) # 0 => Last(<<b>> \o br) = Last(br)
<1> DEFINE all == <<b>> \o br
<1>1. <<b>> \in Seq(Nat) /\ Len(<<b>>) = 1 /\ <<b>>[1] = b
  OBVIOUS
<1>2. Len(br) \in Nat /\ DOMAIN br = 1 .. Len(br)
  BY LenProperties
<1>3. /\ all \in Seq(Nat) /\ Len(all) = 1 + Len(br)
      /\ \A m \in 1 .. 1 + Len(br) : all[m] = IF m <= 1 THEN <<b>>[m] ELSE br[m - 1]
  BY <1>1, ConcatProperties
<1>4. DOMAIN all = 1 .. Len(all)
  BY <1>3, LenProperties
<1> HIDE DEF all
<1>5. all[1] = b /\ \A m \in 1 .. Len(br) : all[m + 1] = br[m]
  <2>1. 1 \in 1 .. 1 + Len(br)
    BY <1>2
  <2>2. \A m \in 1 .. Len(br) : m + 1 \in 1 .. 1 + Len(br) /\ ~(m + 1 <= 1) /\ (m + 1) - 1 = m
    BY <1>2
  <2> QED
    BY <1>1, <1>3, <2>1, <2>2
<1>6. Range(all) = {b} \cup Range(br)
  <2>1. Range(all) = {all[m] : m \in 1 .. 1 + Len(br)}
    BY <1>3, <1>4 DEF Range
  <2>2. Range(br) = {br[m] : m \in 1 .. Len(br)}
    BY <1>2 DEF Range
  <2>3. \A m \in 1 .. 1 + Len(br) : m = 1 \/ (m - 1 \in 1 .. Len(br) /\ all[m] = br[m - 1])
    BY <1>2, <1>3
  <2>4. \A m \in 1 .. Len(br) : m + 1 \in 1 .. 1 + Len(br)
    BY <1>2
  <2>5. 1 \in 1 .. 1 + Len(br)
    BY <1>2
  <2>6. \A x \in Range(all) : x \in {b} \cup Range(br)
    BY <1>5, <2>1, <2>2, <2>3
  <2>7. Range(br) \subseteq Range(all)
    BY <1>5, <2>1, <2>2, <2>4
  <2>8. b \in Range(all)
    BY <1>5, <2>1, <2>5
  <2> QED
    BY <2>6, <2>7, <2>8
<1>7. Len(br) # 0 => Last(all) = Last(br)
  <2> SUFFICES ASSUME Len(br) # 0 PROVE Last(all) = Last(br)
    OBVIOUS
  <2>1. Len(br) \in 1 .. Len(br) /\ Len(br) + 1 = 1 + Len(br)
    BY <1>2
  <2>2. all[Len(br) + 1] = br[Len(br)]
    BY <1>5, <2>1
  <2> QED
    BY <1>3, <2>1, <2>2 DEF Last
<1> QED
  BY <1>2, <1>3, <1>5, <1>6, <1>7 DEF all

(* What the text touches when it is begun a word earlier, and when it is   *)
(* begun where the block of that word is.                                  *)
LEMMA BegunEarlier ==
  ASSUME Text, NEW p \in 1 .. Len(words), NEW t \in 1 .. Len(words), p < t
  PROVE  LET b == words[p].block IN
         /\ Touched(p, t) = {b} \cup Touched(p + 1, t)
         /\ Touched(First(b), t) = {b} \cup Touched(p + 1, t)
<1> DEFINE b == words[p].block
<1>1. Len(words) \in Nat /\ b \in 1 .. Len(blocks) /\ b \in Nat
  BY TextTypes
<1>2. First(b) \in 1 .. Len(words) /\ words[First(b)].block = b /\ First(b) <= p
  BY <1>1, BlockPlace
<1>3. \A v \in First(b) .. p : words[v].block = b
  <2> SUFFICES ASSUME NEW v \in First(b) .. p PROVE words[v].block = b
    OBVIOUS
  <2>1. v \in 1 .. Len(words) /\ First(b) <= v /\ v <= p
    BY <1>1, <1>2
  <2>2. words[v].block \in Nat /\ b <= words[v].block /\ words[v].block <= b
    BY <1>2, <2>1, TextTypes
  <2> QED
    BY <1>1, <2>2
<1> DEFINE s == First(b)
<1>4. s \in Nat /\ s <= p /\ p \in Nat /\ t \in Nat
  BY <1>1, <1>2
<1> HIDE DEF s, b
<1>5. \A q \in {p, s} : Touched(q, t) = {b} \cup Touched(p + 1, t)
  <2> SUFFICES ASSUME NEW q \in {p, s} PROVE Touched(q, t) = {b} \cup Touched(p + 1, t)
    OBVIOUS
  <2>1. q .. t = (q .. p) \cup (p + 1 .. t) /\ p \in q .. p
    BY <1>4
  <2>2. \A v \in q .. p : words[v].block = b
    <3>1. \A v \in q .. p : v \in s .. p
      BY <1>4
    <3> QED
      BY <1>3, <3>1 DEF s
  <2> QED
    BY <2>1, <2>2 DEF Touched
<1> QED
  BY <1>5 DEF s, b

(* With an overlap goes the name of its last block, which is all of it if  *)
(* it is a block.                                                          *)
LEMMA LappedNamed ==
  ASSUME Text, strategy # "fixed", NEW c, Linked(c), Plain(c), NEW d, Lapped(d, c),
         strategy # "recursive" => BlockOverlaps(d, c)
  PROVE  Named(d)
<1>1. Len(c) \in Nat /\ Len(d) = Len(c)
  BY ChunkTypes DEF Lapped
<1> SUFFICES ASSUME NEW n \in 1 .. Len(c)
             PROVE  /\ Range(d[n].blocks) =
                         Touched(IF d[n].lead < d[n].from THEN d[n].from - 1 ELSE d[n].from,
                                 d[n].to)
                    /\ strategy # "recursive" => Range(d[n].blocks) = Touched(d[n].lead, d[n].to)
                    /\ \A m \in 1 .. Len(d[n].blocks) - 1 : d[n].blocks[m] < d[n].blocks[m + 1]
  BY <1>1 DEF Named
<1> DEFINE br == c[n].blocks
<1>2. /\ c[n].from \in 1 .. Len(words) /\ c[n].to \in 1 .. Len(words) /\ c[n].from <= c[n].to
      /\ c[n].from \in Nat /\ c[n].to \in Nat
      /\ br = _blocks_in_range(c[n].from, c[n].to)
  BY ChunkTypes DEF Plain
<1>3. /\ d[n].from = c[n].from /\ d[n].to = c[n].to
      /\ 1 <= d[n].lead /\ d[n].lead <= c[n].from
      /\ Bare(d, c, n) \/ Joined(d, c, n) \/ Within(d, c, n)
  BY DEF Lapped
<1>4. d[n].lead \in Nat
  BY LappedLinked, ChunkTypes, <1>1
<1>5. /\ br \in Seq(Nat) /\ Len(br) \in Nat /\ DOMAIN br = 1 .. Len(br) /\ Len(br) >= 1
      /\ \A m \in 1 .. Len(br) : br[m] = words[c[n].from].block + m - 1
      /\ Range(br) = Touched(c[n].from, c[n].to)
  <2>1. Names(br, c[n].from, c[n].to)
    BY <1>2, BlocksInRange
  <2> HIDE DEF br
  <2>2. /\ br \in Seq(Nat) /\ Len(br) \in Nat \ {0} /\ DOMAIN br = 1 .. Len(br)
        /\ \A m \in 1 .. Len(br) : br[m] = words[c[n].from].block + m - 1
        /\ Range(br) = Touched(c[n].from, c[n].to)
    BY ONLY <2>1, Zenon DEF Names
  <2>3. Len(br) \in Nat /\ Len(br) >= 1
    BY ONLY <2>2
  <2> QED
    BY ONLY <2>2, <2>3, Zenon
<1>6. words[c[n].from].block \in Nat
  BY <1>2, TextTypes
<1> HIDE DEF br
<1>7. \A m \in 1 .. Len(br) - 1 : br[m] < br[m + 1]
  <2> SUFFICES ASSUME NEW m \in 1 .. Len(br) - 1 PROVE br[m] < br[m + 1]
    OBVIOUS
  <2>1. m \in 1 .. Len(br) /\ m + 1 \in 1 .. Len(br)
    BY <1>5
  <2> QED
    BY SMTT(40), <1>5, <1>6, <2>1
<1>8. CASE Bare(d, c, n)
  <2>1. d[n].lead = c[n].from /\ d[n].blocks = br
    BY <1>8 DEF Bare, br
  <2>2. ~(d[n].lead < d[n].from)
    BY ONLY <1>2, <1>3, <2>1
  <2> QED
    BY <1>3, <1>5, <1>7, <2>1, <2>2
<1>9. CASE Joined(d, c, n) \/ Within(d, c, n)
  <2> DEFINE p == c[n - 1].to
             b == words[p].block
  <2>1. n - 1 \in 1 .. Len(c) /\ n - 1 < n /\ n # 1 /\ d[n].lead <= p
    BY <1>1, <1>9 DEF Joined, Within
  <2>2. p \in 1 .. Len(words) /\ p < c[n].from /\ p \in Nat
    BY <2>1, ChunkTypes, Apart
  <2>3. c[n].from = p + 1
    BY <2>1 DEF Linked, LinkAt
  <2>4. b \in Nat /\ b <= words[c[n].from].block
    BY SMTT(40), <1>2, <2>2, TextTypes
  <2> HIDE DEF p
  <2>5. p < c[n].to
    BY ONLY <1>2, <2>2
  <2>6. /\ Touched(p, c[n].to) = {b} \cup Touched(c[n].from, c[n].to)
        /\ Touched(First(b), c[n].to) = {b} \cup Touched(c[n].from, c[n].to)
    BY <1>2, <2>2, <2>3, <2>5, BegunEarlier
  <2>7. d[n].lead < d[n].from /\ d[n].from - 1 = p
    BY ONLY <1>2, <1>3, <1>4, <2>1, <2>2, <2>3
  <2>8. strategy # "recursive" => d[n].lead = First(b)
    <3> SUFFICES ASSUME strategy # "recursive" PROVE d[n].lead = First(b)
      OBVIOUS
    <3>1. ~Bare(d, c, n)
      <4>1. d[n].lead # c[n].from
        BY ONLY <1>2, <1>3, <1>4, <2>7
      <4> QED
        BY <4>1 DEF Bare
    <3> QED
      BY <3>1 DEF BlockOverlaps, p
  <2> HIDE DEF b
  <2>9. CASE Within(d, c, n)
    <3>1. d[n].blocks = br /\ b = words[c[n].from].block
      BY <2>9 DEF Within, br, b, p
    <3>2. b \in Touched(c[n].from, c[n].to)
      <4>1. c[n].from \in c[n].from .. c[n].to
        BY ONLY <1>2
      <4> QED
        BY <3>1, <4>1 DEF Touched
    <3> QED
      BY <1>3, <1>5, <1>7, <2>6, <2>7, <2>8, <3>1, <3>2
  <2>10. CASE Joined(d, c, n)
    <3> DEFINE all == <<b>> \o br
    <3>1. d[n].blocks = all /\ b # words[c[n].from].block
      BY <2>10 DEF Joined, br, b, p
    <3>2. /\ Len(all) = 1 + Len(br) /\ all[1] = b
          /\ \A m \in 1 .. Len(br) : all[m + 1] = br[m]
          /\ Range(all) = {b} \cup Range(br)
      BY <1>5, <2>4, Prefixed
    <3> HIDE DEF all
    <3>3. \A m \in 1 .. Len(all) - 1 : all[m] < all[m + 1]
      <4> SUFFICES ASSUME NEW m \in 1 .. Len(all) - 1 PROVE all[m] < all[m + 1]
        OBVIOUS
      <4>1. m \in 1 .. Len(br)
        BY <1>5, <3>2
      <4>2. all[m + 1] = words[c[n].from].block + m - 1
        BY <1>5, <3>2, <4>1
      <4>3. CASE m = 1
        BY <1>6, <2>4, <3>1, <3>2, <4>2, <4>3
      <4>4. CASE m # 1
        <5>1. m - 1 \in 1 .. Len(br) /\ (m - 1) + 1 = m
          BY <1>5, <4>1, <4>4
        <5>2. all[m] = words[c[n].from].block + (m - 1) - 1
          BY <1>5, <3>2, <5>1
        <5> QED
          BY <1>6, <4>2, <5>2
      <4> QED
        BY <4>3, <4>4
    <3> QED
      BY <1>3, <1>5, <2>6, <2>7, <2>8, <3>1, <3>2, <3>3
  <2> QED
    BY <1>9, <2>9, <2>10
<1> QED
  BY <1>3, <1>8, <1>9

(* What a chunk and the one before it have in them. *)
LEMMA Neighbours ==
  ASSUME Text, strategy # "fixed", NEW c, Linked(c), Plain(c), NEW n \in 1 .. Len(c), n # 1
  PROVE  /\ n - 1 \in 1 .. Len(c)
         /\ Last(c[n - 1].blocks) = words[c[n - 1].to].block
         /\ c[n].blocks[1] = words[c[n].from].block
         /\ c[n - 1].to \in 1 .. Len(words) /\ c[n - 1].to < c[n].from
         /\ c[n - 1].from \in 1 .. Len(words)
         /\ words[c[n - 1].to].block \in Nat /\ c[n].blocks \in Seq(Nat)
<1>1. Len(c) \in Nat
  BY ChunkTypes
<1>2. n - 1 \in 1 .. Len(c) /\ n - 1 < n
  BY <1>1
<1>3. \A m \in 1 .. Len(c) : Names(c[m].blocks, c[m].from, c[m].to)
  <2> SUFFICES ASSUME NEW m \in 1 .. Len(c) PROVE Names(c[m].blocks, c[m].from, c[m].to)
    OBVIOUS
  <2>1. /\ c[m].from \in 1 .. Len(words) /\ c[m].to \in 1 .. Len(words) /\ c[m].from <= c[m].to
        /\ c[m].blocks = _blocks_in_range(c[m].from, c[m].to)
    BY ChunkTypes DEF Plain
  <2> QED
    BY <2>1, BlocksInRange
<1>4. /\ c[n - 1].from \in 1 .. Len(words) /\ c[n - 1].to \in 1 .. Len(words)
      /\ c[n].from \in 1 .. Len(words)
      /\ c[n - 1].to < c[n].from /\ c[n].blocks \in Seq(Nat)
  BY <1>2, ChunkTypes, Apart
<1>5. /\ words[c[n - 1].from].block \in Nat /\ words[c[n - 1].to].block \in Nat
      /\ words[c[n].from].block \in Nat
  BY <1>4, TextTypes
<1>6. Last(c[n - 1].blocks) = words[c[n - 1].to].block
  <2> DEFINE br == c[n - 1].blocks
  <2>1. Names(br, c[n - 1].from, c[n - 1].to)
    BY <1>2, <1>3
  <2> HIDE DEF br
  <2>2. Len(br) \in 1 .. Len(br)
    <3>1. Len(br) \in Nat \ {0}
      BY ZenonT(40), <2>1 DEF Names
    <3> QED
      BY ONLY <3>1
  <2>3. /\ br[Len(br)] = words[c[n - 1].from].block + Len(br) - 1
        /\ Len(br) = words[c[n - 1].to].block - words[c[n - 1].from].block + 1
    BY ONLY <2>1, <2>2 DEF Names
  <2>4. br[Len(br)] = words[c[n - 1].to].block
    BY ONLY SMTT(40), <1>5, <2>3
  <2> QED
    BY <2>4 DEF br, Last
<1>7. c[n].blocks[1] = words[c[n].from].block
  <2> DEFINE br == c[n].blocks
  <2>1. Names(br, c[n].from, c[n].to)
    BY <1>3
  <2> HIDE DEF br
  <2>2. 1 \in 1 .. Len(br)
    BY SMTT(40), <2>1 DEF Names
  <2>3. br[1] = words[c[n].from].block
    BY <1>5, <2>1, <2>2 DEF Names
  <2> QED
    BY <2>3 DEF br
<1> QED
  BY <1>2, <1>4, <1>5, <1>6, <1>7

(* A list in which chunk n is either that of c or has an overlap. *)
LEMMA Laps ==
  ASSUME Text, NEW c, Linked(c), Plain(c), NEW d, DOMAIN d = 1 .. Len(c),
         \A n \in 1 .. Len(c) :
           \/ d[n] = c[n]
           \/ \E lead \in Nat, names \in Seq(Nat) :
                /\ d[n] = [from |-> c[n].from, to |-> c[n].to, lead |-> lead, blocks |-> names]
                /\ 1 <= lead /\ lead <= c[n].from
                /\ Joined(d, c, n) \/ Within(d, c, n),
         \E f : d = [n \in 1 .. Len(c) |-> f[n]]
  PROVE  Lapped(d, c)
<1>1. Len(c) \in Nat
  BY ChunkTypes
<1>2. \A n \in 1 .. Len(c) :
        /\ c[n].from \in Nat /\ c[n].to \in Nat /\ c[n] \in Chunk /\ 1 <= c[n].from
        /\ c[n].lead = c[n].from
  <2>1. \A n \in 1 .. Len(c) :
          c[n].from \in Nat /\ c[n].to \in Nat /\ c[n] \in Chunk
    BY ChunkTypes
  <2>2. \A n \in 1 .. Len(c) : c[n].lead = c[n].from
    BY DEF Plain
  <2>3. \A n \in 1 .. Len(c) : 1 <= c[n].from
    BY DEF Linked
  <2> QED
    BY <2>1, <2>2, <2>3
<1>3. \A n \in 1 .. Len(c) :
        /\ d[n] \in Chunk
        /\ d[n].from = c[n].from /\ d[n].to = c[n].to
        /\ 1 <= d[n].lead /\ d[n].lead <= c[n].from
        /\ Bare(d, c, n) \/ Joined(d, c, n) \/ Within(d, c, n)
  <2> SUFFICES ASSUME NEW n \in 1 .. Len(c)
               PROVE  /\ d[n] \in Chunk
                      /\ d[n].from = c[n].from /\ d[n].to = c[n].to
                      /\ 1 <= d[n].lead /\ d[n].lead <= c[n].from
                      /\ Bare(d, c, n) \/ Joined(d, c, n) \/ Within(d, c, n)
    OBVIOUS
  <2>1. CASE d[n] = c[n]
    BY <1>2, <2>1 DEF Bare
  <2>2. CASE d[n] # c[n]
    <3>1. PICK lead \in Nat, names \in Seq(Nat) :
                /\ d[n] = [from |-> c[n].from, to |-> c[n].to, lead |-> lead, blocks |-> names]
                /\ 1 <= lead /\ lead <= c[n].from
                /\ Joined(d, c, n) \/ Within(d, c, n)
      BY <2>2
    <3>2. d[n].from = c[n].from /\ d[n].to = c[n].to /\ d[n].lead = lead /\ d[n].blocks = names
      BY <3>1
    <3>3. d[n] \in Chunk
      BY <1>2, <3>1 DEF Chunk
    <3> QED
      BY <3>1, <3>2, <3>3
  <2> QED
    BY <2>1, <2>2
<1>4. d \in Seq(Chunk) /\ Len(d) = Len(c)
  <2>1. d = [n \in 1 .. Len(c) |-> d[n]]
    OBVIOUS
  <2>2. d \in [1 .. Len(c) -> Chunk]
    BY <1>3, <2>1
  <2> QED
    BY <1>1, <2>2, SeqDef, LenProperties
<1> QED
  BY <1>3, <1>4 DEF Lapped

(* _apply_text_overlap is such an overlap. *)
LEMMA TextLapped ==
  ASSUME Text, strategy # "fixed", Linked(chunks), Plain(chunks)
  PROVE  Lapped(_apply_text_overlap, chunks)
<1> DEFINE b(n) == Last(chunks[n - 1].blocks)
           names(n) == IF b(n) = chunks[n].blocks[1] THEN chunks[n].blocks
                       ELSE <<b(n)>> \o chunks[n].blocks
           lead(n) == Min(Carried(chunks[n - 1]))
           d == [n \in 1 .. Len(chunks) |->
                   IF n = 1 THEN chunks[1]
                   ELSE IF Carried(chunks[n - 1]) = {} THEN chunks[n]
                   ELSE [chunks[n] EXCEPT !.lead = lead(n), !.blocks = names(n)]]
<1>1. Len(chunks) \in Nat /\ DOMAIN chunks = 1 .. Len(chunks)
  BY ChunkTypes
<1>2. _apply_text_overlap = d
  BY <1>1 DEF _apply_text_overlap
<1>3. \A n \in 1 .. Len(chunks) :
        \/ d[n] = chunks[n]
        \/ \E l \in Nat, ns \in Seq(Nat) :
             /\ d[n] = [from |-> chunks[n].from, to |-> chunks[n].to, lead |-> l, blocks |-> ns]
             /\ 1 <= l /\ l <= chunks[n].from
             /\ Joined(d, chunks, n) \/ Within(d, chunks, n)
  <2> SUFFICES ASSUME NEW n \in 1 .. Len(chunks), n # 1, Carried(chunks[n - 1]) # {}
               PROVE  \E l \in Nat, ns \in Seq(Nat) :
             /\ d[n] = [from |-> chunks[n].from, to |-> chunks[n].to, lead |-> l, blocks |-> ns]
             /\ 1 <= l /\ l <= chunks[n].from
             /\ Joined(d, chunks, n) \/ Within(d, chunks, n)
    OBVIOUS
  <2>1. d[n] = [chunks[n] EXCEPT !.lead = lead(n), !.blocks = names(n)]
    OBVIOUS
  <2>2. /\ n - 1 \in 1 .. Len(chunks)
        /\ b(n) = words[chunks[n - 1].to].block
        /\ chunks[n].blocks[1] = words[chunks[n].from].block
        /\ chunks[n - 1].to \in 1 .. Len(words) /\ chunks[n - 1].to < chunks[n].from
        /\ chunks[n - 1].from \in 1 .. Len(words)
        /\ b(n) \in Nat /\ chunks[n].blocks \in Seq(Nat)
    BY Neighbours
  <2>3. chunks[n].from \in Nat /\ Len(words) \in Nat
        /\ chunks[n] = [from |-> chunks[n].from, to |-> chunks[n].to, lead |-> chunks[n].lead,
                         blocks |-> chunks[n].blocks]
    BY ChunkTypes, TextTypes
  <2>4. lead(n) \in chunks[n - 1].from .. chunks[n - 1].to
    <3> DEFINE S == Carried(chunks[n - 1])
    <3>1. S \in SUBSET (chunks[n - 1].from .. chunks[n - 1].to)
      BY DEF Carried
    <3>2. S \in SUBSET Nat /\ S # {}
      BY <2>2, <3>1
    <3> HIDE DEF S
    <3>3. Min(S) \in S
      BY <3>2, LeastIn
    <3> QED
      BY <3>1, <3>3 DEF S
  <2>5. names(n) \in Seq(Nat)
    <3>1. <<b(n)>> \in Seq(Nat)
      BY <2>2
    <3> HIDE DEF b
    <3> QED
      BY <2>2, <3>1, ConcatProperties
  <2> HIDE DEF lead
  <2>6. lead(n) \in Nat /\ 1 <= lead(n) /\ lead(n) <= chunks[n - 1].to
        /\ lead(n) <= chunks[n].from
    BY SMTT(40), <2>2, <2>3, <2>4
  <2> HIDE DEF names, d
  <2>7. d[n] = [from |-> chunks[n].from, to |-> chunks[n].to, lead |-> lead(n), blocks |-> names(n)]
    BY <2>1, <2>3
  <2>8. Joined(d, chunks, n) \/ Within(d, chunks, n)
    <3>1. n > 1 /\ d[n].lead = lead(n) /\ d[n].blocks = names(n)
      BY <1>1, <2>7
    <3>2. CASE b(n) = chunks[n].blocks[1]
      <4>1. d[n].blocks = chunks[n].blocks
        BY <3>1, <3>2 DEF names
      <4> HIDE DEF b
      <4> QED
        BY <2>2, <2>6, <3>1, <3>2, <4>1 DEF Within
    <3>3. CASE b(n) # chunks[n].blocks[1]
      <4>1. d[n].blocks = <<b(n)>> \o chunks[n].blocks
        BY <3>1, <3>3 DEF names
      <4> HIDE DEF b
      <4> QED
        BY <2>2, <2>6, <3>1, <3>3, <4>1 DEF Joined
    <3> QED
      BY <3>2, <3>3
  <2> QED
    BY <2>5, <2>6, <2>7, <2>8
<1>4. DOMAIN d = 1 .. Len(chunks) /\ \E f : d = [n \in 1 .. Len(chunks) |-> f[n]]
  <2>1. DOMAIN d = 1 .. Len(chunks) /\ d = [n \in 1 .. Len(chunks) |-> d[n]]
    OBVIOUS
  <2> HIDE DEF d
  <2> QED
    BY <2>1
<1> HIDE DEF d
<1> QED
  BY <1>2, <1>3, <1>4, Laps

(* Blocks a .. z make a chunk: a heading only begins it, they are of one   *)
(* section, and a table is by itself.                                      *)
Uniform(a, z) ==
  /\ \A b \in a + 1 .. z : ~is_boundary(blocks[b])
  /\ \A b \in a .. z : blocks[b].section = blocks[a].section
  /\ \A b \in a .. z : is_atomic(blocks[b]) => a = z

(* Such chunks have whole blocks. *)
Structured(c) ==
  \A n \in 1 .. Len(c) :
    /\ c[n].from = First(words[c[n].from].block)
    /\ c[n].to = Final(words[c[n].to].block)
    /\ Uniform(words[c[n].from].block, words[c[n].to].block)

(* StructureIsKept, of the chunks c. *)
Structure(c) ==
  \A n \in 1 .. Len(c) :
    LET br == c[n].blocks
        carried == c[n].lead < c[n].from
        first == IF carried THEN 2 ELSE 1
    IN /\ \A m \in first .. Len(br) :
            /\ is_boundary(blocks[br[m]]) => m = first
            /\ blocks[br[m]].section = blocks[br[first]].section
            /\ is_atomic(blocks[br[m]]) =>
                 Len(br) = 1 /\ \A k \in 1 .. Len(c) \ {n} : br[m] \notin Range(c[k].blocks)
       /\ carried =>
            /\ overlap > 0 /\ BlockCount(br[1]) <= overlap
            /\ n > 1 /\ br[1] = Last(c[n - 1].blocks)
            /\ ~is_atomic(blocks[br[1]])

(* The blocks of a chunk before its overlap. *)
LEMMA ChunkBlocks ==
  ASSUME Text, NEW c, Linked(c), Plain(c), NEW n \in 1 .. Len(c)
  PROVE  /\ Names(c[n].blocks, c[n].from, c[n].to)
         /\ words[c[n].from].block \in 1 .. Len(blocks) /\ words[c[n].to].block \in 1 .. Len(blocks)
         /\ words[c[n].from].block \in Nat /\ words[c[n].to].block \in Nat
         /\ words[c[n].from].block <= words[c[n].to].block
<1>1. /\ c[n].from \in 1 .. Len(words) /\ c[n].to \in 1 .. Len(words) /\ c[n].from <= c[n].to
      /\ c[n].blocks = _blocks_in_range(c[n].from, c[n].to)
  BY ChunkTypes DEF Plain
<1>2. Names(c[n].blocks, c[n].from, c[n].to)
  BY <1>1, BlocksInRange
<1> QED
  BY <1>1, <1>2, TextTypes

(* Chunks of whole blocks share none. *)
LEMMA BlocksApart ==
  ASSUME Text, NEW c, Linked(c), Plain(c), Structured(c), strategy # "fixed"
  PROVE  \A m, n \in 1 .. Len(c) : m < n => words[c[m].to].block < words[c[n].from].block
<1> SUFFICES ASSUME NEW m \in 1 .. Len(c), NEW n \in 1 .. Len(c), m < n
             PROVE  words[c[m].to].block < words[c[n].from].block
  OBVIOUS
<1>1. c[m].to < c[n].from
  BY Apart
<1>2. c[m].to \in 1 .. Len(words) /\ c[n].from \in 1 .. Len(words) /\ Len(words) \in Nat
  BY ChunkTypes, TextTypes
<1>3. words[c[m].to].block <= words[c[n].from].block
  BY SMTT(40), <1>1, <1>2, TextTypes
<1>4. words[c[m].to].block # words[c[n].from].block
  <2> SUFFICES ASSUME words[c[m].to].block = words[c[n].from].block PROVE FALSE
    OBVIOUS
  <2>1. c[m].to = Final(words[c[m].to].block) /\ words[c[m].to].block \in 1 .. Len(blocks)
    BY <1>2, TextTypes DEF Structured
  <2>2. c[n].from <= Final(words[c[m].to].block)
    BY <1>2, <2>1, BlockPlace
  <2> QED
    BY <1>1, <1>2, <2>1, <2>2
<1>5. words[c[m].to].block \in Nat /\ words[c[n].from].block \in Nat
  BY <1>2, TextTypes
<1> QED
  BY <1>3, <1>4, <1>5

(* Structure survives an overlap of whole blocks. *)
LEMMA StructureOf ==
  ASSUME Text, strategy # "fixed", NEW c, Linked(c), Plain(c), Structured(c),
         NEW d, Lapped(d, c), BlockOverlaps(d, c)
  PROVE  Structure(d)
<1>1. Len(c) \in Nat /\ Len(d) = Len(c)
  BY ChunkTypes DEF Lapped
<1>2. ASSUME NEW n \in 1 .. Len(c)
      PROVE  LET br == d[n].blocks
                 carried == d[n].lead < d[n].from
                 first == IF carried THEN 2 ELSE 1
             IN /\ \A m \in first .. Len(br) :
                     /\ is_boundary(blocks[br[m]]) => m = first
                     /\ blocks[br[m]].section = blocks[br[first]].section
                     /\ is_atomic(blocks[br[m]]) =>
                          Len(br) = 1 /\ \A k \in 1 .. Len(c) \ {n} :
                            br[m] \notin Range(d[k].blocks)
                /\ carried =>
                     /\ overlap > 0 /\ BlockCount(br[1]) <= overlap
                     /\ n > 1 /\ br[1] = Last(d[n - 1].blocks)
                     /\ ~is_atomic(blocks[br[1]])
  <2> DEFINE a == words[c[n].from].block
             z == words[c[n].to].block
             own == c[n].blocks
             br == d[n].blocks
  <2>1. /\ Names(own, c[n].from, c[n].to)
        /\ a \in Nat /\ z \in Nat /\ a <= z
    BY <1>2, ChunkBlocks
  <2>2. d[n].from = c[n].from /\ c[n].from \in Nat
    BY <1>2, ChunkTypes DEF Lapped
  <2>3. Uniform(a, z)
    BY <1>2 DEF Structured
  <2>4. \A x, y \in 1 .. Len(c) : x < y => words[c[x].to].block < words[c[y].from].block
    BY BlocksApart
  <2> HIDE DEF own
  <2>5. /\ own \in Seq(Nat) /\ Len(own) = z - a + 1 /\ Len(own) \in Nat \ {0}
        /\ \A m \in 1 .. Len(own) : own[m] = a + m - 1
        /\ Range(own) = a .. z
    BY <2>1 DEF Names
  <2> HIDE DEF a, z, br
  <2>6. ASSUME NEW m \in 1 .. Len(own)
        PROVE  /\ is_boundary(blocks[own[m]]) => m = 1
               /\ blocks[own[m]].section = blocks[own[1]].section
               /\ is_atomic(blocks[own[m]]) => Len(own) = 1
    <3>1. own[m] = a + m - 1 /\ 1 \in 1 .. Len(own) /\ own[1] = a + 1 - 1
      BY <2>5
    <3>2. own[m] \in a .. z /\ own[1] = a /\ (own[m] \in a + 1 .. z \/ m = 1)
      BY ONLY SMTT(40), <2>1, <2>5, <2>6, <3>1
    <3>3. is_boundary(blocks[own[m]]) => m = 1
      BY <2>3, <3>2 DEF Uniform
    <3>4. blocks[own[m]].section = blocks[own[1]].section
      BY <2>3, <3>2 DEF Uniform
    <3>5. ASSUME is_atomic(blocks[own[m]])
          PROVE  Len(own) = 1
      <4>1. a = z
        BY <2>3, <3>2, <3>5 DEF Uniform
      <4> QED
        BY ONLY <2>1, <2>5, <4>1
    <3> QED
      BY <3>3, <3>4, <3>5
  <2>7. ASSUME NEW x \in Range(own), is_atomic(blocks[x]),
               NEW k \in 1 .. Len(c), k # n, x \in Range(d[k].blocks)
        PROVE  FALSE
    <3> DEFINE a2 == words[c[k].from].block
               z2 == words[c[k].to].block
    <3>1. d[k].blocks = c[k].blocks
      BY <2>7 DEF BlockOverlaps, Bare
    <3>2. Names(c[k].blocks, c[k].from, c[k].to) /\ a2 \in Nat /\ z2 \in Nat
      BY <2>7, ChunkBlocks
    <3>3. x \in a2 .. z2
      BY <2>7, <3>1, <3>2 DEF Names
    <3>4. k < n => z2 < a
      BY <1>2, <2>4, <2>7 DEF a
    <3>5. n < k => z < a2
      BY <1>2, <2>4, <2>7 DEF z
    <3> HIDE DEF a2, z2
    <3>6. k < n \/ n < k
      BY <1>1, <1>2, <2>7
    <3>7. x \in a .. z
      BY <2>5, <2>7
    <3> QED
      BY <2>1, <3>2, <3>3, <3>4, <3>5, <3>6, <3>7
  <2>8. \A m \in 1 .. Len(own) : own[m] \in Range(own)
    <3>1. DOMAIN own = 1 .. Len(own)
      BY <2>5, LenProperties
    <3> QED
      BY <3>1 DEF Range
  <2>9. CASE Bare(d, c, n)
    <3>1. ~(d[n].lead < d[n].from)
      <4>1. d[n].lead = c[n].from
        BY <2>9 DEF Bare
      <4> QED
        BY ONLY <2>2, <4>1
    <3>2. br = own
      BY <2>9 DEF Bare, br, own
    <3>3. \A m \in 1 .. Len(br) :
            /\ is_boundary(blocks[br[m]]) => m = 1
            /\ blocks[br[m]].section = blocks[br[1]].section
            /\ is_atomic(blocks[br[m]]) =>
                 Len(br) = 1 /\ \A k \in 1 .. Len(c) \ {n} : br[m] \notin Range(d[k].blocks)
      BY <2>6, <2>7, <2>8, <3>2
    <3> QED
      BY <3>1, <3>3 DEF br
  <2>10. CASE ~Bare(d, c, n)
    <3> DEFINE p == words[c[n - 1].to].block
    <3>1. /\ n > 1 /\ br = <<p>> \o own /\ d[n].lead <= c[n - 1].to
          /\ overlap > 0 /\ BlockCount(p) <= overlap
          /\ \A x \in Range(br) : ~is_atomic(blocks[x])
      BY <1>2, <2>10 DEF BlockOverlaps, Joined, br, own
    <3>2. /\ n - 1 \in 1 .. Len(c) /\ c[n - 1].to < c[n].from /\ c[n - 1].to \in 1 .. Len(words)
          /\ p \in Nat /\ Last(c[n - 1].blocks) = p
      BY <1>1, <1>2, <3>1, Neighbours
    <3>3. d[n].lead < d[n].from
      <4>1. d[n].lead \in Nat /\ c[n - 1].to \in Nat
        BY <1>1, <1>2, <3>2, LappedLinked, ChunkTypes
      <4> QED
        BY ONLY <2>2, <3>1, <3>2, <4>1
    <3>4. p = Last(d[n - 1].blocks)
      <4>1. CASE Bare(d, c, n - 1)
        BY <3>2, <4>1 DEF Bare
      <4>2. CASE ~Bare(d, c, n - 1)
        <5> DEFINE q == words[c[(n - 1) - 1].to].block
        <5>1. n - 1 > 1 /\ d[n - 1].blocks = <<q>> \o c[n - 1].blocks
          BY <3>2, <4>2 DEF BlockOverlaps, Joined
        <5>2. q \in Nat
          <6>1. n - 1 \in 1 .. Len(c) /\ n - 1 # 1
            BY <3>2, <5>1
          <6> QED
            BY <6>1, Neighbours
        <5>3. c[n - 1].blocks \in Seq(Nat) /\ Len(c[n - 1].blocks) # 0
          BY <3>2, ChunkBlocks DEF Names
        <5> HIDE DEF q
        <5> QED
          BY <3>2, <5>1, <5>2, <5>3, Prefixed
      <4> QED
        BY <4>1, <4>2
    <3> HIDE DEF p
    <3>5. /\ Len(br) = 1 + Len(own) /\ br[1] = p /\ Range(br) = {p} \cup Range(own)
          /\ \A m \in 1 .. Len(own) : br[m + 1] = own[m]
      <4>1. p \in Nat /\ own \in Seq(Nat) /\ br = <<p>> \o own
        BY <2>5, <3>1, <3>2
      <4> HIDE DEF br
      <4>2. /\ Len(<<p>> \o own) = 1 + Len(own) /\ (<<p>> \o own)[1] = p
            /\ Range(<<p>> \o own) = {p} \cup Range(own)
            /\ \A m \in 1 .. Len(own) : (<<p>> \o own)[m + 1] = own[m]
        BY <4>1, Prefixed
      <4> QED
        BY <4>1, <4>2
    <3>6. ASSUME NEW m \in 2 .. Len(br)
          PROVE  /\ is_boundary(blocks[br[m]]) => m = 2
                 /\ blocks[br[m]].section = blocks[br[2]].section
                 /\ ~is_atomic(blocks[br[m]])
      <4>1. m - 1 \in 1 .. Len(own) /\ (m - 1) + 1 = m /\ 1 \in 1 .. Len(own) /\ 1 + 1 = 2
        BY <2>5, <3>5
      <4>2. br[m] = own[m - 1] /\ br[2] = own[1]
        BY <3>5, <4>1
      <4>3. is_boundary(blocks[br[m]]) => m - 1 = 1
        BY <2>6, <4>1, <4>2
      <4>4. blocks[br[m]].section = blocks[br[2]].section
        BY <2>6, <4>1, <4>2
      <4>5. ~is_atomic(blocks[br[m]])
        BY <2>8, <3>1, <3>5, <4>1, <4>2
      <4>6. m - 1 = 1 => m = 2
        BY <3>6
      <4> QED
        BY <4>3, <4>4, <4>5, <4>6
    <3>7. ~is_atomic(blocks[br[1]])
      BY <3>1, <3>5
    <3> QED
      BY <3>1, <3>3, <3>4, <3>5, <3>6, <3>7 DEF br
  <2> QED
    BY <2>9, <2>10
<1> QED
  BY <1>1, <1>2 DEF Structure

(* And is there before it. *)
LEMMA PlainStructure ==
  ASSUME Text, strategy # "fixed", NEW c, Linked(c), Plain(c), Structured(c)
  PROVE  Structure(c)
<1>1. \A n \in 1 .. Len(c) : Bare(c, c, n)
  BY DEF Plain, Bare
<1>2. Lapped(c, c)
  <2>1. \A n \in 1 .. Len(c) : c[n].lead = c[n].from
    BY DEF Plain
  <2>2. \A n \in 1 .. Len(c) : 1 <= c[n].from /\ c[n].from \in Nat
    BY ChunkTypes DEF Linked
  <2> QED
    BY <1>1, <2>1, <2>2 DEF Lapped, Linked
<1>3. BlockOverlaps(c, c)
  BY <1>1 DEF BlockOverlaps
<1> QED
  BY <1>2, <1>3, StructureOf

(* _apply_block_overlap is such an overlap. *)
LEMMA BlockLapped ==
  ASSUME Text, strategy # "fixed", Linked(chunks), Plain(chunks), Structured(chunks),
         overlap \in Nat \ {0}
  PROVE  /\ Lapped(_apply_block_overlap, chunks)
         /\ BlockOverlaps(_apply_block_overlap, chunks)
<1> DEFINE b(n) == Last(chunks[n - 1].blocks)
           bare(n) == Atomic(chunks[n - 1]) \/ Atomic(chunks[n]) \/ BlockCount(b(n)) > overlap
           d == [n \in 1 .. Len(chunks) |->
                   IF n = 1 THEN chunks[1]
                   ELSE IF bare(n) THEN chunks[n]
                   ELSE [chunks[n] EXCEPT !.lead = First(b(n)),
                                          !.blocks = <<b(n)>> \o chunks[n].blocks]]
<1>1. Len(chunks) \in Nat /\ DOMAIN chunks = 1 .. Len(chunks)
  BY ChunkTypes
<1>2. _apply_block_overlap = d
  BY <1>1 DEF _apply_block_overlap
<1>3. ASSUME NEW n \in 1 .. Len(chunks), n # 1, ~bare(n)
      PROVE  /\ \E l \in Nat, ns \in Seq(Nat) :
                  /\ d[n] = [from |-> chunks[n].from, to |-> chunks[n].to, lead |-> l,
                             blocks |-> ns]
                  /\ 1 <= l /\ l <= chunks[n].from
                  /\ Joined(d, chunks, n) \/ Within(d, chunks, n)
             /\ Joined(d, chunks, n)
             /\ d[n].lead = First(words[chunks[n - 1].to].block)
             /\ ~(BlockCount(words[chunks[n - 1].to].block) > overlap)
             /\ \A x \in Range(d[n].blocks) : ~is_atomic(blocks[x])
  <2> DEFINE names == <<b(n)>> \o chunks[n].blocks
             lead == First(b(n))
  <2>1. d[n] = [chunks[n] EXCEPT !.lead = lead, !.blocks = names]
    BY <1>3
  <2>2. /\ n - 1 \in 1 .. Len(chunks)
        /\ b(n) = words[chunks[n - 1].to].block
        /\ chunks[n].blocks[1] = words[chunks[n].from].block
        /\ chunks[n - 1].to \in 1 .. Len(words) /\ chunks[n - 1].to < chunks[n].from
        /\ b(n) \in Nat /\ chunks[n].blocks \in Seq(Nat)
    BY <1>3, Neighbours
  <2>3. chunks[n].from \in Nat /\ Len(words) \in Nat
        /\ chunks[n] = [from |-> chunks[n].from, to |-> chunks[n].to, lead |-> chunks[n].lead,
                         blocks |-> chunks[n].blocks]
    BY <1>3, ChunkTypes, TextTypes
  <2>4. n - 1 < n
    BY <1>1, <1>3
  <2>5. b(n) < words[chunks[n].from].block
    BY <1>3, <2>2, <2>4, BlocksApart
  <2>6. words[chunks[n].from].block \in Nat
    BY <1>3, ChunkBlocks
  <2>7. ~Atomic(chunks[n - 1]) /\ ~Atomic(chunks[n]) /\ ~(BlockCount(b(n)) > overlap)
    BY <1>3
  <2> HIDE DEF b, bare
  <2>8. b(n) \in 1 .. Len(blocks)
    BY <2>2, TextTypes
  <2>9. lead \in 1 .. Len(words) /\ lead <= chunks[n - 1].to
    BY <2>2, <2>8, BlockPlace
  <2>10. names \in Seq(Nat) /\ Range(names) = {b(n)} \cup Range(chunks[n].blocks)
    <3> DEFINE one == <<b(n)>>
    <3>1. one \in Seq(Nat)
      BY <2>2
    <3>2. Range(one) = {b(n)}
      BY DEF Range
    <3>3. chunks[n].blocks \in Seq(Nat)
      BY <2>2
    <3> HIDE DEF one
    <3>4. one \o chunks[n].blocks \in Seq(Nat)
      BY <3>1, <3>3, ConcatProperties
    <3>5. Range(one \o chunks[n].blocks) = Range(one) \cup Range(chunks[n].blocks)
      BY <3>1, <3>3, RangeConcatenation
    <3> QED
      BY <3>2, <3>4, <3>5 DEF one
  <2> HIDE DEF lead, names, d
  <2>11. d[n] = [from |-> chunks[n].from, to |-> chunks[n].to, lead |-> lead, blocks |-> names]
    BY <2>1, <2>3
  <2>12. Joined(d, chunks, n)
    <3>1. d[n].blocks = <<words[chunks[n - 1].to].block>> \o chunks[n].blocks
      BY SMTT(40), <2>2, <2>11 DEF names
    <3>2. d[n].lead <= chunks[n - 1].to
      BY <2>9, <2>11
    <3>3. n > 1
      BY <1>1, <1>3
    <3>4. words[chunks[n - 1].to].block # words[chunks[n].from].block
      BY <2>2, <2>5, <2>6
    <3> QED
      BY <3>1, <3>2, <3>3, <3>4 DEF Joined
  <2>13. lead \in Nat /\ 1 <= lead /\ lead <= chunks[n].from
    BY <2>2, <2>3, <2>9
  <2>14. \A m \in 1 .. Len(chunks) : ~Atomic(chunks[m]) =>
           \A x \in words[chunks[m].from].block .. words[chunks[m].to].block : ~is_atomic(blocks[x])
    <3> SUFFICES ASSUME NEW m \in 1 .. Len(chunks), ~Atomic(chunks[m]),
                        NEW x \in words[chunks[m].from].block .. words[chunks[m].to].block,
                        is_atomic(blocks[x])
                 PROVE  FALSE
      OBVIOUS
    <3> DEFINE a == words[chunks[m].from].block
               z == words[chunks[m].to].block
               br == chunks[m].blocks
    <3>1. Uniform(a, z)
      BY DEF Structured
    <3>2. Names(br, chunks[m].from, chunks[m].to) /\ a \in Nat /\ z \in Nat
      BY ChunkBlocks
    <3>3. 1 \in 1 .. Len(br)
      BY <3>2 DEF Names
    <3>4. br[1] = a + 1 - 1
      BY <3>2, <3>3 DEF Names
    <3>5. ~is_atomic(blocks[br[1]])
      BY DEF Atomic
    <3> HIDE DEF a, z, br
    <3>6. a = z /\ x \in a .. z
      BY <3>1 DEF Uniform, a, z
    <3>7. x = a /\ br[1] = a
      BY <3>2, <3>4, <3>6
    <3> QED
      BY <3>5, <3>7
  <2>15. \A x \in Range(names) : ~is_atomic(blocks[x])
    <3>1. b(n) \in words[chunks[n - 1].from].block .. words[chunks[n - 1].to].block
      <4>1. /\ words[chunks[n - 1].from].block \in Nat
            /\ words[chunks[n - 1].from].block <= words[chunks[n - 1].to].block
        BY <2>2, ChunkBlocks
      <4> QED
        BY <2>2, <4>1
    <3>2. ~is_atomic(blocks[b(n)])
      BY <2>2, <2>7, <2>14, <3>1
    <3>3. Range(chunks[n].blocks) = words[chunks[n].from].block .. words[chunks[n].to].block
      BY <1>3, ChunkBlocks DEF Names
    <3>4. \A x \in Range(chunks[n].blocks) : ~is_atomic(blocks[x])
      BY <1>3, <2>7, <2>14, <3>3
    <3> QED
      BY <2>10, <3>2, <3>4
  <2>16. /\ d[n].lead = First(words[chunks[n - 1].to].block)
         /\ ~(BlockCount(words[chunks[n - 1].to].block) > overlap)
    BY <2>2, <2>7, <2>11 DEF lead
  <2> QED
    BY <2>10, <2>11, <2>12, <2>13, <2>15, <2>16
<1>4. DOMAIN d = 1 .. Len(chunks) /\ \E f : d = [n \in 1 .. Len(chunks) |-> f[n]]
  <2>1. DOMAIN d = 1 .. Len(chunks) /\ d = [n \in 1 .. Len(chunks) |-> d[n]]
    OBVIOUS
  <2> HIDE DEF d
  <2> QED
    BY <2>1
<1>5. \A n \in 1 .. Len(chunks) : n = 1 \/ bare(n) => d[n] = chunks[n]
  OBVIOUS
<1> HIDE DEF d, bare
<1>6. Lapped(d, chunks)
  BY <1>3, <1>4, <1>5, Laps
<1>7. BlockOverlaps(d, chunks)
  <2> SUFFICES ASSUME NEW n \in 1 .. Len(chunks), ~Bare(d, chunks, n)
               PROVE  /\ Joined(d, chunks, n)
                      /\ d[n].lead = First(words[chunks[n - 1].to].block)
                      /\ overlap > 0 /\ BlockCount(words[chunks[n - 1].to].block) <= overlap
                      /\ \A x \in Range(d[n].blocks) : ~is_atomic(blocks[x])
    BY DEF BlockOverlaps
  <2>1. n # 1 /\ ~bare(n)
    BY <1>5 DEF Bare, Plain
  <2> DEFINE p == words[chunks[n - 1].to].block
  <2>2. p \in 1 .. Len(blocks) /\ Len(words) \in Nat
    BY <2>1, Neighbours, TextTypes
  <2>3. /\ Joined(d, chunks, n) /\ d[n].lead = First(p) /\ ~(BlockCount(p) > overlap)
        /\ \A x \in Range(d[n].blocks) : ~is_atomic(blocks[x])
    BY <1>3, <2>1
  <2> HIDE DEF p
  <2>4. BlockCount(p) \in Nat
    <3>1. First(p) \in 1 .. Len(words) /\ Final(p) \in 1 .. Len(words)
      BY <2>2, BlockPlace
    <3>2. Count(First(p), Final(p)) \in Nat
      BY <2>2, <3>1, Counted
    <3> QED
      BY <3>2 DEF BlockCount
  <2>5. overlap > 0 /\ BlockCount(p) <= overlap
    BY <2>3, <2>4
  <2> QED
    BY <2>3, <2>5 DEF p
<1> QED
  BY <1>2, <1>6, <1>7

-----------------------------------------------------------------------------
(* Lists of ranges *)

(* The ranges s take the words a .. z in order, with none between them.  A *)
(* range may have no words.                                                *)
Tiles(s, a, z) ==
  /\ Len(s) \in Nat /\ DOMAIN s = 1 .. Len(s)
  /\ \A n \in 1 .. Len(s) :
       /\ s[n].from \in Nat /\ s[n].to \in Nat
       /\ s[n].from = IF n = 1 THEN a ELSE s[n - 1].to + 1
       /\ s[n].from <= s[n].to + 1 /\ s[n].to <= z
  /\ IF Len(s) = 0 THEN a = z + 1 ELSE s[Len(s)].to = z

(* No range tiles nothing. *)
LEMMA TilesNone ==
  ASSUME NEW z \in Nat
  PROVE  Tiles(<<>>, z + 1, z)
BY DEF Tiles

(* The first of the ranges, and the others. *)
LEMMA TilesHead ==
  ASSUME NEW R, NEW s \in Seq(R), s # <<>>, NEW a \in Nat, NEW z \in Nat, Tiles(s, a, z)
  PROVE  /\ Head(s) \in R /\ Tail(s) \in Seq(R) /\ Head(s) = s[1]
         /\ Head(s).from = a /\ Head(s).to \in Nat /\ a <= Head(s).to + 1 /\ Head(s).to <= z
         /\ Tiles(Tail(s), Head(s).to + 1, z)
         /\ \A n \in 1 .. Len(Tail(s)) : Tail(s)[n] = s[n + 1] /\ n + 1 \in 1 .. Len(s)
<1>1. Len(s) \in Nat /\ Len(s) # 0
  BY EmptySeq, LenProperties
<1>2. /\ Head(s) = s[1] /\ s[1] \in R /\ Tail(s) \in Seq(R)
      /\ Len(Tail(s)) = Len(s) - 1 /\ DOMAIN Tail(s) = 1 .. Len(s) - 1
      /\ \A n \in 1 .. Len(s) - 1 : Tail(s)[n] = s[n + 1]
  <2>1. 1 \in 1 .. Len(s)
    BY <1>1
  <2>2. s[1] \in R
    BY <2>1, ElementOfSeq
  <2>3. /\ Head(s) = s[1] /\ Tail(s) \in Seq(R) /\ Len(Tail(s)) = Len(s) - 1
        /\ \A n \in 1 .. Len(Tail(s)) : Tail(s)[n] = s[n + 1]
    BY HeadTailProperties
  <2>4. DOMAIN Tail(s) = 1 .. Len(Tail(s))
    BY <2>3, LenProperties
  <2> QED
    BY <2>2, <2>3, <2>4
<1> DEFINE t == Tail(s)
<1>3. /\ s[1].from = a /\ s[1].to \in Nat /\ a <= s[1].to + 1 /\ s[1].to <= z
  BY <1>1 DEF Tiles
<1> HIDE DEF t
<1>4. Len(t) = Len(s) - 1 /\ \A n \in 1 .. Len(s) - 1 : t[n] = s[n + 1]
  BY <1>2 DEF t
<1>5. ASSUME NEW n \in 1 .. Len(t)
      PROVE  /\ t[n].from \in Nat /\ t[n].to \in Nat
             /\ t[n].from = IF n = 1 THEN s[1].to + 1 ELSE t[n - 1].to + 1
             /\ t[n].from <= t[n].to + 1 /\ t[n].to <= z
  <2>1. t[n] = s[n + 1] /\ n + 1 \in 1 .. Len(s) /\ n + 1 # 1 /\ n + 1 - 1 = n
    BY <1>1, <1>4, <1>5
  <2>2. n # 1 => t[n - 1] = s[n]
    <3> SUFFICES ASSUME n # 1
                 PROVE  t[n - 1] = s[n]
      OBVIOUS
    <3>1. n - 1 \in 1 .. Len(s) - 1 /\ (n - 1) + 1 = n
      BY <1>1, <1>4, <1>5
    <3>2. t[n - 1] = s[(n - 1) + 1]
      BY <1>4, <3>1
    <3> QED
      BY <3>1, <3>2
  <2>3. /\ s[n + 1].from \in Nat /\ s[n + 1].to \in Nat
        /\ s[n + 1].from = s[n].to + 1
        /\ s[n + 1].from <= s[n + 1].to + 1 /\ s[n + 1].to <= z
    BY <2>1 DEF Tiles
  <2> QED
    BY <2>1, <2>2, <2>3
<1>6. IF Len(t) = 0 THEN s[1].to + 1 = z + 1 ELSE t[Len(t)].to = z
  <2>1. s[Len(s)].to = z
    BY <1>1 DEF Tiles
  <2>2. ASSUME Len(t) = 0
        PROVE  s[1].to + 1 = z + 1
    <3>1. Len(s) = 1
      BY <1>1, <1>4, <2>2
    <3> QED
      BY <2>1, <3>1
  <2>3. ASSUME Len(t) # 0
        PROVE  t[Len(t)].to = z
    <3>1. Len(t) \in 1 .. Len(s) - 1 /\ Len(t) + 1 = Len(s)
      BY <1>1, <1>4, <2>3
    <3>2. t[Len(t)] = s[Len(t) + 1]
      BY <1>4, <3>1
    <3> QED
      BY <2>1, <2>3, <3>1, <3>2
  <2> QED
    BY <2>2, <2>3
<1>7. Len(t) \in Nat /\ DOMAIN t = 1 .. Len(t)
  BY <1>1, <1>2 DEF t
<1>8. Tiles(t, s[1].to + 1, z)
  BY <1>5, <1>6, <1>7 DEF Tiles
<1>9. \A n \in 1 .. Len(t) : t[n] = s[n + 1] /\ n + 1 \in 1 .. Len(s)
  BY <1>1, <1>4
<1> QED
  BY <1>2, <1>3, <1>8, <1>9 DEF t

(* Ranges behind ranges. *)
LEMMA TilesConcat ==
  ASSUME NEW R, NEW s \in Seq(R), NEW r \in Seq(R), NEW a \in Nat, NEW m \in Nat, NEW z \in Nat,
         Tiles(s, a, m), Tiles(r, m + 1, z)
  PROVE  s \o r \in Seq(R) /\ Tiles(s \o r, a, z)
<1> DEFINE c == s \o r
<1>1. /\ Len(s) \in Nat /\ Len(r) \in Nat
      /\ c \in Seq(R) /\ Len(c) = Len(s) + Len(r) /\ DOMAIN c = 1 .. Len(c)
      /\ \A n \in 1 .. Len(s) + Len(r) : c[n] = IF n <= Len(s) THEN s[n] ELSE r[n - Len(s)]
  <2>1. /\ Len(s) \in Nat /\ Len(r) \in Nat
    BY LenProperties
  <2>2. /\ c \in Seq(R) /\ Len(c) = Len(s) + Len(r)
        /\ \A n \in 1 .. Len(s) + Len(r) : c[n] = IF n <= Len(s) THEN s[n] ELSE r[n - Len(s)]
    BY ConcatProperties
  <2>3. DOMAIN c = 1 .. Len(c)
    BY <2>2, LenProperties
  <2> QED
    BY <2>1, <2>2, <2>3
<1> HIDE DEF c
<1>2. m <= z
  <2>1. CASE Len(r) = 0
    BY <2>1 DEF Tiles
  <2>2. CASE Len(r) # 0
    <3>1. 1 \in 1 .. Len(r)
      BY <1>1, <2>2
    <3>2. r[1].to \in Nat /\ m + 1 <= r[1].to + 1 /\ r[1].to <= z
      BY <3>1 DEF Tiles
    <3> QED
      BY <3>2
  <2> QED
    BY <2>1, <2>2
<1>3. ASSUME NEW n \in 1 .. Len(c)
      PROVE  /\ c[n].from \in Nat /\ c[n].to \in Nat
             /\ c[n].from = IF n = 1 THEN a ELSE c[n - 1].to + 1
             /\ c[n].from <= c[n].to + 1 /\ c[n].to <= z
  <2>1. CASE n <= Len(s)
    <3>1. n \in 1 .. Len(s) /\ c[n] = s[n]
      BY <1>1, <1>3, <2>1
    <3>2. n # 1 => c[n - 1] = s[n - 1]
      <4> SUFFICES ASSUME n # 1
                   PROVE  c[n - 1] = s[n - 1]
        OBVIOUS
      <4>1. n - 1 \in 1 .. Len(s) + Len(r) /\ n - 1 <= Len(s)
        BY <1>1, <1>3, <2>1
      <4> QED
        BY <1>1, <4>1
    <3>3. /\ s[n].from \in Nat /\ s[n].to \in Nat
          /\ s[n].from = (IF n = 1 THEN a ELSE s[n - 1].to + 1)
          /\ s[n].from <= s[n].to + 1 /\ s[n].to <= m
      BY <3>1 DEF Tiles
    <3>4. s[n].to <= z
      BY <1>2, <3>3
    <3> QED
      BY <3>1, <3>2, <3>3, <3>4
  <2>2. CASE n = Len(s) + 1
    <3>1. 1 \in 1 .. Len(r) /\ c[n] = r[1] /\ n - 1 = Len(s)
      <4>1. n - Len(s) = 1 /\ ~(n <= Len(s)) /\ n \in 1 .. Len(s) + Len(r)
        BY <1>1, <1>3, <2>2
      <4> QED
        BY <1>1, <4>1
    <3>2. /\ r[1].from = m + 1 /\ r[1].from \in Nat /\ r[1].to \in Nat
          /\ r[1].from <= r[1].to + 1 /\ r[1].to <= z
      BY <3>1 DEF Tiles
    <3>3. CASE Len(s) = 0
      <4>1. a = m + 1 /\ n = 1
        BY <2>2, <3>3 DEF Tiles
      <4> QED
        BY <3>1, <3>2, <4>1
    <3>4. CASE Len(s) # 0
      <4>1. n # 1 /\ Len(s) \in 1 .. Len(s) + Len(r) /\ Len(s) <= Len(s)
        BY <1>1, <2>2, <3>4
      <4>2. c[n - 1] = s[Len(s)]
        BY <1>1, <3>1, <4>1
      <4>3. s[Len(s)].to = m
        BY <3>4 DEF Tiles
      <4> QED
        BY <3>1, <3>2, <4>1, <4>2, <4>3
    <3> QED
      BY <3>3, <3>4
  <2>3. CASE n > Len(s) + 1
    <3> DEFINE k == n - Len(s)
    <3>1. /\ k \in 1 .. Len(r) /\ k # 1 /\ n # 1 /\ ~(n <= Len(s)) /\ ~(n - 1 <= Len(s))
          /\ n \in 1 .. Len(s) + Len(r) /\ n - 1 \in 1 .. Len(s) + Len(r)
          /\ (n - 1) - Len(s) = k - 1
      BY <1>1, <1>3, <2>3
    <3>2. c[n] = r[k] /\ c[n - 1] = r[k - 1]
      BY <1>1, <3>1
    <3> HIDE DEF k
    <3>3. /\ r[k].from \in Nat /\ r[k].to \in Nat /\ r[k].from = r[k - 1].to + 1
          /\ r[k].from <= r[k].to + 1 /\ r[k].to <= z
      BY <3>1 DEF Tiles
    <3> QED
      BY <3>1, <3>2, <3>3
  <2>4. n <= Len(s) \/ n = Len(s) + 1 \/ n > Len(s) + 1
    <3>1. n \in Int /\ Len(s) \in Int
      BY <1>1, <1>3
    <3> QED
      BY ONLY <3>1
  <2> QED
    BY <2>1, <2>2, <2>3, <2>4
<1>4. IF Len(c) = 0 THEN a = z + 1 ELSE c[Len(c)].to = z
  <2>1. CASE Len(r) = 0
    <3>1. m = z
      BY <2>1 DEF Tiles
    <3>2. CASE Len(s) = 0
      BY <1>1, <2>1, <3>1, <3>2 DEF Tiles
    <3>3. CASE Len(s) # 0
      <4>1. Len(c) = Len(s) /\ Len(s) \in 1 .. Len(s) + Len(r) /\ Len(s) <= Len(s)
        BY <1>1, <2>1, <3>3
      <4>2. c[Len(c)] = s[Len(s)]
        BY <1>1, <4>1
      <4>3. s[Len(s)].to = m
        BY <3>3 DEF Tiles
      <4> QED
        BY <3>1, <3>3, <4>1, <4>2, <4>3
    <3> QED
      BY <3>2, <3>3
  <2>2. CASE Len(r) # 0
    <3>1. /\ Len(c) \in 1 .. Len(s) + Len(r) /\ ~(Len(c) <= Len(s)) /\ Len(c) - Len(s) = Len(r)
          /\ Len(c) # 0
      BY <1>1, <2>2
    <3>2. c[Len(c)] = r[Len(r)]
      BY <1>1, <3>1
    <3>3. r[Len(r)].to = z
      BY <2>2 DEF Tiles
    <3> QED
      BY <3>1, <3>2, <3>3
  <2> QED
    BY <2>1, <2>2
<1>5. Len(c) \in Nat
  BY <1>1
<1>6. Tiles(c, a, z)
  BY <1>1, <1>3, <1>4, <1>5 DEF Tiles
<1> QED
  BY <1>1, <1>6 DEF c

(* One range more. *)
LEMMA TilesAppend ==
  ASSUME NEW R, NEW s \in Seq(R), NEW a \in Nat, NEW m \in Nat, Tiles(s, a, m),
         NEW p \in R, p.from = m + 1, p.to \in Nat, m <= p.to
  PROVE  Append(s, p) \in Seq(R) /\ Tiles(Append(s, p), a, p.to)
<1> DEFINE one == <<p>>
<1>1. one \in Seq(R) /\ Len(one) = 1 /\ DOMAIN one = 1 .. 1 /\ one[1] = p
  OBVIOUS
<1> HIDE DEF one
<1>2. Tiles(one, m + 1, p.to)
  <2>1. \A n \in 1 .. Len(one) : n = 1
    BY <1>1
  <2> QED
    BY <1>1, <2>1 DEF Tiles
<1>3. s \o one \in Seq(R) /\ Tiles(s \o one, a, p.to)
  BY <1>1, <1>2, TilesConcat
<1>4. Append(s, p) = s \o one
  BY AppendIsConcat DEF one
<1> QED
  BY <1>3, <1>4

(* Ranges that are apart, the first at a, and each of which another follows *)
(* or is the last, in order.                                               *)
LEMMA TilesInOrder ==
  ASSUME NEW S, IsFiniteSet(S), NEW a \in Nat, NEW z \in Nat,
         \A p \in S : /\ p.from \in Nat /\ p.to \in Nat
                      /\ a <= p.from /\ p.from <= p.to + 1 /\ p.to <= z,
         \A p, q \in S : p.from = q.from /\ p.to = q.to => p = q,
         \A p, q \in S : p = q \/ p.to < q.from \/ q.to < p.from,
         \E p \in S : p.from = a,
         \A p \in S : p.to < z => \E q \in S : q # p /\ q.from = p.to + 1,
         NEW below, below \in [S -> SUBSET S],
         \A x, y \in S : y \in below[x] <=> y # x /\ y.to < x.from
  PROVE  /\ Ranked(S, below) \in Seq(S) /\ Tiles(Ranked(S, below), a, z)
         /\ Len(Ranked(S, below)) = Cardinality(S)
         /\ Len(Ranked(S, below)) # 0
<1> DEFINE s == Ranked(S, below)
           N == Len(s)
<1>1. TotalOrder(S, below)
  <2>1. \A x \in S : x \notin below[x]
    OBVIOUS
  <2>2. \A x, y \in S : y \in below[x] => below[y] \subseteq below[x]
    <3> SUFFICES ASSUME NEW x \in S, NEW y \in S, y \in below[x], NEW v \in below[y]
                 PROVE  v \in below[x]
      OBVIOUS
    <3>1. v \in S
      OBVIOUS
    <3>2. v # y /\ v.to < y.from /\ y # x /\ y.to < x.from
      BY <3>1
    <3>3. /\ v.to \in Nat /\ y.from \in Nat /\ y.to \in Nat /\ x.from \in Nat /\ x.to \in Nat
          /\ v.from \in Nat /\ v.from <= v.to + 1
          /\ y.from <= y.to + 1 /\ x.from <= x.to + 1
      BY <3>1
    <3>4. v.to < x.from
      BY ONLY <3>2, <3>3
    <3>5. v # x
      <4> SUFFICES ASSUME v = x
                   PROVE  FALSE
        OBVIOUS
      <4>1. x.to < y.from
        BY <3>2
      <4>2. x.from = y.from /\ x.to = y.to
        BY ONLY <3>2, <3>3, <4>1
      <4> QED
        BY <3>2, <4>2
    <3> QED
      BY <3>1, <3>4, <3>5
  <2>3. \A x, y \in S : x = y \/ x \in below[y] \/ y \in below[x]
    OBVIOUS
  <2> QED
    BY <2>1, <2>2, <2>3 DEF TotalOrder
<1>2. /\ s \in Seq(S) /\ N = Cardinality(S) /\ N \in Nat /\ DOMAIN s = 1 .. N
      /\ \A x \in S : \E n \in 1 .. N : s[n] = x
      /\ \A m, n \in 1 .. N : m < n => s[m] \in below[s[n]]
      /\ \A n \in 1 .. N : s[n] \in S
  <2>1. /\ s \in Seq(S) /\ N = Cardinality(S) /\ N \in Nat /\ DOMAIN s = 1 .. N
        /\ \A x \in S : \E n \in 1 .. N : s[n] = x
        /\ \A m, n \in 1 .. N : m < n => s[m] \in below[s[n]]
    BY <1>1, RankedInOrder
  <2> HIDE DEF s
  <2>2. \A n \in 1 .. N : s[n] \in S
    BY <2>1, ElementOfSeq
  <2> QED
    BY <2>1, <2>2
<1> HIDE DEF s, N
<1>3. \A m, n \in 1 .. N : m < n => s[m] # s[n] /\ s[m].to < s[n].from
  BY <1>2
<1>4. \A n \in 1 .. N : /\ s[n].from \in Nat /\ s[n].to \in Nat
                        /\ a <= s[n].from /\ s[n].from <= s[n].to + 1 /\ s[n].to <= z
  BY <1>2
<1>5. N \in 1 .. N /\ 1 \in 1 .. N
  <2>1. PICK p \in S : p.from = a
    OBVIOUS
  <2>2. PICK n \in 1 .. N : s[n] = p
    BY <1>2, <2>1
  <2> QED
    BY <1>2, <2>2
<1>6. s[1].from = a
  <2>1. PICK p \in S : p.from = a
    OBVIOUS
  <2>2. PICK n \in 1 .. N : s[n] = p
    BY <1>2, <2>1
  <2>3. CASE n = 1
    BY <2>1, <2>2, <2>3
  <2>4. CASE n # 1
    <3>1. 1 < n
      BY <1>2, <2>4
    <3>2. s[1].to < s[n].from
      BY <1>3, <1>5, <3>1
    <3>3. /\ s[1].from \in Nat /\ s[1].to \in Nat /\ a <= s[1].from
          /\ s[1].from <= s[1].to + 1 /\ s[n].from = a
      BY <1>4, <1>5, <2>1, <2>2
    <3> QED
      BY ONLY <3>2, <3>3, a \in Nat
  <2> QED
    BY <2>3, <2>4
<1>7. s[N].to = z
  <2> SUFFICES ASSUME s[N].to < z
               PROVE  FALSE
    BY <1>4, <1>5
  <2>1. \E q \in S : q # s[N] /\ q.from = s[N].to + 1
    BY <1>2, <1>5
  <2>2. PICK q \in S : q # s[N] /\ q.from = s[N].to + 1
    BY <2>1
  <2>3. PICK k \in 1 .. N : s[k] = q
    BY <1>2, <2>2
  <2>4. k < N
    BY <1>2, <2>2, <2>3
  <2>5. s[k].to < s[N].from
    BY <1>3, <1>5, <2>4
  <2>6. /\ s[k].from = s[N].to + 1
        /\ s[k].from \in Nat /\ s[k].to \in Nat /\ s[N].to \in Nat /\ s[N].from \in Nat
        /\ s[k].from <= s[k].to + 1 /\ s[N].from <= s[N].to + 1
    BY <1>4, <1>5, <2>2, <2>3
  <2>7. s[N].from = s[k].from /\ s[N].to = s[k].to
    BY ONLY <2>5, <2>6
  <2> QED
    BY <1>2, <1>5, <2>2, <2>3, <2>7
<1>8. ASSUME NEW n \in 1 .. N, n # 1
      PROVE  s[n].from = s[n - 1].to + 1
  <2>1. n - 1 \in 1 .. N /\ n - 1 < n
    BY <1>2, <1>8
  <2>2. s[n - 1].to < s[n].from /\ s[n - 1] # s[n]
    BY <1>3, <2>1
  <2>3. /\ s[n].from \in Nat /\ s[n].to \in Nat /\ s[n].from <= s[n].to + 1 /\ s[n].to <= z
        /\ s[n - 1].from \in Nat /\ s[n - 1].to \in Nat /\ s[n - 1].to <= z
    BY <1>4, <2>1
  <2>4. CASE ~(s[n - 1].to < z)
    BY ONLY <2>2, <2>3, <2>4, z \in Nat
  <2>5. CASE s[n - 1].to < z
    <3>1. \E q \in S : q # s[n - 1] /\ q.from = s[n - 1].to + 1
      BY <1>2, <2>1, <2>5
    <3>2. PICK q \in S : q # s[n - 1] /\ q.from = s[n - 1].to + 1
      BY <3>1
    <3>3. PICK k \in 1 .. N : s[k] = q
      BY <1>2, <3>2
    <3>4. /\ s[k].from \in Nat /\ s[k].to \in Nat /\ s[k].from <= s[k].to + 1
          /\ s[k].from = s[n - 1].to + 1
      BY <1>4, <3>2, <3>3
    <3>5. CASE k = n
      BY <3>2, <3>3, <3>5
    <3>6. CASE k > n
      <4>1. s[n].to < s[k].from
        BY <1>3, <3>6
      <4> QED
        BY ONLY <2>2, <2>3, <3>4, <4>1
    <3>7. CASE k < n - 1
      <4>1. s[k].to < s[n - 1].from
        BY <1>3, <2>1, <3>7
      <4>2. s[n - 1].from <= s[n - 1].to + 1
        BY <1>4, <2>1
      <4>3. s[k].from = s[n - 1].from /\ s[k].to = s[n - 1].to
        BY ONLY <2>3, <3>4, <4>1, <4>2
      <4> QED
        BY <1>2, <2>1, <3>2, <3>3, <4>3
    <3>8. k = n \/ k > n \/ k < n - 1
      <4>1. k # n - 1
        BY <3>2, <3>3
      <4>2. k \in Int /\ n \in Int
        BY <1>2
      <4> QED
        BY ONLY <4>1, <4>2
    <3> QED
      BY <3>5, <3>6, <3>7, <3>8
  <2> QED
    BY <2>4, <2>5
<1>9. Tiles(s, a, z)
  <2>1. \A n \in 1 .. N : s[n].from = IF n = 1 THEN a ELSE s[n - 1].to + 1
    BY <1>6, <1>8
  <2>2. N # 0
    BY <1>2, <1>5
  <2> QED
    BY <1>2, <1>4, <1>7, <2>1, <2>2 DEF Tiles, N
<1> QED
  BY <1>2, <1>5, <1>9 DEF s, N

(* The image of a finite set. *)
LEMMA FiniteImage ==
  ASSUME NEW T, IsFiniteSet(T), NEW f
  PROVE  IsFiniteSet({f[x] : x \in T})
<1> DEFINE S == {f[x] : x \in T}
           g == [x \in T |-> f[x]]
<1>1. g \in Surjection(T, S)
  BY DEF Surjection
<1> QED
  BY <1>1, FS_Surjection

-----------------------------------------------------------------------------
(* recursive: the parts of a range *)

Ranges == [from : Nat, to : Nat, level : 1 .. 7]

(* Splitting at newlines, blank lines have been split at already.          *)
Fresh(r) == r.level = 2 => \A w \in r.from .. r.to : w # r.to => words[w].gap # 1

(* A range is split into ranges that tile it. *)
LEMMA PartsTile ==
  ASSUME Text, NEW r \in Ranges, r.from \in 1 .. Len(words), r.to \in 1 .. Len(words),
         r.from <= r.to, r.level \in Separators, Fresh(r)
  PROVE  /\ Parts(r) \in Seq(Ranges) /\ Tiles(Parts(r), r.from, r.to)
         /\ \A n \in 1 .. Len(Parts(r)) : Fresh(Parts(r)[n])
<1> DEFINE a == r.from
           z == r.to
           l == r.level + 1
           cuts == {w \in a .. z : Separates(w, r.level)}
           starts == {a} \cup {w + 1 : w \in cuts \ {z}}
           ends(s) == Min({w \in cuts : w >= s} \cup {z})
           blank == IF r.level = 2 THEN {w \in a .. z : words[w].gap = 1} ELSE {}
           part(f, t) == [from |-> f, to |-> t, level |-> l]
           S1 == {part(s, ends(s)) : s \in starts}
           S2 == {part(w + 1, w) : w \in blank}
           S == S1 \cup S2
           below == [x \in S |-> {y \in S : y.from < x.from \/ (y.from = x.from /\ y.to < x.to)}]
<1>1. Parts(r) = Ranked(S, below)
  BY DEF Parts, InOrder
<1>2. /\ a \in Nat /\ z \in Nat /\ a <= z /\ l \in 1 .. 7 /\ 1 <= a
      /\ cuts \in SUBSET (a .. z)
  <2>1. Len(words) \in Nat
    BY TextTypes
  <2>2. r.level \in 1 .. 6
    BY DEF Separators
  <2> QED
    BY <2>1, <2>2
<1>3. blank \subseteq {z}
  <2> SUFFICES ASSUME NEW w \in blank, w # z
               PROVE  FALSE
    OBVIOUS
  <2>1. r.level = 2 /\ w \in a .. z /\ words[w].gap = 1
    OBVIOUS
  <2> QED
    BY <2>1 DEF Fresh
<1> HIDE DEF cuts, blank
<1>4. \A s \in starts : s \in a .. z
  BY <1>2
<1>5. ASSUME NEW s \in starts
      PROVE  /\ ends(s) \in Nat /\ s <= ends(s) /\ ends(s) <= z
             /\ ends(s) = z \/ (ends(s) \in cuts /\ ends(s) # z)
             /\ \A w \in cuts : s <= w => ends(s) <= w
  <2> DEFINE E == {w \in cuts : w >= s} \cup {z}
  <2>1. s \in Nat /\ s <= z
    BY <1>2, <1>4
  <2>2. E \in SUBSET Nat /\ z \in E /\ E # {}
    <3>1. a .. z \subseteq Nat
      BY <1>2
    <3>2. cuts \subseteq Nat /\ z \in Nat
      BY <1>2, <3>1
    <3> QED
      BY ONLY <3>2
  <2>3. Min(E) \in E /\ \A m \in E : Min(E) <= m
    BY ONLY <2>2, LeastIn
  <2>4. Min(E) \in Nat /\ Min(E) <= z
    BY <2>2, <2>3
  <2>5. s <= Min(E) /\ (Min(E) = z \/ Min(E) \in cuts)
    BY <2>1, <2>3
  <2>6. \A w \in cuts : s <= w => Min(E) <= w
    <3> SUFFICES ASSUME NEW w \in cuts, s <= w
                 PROVE  Min(E) <= w
      OBVIOUS
    <3>1. w \in Nat
      BY <1>2
    <3>2. w \in E
      BY <2>1, <3>1
    <3> QED
      BY <2>3, <3>2
  <2> QED
    BY <2>4, <2>5, <2>6
<1> HIDE DEF ends
<1>6. \A s \in starts : s = a \/ \E w \in cuts : w # z /\ s = w + 1
  OBVIOUS
<1>7. a \in starts /\ \A w \in cuts : w # z => w + 1 \in starts
  OBVIOUS
<1>8. IsFiniteSet(S)
  <2>1. IsFiniteSet(starts)
    <3>1. IsFiniteSet(a .. z)
      <4>1. \A x, y \in Int : IsFiniteSet(x .. y)
        BY FS_Interval
      <4>2. a \in Int /\ z \in Int
        BY <1>2
      <4> QED
        BY ONLY <4>1, <4>2
    <3> QED
      BY <1>4, <3>1, FS_Subset
  <2> HIDE DEF starts
  <2>2. IsFiniteSet(S1)
    <3> DEFINE f == [s \in starts |-> part(s, ends(s))]
    <3>1. S1 = {f[s] : s \in starts}
      OBVIOUS
    <3> HIDE DEF f, S1
    <3> QED
      BY <2>1, <3>1, FiniteImage
  <2>3. IsFiniteSet(S2)
    <3>1. S2 \subseteq {part(z + 1, z)}
      BY <1>3
    <3>2. IsFiniteSet({part(z + 1, z)})
      BY FS_Singleton
    <3> QED
      BY <3>1, <3>2, FS_Subset
  <2> QED
    BY <2>2, <2>3, FS_Union
<1> HIDE DEF starts
<1>9. \A p \in S : \/ \E s \in starts : p = part(s, ends(s))
                   \/ p = part(z + 1, z)
  BY <1>3
<1>10. \A s \in starts : part(s, ends(s)) \in S
  OBVIOUS
<1> HIDE DEF S, S1, S2
<1>11. ASSUME NEW p \in S
       PROVE  /\ p \in Ranges /\ p.from \in Nat /\ p.to \in Nat /\ p.level = l
              /\ a <= p.from /\ p.from <= p.to + 1 /\ p.to <= z
              /\ p = part(p.from, p.to)
  <2>1. CASE \E s \in starts : p = part(s, ends(s))
    <3>1. PICK s \in starts : p = part(s, ends(s))
      BY <2>1
    <3>2. /\ s \in Nat /\ a <= s /\ ends(s) \in Nat /\ s <= ends(s) /\ ends(s) <= z
          /\ l \in 1 .. 7
      BY <1>2, <1>4, <1>5
    <3>3. p.from = s /\ p.to = ends(s) /\ p.level = l
      BY <3>1
    <3>4. p \in Ranges
      BY <3>1, <3>2 DEF Ranges
    <3> QED
      BY <3>1, <3>2, <3>3, <3>4
  <2>2. CASE p = part(z + 1, z)
    <3>1. z + 1 \in Nat /\ a <= z + 1
      BY <1>2
    <3>2. p \in Ranges
      BY <1>2, <2>2, <3>1 DEF Ranges
    <3> QED
      BY <1>2, <2>2, <3>1, <3>2
  <2> QED
    BY <1>9, <2>1, <2>2
<1>12. \A p, q \in S : p.from = q.from /\ p.to = q.to => p = q
  BY <1>11
<1>13. ASSUME NEW s \in starts, NEW t \in starts, s < t
       PROVE  ends(s) < t
  <2>1. s \in Nat /\ t \in Nat /\ a <= s
    BY <1>2, <1>4
  <2>2. PICK w \in cuts : w # z /\ t = w + 1
    <3>1. t # a
      BY <1>2, <1>13, <2>1
    <3>2. \E w \in cuts : w # z /\ t = w + 1
      BY <1>6, <3>1
    <3> QED
      BY <3>2
  <2>3. w \in Nat
    BY <1>2
  <2>4. s <= w
    BY <1>13, <2>1, <2>2, <2>3
  <2>5. ends(s) <= w /\ ends(s) \in Nat
    BY <1>5, <2>4
  <2> QED
    BY <2>2, <2>3, <2>5
<1>14. ASSUME NEW p \in S, NEW q \in S
       PROVE  p = q \/ p.to < q.from \/ q.to < p.from
  <2>1. ASSUME NEW s \in starts, p = part(s, ends(s)), NEW t \in starts, q = part(t, ends(t))
        PROVE  p = q \/ p.to < q.from \/ q.to < p.from
    <3>1. s = t \/ s < t \/ t < s
      <4>1. s \in Nat /\ t \in Nat
        BY <1>2, <1>4
      <4> QED
        BY ONLY <4>1
    <3>2. CASE s = t
      BY <2>1, <3>2
    <3>3. CASE s < t
      BY <1>13, <2>1, <3>3
    <3>4. CASE t < s
      BY <1>13, <2>1, <3>4
    <3> QED
      BY <3>1, <3>2, <3>3, <3>4
  <2>2. ASSUME p = part(z + 1, z)
        PROVE  p = q \/ p.to < q.from \/ q.to < p.from
    <3>1. q.to \in Nat /\ q.to <= z
      BY <1>11
    <3>2. p.from = z + 1
      BY <2>2
    <3> QED
      BY <1>2, <3>1, <3>2
  <2>3. ASSUME q = part(z + 1, z)
        PROVE  p = q \/ p.to < q.from \/ q.to < p.from
    <3>1. p.to \in Nat /\ p.to <= z
      BY <1>11
    <3>2. q.from = z + 1
      BY <2>3
    <3> QED
      BY <1>2, <3>1, <3>2
  <2> QED
    BY <1>9, <2>1, <2>2, <2>3
<1>15. \E p \in S : p.from = a
  <2>1. part(a, ends(a)) \in S /\ part(a, ends(a)).from = a
    BY <1>7, <1>10
  <2> QED
    BY <2>1
<1>16. ASSUME NEW p \in S, p.to < z
       PROVE  \E q \in S : q # p /\ q.from = p.to + 1
  <2>1. PICK s \in starts : p = part(s, ends(s))
    <3>1. p # part(z + 1, z)
      BY <1>2, <1>16
    <3>2. \E s \in starts : p = part(s, ends(s))
      BY <1>9, <3>1
    <3> QED
      BY <3>2
  <2>2. p.from = s /\ p.to = ends(s) /\ s \in Nat /\ ends(s) \in Nat /\ s <= ends(s)
    BY <1>2, <1>4, <1>5, <2>1
  <2>3. ends(s) # z
    BY <1>2, <1>16, <2>2
  <2>4. ends(s) \in cuts
    BY <1>5, <2>3
  <2> DEFINE t == ends(s) + 1
  <2>5. t \in starts
    BY <1>7, <2>3, <2>4
  <2>6. part(t, ends(t)) \in S /\ part(t, ends(t)).from = t
    BY <1>10, <2>5
  <2>7. part(t, ends(t)) # p
    BY <2>2, <2>6
  <2> QED
    BY <2>2, <2>6, <2>7
<1>17. below \in [S -> SUBSET S]
  OBVIOUS
<1>18. ASSUME NEW x \in S, NEW y \in S
       PROVE  y \in below[x] <=> y # x /\ y.to < x.from
  <2>1. y \in below[x] <=> y.from < x.from \/ (y.from = x.from /\ y.to < x.to)
    OBVIOUS
  <2>2. /\ y.from \in Nat /\ y.to \in Nat /\ x.from \in Nat /\ x.to \in Nat
        /\ x.from <= x.to + 1 /\ y.from <= y.to + 1
    BY <1>11
  <2>3. x = y => x.from = y.from /\ x.to = y.to
    OBVIOUS
  <2>4. x # y => ~(x.from = y.from /\ x.to = y.to)
    BY <1>12
  <2>5. x = y \/ y.to < x.from \/ x.to < y.from
    BY <1>14
  <2>6. CASE x = y
    BY <2>1, <2>2, <2>6
  <2>7. CASE x # y
    <3>1. (y.from < x.from \/ (y.from = x.from /\ y.to < x.to)) <=> y.to < x.from
      BY ONLY <2>2, <2>4, <2>5, <2>7
    <3> QED
      BY <2>1, <2>7, <3>1
  <2> QED
    BY <2>6, <2>7
<1> HIDE DEF below
<1>19. /\ Ranked(S, below) \in Seq(S) /\ Tiles(Ranked(S, below), a, z)
  BY <1>2, <1>8, <1>11, <1>12, <1>14, <1>15, <1>16, <1>17, <1>18, TilesInOrder
<1>20. ASSUME NEW p \in S
       PROVE  Fresh(p)
  <2> SUFFICES ASSUME p.level = 2, NEW w \in p.from .. p.to, w # p.to, words[w].gap = 1
               PROVE  FALSE
    BY DEF Fresh
  <2>1. r.level = 1
    <3>1. p.level = l /\ r.level \in Nat
      BY <1>11 DEF Ranges
    <3> QED
      BY <3>1
  <2>2. p # part(z + 1, z)
    BY <1>2
  <2>3. \E s \in starts : p = part(s, ends(s))
    BY <1>9, <2>2
  <2>4. PICK s \in starts : p = part(s, ends(s))
    BY <2>3
  <2>5. p.from = s /\ p.to = ends(s) /\ s \in a .. z /\ ends(s) \in Nat /\ ends(s) <= z
    BY <1>4, <1>5, <2>4
  <2>6. w \in a .. z /\ s <= w /\ w < ends(s)
    BY <1>2, <2>5
  <2>7. w \in cuts
    BY <2>1, <2>6 DEF cuts, Separates
  <2>8. ends(s) <= w
    BY <1>5, <2>6, <2>7
  <2> QED
    BY <2>5, <2>6, <2>8
<1>21. Ranked(S, below) \in Seq(Ranges)
  BY <1>11, <1>19, SeqDef
<1>22. \A n \in 1 .. Len(Ranked(S, below)) : Fresh(Ranked(S, below)[n])
  BY <1>19, <1>20, ElementOfSeq
<1> QED
  BY <1>1, <1>19, <1>21, <1>22

-----------------------------------------------------------------------------
(* semantic: the sentences of a text *)

Spans == [from : Nat, to : Nat]

(* The sentences tile the text, and none is empty. *)
LEMMA SentencesTile ==
  ASSUME Text, words # <<>>
  PROVE  /\ Sentences \in Seq(Spans) /\ Tiles(Sentences, 1, Len(words))
         /\ Len(Sentences) \in 1 .. Len(words)
         /\ \A n \in 1 .. Len(Sentences) : Sentences[n].from <= Sentences[n].to
<1> DEFINE z == Len(words)
           ends == {w \in DOMAIN words : words[w].stop} \cup {z}
           before(e) == {0} \cup {s \in ends : s < e}
           sentence(e) == [from |-> Max(before(e)) + 1, to |-> e]
           S == {sentence(e) : e \in ends}
           below == [x \in S |-> {y \in S : y.from < x.from}]
           T == Ranked(S, below)
<1>1. Sentences = T
  BY DEF Sentences, InOrder
<1>2. z \in Nat /\ 1 <= z /\ ends \in SUBSET (1 .. z) /\ z \in ends
  <2>1. Len(words) \in Nat /\ DOMAIN words = 1 .. Len(words)
    BY TextTypes
  <2>2. words \in Seq(Word)
    BY DEF Text, TextOf
  <2>3. Len(words) # 0
    BY <2>2, EmptySeq
  <2> QED
    BY <2>1, <2>3
<1> HIDE DEF z, ends
<1>3. ASSUME NEW e \in ends
      PROVE  /\ Max(before(e)) \in 0 .. z /\ Max(before(e)) < e
             /\ Max(before(e)) \in before(e)
             /\ \A s \in ends : s < e => s <= Max(before(e))
  <2>1. before(e) \in SUBSET (0 .. z) /\ before(e) # {}
    <3>1. 1 .. z \subseteq 0 .. z /\ 0 \in 0 .. z
      BY <1>2
    <3> QED
      BY ONLY <1>2, <3>1
  <2>2. Max(before(e)) \in before(e) /\ \A m \in before(e) : m <= Max(before(e))
    BY <1>2, <2>1, GreatestIn
  <2>3. Max(before(e)) \in 0 .. z
    BY <2>1, <2>2
  <2>4. \A m \in before(e) : m < e
    BY <1>2
  <2> QED
    BY <2>2, <2>3, <2>4
<1> HIDE DEF before
<1>4. \A e \in ends : /\ sentence(e) \in S /\ sentence(e).from = Max(before(e)) + 1
                      /\ sentence(e).to = e
  OBVIOUS
<1>5. ASSUME NEW p \in S
      PROVE  /\ p.to \in ends /\ p = sentence(p.to)
             /\ p.from = Max(before(p.to)) + 1
             /\ p.from \in Nat /\ p.to \in Nat
             /\ 1 <= p.from /\ p.from <= p.to /\ p.to <= z
             /\ p \in Spans
  <2>1. PICK e \in ends : p = sentence(e)
    OBVIOUS
  <2>2. p.to = e /\ p.from = Max(before(e)) + 1
    BY <2>1
  <2>3. e \in Nat /\ 1 <= e /\ e <= z
    BY <1>2
  <2>4. Max(before(e)) \in Nat /\ Max(before(e)) < e
    BY <1>2, <1>3
  <2>5. Max(before(e)) + 1 \in Nat /\ Max(before(e)) + 1 <= e /\ 1 <= Max(before(e)) + 1
    BY ONLY <2>3, <2>4
  <2>6. p \in Spans
    BY <2>1, <2>3, <2>5 DEF Spans
  <2> QED
    BY <2>1, <2>2, <2>3, <2>5, <2>6
<1>6. IsFiniteSet(S)
  <2>1. IsFiniteSet(ends)
    <3>1. IsFiniteSet(1 .. z)
      BY <1>2, FS_Interval
    <3> QED
      BY <1>2, <3>1, FS_Subset
  <2> DEFINE f == [e \in ends |-> sentence(e)]
  <2>2. S = {f[e] : e \in ends}
    OBVIOUS
  <2> HIDE DEF f, S
  <2> QED
    BY <2>1, <2>2, FiniteImage
<1> HIDE DEF S, sentence
<1>7. \A p, q \in S : p.from = q.from /\ p.to = q.to => p = q
  BY <1>5
<1>8. ASSUME NEW p \in S, NEW q \in S, p.to < q.to
      PROVE  p.to < q.from
  <2>1. p.to \in ends /\ q.to \in ends /\ q.from = Max(before(q.to)) + 1
    BY <1>5
  <2>2. p.to <= Max(before(q.to)) /\ Max(before(q.to)) \in Nat
    <3>1. p.to <= Max(before(q.to)) /\ Max(before(q.to)) \in 0 .. z
      BY <1>3, <1>8, <2>1
    <3> QED
      BY <1>2, <3>1
  <2>3. p.to \in Nat
    BY <1>5
  <2> QED
    BY <2>1, <2>2, <2>3
<1>9. ASSUME NEW p \in S, NEW q \in S
      PROVE  p = q \/ p.to < q.from \/ q.to < p.from
  <2>1. p.to = q.to => p = q
    BY <1>5
  <2>2. p.to = q.to \/ p.to < q.to \/ q.to < p.to
    <3>1. p.to \in Nat /\ q.to \in Nat
      BY <1>5
    <3> QED
      BY ONLY <3>1
  <2> QED
    BY <1>8, <2>1, <2>2
<1>10. \E p \in S : p.from = 1
  <2>1. ends \in SUBSET Nat /\ ends # {}
    BY <1>2
  <2>2. \E e \in ends : \A m \in ends : e <= m
    BY ONLY <2>1, LeastNatural
  <2>3. PICK e \in ends : \A m \in ends : e <= m
    BY <2>2
  <2>4. before(e) = {0}
    <3>1. \A s \in ends : ~(s < e)
      <4> SUFFICES ASSUME NEW s \in ends
                   PROVE  ~(s < e)
        OBVIOUS
      <4>1. s \in Nat /\ e \in Nat /\ e <= s
        BY <2>1, <2>3
      <4> QED
        BY ONLY <4>1
    <3> QED
      BY <3>1 DEF before
  <2>5. Max(before(e)) = 0
    BY <1>3, <2>4
  <2> QED
    BY <1>4, <2>5
<1>11. ASSUME NEW p \in S, p.to < z
       PROVE  \E q \in S : q # p /\ q.from = p.to + 1
  <2> DEFINE later == {s \in ends : p.to < s}
  <2>1. later \in SUBSET Nat /\ z \in later
    <3>1. 1 .. z \subseteq Nat
      BY <1>2
    <3>2. later \subseteq 1 .. z
      BY <1>2
    <3>3. z \in later
      BY <1>2, <1>11
    <3> QED
      BY ONLY <3>1, <3>2, <3>3
  <2>2. \E e \in later : \A m \in later : e <= m
    BY ONLY <2>1, LeastNatural
  <2>3. PICK e \in later : \A m \in later : e <= m
    BY <2>2
  <2>4. e \in ends /\ p.to < e /\ p.to \in ends /\ p.to \in Nat /\ e \in Nat
    BY <1>5, <2>1
  <2> DEFINE m == Max(before(e))
  <2>5. m \in Nat /\ m < e /\ m \in before(e) /\ p.to <= m
    BY <1>2, <1>3, <2>4
  <2>6. m = p.to
    <3>1. m # p.to => m \in ends
      <4>1. m = 0 \/ m \in ends
        BY <2>5 DEF before
      <4>2. m = 0 => p.to = 0
        BY <2>4, <2>5
      <4> QED
        BY <4>1, <4>2
    <3>2. m # p.to => m \in later
      BY <2>4, <2>5, <3>1
    <3>3. m # p.to => e <= m
      BY <2>3, <3>2
    <3> HIDE DEF m
    <3> QED
      BY <2>4, <2>5, <3>3
  <2>7. sentence(e) \in S /\ sentence(e).from = p.to + 1 /\ sentence(e).to = e
    BY <1>4, <2>4, <2>6
  <2> QED
    BY <2>4, <2>7
<1>12. below \in [S -> SUBSET S]
  OBVIOUS
<1>13. ASSUME NEW x \in S, NEW y \in S
       PROVE  y \in below[x] <=> y # x /\ y.to < x.from
  <2>1. y \in below[x] <=> y.from < x.from
    OBVIOUS
  <2>2. /\ y.from \in Nat /\ y.to \in Nat /\ x.from \in Nat /\ x.to \in Nat
        /\ y.from <= y.to /\ x.from <= x.to
    BY <1>5
  <2>3. x = y \/ y.to < x.from \/ x.to < y.from
    BY <1>9
  <2>4. CASE x = y
    BY <2>1, <2>2, <2>4
  <2>5. CASE x # y
    <3>1. y.from < x.from <=> y.to < x.from
      BY ONLY <2>2, <2>3, <2>5
    <3> QED
      BY <2>1, <2>5, <3>1
  <2> QED
    BY <2>4, <2>5
<1>14. \A p \in S : /\ p.from \in Nat /\ p.to \in Nat
                    /\ 1 <= p.from /\ p.from <= p.to + 1 /\ p.to <= z
  <2> SUFFICES ASSUME NEW p \in S
               PROVE  /\ p.from \in Nat /\ p.to \in Nat
                      /\ 1 <= p.from /\ p.from <= p.to + 1 /\ p.to <= z
    OBVIOUS
  <2>1. p.from \in Nat /\ p.to \in Nat /\ 1 <= p.from /\ p.from <= p.to /\ p.to <= z
    BY <1>5
  <2>2. p.from <= p.to + 1
    BY ONLY <2>1
  <2> QED
    BY <2>1, <2>2
<1> HIDE DEF below
<1>15. T \in Seq(S) /\ Tiles(T, 1, z) /\ Len(T) # 0
  <2>1. 1 \in Nat
    OBVIOUS
  <2> QED
    BY <1>2, <1>6, <1>7, <1>9, <1>10, <1>11, <1>12, <1>13, <1>14, <2>1, TilesInOrder
<1> HIDE DEF T
<1>16. \A n \in 1 .. Len(T) : T[n] \in S
  BY <1>15, ElementOfSeq
<1>17. \A n \in 1 .. Len(T) : T[n].from <= T[n].to
  BY <1>5, <1>16
<1>18. T \in Seq(Spans)
  BY <1>5, <1>15, SeqDef
<1>19. Len(T) \in Nat
  BY <1>15 DEF Tiles
<1>20. \A n \in 1 .. Len(T) : n <= T[n].to
  <2> SUFFICES ASSUME {n \in 1 .. Len(T) : ~(n <= T[n].to)} # {}
               PROVE  FALSE
    OBVIOUS
  <2> DEFINE B == {n \in 1 .. Len(T) : ~(n <= T[n].to)}
  <2>1. B \in SUBSET Nat /\ B # {}
    BY <1>19
  <2>2. \E n \in B : \A m \in B : n <= m
    BY ONLY <2>1, LeastNatural
  <2>3. PICK n \in B : \A m \in B : n <= m
    BY <2>2
  <2>4. /\ n \in 1 .. Len(T) /\ n \in Nat /\ ~(n <= T[n].to)
        /\ T[n].from \in Nat /\ T[n].to \in Nat /\ 1 <= T[n].from /\ T[n].from <= T[n].to
        /\ T[n].from = IF n = 1 THEN 1 ELSE T[n - 1].to + 1
    BY <1>5, <1>15, <1>16 DEF Tiles
  <2>5. CASE n = 1
    BY ONLY <2>4, <2>5
  <2>6. CASE n # 1
    <3>1. n - 1 \in 1 .. Len(T) /\ ~(n <= n - 1)
      BY <1>19, <2>4, <2>6
    <3>2. n - 1 <= T[n - 1].to
      BY <2>3, <3>1
    <3>3. T[n - 1].to \in Nat
      BY <1>5, <1>16, <3>1
    <3> QED
      BY ONLY <2>4, <2>6, <3>2, <3>3
  <2> QED
    BY <2>5, <2>6
<1>21. Len(T) \in 1 .. z
  <2>1. Len(T) \in 1 .. Len(T)
    BY <1>15, <1>19
  <2>2. Len(T) <= T[Len(T)].to /\ T[Len(T)].to <= z /\ T[Len(T)].to \in Nat
    BY <1>5, <1>16, <1>20, <2>1
  <2> QED
    BY <1>2, <1>15, <1>19, <2>2
<1> QED
  BY <1>1, <1>15, <1>17, <1>18, <1>21 DEF z

-----------------------------------------------------------------------------
(* The inductive invariant of the chunkers *)

Fit(c) ==
  strategy = "fixed" =>
    \A n \in 1 .. Len(c) : c[n].from < c[n].to => Count(c[n].from, c[n].to) <= target

(* Chunks before their overlaps, and chunks as they should be. *)
Draft(c) == Linked(c) /\ Plain(c) /\ Fit(c) /\ (strategy = "layout" => Structured(c))
Leads(c) == \A n \in 1 .. Len(c) : 1 <= c[n].lead /\ c[n].lead <= c[n].from
Good(c) ==
  Linked(c) /\ Named(c) /\ Leads(c) /\ Fit(c) /\ (strategy = "layout" => Structure(c))

(* The next chunk may begin at word f; the last word is in a chunk.        *)
Open(f) == LinkAt(chunks, Len(chunks) + 1, f)
Ended(c) == c # <<>> /\ Len(c) \in Nat \ {0} /\ c[Len(c)].to = Len(words)

Arguments ==
  /\ strategy \in Strategies /\ target \in Targets /\ overlap \in OverlapsOf(strategy)
  /\ Text

Counters == i \in 0 .. Len(words) + 1 /\ j \in 1 .. Len(words) + 1 /\ tokens \in Nat

Windows ==
  pc \in {"grow", "verify", "emit"} =>
    /\ strategy = "fixed" /\ i \in 1 .. Len(words) /\ Open(i)
    /\ pc # "grow" => j \in i + 1 .. Len(words) + 1
    /\ pc = "emit" /\ i < j - 1 => Count(i, j - 1) <= target

Splitting ==
  pc = "split" =>
    /\ strategy = "recursive" /\ words # <<>> /\ chunks = <<>> /\ i = 0 /\ j = 1
    /\ todo \in Seq(Ranges) /\ pieces \in Seq(Ranges)
    /\ \A n \in 1 .. Len(todo) : Fresh(todo[n])
    /\ \E m \in 0 .. Len(words) : Tiles(pieces, 1, m) /\ Tiles(todo, m + 1, Len(words))

Packing ==
  pc = "pack" =>
    /\ strategy = "recursive" /\ words # <<>>
    /\ pieces \in Seq(Ranges) /\ Tiles(pieces, j, Len(words))
    /\ IF i = 0 THEN j = 1 /\ chunks = <<>> ELSE i \in 1 .. j /\ Open(i)

Buffering ==
  pc = "pack blocks" =>
    /\ strategy = "layout" /\ words # <<>> /\ j \in 1 .. Len(blocks) + 1
    /\ IF i = 0 THEN Open(FirstWord(j))
       ELSE /\ i \in 1 .. j - 1 /\ Open(FirstWord(i)) /\ Uniform(i, j - 1)
            /\ \A b \in i .. j - 1 : ~is_atomic(blocks[b])

Lapping ==
  pc = "overlap" => strategy \in {"recursive", "layout"} /\ overlap # 0 /\ Ended(chunks)

Embedding ==
  pc = "embed" =>
    strategy = "semantic" /\ words # <<>> /\ chunks = <<>> /\ i = 1 /\ j = 1

Cutting ==
  pc = "cut" =>
    /\ strategy = "semantic" /\ words # <<>>
    /\ pieces \in Seq(Spans) /\ Tiles(pieces, 1, Len(words)) /\ Len(pieces) <= Len(words)
    /\ \A n \in 1 .. Len(pieces) : pieces[n].from <= pieces[n].to
    /\ Len(sims) = Len(pieces) - 1
    /\ j \in 1 .. Len(pieces) /\ i \in 1 .. j
    /\ pieces[i].from <= pieces[j].from /\ Open(pieces[i].from)

Waiting ==
  pc = "waiting" => chunks = <<>> /\ pieces = <<>> /\ sims = <<>> /\ j = 1 /\ tokens = 0

CInv ==
  /\ pc \in {"grow", "verify", "emit", "split", "pack", "pack blocks", "overlap",
             "embed", "cut", "done", "error", "waiting", "failed"}
  /\ Arguments /\ Counters
  /\ Good(chunks)
  /\ pc # "done" => Draft(chunks)
  /\ pc = "done" /\ words # <<>> => Ended(chunks)
  /\ Windows /\ Splitting /\ Packing /\ Buffering /\ Lapping /\ Embedding /\ Cutting /\ Waiting

(* No step of a chunker changes what it was given. *)
LEMMA Frozen ==
  ASSUME UNCHANGED input
  PROVE  /\ strategy' = strategy /\ words' = words /\ blocks' = blocks
         /\ target' = target /\ overlap' = overlap
         /\ Text' = Text
         /\ \A c, n, f : LinkAt(c, n, f)' = LinkAt(c, n, f)
         /\ \A f, t : Count(f, t)' = Count(f, t)
         /\ \A b : FirstWord(b)' = FirstWord(b)
         /\ \A a, z : Uniform(a, z)' = Uniform(a, z)
         /\ \A r : Fresh(r)' = Fresh(r)
         /\ \A c : Draft(c)' = Draft(c) /\ Good(c)' = Good(c) /\ Ended(c)' = Ended(c)
<1>1. /\ strategy' = strategy /\ words' = words /\ blocks' = blocks
      /\ target' = target /\ overlap' = overlap
  BY DEF input
<1>2. Text' = Text
  BY <1>1 DEF Text
<1>3. \A c, n, f : LinkAt(c, n, f)' = LinkAt(c, n, f)
  BY <1>1 DEF LinkAt
<1>4. \A f, t : Count(f, t)' = Count(f, t)
  BY <1>1 DEF Count
<1>5. \A b : First(b)' = First(b) /\ Final(b)' = Final(b)
  BY <1>1 DEF First, Final
<1>6. \A b : FirstWord(b)' = FirstWord(b)
  BY <1>1, <1>5 DEF FirstWord
<1>7. \A a, z : Uniform(a, z)' = Uniform(a, z)
  BY <1>1 DEF Uniform
<1>8. \A r : Fresh(r)' = Fresh(r)
  BY <1>1 DEF Fresh
<1>9. \A f, t : _blocks_in_range(f, t)' = _blocks_in_range(f, t)
  BY <1>1 DEF _blocks_in_range
<1>10. \A f, t : Touched(f, t)' = Touched(f, t)
  BY <1>1 DEF Touched
<1>11. \A c : Linked(c)' = Linked(c)
  BY <1>1, <1>3 DEF Linked
<1>12. \A c : Plain(c)' = Plain(c)
  BY <1>9 DEF Plain
<1>13. \A c : Named(c)' = Named(c)
  BY <1>1, <1>10 DEF Named
<1>14. \A c : Fit(c)' = Fit(c)
  BY <1>1, <1>4 DEF Fit
<1>15. \A c : Leads(c)' = Leads(c)
  BY DEF Leads
<1>16. \A c : Structured(c)' = Structured(c)
  BY <1>1, <1>5, <1>7 DEF Structured
<1>17. \A c : Structure(c)' = Structure(c)
  BY <1>1 DEF Structure, BlockCount, Count, First, Final, is_atomic, is_boundary
<1>18. \A c : Draft(c)' = Draft(c)
  BY <1>1, <1>11, <1>12, <1>14, <1>16 DEF Draft
<1>19. \A c : Good(c)' = Good(c)
  BY <1>1, <1>11, <1>13, <1>14, <1>15, <1>17 DEF Good
<1>20. \A c : Ended(c)' = Ended(c)
  BY <1>1 DEF Ended
<1> QED
  BY <1>1, <1>2, <1>3, <1>4, <1>6, <1>7, <1>8, <1>18, <1>19, <1>20

(* No chunks are chunks before their overlaps. *)
LEMMA NoneDraft == Draft(<<>>) /\ Len(<<>>) = 0
<1>1. <<>> \in Seq(Chunk) /\ Len(<<>>) = 0
  OBVIOUS
<1> QED
  BY <1>1 DEF Draft, Linked, Plain, Fit, Structured

(* Chunks before their overlaps are as they should be. *)
LEMMA DraftGood ==
  ASSUME Text, NEW c, Draft(c)
  PROVE  Good(c)
<1>1. Linked(c) /\ Plain(c) /\ Fit(c) /\ (strategy = "layout" => Structured(c))
  BY DEF Draft
<1>2. Named(c)
  BY <1>1, PlainNamed
<1>3. Leads(c)
  <2> SUFFICES ASSUME NEW n \in 1 .. Len(c)
               PROVE  1 <= c[n].lead /\ c[n].lead <= c[n].from
    BY DEF Leads
  <2>1. c[n].from \in 1 .. Len(words) /\ c[n].lead = c[n].from
    BY <1>1, ChunkTypes DEF Plain
  <2>2. Len(words) \in Nat
    BY TextTypes
  <2> QED
    BY <2>1, <2>2
<1>4. strategy = "layout" => Structure(c)
  BY <1>1, PlainStructure
<1> QED
  BY <1>1, <1>2, <1>3, <1>4 DEF Good

(* One chunk more. *)
AddedTo(c, f, t) ==
  Append(c, [from |-> f, to |-> t, lead |-> f, blocks |-> _blocks_in_range(f, t)])

(* Words f .. t are whole blocks that make a chunk. *)
WholeBlocks(f, t) ==
  f = First(words[f].block) /\ t = Final(words[t].block) /\ Uniform(words[f].block, words[t].block)

(* A chunk that fits may be put behind the others. *)
LEMMA AddDraft ==
  ASSUME Text, NEW c, Draft(c), NEW f \in 1 .. Len(words), NEW t \in 1 .. Len(words), f <= t,
         LinkAt(c, Len(c) + 1, f),
         strategy = "fixed" /\ f < t => Count(f, t) <= target,
         strategy = "layout" => WholeBlocks(f, t)
  PROVE  /\ Draft(AddedTo(c, f, t))
         /\ Len(AddedTo(c, f, t)) = Len(c) + 1 /\ Len(c) \in Nat
         /\ AddedTo(c, f, t)[Len(c) + 1].to = t /\ AddedTo(c, f, t)[Len(c) + 1].from = f
         /\ AddedTo(c, f, t) # <<>>
<1> DEFINE x == [from |-> f, to |-> t, lead |-> f, blocks |-> _blocks_in_range(f, t)]
           d == AddedTo(c, f, t)
<1>1. d = Append(c, x)
  BY DEF AddedTo
<1>2. Linked(c) /\ Plain(c) /\ Fit(c) /\ (strategy = "layout" => Structured(c))
  BY DEF Draft
<1>3. /\ Linked(d) /\ Plain(d) /\ Len(d) = Len(c) + 1 /\ Len(c) \in Nat
      /\ d[Len(c) + 1] = x
      /\ \A n \in 1 .. Len(c) : d[n] = c[n]
  BY <1>1, <1>2, Added
<1>4. x.from = f /\ x.to = t
  OBVIOUS
<1> HIDE DEF x, d
<1>5. \A n \in 1 .. Len(d) : n \in 1 .. Len(c) \/ n = Len(c) + 1
  BY <1>3
<1>6. Fit(d)
  BY <1>2, <1>3, <1>4, <1>5 DEF Fit
<1>7. ASSUME strategy = "layout"
      PROVE  Structured(d)
  <2> SUFFICES ASSUME NEW n \in 1 .. Len(d)
               PROVE  /\ d[n].from = First(words[d[n].from].block)
                      /\ d[n].to = Final(words[d[n].to].block)
                      /\ Uniform(words[d[n].from].block, words[d[n].to].block)
    BY DEF Structured
  <2>1. CASE n \in 1 .. Len(c)
    BY <1>2, <1>3, <1>7, <2>1 DEF Structured
  <2>2. CASE n = Len(c) + 1
    BY <1>3, <1>4, <1>7, <2>2 DEF WholeBlocks
  <2> QED
    BY <1>5, <2>1, <2>2
<1>8. Draft(d)
  BY <1>3, <1>6, <1>7 DEF Draft
<1>9. d # <<>>
  BY <1>3
<1> QED
  BY <1>3, <1>4, <1>8, <1>9 DEF d

(* The buffered blocks, when there are any, are flushed to a chunk. *)
LEMMA Flushing ==
  ASSUME Text, Draft(chunks), strategy = "layout",
         NEW a \in Nat, NEW z \in Nat, a \in 1 .. Len(blocks), z \in 1 .. Len(blocks), a <= z,
         Uniform(a, z), NEW c, Draft(c), LinkAt(c, Len(c) + 1, First(a))
  PROVE  /\ First(a) \in 1 .. Len(words) /\ Final(z) \in 1 .. Len(words) /\ First(a) <= Final(z)
         /\ Draft(AddedTo(c, First(a), Final(z)))
         /\ LinkAt(AddedTo(c, First(a), Final(z)), Len(AddedTo(c, First(a), Final(z))) + 1,
                   FirstWord(z + 1))
         /\ AddedTo(c, First(a), Final(z)) # <<>>
         /\ Len(AddedTo(c, First(a), Final(z))) \in Nat \ {0}
<1> DEFINE f == First(a)
           t == Final(z)
           d == AddedTo(c, f, t)
<1>1. /\ f \in 1 .. Len(words) /\ words[f].block = a
      /\ \A w \in 1 .. Len(words) : words[w].block = a => f <= w
  BY BlockPlace
<1>2. /\ t \in 1 .. Len(words) /\ words[t].block = z
      /\ \A w \in 1 .. Len(words) : words[w].block = z => w <= t
  BY BlockPlace
<1> HIDE DEF f, t
<1>3. f <= t
  <2> SUFFICES ASSUME t < f
               PROVE  FALSE
    BY <1>1, <1>2, TextTypes
  <2>1. t <= f
    BY <1>1, <1>2, TextTypes
  <2>2. words[t].block <= words[f].block
    BY <1>1, <1>2, <2>1, TextTypes
  <2>3. a = z
    BY <1>1, <1>2, <2>2
  <2>4. f <= t
    BY <1>1, <1>2, <2>3
  <2> QED
    BY <1>1, <1>2, <2>4, TextTypes
<1>4. WholeBlocks(f, t)
  BY <1>1, <1>2 DEF WholeBlocks, f, t
<1>5. LinkAt(c, Len(c) + 1, f)
  BY DEF f
<1>6. /\ Draft(d) /\ Len(d) = Len(c) + 1 /\ Len(c) \in Nat /\ d[Len(c) + 1].to = t /\ d # <<>>
  BY <1>1, <1>2, <1>3, <1>4, <1>5, AddDraft
<1> HIDE DEF d
<1>7. FirstWord(z + 1) = t + 1
  BY BlocksAdjoin DEF t
<1>8. LinkAt(d, Len(d) + 1, FirstWord(z + 1))
  <2>1. Len(d) + 1 # 1 /\ Len(d) + 1 - 1 = Len(c) + 1
    BY <1>6
  <2> QED
    BY <1>6, <1>7, <2>1 DEF LinkAt
<1>9. Len(d) \in Nat \ {0}
  BY <1>6
<1> QED
  BY <1>1, <1>2, <1>3, <1>6, <1>8, <1>9 DEF d, f, t

-----------------------------------------------------------------------------
(* The steps of fixed *)

(* The estimate of no words is nothing. *)
LEMMA NothingCosts ==
  ASSUME NEW f, NEW t, f .. t = {}
  PROVE  Estimate(f, t) = 0
<1> DEFINE pick(s) == CHOOSE x \in s : TRUE
           rest(g, s) == Cost(pick(s)) + g[s \ {pick(s)}]
           iter == CHOOSE g : g = [s \in SUBSET {} |-> IF s = {} THEN 0 ELSE rest(g, s)]
<1>1. Estimate(f, t) = iter[{}]
  BY DEF Estimate, MapThenSumSet, MapThenFoldSet
<1> HIDE DEF rest
<1>2. \E g : g = [s \in SUBSET {} |-> IF s = {} THEN 0 ELSE rest(g, s)]
  <2> DEFINE h == [s \in SUBSET {} |-> 0]
  <2>1. h = [s \in SUBSET {} |-> IF s = {} THEN 0 ELSE rest(h, s)]
    OBVIOUS
  <2> QED
    BY <2>1
<1>3. iter = [s \in SUBSET {} |-> IF s = {} THEN 0 ELSE rest(iter, s)]
  BY <1>2
<1> HIDE DEF iter
<1>4. iter[{}] = 0
  BY <1>3
<1> QED
  BY <1>1, <1>4

(* A step that does not end the chunker is left with these to show. *)
LEMMA CInvKept ==
  ASSUME Arguments, UNCHANGED input,
         pc' \in {"grow", "verify", "emit", "split", "pack", "pack blocks", "overlap",
                  "embed", "cut", "error", "waiting", "failed"},
         Counters', Draft(chunks'),
         Windows', Splitting', Packing', Buffering', Lapping', Embedding', Cutting', Waiting'
  PROVE  CInv'
<1>1. Draft(chunks)'
  BY Frozen
<1>2. Arguments'
  BY Frozen DEF Arguments, OverlapsOf
<1>3. Good(chunks)'
  <2>1. Good(chunks')
    BY DraftGood DEF Arguments
  <2> QED
    BY <2>1, Frozen
<1> QED
  BY <1>1, <1>2, <1>3 DEF CInv

LEMMA FitEstimateKeeps ==
  ASSUME CInv, FitEstimate
  PROVE  CInv'
<1>1. /\ Arguments /\ Counters /\ Draft(chunks) /\ pc = "grow"
      /\ strategy = "fixed" /\ i \in 1 .. Len(words) /\ Open(i)
  BY DEF CInv, FitEstimate, Windows
<1>2. UNCHANGED <<input, i, tokens, todo, pieces, sims, chunks>>
  BY DEF FitEstimate
<1>3. Len(words) \in Nat
  BY <1>1, TextTypes DEF Arguments
<1> DEFINE fits == {m \in i .. Len(words) : Estimate(i, m) <= target}
<1>4. \/ j' = i + 1 /\ pc' = "emit"
      \/ fits # {} /\ j' = Max(fits) + 1 /\ pc' = "verify"
  BY DEF FitEstimate
<1>5. j' \in i + 1 .. Len(words) + 1
  <2>1. CASE j' = i + 1
    BY <1>1, <1>3, <2>1
  <2>2. CASE fits # {} /\ j' = Max(fits) + 1
    <3>1. fits \in SUBSET (0 .. Len(words))
      BY <1>1, <1>3
    <3>2. Max(fits) \in fits
      BY <1>3, <2>2, <3>1, GreatestIn
    <3>3. Max(fits) \in i .. Len(words)
      BY <3>2
    <3> HIDE DEF fits
    <3> QED
      BY <1>1, <1>3, <2>2, <3>3
  <2> QED
    BY <1>4, <2>1, <2>2
<1>6. pc' \in {"verify", "emit"} /\ (pc' = "emit" => j' = i + 1)
  BY <1>4
<1>7. words' = words /\ strategy' = strategy /\ Open(i)' = Open(i)
  BY <1>2, Frozen DEF Open
<1>8. Windows'
  <2>1. pc' = "emit" => ~(i < j' - 1)
    BY <1>1, <1>6
  <2> QED
    BY <1>1, <1>2, <1>5, <1>7, <2>1 DEF Windows
<1>9. Counters'
  <2>1. j' \in 1 .. Len(words) + 1
    BY <1>1, <1>3, <1>5
  <2> QED
    BY <1>1, <1>2, <1>7, <2>1 DEF Counters
<1>10. Draft(chunks')
  BY <1>1, <1>2
<1> QED
  BY <1>1, <1>2, <1>6, <1>8, <1>9, <1>10, CInvKept
  DEF Splitting, Packing, Buffering, Lapping, Embedding, Cutting, Waiting

LEMMA FitVerifiedKeeps ==
  ASSUME CInv, FitVerified
  PROVE  CInv'
<1>1. /\ Arguments /\ Counters /\ Draft(chunks) /\ pc = "verify"
      /\ strategy = "fixed" /\ i \in 1 .. Len(words) /\ Open(i)
      /\ j \in i + 1 .. Len(words) + 1
  BY DEF CInv, FitVerified, Windows
<1>2. UNCHANGED <<input, i, tokens, todo, pieces, sims, chunks>>
  BY DEF FitVerified
<1>3. Len(words) \in Nat /\ Text
  BY <1>1, TextTypes DEF Arguments
<1> DEFINE actual == Count(i, j - 1)
           span == j - i
           x == (span * target) \div actual
           scaled == Max({1, x})
<1>4. \/ (span = 1 \/ actual <= target) /\ pc' = "emit" /\ j' = j
      \/ /\ ~(span = 1 \/ actual <= target)
         /\ j' = i + (IF scaled < span THEN scaled ELSE span - 1) /\ pc' = pc
  BY DEF FitVerified
<1>5. i \in Nat /\ j \in Nat /\ span \in Nat \ {0} /\ j - 1 \in 1 .. Len(words) /\ i <= j - 1
  BY <1>1, <1>3
<1>6. actual \in Nat
  BY <1>1, <1>3, <1>5, Counted
<1>7. target \in Nat
  BY <1>1, ChunkingAssumption DEF Arguments
<1> HIDE DEF actual
<1>8. j' \in i + 1 .. Len(words) + 1
  <2>1. CASE j' = j
    BY <1>1, <2>1
  <2>2. CASE /\ ~(span = 1 \/ actual <= target)
             /\ j' = i + (IF scaled < span THEN scaled ELSE span - 1)
    <3>1. x \in Int
      <4>1. actual \in Nat \ {0}
        BY <1>6, <1>7, <2>2
      <4>2. span * target \in Int
        BY <1>5, <1>7
      <4> HIDE DEF span
      <4> QED
        BY <4>1, <4>2
    <3> HIDE DEF x
    <3>2. \E y \in {1, x} : \A z \in {1, x} : y >= z
      <4>1. CASE x <= 1
        BY <3>1, <4>1
      <4>2. CASE ~(x <= 1)
        BY <3>1, <4>2
      <4> QED
        BY <4>1, <4>2
    <3>3. scaled \in {1, x} /\ \A z \in {1, x} : scaled >= z
      BY <3>2 DEF Max
    <3> HIDE DEF scaled
    <3>4. scaled \in Int /\ scaled >= 1
      BY <3>1, <3>3
    <3>5. span >= 2
      BY <1>5, <2>2
    <3>6. j = i + span
      BY <1>5
    <3> HIDE DEF span
    <3>7. j' >= i + 1 /\ j' <= j /\ j' \in Int
      <4>1. CASE scaled < span
        BY <1>5, <2>2, <3>4, <3>6, <4>1
      <4>2. CASE ~(scaled < span)
        BY <1>5, <2>2, <3>4, <3>5, <3>6, <4>2
      <4> QED
        BY <4>1, <4>2
    <3> QED
      BY <1>1, <1>3, <1>5, <3>7
  <2> QED
    BY <1>4, <2>1, <2>2
<1>9. pc' = "emit" /\ i < j' - 1 => Count(i, j' - 1) <= target
  <2> SUFFICES ASSUME pc' = "emit", i < j' - 1
               PROVE  Count(i, j' - 1) <= target
    OBVIOUS
  <2>1. j' = j /\ (span = 1 \/ actual <= target)
    BY <1>1, <1>4
  <2>2. span # 1
    BY <1>5, <2>1
  <2> QED
    BY <2>1, <2>2 DEF actual
<1>10. /\ words' = words /\ strategy' = strategy /\ target' = target /\ Open(i)' = Open(i)
       /\ \A f, t : Count(f, t)' = Count(f, t)
  BY <1>2, Frozen DEF Open
<1>11. pc' \in {"verify", "emit"}
  BY <1>1, <1>4
<1>12. Windows'
  <2>1. i' = i
    BY <1>2
  <2>2. Count(i, j - 1)' = Count(i, j' - 1)
    BY <1>10, <2>1
  <2> QED
    BY <1>1, <1>8, <1>9, <1>10, <2>1, <2>2 DEF Windows
<1>13. Counters'
  <2>1. j' \in 1 .. Len(words) + 1
    BY <1>1, <1>3, <1>8
  <2> QED
    BY <1>1, <1>2, <1>10, <2>1 DEF Counters
<1>14. Draft(chunks')
  BY <1>1, <1>2
<1> QED
  BY <1>1, <1>2, <1>11, <1>12, <1>13, <1>14, CInvKept
  DEF Splitting, Packing, Buffering, Lapping, Embedding, Cutting, Waiting

(* And one that does, with these. *)
LEMMA Finished ==
  ASSUME Arguments, UNCHANGED input, pc' = "done", Counters', Good(chunks'),
         words # <<>> => Ended(chunks')
  PROVE  CInv'
<1>1. Good(chunks)' /\ (words # <<>> => Ended(chunks)') /\ words' = words
  BY Frozen
<1>2. Arguments'
  BY Frozen DEF Arguments, OverlapsOf
<1> QED
  BY <1>1, <1>2
  DEF CInv, Windows, Splitting, Packing, Buffering, Lapping, Embedding, Cutting, Waiting

(* _assemble of words that there are puts a chunk behind the others. *)
LEMMA Assembled ==
  ASSUME NEW f, NEW t, ~(f > t)
  PROVE  _assemble(f, t) = AddedTo(chunks, f, t)
BY DEF _assemble, AddedTo

LEMMA EmitWindowKeeps ==
  ASSUME CInv, EmitWindow
  PROVE  CInv'
<1>1. /\ Arguments /\ Counters /\ Draft(chunks) /\ pc = "emit"
      /\ strategy = "fixed" /\ i \in 1 .. Len(words) /\ Open(i)
      /\ j \in i + 1 .. Len(words) + 1
      /\ i < j - 1 => Count(i, j - 1) <= target
  BY DEF CInv, EmitWindow, Windows
<1>2. UNCHANGED <<input, j, tokens, todo, pieces, sims>>
  BY DEF EmitWindow
<1>3. Len(words) \in Nat /\ Text
  BY <1>1, TextTypes DEF Arguments
<1>4. i \in Nat /\ j \in Nat /\ j - 1 \in 1 .. Len(words) /\ i <= j - 1 /\ ~(i > j - 1)
  BY <1>1, <1>3
<1> DEFINE c == AddedTo(chunks, i, j - 1)
<1>5. chunks' = c
  BY <1>4, Assembled DEF EmitWindow
<1>6. /\ Draft(c) /\ Len(c) = Len(chunks) + 1 /\ Len(chunks) \in Nat
      /\ c[Len(chunks) + 1].to = j - 1 /\ c[Len(chunks) + 1].from = i
      /\ c # <<>>
  BY <1>1, <1>3, <1>4, AddDraft DEF Open
<1> HIDE DEF c
<1>7. CASE j > Len(words)
  <2>1. pc' = "done" /\ i' = i
    BY <1>7 DEF EmitWindow
  <2>2. j - 1 = Len(words)
    BY <1>1, <1>3, <1>7
  <2>3. Ended(c)
    BY <1>6, <2>2 DEF Ended
  <2>4. Good(c)
    BY <1>3, <1>6, DraftGood
  <2>5. Counters'
    BY <1>1, <1>2, <2>1, Frozen DEF Counters
  <2> QED
    BY <1>1, <1>2, <1>5, <2>1, <2>3, <2>4, <2>5, Finished
<1>8. CASE ~(j > Len(words))
  <2> DEFINE back == {m \in i + 1 .. j : Estimate(m, j - 1) <= overlap}
  <2>1. pc' = "grow" /\ i' = Min(back)
    BY <1>8 DEF EmitWindow
  <2>2. overlap \in Nat
    BY <1>1, ChunkingAssumption DEF Arguments, OverlapsOf
  <2>3. j \in back
    <3>1. j .. (j - 1) = {}
      BY <1>4
    <3>2. Estimate(j, j - 1) = 0
      BY <3>1, NothingCosts
    <3>3. j \in i + 1 .. j
      BY <1>1, <1>4
    <3> QED
      BY <2>2, <3>2, <3>3
  <2>4. back \in SUBSET Nat
    <3>1. i + 1 .. j \subseteq Nat
      BY <1>4
    <3> QED
      BY <3>1
  <2>5. Min(back) \in back
    BY <2>3, <2>4, LeastIn
  <2>6. i' \in i + 1 .. j
    BY <2>1, <2>5
  <2> HIDE DEF back
  <2>7. i' \in 1 .. Len(words)
    BY <1>3, <1>4, <1>8, <2>6
  <2>8. LinkAt(c, Len(c) + 1, i')
    <3>1. Len(c) + 1 # 1 /\ Len(c) + 1 - 1 = Len(chunks) + 1
      BY <1>6
    <3>2. i < i' /\ i' <= (j - 1) + 1
      BY <1>4, <2>6
    <3> QED
      BY <1>1, <1>6, <3>1, <3>2 DEF LinkAt
  <2>9. Open(i)'
    BY <1>2, <1>5, <2>8, Frozen DEF Open
  <2>10. Windows'
    BY <1>1, <1>2, <2>1, <2>7, <2>9, Frozen DEF Windows
  <2>11. Counters'
    <3>1. i' \in 0 .. Len(words) + 1
      BY <1>3, <2>7
    <3> QED
      BY <1>1, <1>2, <3>1, Frozen DEF Counters
  <2>12. Draft(chunks')
    BY <1>5, <1>6
  <2> QED
    BY <1>1, <1>2, <2>1, <2>10, <2>11, <2>12, CInvKept
    DEF Splitting, Packing, Buffering, Lapping, Embedding, Cutting, Waiting
<1> QED
  BY <1>7, <1>8

-----------------------------------------------------------------------------
(* The steps of recursive *)

LEMMA KeepRangeKeeps ==
  ASSUME CInv, KeepRange
  PROVE  CInv'
<1>1. /\ Arguments /\ Counters /\ Draft(chunks) /\ pc = "split"
      /\ strategy = "recursive" /\ words # <<>> /\ chunks = <<>> /\ i = 0 /\ j = 1
      /\ todo \in Seq(Ranges) /\ pieces \in Seq(Ranges) /\ todo # <<>>
      /\ \A n \in 1 .. Len(todo) : Fresh(todo[n])
      /\ \E m \in 0 .. Len(words) : Tiles(pieces, 1, m) /\ Tiles(todo, m + 1, Len(words))
  BY DEF CInv, KeepRange, Splitting
<1>2. /\ UNCHANGED <<input, pc, i, j, tokens, sims, chunks>>
      /\ pieces' = Append(pieces, Head(todo)) /\ todo' = Tail(todo)
  BY DEF KeepRange
<1>3. Len(words) \in Nat
  BY <1>1, TextTypes DEF Arguments
<1>4. PICK m \in 0 .. Len(words) : Tiles(pieces, 1, m) /\ Tiles(todo, m + 1, Len(words))
  BY <1>1
<1> DEFINE p == Head(todo)
           rest == Tail(todo)
<1>5. m \in Nat /\ m + 1 \in Nat /\ 1 \in Nat
  BY <1>3
<1>6. /\ p \in Ranges /\ rest \in Seq(Ranges)
      /\ p.from = m + 1 /\ p.to \in Nat /\ m + 1 <= p.to + 1 /\ p.to <= Len(words)
      /\ Tiles(rest, p.to + 1, Len(words))
      /\ \A n \in 1 .. Len(rest) : rest[n] = todo[n + 1] /\ n + 1 \in 1 .. Len(todo)
  BY <1>1, <1>3, <1>4, <1>5, TilesHead
<1> HIDE DEF p, rest
<1>7. m <= p.to /\ p.to \in 0 .. Len(words)
  BY <1>3, <1>5, <1>6
<1>8. Append(pieces, p) \in Seq(Ranges) /\ Tiles(Append(pieces, p), 1, p.to)
  BY <1>1, <1>4, <1>5, <1>6, <1>7, TilesAppend
<1>9. \A n \in 1 .. Len(rest) : Fresh(rest[n])
  BY <1>1, <1>6
<1>10. todo' = rest /\ pieces' = Append(pieces, p)
  BY <1>2 DEF p, rest
<1>11. Splitting'
  <2>1. \A n \in 1 .. Len(todo') : Fresh(todo[n])'
    BY <1>2, <1>9, <1>10, Frozen
  <2> QED
    BY <1>1, <1>2, <1>6, <1>7, <1>8, <1>10, <2>1, Frozen DEF Splitting
<1>12. Counters'
  BY <1>1, <1>2, Frozen DEF Counters
<1> QED
  BY <1>1, <1>2, <1>11, <1>12, CInvKept
  DEF Windows, Packing, Buffering, Lapping, Embedding, Cutting, Waiting

LEMMA SplitRangeKeeps ==
  ASSUME CInv, SplitRange
  PROVE  CInv'
<1>1. /\ Arguments /\ Counters /\ Draft(chunks) /\ pc = "split"
      /\ strategy = "recursive" /\ words # <<>> /\ chunks = <<>> /\ i = 0 /\ j = 1
      /\ todo \in Seq(Ranges) /\ pieces \in Seq(Ranges) /\ todo # <<>>
      /\ \A n \in 1 .. Len(todo) : Fresh(todo[n])
      /\ \E m \in 0 .. Len(words) : Tiles(pieces, 1, m) /\ Tiles(todo, m + 1, Len(words))
  BY DEF CInv, SplitRange, Splitting
<1>2. /\ UNCHANGED <<input, pc, i, j, tokens, pieces, sims, chunks>>
      /\ todo' = Parts(Head(todo)) \o Tail(todo)
      /\ ~Whole(Head(todo))
  BY DEF SplitRange
<1>3. Len(words) \in Nat /\ Text
  BY <1>1, TextTypes DEF Arguments
<1>4. PICK m \in 0 .. Len(words) : Tiles(pieces, 1, m) /\ Tiles(todo, m + 1, Len(words))
  BY <1>1
<1> DEFINE p == Head(todo)
           rest == Tail(todo)
           all == Parts(p) \o rest
<1>5. m \in Nat /\ m + 1 \in Nat /\ 1 \in Nat
  BY <1>3
<1>6. /\ p \in Ranges /\ rest \in Seq(Ranges) /\ p = todo[1]
      /\ p.from = m + 1 /\ p.to \in Nat /\ m + 1 <= p.to + 1 /\ p.to <= Len(words)
      /\ Tiles(rest, p.to + 1, Len(words))
      /\ \A n \in 1 .. Len(rest) : rest[n] = todo[n + 1] /\ n + 1 \in 1 .. Len(todo)
  BY <1>1, <1>3, <1>4, <1>5, TilesHead
<1>7. todo' = all /\ ~Whole(p)
  BY <1>2
<1> HIDE DEF rest, p
<1>8. p.level \in Separators /\ ~(Count(p.from, p.to) <= target)
  BY <1>7 DEF Whole
<1>9. p.from <= p.to
  <2> SUFFICES ASSUME p.from > p.to
               PROVE  FALSE
    BY <1>5, <1>6
  <2>1. Count(p.from, p.to) = 0
    BY DEF Count
  <2>2. target \in Nat
    BY <1>1, ChunkingAssumption DEF Arguments
  <2> QED
    BY <1>8, <2>1, <2>2
<1>10. p.from \in 1 .. Len(words) /\ p.to \in 1 .. Len(words)
  BY <1>3, <1>5, <1>6, <1>9
<1>11. Fresh(p)
  <2>1. 1 \in 1 .. Len(todo)
    <3>1. Len(todo) \in Nat /\ Len(todo) # 0
      BY <1>1, EmptySeq, LenProperties
    <3> QED
      BY <3>1
  <2> QED
    BY <1>1, <1>6, <2>1
<1>12. /\ Parts(p) \in Seq(Ranges) /\ Tiles(Parts(p), p.from, p.to)
       /\ \A n \in 1 .. Len(Parts(p)) : Fresh(Parts(p)[n])
  BY <1>3, <1>6, <1>8, <1>9, <1>10, <1>11, PartsTile
<1>13. all \in Seq(Ranges) /\ Tiles(all, m + 1, Len(words))
  <2>1. Tiles(Parts(p), m + 1, p.to)
    BY <1>6, <1>12
  <2> QED
    BY <1>3, <1>5, <1>6, <1>12, <2>1, TilesConcat
<1>14. \A n \in 1 .. Len(all) : Fresh(all[n])
  <2>1. /\ Len(Parts(p)) \in Nat /\ Len(rest) \in Nat
        /\ Len(all) = Len(Parts(p)) + Len(rest)
        /\ \A n \in 1 .. Len(Parts(p)) + Len(rest) :
             all[n] = IF n <= Len(Parts(p)) THEN Parts(p)[n] ELSE rest[n - Len(Parts(p))]
    BY <1>6, <1>12, ConcatProperties, LenProperties
  <2> HIDE DEF all
  <2> SUFFICES ASSUME NEW n \in 1 .. Len(all)
               PROVE  Fresh(all[n])
    OBVIOUS
  <2>2. CASE n <= Len(Parts(p))
    <3>1. n \in 1 .. Len(Parts(p)) /\ all[n] = Parts(p)[n]
      BY <2>1, <2>2
    <3> QED
      BY <1>12, <3>1
  <2>3. CASE ~(n <= Len(Parts(p)))
    <3> DEFINE k == n - Len(Parts(p))
    <3>1. k \in 1 .. Len(rest) /\ all[n] = rest[k]
      BY <2>1, <2>3
    <3> QED
      BY <1>1, <1>6, <3>1
  <2> QED
    BY <2>2, <2>3
<1> HIDE DEF all
<1>15. Splitting'
  <2>1. \A n \in 1 .. Len(todo') : Fresh(todo[n])'
    BY <1>2, <1>7, <1>14, Frozen
  <2>2. Tiles(pieces, 1, m)' /\ Tiles(todo, m + 1, Len(words))'
    BY <1>2, <1>4, <1>7, <1>13, Frozen
  <2>3. m \in 0 .. Len(words')
    BY <1>2, Frozen
  <2> QED
    BY <1>1, <1>2, <1>7, <1>13, <2>1, <2>2, <2>3, Frozen DEF Splitting
<1>16. Counters'
  BY <1>1, <1>2, Frozen DEF Counters
<1> QED
  BY <1>1, <1>2, <1>15, <1>16, CInvKept
  DEF Windows, Packing, Buffering, Lapping, Embedding, Cutting, Waiting

LEMMA SplitDoneKeeps ==
  ASSUME CInv, SplitDone
  PROVE  CInv'
<1>1. /\ Arguments /\ Counters /\ Draft(chunks) /\ pc = "split"
      /\ strategy = "recursive" /\ words # <<>> /\ chunks = <<>> /\ i = 0 /\ j = 1
      /\ pieces \in Seq(Ranges) /\ todo = <<>>
      /\ \E m \in 0 .. Len(words) : Tiles(pieces, 1, m) /\ Tiles(todo, m + 1, Len(words))
  BY DEF CInv, SplitDone, Splitting
<1>2. /\ UNCHANGED <<input, i, j, tokens, todo, pieces, sims, chunks>>
      /\ pc' = "pack"
  BY DEF SplitDone
<1>3. Len(words) \in Nat
  BY <1>1, TextTypes DEF Arguments
<1>4. PICK m \in 0 .. Len(words) : Tiles(pieces, 1, m) /\ Tiles(todo, m + 1, Len(words))
  BY <1>1
<1>5. m = Len(words)
  <2>1. Len(todo) = 0
    BY <1>1
  <2>2. m + 1 = Len(words) + 1
    BY <1>4, <2>1 DEF Tiles
  <2> QED
    BY <1>3, <2>2
<1>6. Packing'
  BY <1>1, <1>2, <1>4, <1>5, Frozen DEF Packing
<1>7. Counters'
  BY <1>1, <1>2, Frozen DEF Counters
<1> QED
  BY <1>1, <1>2, <1>6, <1>7, CInvKept
  DEF Windows, Splitting, Buffering, Lapping, Embedding, Cutting, Waiting

(* The open chunk of recursive, which may have no words yet. *)
LEMMA PackedSoFar ==
  ASSUME Text, strategy # "fixed", strategy # "layout", Draft(chunks), j \in 1 .. Len(words) + 1,
         i \in 1 .. j, Open(i)
  PROVE  /\ Draft(_assemble(i, j - 1))
         /\ LinkAt(_assemble(i, j - 1), Len(_assemble(i, j - 1)) + 1, j)
         /\ words # <<>> /\ j = Len(words) + 1 => Ended(_assemble(i, j - 1))
<1>1. Len(words) \in Nat /\ j \in Nat /\ i \in Nat /\ 1 <= i /\ i <= j /\ j <= Len(words) + 1
  BY TextTypes
<1>2. Linked(chunks)
  BY DEF Draft
<1>3. CASE i = j
  <2>1. _assemble(i, j - 1) = chunks
    BY <1>1, <1>3 DEF _assemble
  <2>2. ASSUME words # <<>>, j = Len(words) + 1
        PROVE  Ended(chunks)
    <3>1. Len(words) # 0
      <4>1. words \in Seq(Word)
        BY DEF Text, TextOf
      <4> QED
        BY <2>2, <4>1, EmptySeq
    <3>2. Len(chunks) \in Nat
      BY <1>2, ChunkTypes
    <3>3. Len(chunks) # 0
      <4> SUFFICES ASSUME Len(chunks) = 0
                   PROVE  FALSE
        OBVIOUS
      <4>1. i = 1
        BY DEF Open, LinkAt
      <4> QED
        BY <1>1, <1>3, <2>2, <3>1, <4>1
    <3>4. i = chunks[Len(chunks)].to + 1
      <4>1. Len(chunks) + 1 # 1 /\ Len(chunks) + 1 - 1 = Len(chunks)
        BY <3>2, <3>3
      <4> QED
        BY <4>1 DEF Open, LinkAt
    <3>5. chunks[Len(chunks)].to \in Nat
      <4>1. Len(chunks) \in 1 .. Len(chunks)
        BY <3>2, <3>3
      <4> QED
        BY <1>2, <4>1, ChunkTypes
    <3>6. chunks[Len(chunks)].to = Len(words)
      BY <1>1, <1>3, <2>2, <3>4, <3>5
    <3> QED
      BY <3>2, <3>3, <3>6 DEF Ended
  <2> QED
    BY <1>3, <2>1, <2>2 DEF Open
<1>4. CASE i # j
  <2>1. i \in 1 .. Len(words) /\ j - 1 \in 1 .. Len(words) /\ i <= j - 1 /\ ~(i > j - 1)
    BY <1>1, <1>4
  <2> DEFINE c == AddedTo(chunks, i, j - 1)
  <2>2. _assemble(i, j - 1) = c
    BY <2>1, Assembled
  <2>3. /\ Draft(c) /\ Len(c) = Len(chunks) + 1 /\ Len(chunks) \in Nat
        /\ c[Len(chunks) + 1].to = j - 1 /\ c # <<>>
    BY <2>1, AddDraft DEF Open
  <2> HIDE DEF c
  <2>4. LinkAt(c, Len(c) + 1, j)
    <3>1. Len(c) + 1 # 1 /\ Len(c) + 1 - 1 = Len(chunks) + 1
      BY <2>3
    <3>2. j = (j - 1) + 1
      BY <1>1
    <3> QED
      BY <2>3, <3>1, <3>2 DEF LinkAt
  <2>5. j = Len(words) + 1 => Ended(c)
    <3>1. j = Len(words) + 1 => j - 1 = Len(words)
      BY <1>1
    <3>2. Len(c) \in Nat \ {0}
      BY <2>3
    <3> QED
      BY <2>3, <3>1, <3>2 DEF Ended
  <2> QED
    BY <2>2, <2>3, <2>4, <2>5
<1> QED
  BY <1>3, <1>4

LEMMA PackPieceKeeps ==
  ASSUME CInv, PackPiece
  PROVE  CInv'
<1>1. /\ Arguments /\ Counters /\ Draft(chunks) /\ pc = "pack"
      /\ strategy = "recursive" /\ words # <<>>
      /\ pieces \in Seq(Ranges) /\ pieces # <<>> /\ Tiles(pieces, j, Len(words))
      /\ IF i = 0 THEN j = 1 /\ chunks = <<>> ELSE i \in 1 .. j /\ Open(i)
  BY DEF CInv, PackPiece, Packing
<1>2. Len(words) \in Nat /\ Text /\ j \in Nat /\ j \in 1 .. Len(words) + 1 /\ tokens \in Nat
      /\ i \in Nat
  <2>1. Len(words) \in Nat /\ Text
    BY <1>1, TextTypes DEF Arguments
  <2> QED
    BY <1>1, <2>1 DEF Counters
<1> DEFINE p == Head(pieces)
           rest == Tail(pieces)
           cost == Count(p.from, p.to)
           full == i # 0 /\ tokens + cost > target
<1>3. /\ rest \in Seq(Ranges)
      /\ p.from = j /\ p.to \in Nat /\ j <= p.to + 1 /\ p.to <= Len(words)
      /\ Tiles(rest, p.to + 1, Len(words))
  BY <1>1, <1>2, TilesHead
<1>4. /\ UNCHANGED <<input, pc, todo, sims>>
      /\ j' = p.to + 1 /\ pieces' = rest
      /\ \/ full /\ chunks' = _assemble(i, j - 1) /\ i' = p.from /\ tokens' = cost
         \/ /\ ~full /\ chunks' = chunks /\ i' = (IF i = 0 THEN p.from ELSE i)
            /\ tokens' = tokens + cost
  BY DEF PackPiece
<1> HIDE DEF p, rest
<1>5. cost \in Nat
  <2>1. p.from \in Nat /\ (p.from <= p.to => p.from \in 1 .. Len(words))
        /\ (p.from <= p.to => p.to \in 1 .. Len(words))
    BY <1>2, <1>3
  <2> QED
    BY <1>2, <1>3, <2>1, Counted
<1> HIDE DEF cost, full
<1>6. j' \in 1 .. Len(words) + 1 /\ i' \in 1 .. j' /\ i' \in 0 .. Len(words) + 1 /\ i' # 0
  <2>1. j' \in 1 .. Len(words) + 1 /\ j <= j' /\ j' \in Nat
    BY <1>2, <1>3, <1>4
  <2>2. i' = j \/ (i' = i /\ i # 0)
    BY <1>3, <1>4
  <2>3. i' \in 1 .. j
    BY <1>1, <1>2, <2>2
  <2> QED
    BY <1>2, <2>1, <2>3
<1>7. Draft(chunks') /\ LinkAt(chunks', Len(chunks') + 1, i')
  <2>1. CASE full
    <3>1. i \in 1 .. j /\ Open(i)
      BY <1>1, <2>1 DEF full
    <3>2. /\ Draft(_assemble(i, j - 1))
          /\ LinkAt(_assemble(i, j - 1), Len(_assemble(i, j - 1)) + 1, j)
      BY <1>1, <1>2, <3>1, PackedSoFar
    <3> QED
      BY <1>3, <1>4, <2>1, <3>2
  <2>2. CASE ~full
    <3>1. chunks' = chunks /\ i' = IF i = 0 THEN j ELSE i
      BY <1>3, <1>4, <2>2
    <3>2. CASE i = 0
      <4>1. Len(chunks') + 1 = 1 /\ i' = 1
        BY <1>1, <3>1, <3>2
      <4> QED
        BY <1>1, <3>1, <4>1 DEF LinkAt
    <3>3. CASE i # 0
      BY <1>1, <3>1, <3>3 DEF Open
    <3> QED
      BY <3>2, <3>3
  <2> QED
    BY <2>1, <2>2
<1>8. Packing'
  <2>1. Open(i)'
    BY <1>4, <1>7, Frozen DEF Open
  <2>2. Tiles(pieces, j, Len(words))'
    BY <1>3, <1>4, Frozen
  <2> QED
    BY <1>1, <1>3, <1>4, <1>6, <2>1, <2>2, Frozen DEF Packing
<1>9. Counters'
  <2>1. tokens' \in Nat
    <3>1. tokens' = cost \/ tokens' = tokens + cost
      BY <1>4
    <3> QED
      BY <1>2, <1>5, <3>1
  <2> QED
    BY <1>4, <1>6, <2>1, Frozen DEF Counters
<1> QED
  BY <1>1, <1>4, <1>7, <1>8, <1>9, CInvKept
  DEF Windows, Splitting, Buffering, Lapping, Embedding, Cutting, Waiting

(* Overlaps are natural numbers. *)
LEMMA OverlapTypes ==
  ASSUME overlap \in OverlapsOf(strategy)
  PROVE  overlap \in Nat
<1>1. Overlaps \subseteq Nat
  BY ChunkingAssumption
<1>2. overlap \in {0} \/ overlap \in Overlaps
  BY DEF OverlapsOf
<1>3. {0} \subseteq Nat
  OBVIOUS
<1> QED
  BY Zenon, <1>1, <1>2, <1>3

(* A chunker with an overlap to put in front, and one without. *)
LEMMA DoneOrOverlap ==
  ASSUME Arguments, Counters, UNCHANGED <<input, i, j, tokens>>,
         strategy \in {"recursive", "layout"}, Draft(chunks'), Ended(chunks'),
         pc' = IF overlap > 0 THEN "overlap" ELSE "done"
  PROVE  CInv'
<1>1. UNCHANGED input /\ Counters'
  BY Frozen DEF Counters
<1>2. CASE pc' = "done"
  <2>1. Good(chunks')
    BY DraftGood DEF Arguments
  <2> QED
    BY <1>1, <1>2, <2>1, Finished
<1>3. CASE pc' = "overlap"
  <2>1. overlap # 0 /\ overlap' = overlap
    BY <1>1, <1>3, OverlapTypes, Frozen DEF Arguments
  <2>2. Lapping'
    BY <1>1, <2>1, Frozen DEF Lapping
  <2> QED
    BY <1>1, <1>3, <2>2, CInvKept
    DEF Windows, Splitting, Packing, Buffering, Embedding, Cutting, Waiting
<1> QED
  BY <1>2, <1>3

LEMMA PackDoneKeeps ==
  ASSUME CInv, PackDone
  PROVE  CInv'
<1>1. /\ Arguments /\ Counters /\ Draft(chunks) /\ pc = "pack"
      /\ strategy = "recursive" /\ words # <<>>
      /\ pieces = <<>> /\ Tiles(pieces, j, Len(words))
      /\ IF i = 0 THEN j = 1 /\ chunks = <<>> ELSE i \in 1 .. j /\ Open(i)
  BY DEF CInv, PackDone, Packing
<1>2. Len(words) \in Nat /\ Text /\ j \in 1 .. Len(words) + 1
  BY <1>1, TextTypes DEF Arguments, Counters
<1>3. j = Len(words) + 1
  <2>1. Len(pieces) = 0
    BY <1>1
  <2> QED
    BY <1>1, <2>1 DEF Tiles
<1>4. i # 0
  <2>1. Len(words) # 0
    <3>1. words \in Seq(Word)
      BY <1>2 DEF Text, TextOf
    <3> QED
      BY <1>1, <3>1, EmptySeq
  <2> QED
    BY <1>1, <1>2, <1>3, <2>1
<1>5. Draft(_assemble(i, j - 1)) /\ Ended(_assemble(i, j - 1))
  BY <1>1, <1>2, <1>3, <1>4, PackedSoFar
<1>6. /\ UNCHANGED <<input, i, j, tokens>> /\ chunks' = _assemble(i, j - 1)
      /\ pc' = IF overlap > 0 THEN "overlap" ELSE "done"
  BY DEF PackDone
<1>7. strategy \in {"recursive", "layout"}
  BY <1>1
<1> QED
  BY <1>1, <1>5, <1>6, <1>7, DoneOrOverlap

(* With their overlaps, the chunks are as they should be. *)
LEMMA LappedGood ==
  ASSUME Text, strategy \in {"recursive", "layout"}, NEW c, Draft(c), Ended(c),
         NEW d, Lapped(d, c), strategy = "layout" => BlockOverlaps(d, c)
  PROVE  Good(d) /\ Ended(d)
<1>1. Linked(c) /\ Plain(c) /\ (strategy = "layout" => Structured(c))
  BY DEF Draft
<1>2. Linked(d)
  BY <1>1, LappedLinked
<1>3. Named(d)
  BY <1>1, LappedNamed
<1>4. Leads(d)
  BY DEF Leads, Lapped
<1>5. Fit(d)
  BY DEF Fit
<1>6. strategy = "layout" => Structure(d)
  BY <1>1, StructureOf
<1>7. Ended(d)
  <2>1. Len(c) \in 1 .. Len(c) /\ Len(d) = Len(c) /\ c[Len(c)].to = Len(words)
        /\ Len(c) \in Nat \ {0}
    BY DEF Ended, Lapped
  <2>2. d[Len(c)].to = c[Len(c)].to
    BY <2>1 DEF Lapped
  <2>3. d # <<>>
    BY <2>1
  <2> QED
    BY <2>1, <2>2, <2>3 DEF Ended
<1> QED
  BY <1>2, <1>3, <1>4, <1>5, <1>6, <1>7 DEF Good

LEMMA ApplyOverlapKeeps ==
  ASSUME CInv, ApplyOverlap
  PROVE  CInv'
<1>1. /\ Arguments /\ Counters /\ Draft(chunks) /\ pc = "overlap"
      /\ strategy \in {"recursive", "layout"} /\ Ended(chunks) /\ Text
      /\ overlap \in Nat \ {0}
  BY OverlapTypes DEF CInv, ApplyOverlap, Lapping, Arguments
<1>2. /\ UNCHANGED <<input, i, j, tokens, todo, pieces, sims>> /\ pc' = "done"
      /\ chunks' = IF strategy = "layout" THEN _apply_block_overlap ELSE _apply_text_overlap
  BY DEF ApplyOverlap
<1>3. Linked(chunks) /\ Plain(chunks) /\ (strategy = "layout" => Structured(chunks))
      /\ strategy # "fixed"
  BY <1>1 DEF Draft
<1>4. Good(chunks') /\ Ended(chunks')
  <2>1. CASE strategy = "layout"
    <3>1. Lapped(_apply_block_overlap, chunks) /\ BlockOverlaps(_apply_block_overlap, chunks)
      BY <1>1, <1>3, <2>1, BlockLapped
    <3>2. Good(_apply_block_overlap) /\ Ended(_apply_block_overlap)
      BY <1>1, <1>3, <3>1, LappedGood
    <3> QED
      BY <1>2, <2>1, <3>2
  <2>2. CASE strategy # "layout"
    <3>1. Lapped(_apply_text_overlap, chunks)
      BY <1>1, <1>3, TextLapped
    <3>2. Good(_apply_text_overlap) /\ Ended(_apply_text_overlap)
      BY <1>1, <1>3, <2>2, <3>1, LappedGood
    <3> QED
      BY <1>2, <2>2, <3>2
  <2> QED
    BY <2>1, <2>2
<1>5. Counters'
  BY <1>1, <1>2, Frozen DEF Counters
<1> QED
  BY <1>1, <1>2, <1>4, <1>5, Finished

-----------------------------------------------------------------------------
(* The steps of layout *)

(* The chunks, with that of the buffered blocks. *)
LEMMA FlushKeeps ==
  ASSUME Text, strategy = "layout", Draft(chunks), j \in 1 .. Len(blocks) + 1,
         IF i = 0 THEN Open(FirstWord(j))
         ELSE i \in 1 .. j - 1 /\ Open(FirstWord(i)) /\ Uniform(i, j - 1)
  PROVE  /\ Draft(Flushed)
         /\ LinkAt(Flushed, Len(Flushed) + 1, FirstWord(j))
<1>1. Len(blocks) \in Nat
  BY TextTypes
<1>2. CASE i = 0
  BY <1>2 DEF Flushed, Open
<1>3. CASE i # 0
  <2>1. /\ i \in Nat /\ j - 1 \in Nat /\ i \in 1 .. Len(blocks) /\ j - 1 \in 1 .. Len(blocks)
        /\ i <= j - 1 /\ (j - 1) + 1 = j /\ i <= Len(blocks)
    BY <1>1, <1>3
  <2>2. LinkAt(chunks, Len(chunks) + 1, First(i)) /\ Uniform(i, j - 1)
    BY <1>3, <2>1 DEF Open, FirstWord
  <2> DEFINE c == AddedTo(chunks, First(i), Final(j - 1))
  <2>3. /\ First(i) \in 1 .. Len(words) /\ Final(j - 1) \in 1 .. Len(words)
        /\ First(i) <= Final(j - 1)
        /\ Draft(c) /\ LinkAt(c, Len(c) + 1, FirstWord((j - 1) + 1))
    BY <2>1, <2>2, Flushing
  <2>4. ~(First(i) > Final(j - 1))
    <3>1. Len(words) \in Nat
      BY TextTypes
    <3> QED
      BY <2>3, <3>1
  <2>5. Flushed = c
    BY <1>3, <2>4, Assembled DEF Flushed
  <2> QED
    BY <2>1, <2>3, <2>5
<1> QED
  BY <1>2, <1>3

(* What is known of the buffer of blocks. *)
LEMMA BufferTypes ==
  ASSUME CInv, pc = "pack blocks"
  PROVE  /\ Arguments /\ Counters /\ Text /\ Draft(chunks)
         /\ strategy = "layout" /\ words # <<>> /\ j \in 1 .. Len(blocks) + 1
         /\ IF i = 0 THEN Open(FirstWord(j))
            ELSE i \in 1 .. j - 1 /\ Open(FirstWord(i)) /\ Uniform(i, j - 1)
         /\ i # 0 => \A b \in i .. j - 1 : ~is_atomic(blocks[b])
         /\ Len(words) \in Nat /\ Len(blocks) \in Nat /\ Len(blocks) <= Len(words)
         /\ tokens \in Nat /\ j \in Nat
<1>1. /\ Arguments /\ Counters /\ Text /\ Draft(chunks) /\ Buffering
  BY DEF CInv, Arguments
<1>2. /\ Len(words) \in Nat /\ Len(blocks) \in Nat /\ Len(blocks) <= Len(words)
  BY <1>1, TextTypes, FewerBlocks
<1>3. tokens \in Nat /\ j \in Nat
  <2>1. tokens \in Nat /\ j \in 1 .. Len(words) + 1
    BY <1>1 DEF Counters
  <2> QED
    BY ONLY <1>2, <2>1
<1> QED
  BY <1>1, <1>2, <1>3 DEF Buffering

(* A block is alike by itself. *)
LEMMA UniformOne ==
  ASSUME NEW b \in Nat
  PROVE  Uniform(b, b)
<1>1. b .. b = {b} /\ b + 1 .. b = {}
  OBVIOUS
<1> QED
  BY <1>1 DEF Uniform

LEMMA PackAtomicKeeps ==
  ASSUME CInv, PackAtomic
  PROVE  CInv'
<1>1. pc = "pack blocks" /\ j <= Len(blocks)
  BY DEF PackAtomic
<1>2. /\ Arguments /\ Counters /\ Text /\ Draft(chunks)
      /\ strategy = "layout" /\ words # <<>> /\ j \in 1 .. Len(blocks) + 1
      /\ IF i = 0 THEN Open(FirstWord(j))
         ELSE i \in 1 .. j - 1 /\ Open(FirstWord(i)) /\ Uniform(i, j - 1)
      /\ Len(words) \in Nat /\ Len(blocks) \in Nat /\ Len(blocks) <= Len(words)
      /\ j \in Nat
  BY <1>1, BufferTypes
<1>3. /\ UNCHANGED <<input, pc, todo, pieces, sims>>
      /\ i' = 0 /\ j' = j + 1 /\ tokens' = 0
      /\ chunks' = Append(Flushed, [from |-> First(j), to |-> Final(j), lead |-> First(j),
                                    blocks |-> <<j>>])
  BY DEF PackAtomic
<1>4. j \in 1 .. Len(blocks) /\ j <= j
  <2>1. j \in 1 .. Len(blocks) + 1 /\ Len(blocks) \in Nat
    BY <1>2
  <2>2. j <= Len(blocks)
    BY <1>1
  <2> QED
    BY ONLY <2>1, <2>2
<1>5. Draft(Flushed) /\ LinkAt(Flushed, Len(Flushed) + 1, First(j))
  BY <1>1, <1>2, FlushKeeps DEF FirstWord
<1> DEFINE c == AddedTo(Flushed, First(j), Final(j))
<1>6. Uniform(j, j)
  BY <1>2, UniformOne
<1>7. Draft(c) /\ LinkAt(c, Len(c) + 1, FirstWord(j + 1))
  BY <1>2, <1>4, <1>5, <1>6, Flushing
<1>8. chunks' = c
  <2>1. words[First(j)].block = j /\ words[Final(j)].block = j
    BY <1>2, <1>4, BlockPlace
  <2>2. _blocks_in_range(First(j), Final(j)) = [n \in 1 .. j - j + 1 |-> j + n - 1]
    BY <2>1 DEF _blocks_in_range
  <2>3. [n \in 1 .. j - j + 1 |-> j + n - 1] = <<j>>
    <3>1. j - j + 1 = 1 /\ j + 1 - 1 = j
      BY <1>2
    <3>2. [n \in 1 .. 1 |-> j + n - 1] = <<j>>
      BY <3>1
    <3> QED
      BY <3>1, <3>2
  <2>4. _blocks_in_range(First(j), Final(j)) = <<j>>
    BY <2>2, <2>3
  <2> QED
    BY <1>3, <2>4 DEF AddedTo
<1> HIDE DEF c
<1>9. j' \in 1 .. Len(blocks) + 1 /\ j' \in 1 .. Len(words) + 1
  BY <1>2, <1>3, <1>4
<1>10. Open(FirstWord(j))'
  <2>1. FirstWord(j)' = FirstWord(j')
    BY <1>3, Frozen
  <2> QED
    BY <1>3, <1>7, <1>8, <2>1, Frozen DEF Open
<1>11. Buffering'
  BY <1>2, <1>3, <1>9, <1>10, Frozen DEF Buffering
<1>12. Counters'
  BY <1>2, <1>3, <1>9, Frozen DEF Counters
<1>13. Draft(chunks')
  BY <1>7, <1>8
<1> QED
  BY <1>1, <1>2, <1>3, <1>11, <1>12, <1>13, CInvKept
  DEF Windows, Splitting, Packing, Lapping, Embedding, Cutting, Waiting

LEMMA PackBlockKeeps ==
  ASSUME CInv, PackBlock
  PROVE  CInv'
<1>1. pc = "pack blocks" /\ j <= Len(blocks) /\ ~is_atomic(blocks[j])
  BY DEF PackBlock
<1>2. /\ Arguments /\ Counters /\ Text /\ Draft(chunks)
      /\ strategy = "layout" /\ words # <<>> /\ j \in 1 .. Len(blocks) + 1
      /\ IF i = 0 THEN Open(FirstWord(j))
         ELSE i \in 1 .. j - 1 /\ Open(FirstWord(i)) /\ Uniform(i, j - 1)
      /\ i # 0 => \A b \in i .. j - 1 : ~is_atomic(blocks[b])
      /\ Len(words) \in Nat /\ Len(blocks) \in Nat /\ Len(blocks) <= Len(words)
      /\ tokens \in Nat /\ j \in Nat
  BY <1>1, BufferTypes
<1>3. /\ UNCHANGED <<input, pc, todo, pieces, sims>> /\ j' = j + 1
      /\ \/ /\ StartsChunk
            /\ chunks' = Flushed /\ i' = j /\ tokens' = BlockCount(j)
         \/ /\ ~StartsChunk
            /\ chunks' = chunks /\ i' = (IF i = 0 THEN j ELSE i)
            /\ tokens' = tokens + BlockCount(j)
  BY DEF PackBlock
<1>4. j \in 1 .. Len(blocks) /\ j <= j
  <2>1. j \in 1 .. Len(blocks) + 1 /\ Len(blocks) \in Nat
    BY <1>2
  <2>2. j <= Len(blocks)
    BY <1>1
  <2> QED
    BY ONLY <2>1, <2>2
<1>5. BlockCount(j) \in Nat
  <2>1. First(j) \in 1 .. Len(words) /\ Final(j) \in 1 .. Len(words)
    BY <1>2, <1>4, BlockPlace
  <2>2. First(j) \in Nat /\ Final(j) \in Nat
    BY <1>2, <2>1
  <2>3. Count(First(j), Final(j)) \in Nat
    BY <1>2, <2>1, <2>2, Counted
  <2> QED
    BY <2>3 DEF BlockCount
<1>6. j' \in 1 .. Len(blocks) + 1 /\ j' \in 1 .. Len(words) + 1 /\ j' - 1 = j
  BY <1>2, <1>3, <1>4
(* A buffer that begins with block j, or takes it in. *)
<1>7. /\ Draft(chunks') /\ i' \in 1 .. j
      /\ LinkAt(chunks', Len(chunks') + 1, FirstWord(i'))
      /\ Uniform(i', j) /\ \A b \in i' .. j : ~is_atomic(blocks[b])
  <2>1. Uniform(j, j) /\ \A b \in j .. j : ~is_atomic(blocks[b])
    <3>1. j \in Nat
      BY <1>2
    <3>2. j .. j = {j}
      BY ONLY <3>1
    <3>3. \A b \in j .. j : ~is_atomic(blocks[b])
      BY <1>1, <3>2
    <3> QED
      BY <3>1, <3>3, UniformOne
  <2>2. j \in 1 .. j
    BY <1>2, <1>4
  <2>3. CASE StartsChunk
    <3>1. chunks' = Flushed /\ i' = j
      BY <1>3, <2>3
    <3>2. Draft(Flushed) /\ LinkAt(Flushed, Len(Flushed) + 1, FirstWord(j))
      BY <1>2, FlushKeeps
    <3> QED
      BY <2>1, <2>2, <3>1, <3>2
  <2>4. CASE ~StartsChunk /\ i = 0
    <3>1. chunks' = chunks /\ i' = j
      BY <1>3, <2>4
    <3> QED
      BY <1>2, <2>1, <2>2, <2>4, <3>1 DEF Open
  <2>5. CASE ~StartsChunk /\ i # 0
    <3>1. chunks' = chunks /\ i' = i
      BY <1>3, <2>5
    <3>2. ~is_boundary(blocks[j]) /\ blocks[j - 1].section = blocks[j].section
      BY <2>5 DEF StartsChunk
    <3>3. i \in 1 .. j - 1 /\ Open(FirstWord(i)) /\ Uniform(i, j - 1)
          /\ \A b \in i .. j - 1 : ~is_atomic(blocks[b])
      BY <1>2, <2>5
    <3>4. i \in 1 .. j /\ j - 1 \in i .. j - 1
      BY <1>2, <3>3
    <3>5. \A b \in i .. j : b = j \/ b \in i .. j - 1
      BY <1>2, <3>3
    <3>6. \A b \in i .. j : ~is_atomic(blocks[b])
      BY <1>1, <3>3, <3>5
    <3>7. Uniform(i, j)
      <4>1. \A b \in i + 1 .. j : ~is_boundary(blocks[b])
        <5>1. \A b \in i + 1 .. j : b = j \/ b \in i + 1 .. j - 1
          BY <1>2, <3>3
        <5> QED
          BY <3>2, <3>3, <5>1 DEF Uniform
      <4>2. blocks[j].section = blocks[i].section
        BY <3>2, <3>3, <3>4 DEF Uniform
      <4>3. \A b \in i .. j : blocks[b].section = blocks[i].section
        BY <3>3, <3>5, <4>2 DEF Uniform
      <4> QED
        BY <3>6, <4>1, <4>3 DEF Uniform
    <3> QED
      BY <1>2, <3>1, <3>3, <3>4, <3>6, <3>7 DEF Open
  <2> QED
    BY <2>3, <2>4, <2>5
<1>8. i' # 0 /\ i' \in 0 .. Len(words) + 1
  BY <1>2, <1>7
<1>9. Buffering'
  <2>1. i' \in 1 .. j' - 1
    BY <1>6, <1>7
  <2>2. FirstWord(i)' = FirstWord(i')
    BY <1>3, Frozen
  <2>3. Open(FirstWord(i))'
    BY <1>3, <1>7, <2>2, Frozen DEF Open
  <2>4. Uniform(i, j - 1)'
    BY <1>3, <1>6, <1>7, Frozen
  <2>5. \A b \in i' .. j' - 1 : ~is_atomic(blocks'[b])
    BY <1>3, <1>6, <1>7, Frozen
  <2>6. strategy' = "layout" /\ words' # <<>> /\ j' \in 1 .. Len(blocks') + 1
    BY <1>2, <1>3, <1>6, Frozen
  <2> QED
    BY <1>8, <2>1, <2>3, <2>4, <2>5, <2>6 DEF Buffering, is_atomic
<1>10. Counters'
  <2>1. tokens' \in Nat
    <3>1. tokens' = BlockCount(j) \/ tokens' = tokens + BlockCount(j)
      BY <1>3
    <3> QED
      BY <1>2, <1>5, <3>1
  <2> QED
    BY <1>3, <1>6, <1>8, <2>1, Frozen DEF Counters
<1> QED
  BY <1>1, <1>2, <1>3, <1>7, <1>9, <1>10, CInvKept
  DEF Windows, Splitting, Packing, Lapping, Embedding, Cutting, Waiting

LEMMA PackBlocksDoneKeeps ==
  ASSUME CInv, PackBlocksDone
  PROVE  CInv'
<1>1. pc = "pack blocks" /\ j > Len(blocks)
  BY DEF PackBlocksDone
<1>2. /\ Arguments /\ Counters /\ Text /\ Draft(chunks)
      /\ strategy = "layout" /\ words # <<>> /\ j \in 1 .. Len(blocks) + 1
      /\ IF i = 0 THEN Open(FirstWord(j))
         ELSE i \in 1 .. j - 1 /\ Open(FirstWord(i)) /\ Uniform(i, j - 1)
      /\ Len(words) \in Nat /\ Len(blocks) \in Nat
  BY <1>1, BufferTypes
<1>3. /\ UNCHANGED <<input, i, j, tokens>> /\ chunks' = Flushed
      /\ pc' = IF overlap > 0 THEN "overlap" ELSE "done"
  BY DEF PackBlocksDone
<1>4. Draft(Flushed) /\ LinkAt(Flushed, Len(Flushed) + 1, FirstWord(j))
  BY <1>2, FlushKeeps
<1>5. FirstWord(j) = Len(words) + 1
  <2>1. ~(j <= Len(blocks))
    <3>1. j \in 1 .. Len(blocks) + 1 /\ Len(blocks) \in Nat
      BY <1>2
    <3>2. j > Len(blocks)
      BY <1>1
    <3> QED
      BY ONLY <3>1, <3>2
  <2> QED
    BY <2>1 DEF FirstWord
<1>6. Ended(Flushed)
  <2>1. Linked(Flushed) /\ Len(Flushed) \in Nat
    BY <1>2, <1>4, ChunkTypes DEF Draft
  <2>2. Len(words) # 0
    <3>1. words \in Seq(Word)
      BY <1>2 DEF Text, TextOf
    <3> QED
      BY <1>2, <3>1, EmptySeq
  <2>3. Len(Flushed) # 0
    <3> SUFFICES ASSUME Len(Flushed) = 0
                 PROVE  FALSE
      OBVIOUS
    <3>1. Len(words) + 1 = 1
      BY <1>4, <1>5 DEF LinkAt
    <3> QED
      BY <1>2, <2>2, <3>1
  <2>4. Flushed[Len(Flushed)].to + 1 = Len(words) + 1
    <3>1. Len(Flushed) + 1 # 1 /\ Len(Flushed) + 1 - 1 = Len(Flushed)
      BY <2>1, <2>3
    <3> QED
      BY <1>2, <1>4, <1>5, <3>1 DEF LinkAt
  <2>5. Flushed[Len(Flushed)].to \in Nat
    <3>1. Len(Flushed) \in 1 .. Len(Flushed)
      BY <2>1, <2>3
    <3> QED
      BY <1>2, <2>1, <3>1, ChunkTypes
  <2>6. Flushed[Len(Flushed)].to = Len(words)
    BY <1>2, <2>4, <2>5
  <2> QED
    BY <2>1, <2>3, <2>6 DEF Ended
<1> QED
  BY <1>2, <1>3, <1>4, <1>6, DoneOrOverlap

-----------------------------------------------------------------------------
(* The steps of semantic *)

LEMMA EmbedSentencesKeeps ==
  ASSUME CInv, EmbedSentences
  PROVE  CInv'
<1>1. /\ Arguments /\ Counters /\ Draft(chunks) /\ pc = "embed" /\ Text
      /\ strategy = "semantic" /\ words # <<>> /\ chunks = <<>> /\ i = 1 /\ j = 1
  BY DEF CInv, EmbedSentences, Embedding, Arguments
<1>2. /\ UNCHANGED <<input, i, j, todo>> /\ pieces' = Sentences
      /\ \/ /\ chunks' = _assemble(1, Len(words)) /\ pc' = "done" /\ tokens' = tokens
         \/ pc' = "error" /\ tokens' = tokens /\ chunks' = chunks
         \/ /\ Len(Sentences) > 1
            /\ sims' \in [1 .. Len(Sentences) - 1 -> Similarities]
            /\ tokens' = Count(Sentences[1].from, Sentences[1].to)
            /\ pc' = "cut" /\ chunks' = chunks
  BY DEF EmbedSentences
<1> DEFINE s == Sentences
<1>3. /\ s \in Seq(Spans) /\ Tiles(s, 1, Len(words)) /\ Len(s) \in 1 .. Len(words)
      /\ \A n \in 1 .. Len(s) : s[n].from <= s[n].to
  BY <1>1, SentencesTile
<1> HIDE DEF s
<1>4. Len(words) \in Nat /\ Len(words) \in 1 .. Len(words) /\ 1 \in 1 .. Len(words)
      /\ ~(1 > Len(words)) /\ 1 <= Len(words) /\ Len(s) \in Nat /\ 1 <= Len(s) /\ Len(s) <= Len(words)
  <2>1. Len(words) \in Nat
    BY <1>1, TextTypes
  <2> QED
    BY ONLY <1>3, <2>1
<1>5. LinkAt(chunks, Len(chunks) + 1, 1)
  <2>1. Len(chunks) + 1 = 1
    BY <1>1
  <2> QED
    BY <2>1 DEF LinkAt
<1>6. CASE pc' = "done"
  <2> DEFINE c == AddedTo(chunks, 1, Len(words))
  <2>1. chunks' = c /\ tokens' = tokens
    BY <1>2, <1>4, <1>6, Assembled
  <2>2. /\ Draft(c) /\ Len(c) = Len(chunks) + 1 /\ Len(chunks) \in Nat
        /\ c[Len(chunks) + 1].to = Len(words) /\ c # <<>>
    <3> DEFINE t == Len(words)
               d == AddedTo(chunks, 1, t)
    <3>1. /\ 1 \in 1 .. Len(words) /\ t \in 1 .. Len(words) /\ 1 <= t /\ Text /\ Draft(chunks)
          /\ LinkAt(chunks, Len(chunks) + 1, 1) /\ strategy # "fixed" /\ strategy # "layout"
      BY <1>1, <1>4, <1>5
    <3> HIDE DEF t
    <3>2. /\ Draft(d) /\ Len(d) = Len(chunks) + 1 /\ Len(chunks) \in Nat
          /\ d[Len(chunks) + 1].to = t /\ d # <<>>
      BY ONLY <3>1, AddDraft
    <3> QED
      BY <3>2 DEF t
  <2> HIDE DEF c
  <2>3. Good(c)
    BY <1>1, <2>2, DraftGood
  <2>4. Ended(c)
    BY <2>2 DEF Ended
  <2>5. Counters'
    BY <1>1, <1>2, <2>1, Frozen DEF Counters
  <2> QED
    BY <1>1, <1>2, <1>6, <2>1, <2>3, <2>4, <2>5, Finished
<1>7. CASE pc' = "error"
  <2>1. chunks' = chunks /\ tokens' = tokens
    BY <1>2, <1>7
  <2>2. Counters'
    BY <1>1, <1>2, <2>1, Frozen DEF Counters
  <2>3. Draft(chunks')
    BY <1>1, <2>1
  <2> QED
    BY <1>1, <1>2, <1>7, <2>2, <2>3, CInvKept
    DEF Windows, Splitting, Packing, Buffering, Lapping, Embedding, Cutting, Waiting
<1>8. CASE pc' = "cut"
  <2>1. /\ chunks' = chunks /\ Len(s) > 1
        /\ sims' \in [1 .. Len(s) - 1 -> Similarities]
        /\ tokens' = Count(s[1].from, s[1].to)
    BY <1>2, <1>8 DEF s
  <2>2. 1 \in 1 .. Len(s) /\ Len(s) - 1 \in Nat
    BY <1>4
  <2>3. /\ s[1].from = 1 /\ s[1].to \in Nat /\ s[1].from <= s[1].to /\ s[1].to <= Len(words)
    BY <1>3, <2>2 DEF Tiles
  <2>4. tokens' \in Nat
    <3>1. 1 \in Nat /\ s[1].to \in 1 .. Len(words)
      BY <1>4, <2>3
    <3>2. Count(1, s[1].to) \in Nat
      BY <1>1, <1>4, <2>3, <3>1, Counted
    <3> QED
      BY <2>1, <2>3, <3>2
  <2>5. Len(sims') = Len(s) - 1
    BY <2>1, <2>2
  <2>6. Open(1)'
    BY <1>2, <1>5, <2>1, Frozen DEF Open
  <2>7. Cutting'
    <3>1. /\ strategy' = "semantic" /\ words' # <<>> /\ pieces' = s /\ i' = 1 /\ j' = 1
          /\ Len(words') = Len(words)
      BY <1>1, <1>2, Frozen DEF s
    <3>2. i' \in 1 .. j' /\ j' \in 1 .. Len(s)
      BY <2>2, <3>1
    <3>3. pieces'[i'].from = 1 /\ pieces'[i'].from <= pieces'[j'].from
      BY <2>3, <3>1
    <3>4. Open(pieces[i].from)'
      BY <2>6, <3>3 DEF Open
    <3> QED
      BY <1>3, <1>4, <2>5, <3>1, <3>2, <3>3, <3>4 DEF Cutting
  <2>8. Counters'
    BY <1>1, <1>2, <2>4, Frozen DEF Counters
  <2>9. Draft(chunks')
    BY <1>1, <2>1
  <2> QED
    BY <1>1, <1>2, <1>8, <2>7, <2>8, <2>9, CInvKept
    DEF Windows, Splitting, Packing, Buffering, Lapping, Embedding, Waiting
<1> QED
  BY <1>2, <1>6, <1>7, <1>8

(* What is known of the runs of sentences. *)
LEMMA CutTypes ==
  ASSUME CInv, pc = "cut"
  PROVE  /\ Arguments /\ Counters /\ Text /\ Draft(chunks)
         /\ strategy = "semantic" /\ words # <<>>
         /\ pieces \in Seq(Spans) /\ Tiles(pieces, 1, Len(words)) /\ Len(pieces) <= Len(words)
         /\ \A n \in 1 .. Len(pieces) :
              /\ pieces[n].from \in 1 .. Len(words) /\ pieces[n].to \in 1 .. Len(words)
              /\ pieces[n].from <= pieces[n].to
         /\ Len(sims) = Len(pieces) - 1 /\ Len(pieces) \in Nat
         /\ j \in 1 .. Len(pieces) /\ i \in 1 .. j /\ i \in 1 .. Len(pieces)
         /\ pieces[i].from <= pieces[j].from /\ Open(pieces[i].from)
         /\ Len(words) \in Nat /\ tokens \in Nat
<1>1. /\ Arguments /\ Counters /\ Text /\ Draft(chunks) /\ Cutting /\ tokens \in Nat
  BY DEF CInv, Arguments, Counters
<1>2. Len(words) \in Nat
  BY <1>1, TextTypes
<1>3. Tiles(pieces, 1, Len(words)) /\ Len(pieces) \in Nat
      /\ \A n \in 1 .. Len(pieces) : pieces[n].from <= pieces[n].to
  BY <1>1 DEF Cutting, Tiles
<1>4. ASSUME NEW n \in 1 .. Len(pieces)
      PROVE  /\ pieces[n].from \in 1 .. Len(words) /\ pieces[n].to \in 1 .. Len(words)
             /\ pieces[n].from <= pieces[n].to
  <2>1. /\ pieces[n].from \in Nat /\ pieces[n].to \in Nat
        /\ pieces[n].from <= pieces[n].to /\ pieces[n].to <= Len(words)
        /\ pieces[n].from = IF n = 1 THEN 1 ELSE pieces[n - 1].to + 1
    BY <1>3 DEF Tiles
  <2>2. 1 <= pieces[n].from
    <3>1. CASE n = 1
      BY <2>1, <3>1
    <3>2. CASE n # 1
      <4>1. n - 1 \in 1 .. Len(pieces)
        BY <1>3, <3>2
      <4>2. pieces[n - 1].to \in Nat
        BY <1>3, <4>1 DEF Tiles
      <4> QED
        BY <2>1, <3>2, <4>2
    <3> QED
      BY <3>1, <3>2
  <2> QED
    BY <1>2, <2>1, <2>2
<1>5. j \in 1 .. Len(pieces) /\ i \in 1 .. j
  BY <1>1 DEF Cutting
<1>6. i \in 1 .. Len(pieces)
  BY <1>3, <1>5
<1> QED
  BY <1>1, <1>2, <1>3, <1>4, <1>5, <1>6 DEF Cutting

LEMMA ReadGapKeeps ==
  ASSUME CInv, ReadGap
  PROVE  CInv'
<1>1. pc = "cut" /\ j <= Len(sims)
  BY DEF ReadGap
<1>2. /\ Arguments /\ Counters /\ Text /\ Draft(chunks)
      /\ strategy = "semantic" /\ words # <<>>
      /\ pieces \in Seq(Spans) /\ Tiles(pieces, 1, Len(words)) /\ Len(pieces) <= Len(words)
      /\ \A n \in 1 .. Len(pieces) :
           /\ pieces[n].from \in 1 .. Len(words) /\ pieces[n].to \in 1 .. Len(words)
           /\ pieces[n].from <= pieces[n].to
      /\ Len(sims) = Len(pieces) - 1 /\ Len(pieces) \in Nat
      /\ j \in 1 .. Len(pieces) /\ i \in 1 .. j /\ i \in 1 .. Len(pieces)
      /\ pieces[i].from <= pieces[j].from /\ Open(pieces[i].from)
      /\ Len(words) \in Nat /\ tokens \in Nat
  BY <1>1, CutTypes
<1> DEFINE f == pieces[i].from
           t == pieces[j].to
           cost == SentenceCost(j + 1)
           c == AddedTo(chunks, f, t)
<1>3. /\ UNCHANGED <<input, pc, todo, pieces, sims>> /\ j' = j + 1
      /\ \/ chunks' = _assemble(f, t) /\ i' = j + 1 /\ tokens' = cost
         \/ chunks' = chunks /\ i' = i /\ tokens' = tokens + cost
  BY DEF ReadGap
<1>4. j + 1 \in 1 .. Len(pieces) /\ j + 1 # 1 /\ j + 1 - 1 = j /\ j \in Nat /\ i \in Nat
  <2>1. j \in Nat /\ i \in Nat
    BY <1>2
  <2>2. j <= Len(pieces) - 1 /\ 1 <= j
    BY <1>1, <1>2
  <2>3. Len(pieces) \in Nat
    BY <1>2
  <2> QED
    BY ONLY <2>1, <2>2, <2>3
<1>5. cost \in Nat
  <2>1. /\ pieces[j + 1].from \in 1 .. Len(words) /\ pieces[j + 1].to \in 1 .. Len(words)
    BY <1>2, <1>4
  <2>2. pieces[j + 1].from \in Nat /\ pieces[j + 1].to \in Nat
    BY <2>1
  <2>3. Count(pieces[j + 1].from, pieces[j + 1].to) \in Nat
    BY <1>2, <2>1, <2>2, Counted
  <2> QED
    BY <2>3 DEF SentenceCost
<1>6. pieces[j + 1].from = t + 1 /\ t \in Nat /\ pieces[j].from \in Nat /\ pieces[j].from <= t
  <2>1. pieces[j + 1].from = pieces[j].to + 1
    BY <1>2, <1>4 DEF Tiles
  <2> QED
    BY <1>2, <2>1
<1>7. f \in 1 .. Len(words) /\ t \in 1 .. Len(words) /\ f <= t /\ f \in Nat
      /\ LinkAt(chunks, Len(chunks) + 1, f)
  <2>1. f \in 1 .. Len(words) /\ t \in 1 .. Len(words) /\ f <= pieces[j].from
    BY <1>2
  <2>2. LinkAt(chunks, Len(chunks) + 1, f)
    BY <1>2 DEF Open
  <2>3. f <= t
    BY <1>6, <2>1
  <2> QED
    BY <2>1, <2>2, <2>3
<1>8. /\ Draft(c) /\ Len(c) = Len(chunks) + 1 /\ Len(chunks) \in Nat
      /\ c[Len(chunks) + 1].to = t
  BY <1>2, <1>7, AddDraft
<1>9. _assemble(f, t) = c
  <2>1. ~(f > t)
    BY <1>6, <1>7
  <2> QED
    BY <2>1, Assembled
<1> HIDE DEF c
<1>10. LinkAt(c, Len(c) + 1, t + 1)
  <2>1. Len(c) + 1 # 1 /\ Len(c) + 1 - 1 = Len(chunks) + 1
    BY <1>8
  <2> QED
    BY <1>2, <1>8, <2>1 DEF LinkAt
<1> HIDE DEF cost
<1>11. /\ Draft(chunks') /\ i' \in 1 .. j' /\ i' \in 1 .. Len(pieces)
       /\ LinkAt(chunks', Len(chunks') + 1, pieces[i'].from)
       /\ pieces[i'].from <= pieces[j'].from /\ tokens' \in Nat
  <2>1. CASE chunks' = _assemble(f, t) /\ i' = j + 1 /\ tokens' = cost
    <3>1. chunks' = c /\ pieces[i'].from = t + 1 /\ j' = i' /\ i' \in 1 .. j'
      BY <1>3, <1>4, <1>6, <1>9, <2>1
    <3>2. pieces[i'].from <= pieces[j'].from
      BY <1>6, <3>1
    <3> QED
      BY <1>4, <1>5, <1>8, <1>10, <2>1, <3>1, <3>2
  <2>2. CASE chunks' = chunks /\ i' = i /\ tokens' = tokens + cost
    <3>1. i' \in 1 .. j' /\ tokens' \in Nat
      BY <1>2, <1>3, <1>4, <1>5, <2>2
    <3>2. pieces[i].from <= pieces[j + 1].from
      BY <1>6, <1>7
    <3> QED
      BY <1>2, <1>3, <1>7, <2>2, <3>1, <3>2
  <2> QED
    BY <1>3, <2>1, <2>2
<1>12. Cutting'
  <2>1. /\ strategy' = "semantic" /\ words' # <<>> /\ pieces' = pieces /\ sims' = sims
        /\ Len(words') = Len(words) /\ j' \in 1 .. Len(pieces)
    BY <1>2, <1>3, <1>4, Frozen
  <2>2. Open(pieces[i].from)'
    BY <1>3, <1>11, <2>1, Frozen DEF Open
  <2> QED
    BY <1>2, <1>11, <2>1, <2>2 DEF Cutting
<1>13. Counters'
  <2>1. j' \in 1 .. Len(words) + 1 /\ i' \in 0 .. Len(words) + 1
    <3>1. /\ Len(pieces) \in Nat /\ Len(words) \in Nat /\ Len(pieces) <= Len(words)
          /\ j' \in 1 .. Len(pieces) /\ i' \in 1 .. Len(pieces)
      BY <1>2, <1>3, <1>4, <1>11
    <3> QED
      BY ONLY <3>1
  <2> QED
    BY <1>3, <1>11, <2>1, Frozen DEF Counters
<1> QED
  BY <1>1, <1>2, <1>3, <1>11, <1>12, <1>13, CInvKept
  DEF Windows, Splitting, Packing, Buffering, Lapping, Embedding, Waiting

LEMMA GapsDoneKeeps ==
  ASSUME CInv, GapsDone
  PROVE  CInv'
<1>1. pc = "cut" /\ j > Len(sims)
  BY DEF GapsDone
<1>2. /\ Arguments /\ Counters /\ Text /\ Draft(chunks)
      /\ strategy = "semantic" /\ words # <<>>
      /\ \A n \in 1 .. Len(pieces) :
           /\ pieces[n].from \in 1 .. Len(words) /\ pieces[n].to \in 1 .. Len(words)
           /\ pieces[n].from <= pieces[n].to
      /\ j \in 1 .. Len(pieces) /\ i \in 1 .. Len(pieces)
      /\ Open(pieces[i].from)
      /\ Len(words) \in Nat
  BY <1>1, CutTypes
<1> DEFINE f == pieces[i].from
           c == AddedTo(chunks, f, Len(words))
<1>3. /\ UNCHANGED <<input, i, j, tokens>> /\ pc' = "done"
      /\ chunks' = _assemble(f, Len(words))
  BY DEF GapsDone
<1>4. f \in 1 .. Len(words) /\ LinkAt(chunks, Len(chunks) + 1, f)
  BY <1>2 DEF Open
<1>5. f <= Len(words) /\ ~(f > Len(words)) /\ Len(words) \in 1 .. Len(words)
  <2>1. f \in 1 .. Len(words) /\ Len(words) \in Nat
    BY <1>2, <1>4
  <2> HIDE DEF f
  <2> QED
    BY ONLY <2>1
<1>6. /\ Draft(c) /\ Len(c) = Len(chunks) + 1 /\ Len(chunks) \in Nat
      /\ c[Len(chunks) + 1].to = Len(words) /\ c # <<>>
  BY <1>2, <1>4, <1>5, AddDraft
<1>7. chunks' = c
  BY <1>3, <1>5, Assembled
<1> HIDE DEF c
<1>8. Good(c) /\ Ended(c)
  BY <1>2, <1>6, DraftGood DEF Ended
<1>9. Counters'
  BY <1>2, <1>3, Frozen DEF Counters
<1> QED
  BY <1>2, <1>3, <1>7, <1>8, <1>9, Finished

-----------------------------------------------------------------------------
LEMMA ChunkingKeeps ==
  ASSUME CInv, ChunkNext
  PROVE  CInv'
BY FitEstimateKeeps, FitVerifiedKeeps, EmitWindowKeeps, KeepRangeKeeps, SplitRangeKeeps,
   SplitDoneKeeps, PackPieceKeeps, PackDoneKeeps, PackAtomicKeeps, PackBlockKeeps,
   PackBlocksDoneKeeps, ApplyOverlapKeeps, EmbedSentencesKeeps, ReadGapKeeps, GapsDoneKeeps
   DEF ChunkNext

-----------------------------------------------------------------------------
(* No line is lost in the splitter *)

(* Line n is in a block. *)
Held(fl, n) == \E b \in 1 .. Len(fl) : fl[b].first <= n /\ n <= fl[b].last

(* Lines with content are in a block, but a header, which every block has. *)
NoLineLost ==
  /\ \A n \in DOMAIN lines : ~Blank(n) /\ n < Start => Held(flow, n) \/ (header /\ n = 1)
  /\ header => extension \in Tables /\ \A b \in DOMAIN flow : flow[b].header

(* A line is held by two lists of blocks when it is by one. *)
LEMMA HeldConcat ==
  ASSUME NEW X, NEW a \in Seq(X), NEW b \in Seq(X), NEW n
  PROVE  Held(a, n) \/ Held(b, n) => Held(a \o b, n)
<1>1. /\ Len(a) \in Nat /\ Len(b) \in Nat /\ Len(a \o b) = Len(a) + Len(b)
      /\ \A k \in 1 .. Len(a) + Len(b) :
           (a \o b)[k] = IF k <= Len(a) THEN a[k] ELSE b[k - Len(a)]
  BY ConcatProperties, LenProperties
<1> DEFINE c == a \o b
<1> HIDE DEF c
<1>2. ASSUME Held(a, n)
      PROVE  Held(c, n)
  <2>1. PICK k \in 1 .. Len(a) : a[k].first <= n /\ n <= a[k].last
    BY <1>2 DEF Held
  <2>2. k \in 1 .. Len(c) /\ c[k] = a[k]
    BY <1>1, <2>1 DEF c
  <2> QED
    BY <2>1, <2>2 DEF Held
<1>3. ASSUME Held(b, n)
      PROVE  Held(c, n)
  <2>1. PICK k \in 1 .. Len(b) : b[k].first <= n /\ n <= b[k].last
    BY <1>3 DEF Held
  <2> DEFINE m == Len(a) + k
  <2>2. m \in 1 .. Len(a) + Len(b) /\ ~(m <= Len(a)) /\ m - Len(a) = k
    BY <1>1, <2>1
  <2>3. m \in 1 .. Len(c) /\ c[m] = b[k]
    BY <1>1, <2>2 DEF c
  <2> QED
    BY <2>1, <2>3 DEF Held
<1> QED
  BY <1>2, <1>3 DEF c

(* _emit holds the lines with content that it is given. *)
LEMMA EmitHolds ==
  ASSUME NEW f \in Nat, NEW l \in Nat, NEW kind \in FlowKinds, NEW st \in Seq(Nat)
  PROVE  /\ _emit(kind, f, l, st) \in Seq(FlowBlocks)
         /\ \A n \in f .. l : ~Blank(n) => Held(_emit(kind, f, l, st), n)
<1> DEFINE C == {k \in f .. l : ~Blank(k)}
           x == [kind |-> kind, first |-> Min(C), last |-> Max(C), section |-> st, header |-> FALSE]
<1>1. _emit(kind, f, l, st) = IF C = {} THEN <<>> ELSE <<x>>
  BY DEF _emit
<1>2. CASE C = {}
  <2>1. \A n \in f .. l : Blank(n)
    BY <1>2
  <2>2. <<>> \in Seq(FlowBlocks)
    BY EmptySeq
  <2> QED
    BY <1>1, <1>2, <2>1, <2>2
<1>3. CASE C # {}
  <2>1. C \in SUBSET Nat /\ C \in SUBSET (0 .. l)
    <3>1. f .. l \subseteq Nat /\ f .. l \subseteq 0 .. l
      OBVIOUS
    <3> QED
      BY <3>1
  <2>2. Min(C) \in C /\ \A m \in C : Min(C) <= m
    BY <1>3, <2>1, LeastIn
  <2>3. Max(C) \in C /\ \A m \in C : m <= Max(C)
    BY <1>3, <2>1, GreatestIn
  <2>4. x \in FlowBlocks
    BY <2>1, <2>2, <2>3 DEF FlowBlocks
  <2>5. <<x>> \in Seq(FlowBlocks) /\ Len(<<x>>) = 1 /\ <<x>>[1] = x
    BY <2>4
  <2>6. \A n \in f .. l : ~Blank(n) => x.first <= n /\ n <= x.last
    BY <2>2, <2>3
  <2>7. \A n \in f .. l : ~Blank(n) => Held(<<x>>, n)
    BY <2>5, <2>6 DEF Held
  <2> QED
    BY <1>1, <1>3, <2>5, <2>7
<1> QED
  BY <1>2, <1>3

(* What is known of the splitter. *)
LEMMA FlowFacts ==
  ASSUME FlowInv
  PROVE  /\ flow \in Seq(FlowBlocks) /\ lines \in Seq(Lines)
         /\ Len(lines) \in Nat /\ DOMAIN lines = 1 .. Len(lines)
         /\ \A n \in DOMAIN lines : lines[n].kind \in LineKinds
         /\ at \in Nat /\ pending \in Nat /\ Start \in Nat
         /\ stack \in Seq(Nat)
         /\ pending # 0 => pending \in DOMAIN lines /\ pending < at
         /\ header \in BOOLEAN
<1>1. Reached /\ flow \in Seq(FlowBlocks)
  BY DEF FlowInv, Laid, Before
<1>2. pending # 0 => pending \in DOMAIN lines /\ pending < at
  BY <1>1, FlowTypes DEF Reached
<1> QED
  BY <1>1, <1>2, FlowTypes DEF Reached

(* What is pending is held when it is flushed. *)
LEMMA PendingHolds ==
  ASSUME FlowInv, extension \in Markdown
  PROVE  /\ Pending \in Seq(FlowBlocks) /\ flow \o Pending \in Seq(FlowBlocks)
         /\ \A n \in DOMAIN lines : ~Blank(n) /\ n < at /\ (n < Start => Held(flow, n)) =>
              Held(flow \o Pending, n)
<1>1. /\ flow \in Seq(FlowBlocks) /\ DOMAIN lines = 1 .. Len(lines) /\ Len(lines) \in Nat
      /\ at \in Nat /\ pending \in Nat /\ Start \in Nat /\ stack \in Seq(Nat)
      /\ pending # 0 => pending \in DOMAIN lines /\ pending < at /\ lines[pending].kind \in FlowKinds
  <2>1. pending # 0 => lines[pending].kind \in FlowKinds
    BY DEF FlowInv, OneKind, FlowKinds
  <2> QED
    BY <2>1, FlowFacts
<1>2. CASE pending = 0
  <2>1. Pending = <<>> /\ Start = at
    BY <1>2 DEF Pending, Start
  <2>2. Pending \in Seq(FlowBlocks)
    BY <2>1, EmptySeq
  <2> QED
    BY <1>1, <2>1, <2>2, ConcatProperties, HeldConcat
<1>3. CASE pending # 0
  <2>1. Pending = _emit(lines[pending].kind, pending, at - 1, stack) /\ Start = pending
    BY <1>3 DEF Pending, Start
  <2>2. at - 1 \in Nat
    BY <1>1, <1>3
  <2>3. /\ Pending \in Seq(FlowBlocks)
        /\ \A n \in pending .. at - 1 : ~Blank(n) => Held(Pending, n)
    BY <1>1, <1>3, <2>1, <2>2, EmitHolds
  <2>4. flow \o Pending \in Seq(FlowBlocks)
    BY <1>1, <2>3, ConcatProperties
  <2>5. ASSUME NEW n \in DOMAIN lines, ~Blank(n), n < at, n < Start => Held(flow, n)
        PROVE  Held(flow \o Pending, n)
    <3>1. n < pending \/ n \in pending .. at - 1
      <4>1. n \in Nat /\ at \in Nat /\ pending \in Nat /\ n < at
        BY <1>1, <2>5
      <4> QED
        BY ONLY <4>1
    <3>2. Held(flow, n) \/ Held(Pending, n)
      BY <2>1, <2>3, <2>5, <3>1
    <3> QED
      BY <1>1, <2>3, <3>2, HeldConcat
  <2> QED
    BY <2>3, <2>4, <2>5
<1> QED
  BY <1>2, <1>3

(* Every read of a text leaves flow, and then what it reads, which is held. *)
LEMMA LaterKept ==
  ASSUME FlowInv, NoLineLost, NEW more, more \in Seq(FlowBlocks), flow' = (flow \o Pending) \o more,
         UNCHANGED <<extension, lines, header>>, extension \in Markdown,
         \A n \in DOMAIN lines : ~Blank(n) /\ n < Start' /\ ~(n < at) => Held(more, n)
  PROVE  NoLineLost'
<1>1. ~header
  BY DEF NoLineLost, Markdown, Tables
<1>2. /\ Pending \in Seq(FlowBlocks) /\ flow \o Pending \in Seq(FlowBlocks)
      /\ \A n \in DOMAIN lines : ~Blank(n) /\ n < at /\ (n < Start => Held(flow, n)) =>
           Held(flow \o Pending, n)
  BY PendingHolds
<1>3. ASSUME NEW n \in DOMAIN lines, ~Blank(n), n < Start'
      PROVE  Held(flow', n)
  <2>1. CASE n < at
    <3>1. n < Start => Held(flow, n)
      BY <1>1, <1>3 DEF NoLineLost
    <3>2. Held(flow \o Pending, n)
      BY <1>2, <1>3, <2>1, <3>1
    <3> QED
      BY <1>2, <3>2, HeldConcat
  <2>2. CASE ~(n < at)
    <3>1. Held(more, n)
      BY <1>3, <2>2
    <3> QED
      BY <1>2, <3>1, HeldConcat
  <2> QED
    BY <2>1, <2>2
<1> QED
  BY <1>1, <1>3 DEF NoLineLost, Blank

LEMMA FenceKept ==
  ASSUME FlowInv, NoLineLost, read_fence
  PROVE  NoLineLost'
<1> DEFINE closing == {n \in at + 1 .. Len(lines) : SameFence(n, at)}
           close == Min(closing \cup {Len(lines)})
           more == _emit("paragraph", at, close, stack)
<1>1. /\ extension \in Markdown /\ flow' = (flow \o Pending) \o more /\ at' = close + 1
      /\ pending' = 0 /\ UNCHANGED <<extension, lines, header>>
  BY DEF read_fence, Reading
<1>2. at \in Nat /\ Len(lines) \in Nat /\ stack \in Seq(Nat)
  BY FlowFacts
<1>3. close \in Nat
  <2>1. closing \cup {Len(lines)} \in SUBSET Nat
    BY <1>2
  <2> HIDE DEF closing
  <2> QED
    BY <2>1, LeastIn
<1> HIDE DEF close
<1>4. /\ more \in Seq(FlowBlocks)
      /\ \A n \in at .. close : ~Blank(n) => Held(more, n)
  <2>1. "paragraph" \in FlowKinds
    BY DEF FlowKinds
  <2> QED
    BY <1>2, <1>3, <2>1, EmitHolds
<1> HIDE DEF more
<1>5. Start' = close + 1
  BY <1>1 DEF Start
<1>6. \A n \in DOMAIN lines : n < Start' /\ ~(n < at) => n \in at .. close
  <2>1. \A n \in DOMAIN lines : n \in Nat
    BY FlowFacts
  <2> QED
    BY ONLY <1>2, <1>3, <1>5, <2>1
<1> QED
  BY <1>1, <1>4, <1>6, LaterKept

LEMMA HeadingKept ==
  ASSUME FlowInv, NoLineLost, read_heading
  PROVE  NoLineLost'
<1> DEFINE more == _emit("heading", at, at, stack')
<1>1. /\ extension \in Markdown /\ flow' = (flow \o Pending) \o more /\ at' = at + 1
      /\ pending' = 0 /\ UNCHANGED <<extension, lines, header>>
  BY DEF read_heading, Reading
<1>2. at \in Nat /\ stack' \in Seq(Nat)
  <2>1. FlowInv'
    BY ReadHeading
  <2>2. stack' \in Seq(Nat)
    BY <2>1 DEF FlowInv, Reached
  <2> QED
    BY <2>2, FlowFacts
<1>3. /\ more \in Seq(FlowBlocks)
      /\ \A n \in at .. at : ~Blank(n) => Held(more, n)
  <2>1. "heading" \in FlowKinds
    BY DEF FlowKinds
  <2> QED
    BY <1>2, <2>1, EmitHolds
<1> HIDE DEF more
<1>4. Start' = at + 1
  BY <1>1 DEF Start
<1>5. \A n \in DOMAIN lines : n < Start' /\ ~(n < at) => n \in at .. at
  <2>1. \A n \in DOMAIN lines : n \in Nat
    BY FlowFacts
  <2> QED
    BY ONLY <1>2, <1>4, <2>1
<1> QED
  BY <1>1, <1>3, <1>5, LaterKept

(* What was pending is flushed, and no other line is passed but a blank one. *)
LEMMA FlushedKept ==
  ASSUME FlowInv, NoLineLost, extension \in Markdown, flow' = flow \o Pending,
         UNCHANGED <<extension, lines, header>>,
         \A n \in DOMAIN lines : ~Blank(n) /\ n < Start' => n < at
  PROVE  NoLineLost'
<1>1. flow \o Pending \in Seq(FlowBlocks)
  BY PendingHolds
<1>2. flow' = (flow \o Pending) \o <<>> /\ <<>> \in Seq(FlowBlocks)
  BY <1>1, ConcatEmptySeq, EmptySeq
<1> QED
  BY <1>2, LaterKept

LEMMA BlankKept ==
  ASSUME FlowInv, NoLineLost, read_blank
  PROVE  NoLineLost'
<1>1. /\ extension \in Markdown /\ flow' = flow \o Pending /\ Blank(at) /\ Start' = at + 1
      /\ UNCHANGED <<extension, lines, header>>
  BY DEF read_blank, Reading, Start
<1>2. \A n \in DOMAIN lines : n \in Nat /\ at \in Nat
  BY FlowFacts
<1>3. \A n \in DOMAIN lines : n < Start' => n < at \/ n = at
  BY ONLY <1>1, <1>2
<1> QED
  BY <1>1, <1>3, FlushedKept

LEMMA LastKept ==
  ASSUME FlowInv, NoLineLost, flush_last
  PROVE  NoLineLost'
<1>1. /\ extension \in Markdown /\ flow' = flow \o Pending /\ Start' = at
      /\ UNCHANGED <<extension, lines, header>>
  BY DEF flush_last, Start
<1> QED
  BY <1>1, FlushedKept

LEMMA TextKept ==
  ASSUME FlowInv, NoLineLost, read_text
  PROVE  NoLineLost'
<1>1. /\ extension \in Markdown /\ UNCHANGED <<extension, lines, header>>
      /\ lines[at].kind \in {"paragraph", "list", "table"}
  BY DEF read_text, Reading
<1>2. CASE pending # 0 /\ lines[pending].kind = lines[at].kind
  <2>1. UNCHANGED <<pending, flow>>
    BY <1>2 DEF read_text
  <2>2. Start' = Start
    BY <1>2, <2>1 DEF Start
  <2> QED
    BY <1>1, <2>1, <2>2 DEF NoLineLost, Blank
<1>3. CASE ~(pending # 0 /\ lines[pending].kind = lines[at].kind)
  <2>1. pending' = at /\ flow' = flow \o Pending
    BY <1>3 DEF read_text
  <2>2. at # 0
    BY <1>1 DEF FlowInv, Reached, Markdown, Tables
  <2>3. Start' = at
    BY <2>1, <2>2 DEF Start
  <2> QED
    BY <1>1, <2>1, <2>3, FlushedKept
<1> QED
  BY <1>2, <1>3

LEMMA HeaderKept ==
  ASSUME FlowInv, NoLineLost, read_header
  PROVE  NoLineLost'
<1>1. /\ extension \in Tables /\ at = 0 /\ UNCHANGED <<extension, lines, pending, flow>>
      /\ (header' = TRUE /\ at' = 2) \/ (header' = FALSE /\ at' = 1)
  BY DEF read_header, Reading
<1>2. pending = 0
  <2>1. /\ at \in Nat /\ pending \in Nat
        /\ pending # 0 => pending \in DOMAIN lines /\ pending < at
    BY FlowFacts
  <2> QED
    BY ONLY <1>1, <2>1
<1>3. DOMAIN flow = {}
  <2>1. Before(flow, at)
    BY <1>2 DEF FlowInv, Laid, Start
  <2>2. ASSUME NEW b \in DOMAIN flow
        PROVE  FALSE
    <3>1. flow[b].first \in DOMAIN lines /\ flow[b].last \in flow[b].first .. Len(lines) /\ flow[b].last < 0
      BY <1>1, <2>1 DEF Before
    <3>2. DOMAIN lines = 1 .. Len(lines) /\ Len(lines) \in Nat
      BY FlowFacts
    <3> QED
      BY ONLY <3>1, <3>2
  <2> QED
    BY <2>2
<1>4. Start' = at'
  BY <1>1, <1>2 DEF Start
<1>5. ASSUME NEW n \in DOMAIN lines, n < Start'
      PROVE  header' /\ n = 1
  <2>1. n \in 1 .. Len(lines) /\ Len(lines) \in Nat
    BY FlowFacts
  <2> QED
    BY ONLY <1>1, <1>4, <1>5, <2>1
<1> QED
  BY <1>1, <1>3, <1>5 DEF NoLineLost

(* A group takes in the rows from its first on. *)
LEMMA GroupHolds ==
  ASSUME FlowInv, NEW n \in DOMAIN lines, ~Blank(n), NEW m \in n .. Len(lines)
  PROVE  /\ Group(n, m) \in Seq(FlowBlocks) /\ Len(Group(n, m)) = 1 /\ Group(n, m)[1].header = header
         /\ \A k \in n .. m : ~Blank(k) => Held(Group(n, m), k)
<1> DEFINE last == Max(Content(n, m))
           x == [kind |-> "table", first |-> n, section |-> <<>>, header |-> header, last |-> last]
<1>1. Group(n, m) = <<x>>
  BY DEF Group, Content
<1>2. lines \in Seq(Lines) /\ header \in BOOLEAN
  BY FlowFacts
<1>3. /\ n \in Nat /\ m \in Nat /\ last \in n .. m
      /\ \A k \in Content(n, m) : k <= last
  <2>1. n \in Nat /\ m \in Nat
    BY FlowFacts
  <2>2. last \in Content(n, m) /\ \A k \in Content(n, m) : k <= last
    BY <1>2, ContentEnds
  <2> QED
    BY <2>1, <2>2 DEF Content
<1>4. \E y \in FlowBlocks : Group(n, m) = <<y>>
  BY <1>2, GroupFrom
<1>5. <<x>> \in Seq(FlowBlocks) /\ Len(<<x>>) = 1 /\ <<x>>[1] = x
  BY <1>1, <1>4
<1>6. x.first = n /\ x.last = last /\ x.header = header
  OBVIOUS
<1> HIDE DEF x, last
<1>7. \A k \in n .. m : ~Blank(k) => Held(<<x>>, k)
  <2> SUFFICES ASSUME NEW k \in n .. m, ~Blank(k)
               PROVE  Held(<<x>>, k)
    OBVIOUS
  <2>1. k <= last
    BY <1>3 DEF Content
  <2>2. <<x>>[1].first <= k /\ k <= <<x>>[1].last
    BY <1>3, <1>5, <1>6, <2>1
  <2> QED
    BY <1>5, <2>2 DEF Held
<1> QED
  BY <1>1, <1>5, <1>6, <1>7

(* A group is put behind the others, and the lines that are passed are in it. *)
LEMMA GroupKept ==
  ASSUME FlowInv, NoLineLost, extension \in Tables, NEW n \in DOMAIN lines, ~Blank(n), n = Start,
         NEW m \in n .. Len(lines), flow' = flow \o Group(n, m),
         UNCHANGED <<extension, lines, header>>,
         \A k \in DOMAIN lines : ~Blank(k) /\ k < Start' => k <= m
  PROVE  NoLineLost'
<1> DEFINE g == Group(n, m)
<1>1. /\ g \in Seq(FlowBlocks) /\ Len(g) = 1 /\ g[1].header = header
      /\ \A k \in n .. m : ~Blank(k) => Held(g, k)
  BY GroupHolds
<1> HIDE DEF g
<1>2. /\ flow \in Seq(FlowBlocks) /\ Len(flow) \in Nat /\ DOMAIN flow = 1 .. Len(flow)
      /\ \A k \in DOMAIN lines : k \in Nat
      /\ n \in Nat /\ m \in Nat
  BY FlowFacts, LenProperties
<1>3. ASSUME NEW k \in DOMAIN lines, ~Blank(k), k < Start'
      PROVE  Held(flow', k) \/ (header /\ k = 1)
  <2>1. CASE k < Start
    <3>1. Held(flow, k) \/ (header /\ k = 1)
      BY <1>3, <2>1 DEF NoLineLost
    <3> QED
      BY <1>1, <1>2, <3>1, HeldConcat DEF g
  <2>2. CASE ~(k < Start)
    <3>1. k <= m
      BY <1>3
    <3>2. k \in n .. m
      BY <1>2, <2>2, <3>1
    <3>3. Held(g, k)
      BY <1>1, <1>3, <3>2
    <3> QED
      BY <1>1, <1>2, <3>3, HeldConcat DEF g
  <2> QED
    BY <2>1, <2>2
<1>4. ASSUME header, NEW b \in DOMAIN flow'
      PROVE  flow'[b].header
  <2>1. /\ DOMAIN flow' = 1 .. Len(flow) + 1
        /\ flow'[b] = IF b <= Len(flow) THEN flow[b] ELSE g[b - Len(flow)]
    <3>1. /\ flow \o g \in Seq(FlowBlocks) /\ Len(flow \o g) = Len(flow) + 1
          /\ \A k \in 1 .. Len(flow) + 1 :
               (flow \o g)[k] = IF k <= Len(flow) THEN flow[k] ELSE g[k - Len(flow)]
      <4>1. /\ flow \o g \in Seq(FlowBlocks) /\ Len(flow \o g) = Len(flow) + Len(g)
            /\ \A k \in 1 .. Len(flow) + Len(g) :
                 (flow \o g)[k] = IF k <= Len(flow) THEN flow[k] ELSE g[k - Len(flow)]
        BY <1>1, <1>2, ConcatProperties
      <4> QED
        BY <1>1, <4>1
    <3>2. DOMAIN (flow \o g) = 1 .. Len(flow) + 1
      BY <3>1, LenProperties
    <3>3. flow' = flow \o g
      BY DEF g
    <3> QED
      BY <3>1, <3>2, <3>3
  <2>2. CASE b <= Len(flow)
    <3>1. b \in DOMAIN flow
      BY <1>2, <2>1, <2>2
    <3> QED
      BY <1>4, <2>1, <2>2, <3>1 DEF NoLineLost
  <2>3. CASE ~(b <= Len(flow))
    <3>1. b - Len(flow) = 1
      BY <1>2, <2>1, <2>3
    <3> QED
      BY <1>1, <1>4, <2>1, <2>3, <3>1
  <2> QED
    BY <2>2, <2>3
<1> QED
  BY <1>3, <1>4 DEF NoLineLost, Blank

LEMMA RowKept ==
  ASSUME FlowInv, NoLineLost, read_row
  PROVE  NoLineLost'
<1>1. /\ extension \in Tables /\ at > 0 /\ at <= Len(lines) /\ at' = at + 1
      /\ UNCHANGED <<extension, lines, stack, header>>
  BY DEF read_row, Reading
<1>2. /\ at \in Nat /\ Len(lines) \in Nat /\ DOMAIN lines = 1 .. Len(lines) /\ Start \in Nat
  BY FlowFacts
<1>3. at \in DOMAIN lines /\ at # 0
  BY ONLY <1>1, <1>2
<1>4. \A k \in DOMAIN lines : k < at + 1 => k <= at
  BY ONLY <1>2
<1>5. CASE Blank(at)
  <2>1. UNCHANGED <<pending, flow>>
    BY <1>5 DEF read_row
  <2>2. \A k \in DOMAIN lines : ~Blank(k) /\ k < Start' => k < Start
    <3>1. Start' = IF pending = 0 THEN at + 1 ELSE Start
      BY <1>1, <2>1 DEF Start
    <3>2. pending = 0 => Start = at
      BY DEF Start
    <3>3. \A k \in DOMAIN lines : k < at + 1 => k < at \/ k = at
      BY ONLY <1>2
    <3> QED
      BY <1>5, <3>1, <3>2, <3>3
  <2> QED
    BY <1>1, <2>1, <2>2 DEF NoLineLost, Blank
<1>6. CASE ~Blank(at)
  <2>1. Start \in 1 .. at /\ ~Blank(Start)
    BY <1>1, <1>3, <1>6, RowAdded DEF FlowInv
  <2>2. IF rows + 1 >= rows_per_block
          THEN flow' = flow \o Group(Start, at) /\ pending' = 0
          ELSE pending' = Start /\ UNCHANGED flow
    BY <1>6 DEF read_row, Start
  <2>3. CASE rows + 1 >= rows_per_block
    <3>1. flow' = flow \o Group(Start, at) /\ Start' = at + 1
      BY <1>1, <2>2, <2>3 DEF Start
    <3>2. Start \in DOMAIN lines /\ at \in Start .. Len(lines)
      BY ONLY <1>1, <1>2, <2>1
    <3> QED
      BY <1>1, <1>4, <2>1, <3>1, <3>2, GroupKept
  <2>4. CASE ~(rows + 1 >= rows_per_block)
    <3>1. Start # 0
      BY ONLY <1>2, <2>1
    <3>2. Start' = Start /\ flow' = flow
      BY <2>2, <2>4, <3>1 DEF Start
    <3> QED
      BY <1>1, <3>2 DEF NoLineLost, Blank
  <2> QED
    BY <2>3, <2>4
<1> QED
  BY <1>5, <1>6

LEMMA GroupFlushKept ==
  ASSUME FlowInv, NoLineLost, flush_group
  PROVE  NoLineLost'
<1>1. /\ extension \in Tables /\ pending # 0 /\ flow' = flow \o Group(pending, Len(lines))
      /\ UNCHANGED <<extension, lines, header>>
  BY DEF flush_group
<1>2. pending \in DOMAIN lines /\ DOMAIN lines = 1 .. Len(lines) /\ Len(lines) \in Nat
  BY <1>1, FlowFacts
<1>3. pending = Start /\ ~Blank(pending)
  BY <1>1 DEF Start, FlowInv, Reached
<1>4. Len(lines) \in pending .. Len(lines)
  BY ONLY <1>2
<1>5. \A k \in DOMAIN lines : k <= Len(lines)
  BY ONLY <1>2
<1> QED
  BY <1>1, <1>2, <1>3, <1>4, <1>5, GroupKept

LEMMA ParagraphKept ==
  ASSUME FlowInv, NoLineLost, read_paragraph
  PROVE  NoLineLost'
<1> DEFINE blanks == {n \in at .. Len(lines) : Blank(n)}
           stop == Min(blanks \cup {Len(lines) + 1})
           more == _emit("paragraph", at, stop - 1, <<>>)
<1>1. /\ extension \notin Markdown \cup Tables /\ at <= Len(lines)
      /\ flow' = flow \o more /\ at' = stop + 1
      /\ UNCHANGED <<extension, lines, pending, header>>
  BY DEF read_paragraph
<1>2. /\ at \in Nat /\ Len(lines) \in Nat /\ DOMAIN lines = 1 .. Len(lines) /\ at # 0 /\ pending = 0
      /\ flow \in Seq(FlowBlocks)
  <2>1. at # 0 /\ pending = 0
    BY <1>1 DEF FlowInv, Reached
  <2> QED
    BY <2>1, FlowFacts
<1>3. stop \in Nat /\ at <= stop /\ (stop <= Len(lines) => Blank(stop))
  <2>1. blanks \in SUBSET Nat /\ \A n \in blanks : at <= n /\ Blank(n)
    BY <1>2
  <2> HIDE DEF blanks
  <2>2. Len(lines) + 1 \in Nat
    BY ONLY <1>2
  <2>3. blanks \cup {Len(lines) + 1} \in SUBSET Nat
    BY ONLY <2>1, <2>2
  <2>4. stop \in blanks \cup {Len(lines) + 1}
    BY ONLY <2>3, LeastIn DEF stop
  <2> HIDE DEF stop
  <2>5. CASE stop \in blanks
    BY <2>1, <2>5
  <2>6. CASE stop = Len(lines) + 1
    BY ONLY <1>1, <1>2, <2>6
  <2> QED
    BY <2>4, <2>5, <2>6
<1> HIDE DEF stop
<1>4. /\ more \in Seq(FlowBlocks)
      /\ \A n \in at .. stop - 1 : ~Blank(n) => Held(more, n)
  <2>1. stop - 1 \in Nat
    BY ONLY <1>2, <1>3
  <2>2. "paragraph" \in FlowKinds /\ <<>> \in Seq(Nat)
    BY EmptySeq DEF FlowKinds
  <2> QED
    BY ONLY <1>2, <2>1, <2>2, EmitHolds DEF more
<1> HIDE DEF more
<1>5. Start = at /\ Start' = stop + 1
  BY <1>1, <1>2 DEF Start
<1>6. ~header
  BY <1>1 DEF NoLineLost
<1>7. ASSUME NEW n \in DOMAIN lines, ~Blank(n), n < Start'
      PROVE  Held(flow', n)
  <2>1. n < at \/ n \in at .. stop - 1 \/ (n = stop /\ stop <= Len(lines))
    BY ONLY <1>2, <1>3, <1>5, <1>7
  <2>2. CASE n < at
    <3>1. Held(flow, n)
      BY <1>5, <1>6, <1>7, <2>2 DEF NoLineLost
    <3> QED
      BY <1>1, <1>2, <1>4, <3>1, HeldConcat
  <2>3. CASE n \in at .. stop - 1
    <3>1. Held(more, n)
      BY <1>4, <1>7, <2>3
    <3> QED
      BY <1>1, <1>2, <1>4, <3>1, HeldConcat
  <2>4. CASE n = stop /\ stop <= Len(lines)
    BY <1>3, <1>7, <2>4
  <2> QED
    BY <2>1, <2>2, <2>3, <2>4
<1> QED
  BY <1>1, <1>6, <1>7 DEF NoLineLost, Blank

LEMMA FlowKeeps ==
  ASSUME FlowInv, NoLineLost, FlowNext
  PROVE  NoLineLost'
BY FenceKept, HeadingKept, BlankKept, TextKept, LastKept, HeaderKept, RowKept, GroupFlushKept,
   ParagraphKept DEF FlowNext

LEMMA FlowKeepsStill ==
  ASSUME NoLineLost, UNCHANGED fvars
  PROVE  NoLineLost'
BY DEF NoLineLost, fvars, Start, Blank, Held

LEMMA FlowKeepsFirst == FlowInit => NoLineLost
<1> SUFFICES ASSUME FlowInit
             PROVE  NoLineLost
  OBVIOUS
<1>1. FlowInv
  BY InitFlowInv
<1>2. ~header /\ Start = at /\ at \in {0, 1}
  BY DEF FlowInit, Start
<1>3. \A n \in DOMAIN lines : ~(n < Start)
  <2>1. DOMAIN lines = 1 .. Len(lines) /\ Len(lines) \in Nat
    BY <1>1, FlowFacts
  <2> QED
    BY ONLY <1>2, <2>1
<1> QED
  BY <1>2, <1>3 DEF NoLineLost

-----------------------------------------------------------------------------
(* Where a chunker begins *)

Begun ==
  /\ Arguments
  /\ i = StartOf(strategy) /\ j = 1 /\ tokens = 0
  /\ todo = RangesOf(strategy, Len(words)) /\ pieces = <<>> /\ sims = <<>> /\ chunks = <<>>
  /\ pc = IF words = <<>> THEN "done" ELSE FirstStep[strategy]

(* A chunker that begins satisfies the invariant. *)
LEMMA BegunInv == Begun => CInv
<1> SUFFICES ASSUME Begun
             PROVE  CInv
  OBVIOUS
<1>1. Arguments /\ Text /\ strategy \in Strategies
  BY DEF Begun, Arguments
<1>2. Len(words) \in Nat /\ (words # <<>> => Len(words) # 0)
  <2>1. words \in Seq(Word)
    BY <1>1 DEF Text, TextOf
  <2> QED
    BY <2>1, EmptySeq, LenProperties
<1>3. Draft(chunks) /\ Len(chunks) = 0
  BY NoneDraft DEF Begun
<1>4. Good(chunks)
  BY <1>1, <1>3, DraftGood
<1>5. Counters
  BY <1>2 DEF Begun, Counters, StartOf
<1>6. Open(1)
  BY <1>3 DEF Open, LinkAt
<1>7. /\ pc = "done" => words = <<>>
      /\ pc = "grow" => strategy = "fixed" /\ words # <<>>
      /\ pc = "split" => strategy = "recursive" /\ words # <<>>
      /\ pc = "pack blocks" => strategy = "layout" /\ words # <<>>
      /\ pc = "embed" => strategy = "semantic" /\ words # <<>>
      /\ pc \in {"done", "grow", "split", "pack blocks", "embed"}
  <2>1. /\ FirstStep["fixed"] = "grow" /\ FirstStep["recursive"] = "split"
        /\ FirstStep["layout"] = "pack blocks" /\ FirstStep["semantic"] = "embed"
    BY DEF FirstStep
  <2>2. strategy = "fixed" \/ strategy = "recursive" \/ strategy = "layout" \/ strategy = "semantic"
    BY <1>1 DEF Strategies
  <2>3. pc = IF words = <<>> THEN "done" ELSE FirstStep[strategy]
    BY DEF Begun
  <2> QED
    BY <2>1, <2>2, <2>3
<1>8. Windows
  <2> SUFFICES ASSUME pc = "grow"
               PROVE  Windows
    BY <1>7 DEF Windows
  <2>1. strategy = "fixed" /\ i = 1 /\ Len(words) # 0
    BY <1>2, <1>7 DEF Begun, StartOf
  <2>2. 1 \in 1 .. Len(words)
    BY ONLY <1>2, <2>1
  <2> QED
    BY <1>6, <2>1, <2>2 DEF Windows
<1>9. Splitting
  <2> SUFFICES ASSUME pc = "split"
               PROVE  Splitting
    BY DEF Splitting
  <2>1. strategy = "recursive" /\ words # <<>> /\ Len(words) # 0
    BY <1>2, <1>7
  <2> DEFINE r == [from |-> 1, to |-> Len(words), level |-> 1]
  <2>2. todo = <<r>> /\ pieces = <<>> /\ chunks = <<>> /\ i = 0 /\ j = 1
    BY <2>1 DEF Begun, RangesOf, StartOf
  <2>3. r \in Ranges /\ Fresh(r)
    BY <1>2 DEF Ranges, Fresh
  <2>4. r.from = 1 /\ r.to = Len(words)
    OBVIOUS
  <2> HIDE DEF r
  <2>5. <<r>> \in Seq(Ranges) /\ Len(<<r>>) = 1 /\ <<r>>[1] = r /\ DOMAIN <<r>> = 1 .. 1
    BY <2>3
  <2>6. Tiles(<<r>>, 1, Len(words))
    BY <1>2, <2>4, <2>5 DEF Tiles
  <2>7. Tiles(<<>>, 1, 0)
    BY TilesNone
  <2>8. 0 \in 0 .. Len(words)
    BY <1>2
  <2>9. \E m \in 0 .. Len(words) : Tiles(pieces, 1, m) /\ Tiles(todo, m + 1, Len(words))
    BY <2>2, <2>6, <2>7, <2>8
  <2>10. todo \in Seq(Ranges) /\ pieces \in Seq(Ranges) /\ \A n \in 1 .. Len(todo) : Fresh(todo[n])
    BY <2>2, <2>3, <2>5, EmptySeq
  <2> QED
    BY <2>1, <2>2, <2>9, <2>10 DEF Splitting
<1>10. Buffering
  <2> SUFFICES ASSUME pc = "pack blocks"
               PROVE  Buffering
    BY DEF Buffering
  <2>1. strategy = "layout" /\ words # <<>> /\ i = 0 /\ j = 1
    BY <1>7 DEF Begun, StartOf
  <2>2. 1 \in 1 .. Len(blocks) /\ FirstWord(1) = 1
    BY <1>1, <2>1, FirstBlock
  <2>3. 1 \in 1 .. Len(blocks) + 1
    <3>1. Len(blocks) \in Nat
      BY <1>1, TextTypes
    <3> QED
      BY ONLY <3>1
  <2> QED
    BY <1>6, <2>1, <2>2, <2>3 DEF Buffering
<1>11. Embedding
  BY <1>7 DEF Begun, Embedding, StartOf
<1>12. Packing /\ Lapping /\ Cutting /\ Waiting
  BY <1>7 DEF Packing, Lapping, Cutting, Waiting
<1> QED
  BY <1>1, <1>3, <1>4, <1>5, <1>7, <1>8, <1>9, <1>10, <1>11, <1>12 DEF CInv

(* A document of blocks is flattened to a text. *)
LEMMA DocumentText ==
  ASSUME NEW source \in SUBSET Blocks, IsFiniteSet(source),
         \A a, b \in source : a.order = b.order => a = b
  PROVE  /\ TextOf(_flatten(_prepare(source)), _prepare(source))
         /\ \A b \in source : b.words # <<>> /\ ~is_furniture(b) =>
              \A k \in 1 .. Len(b.words) :
                \E w \in 1 .. Len(_flatten(_prepare(source))) :
                  _flatten(_prepare(source))[w].line = b.words[k].line
<1> DEFINE bs == _prepare(source)
           ws == _flatten(bs)
<1>1. /\ bs \in Seq(Blocks) /\ Len(bs) \in Nat /\ DOMAIN bs = 1 .. Len(bs)
      /\ \A n \in 1 .. Len(bs) : bs[n] \in source /\ bs[n].words # <<>>
      /\ \A b \in source : b.words # <<>> /\ ~is_furniture(b) =>
           \E n \in 1 .. Len(bs) : bs[n] = b
  BY Prepared
<1> HIDE DEF bs
<1>2. /\ TextOf(ws, bs)
      /\ \A n \in 1 .. Len(bs) : \A k \in 1 .. Len(bs[n].words) :
           \E w \in 1 .. Len(ws) : ws[w].line = bs[n].words[k].line
  BY <1>1, Flattened
<1> HIDE DEF ws
<1>3. ASSUME NEW b \in source, b.words # <<>>, ~is_furniture(b), NEW k \in 1 .. Len(b.words)
      PROVE  \E w \in 1 .. Len(ws) : ws[w].line = b.words[k].line
  <2>1. PICK n \in 1 .. Len(bs) : bs[n] = b
    BY <1>1, <1>3
  <2> QED
    BY <1>2, <1>3, <2>1
<1> QED
  BY <1>2, <1>3 DEF ws, bs

LEMMA ChunkInitInv == ChunkInit => CInv
<1> SUFFICES ASSUME NEW s \in DOMAIN Documents, NEW source \in Documents[s], chunk_document(source, s)
             PROVE  CInv
  BY DEF ChunkInit
<1>1. /\ source \in SUBSET Blocks /\ IsFiniteSet(source) /\ s \in Strategies
      /\ \A a, b \in source : a.order = b.order => a = b
  BY ChunkingAssumption
<1>2. Called(source, s)
  BY DEF chunk_document
<1>3. Text
  <2>1. TextOf(_flatten(_prepare(source)), _prepare(source))
    BY <1>1, DocumentText
  <2> QED
    BY <1>2, <2>1 DEF Called, Text
<1>4. Begun
  BY <1>1, <1>2, <1>3 DEF Begun, Arguments, Called, chunk_document
<1> QED
  BY <1>4, BegunInv

LEMMA WaitingInv ==
  ASSUME Called({}, "layout"), pc = "waiting"
  PROVE  CInv
<1>1. Text
  <2>1. IsFiniteSet({}) /\ {} \in SUBSET Blocks
    BY FS_EmptySet
  <2>2. TextOf(_flatten(_prepare({})), _prepare({}))
    BY <2>1, DocumentText
  <2> QED
    BY <2>2 DEF Called, Text
<1>2. Arguments
  BY <1>1 DEF Arguments, Called, Strategies
<1>3. Draft(chunks) /\ Good(chunks)
  BY <1>1, NoneDraft, DraftGood DEF Called
<1>4. Counters
  BY <1>1, TextTypes DEF Counters, Called, StartOf
<1>5. /\ Windows /\ Splitting /\ Packing /\ Buffering /\ Lapping /\ Embedding /\ Cutting /\ Waiting
  BY DEF Windows, Splitting, Packing, Buffering, Lapping, Embedding, Cutting, Waiting, Called
<1> QED
  BY <1>2, <1>3, <1>4, <1>5 DEF CInv

(* The splitter leaves the chunker alone. *)
LEMMA StutterChunks ==
  ASSUME CInv, UNCHANGED cvars
  PROVE  CInv'
<1>1. /\ UNCHANGED input /\ UNCHANGED <<pc, i, j, tokens, todo, pieces, sims, chunks>>
  BY DEF cvars
<1>2. Arguments' = Arguments
  BY <1>1, Frozen DEF Arguments, OverlapsOf
<1>3. Counters' = Counters
  BY <1>1, Frozen DEF Counters
<1>4. \A f : Open(f)' = Open(f)
  BY <1>1, Frozen DEF Open
<1>5. Windows' = Windows
  BY <1>1, <1>4, Frozen DEF Windows
<1>6. Splitting' = Splitting
  <2>1. \A r : Fresh(r)' = Fresh(r)
    BY <1>1, Frozen
  <2>2. strategy' = strategy /\ words' = words
    BY <1>1, Frozen
  <2>3. (\A n \in 1 .. Len(todo) : Fresh(todo[n]))' = \A n \in 1 .. Len(todo) : Fresh(todo[n])
    BY <1>1, <2>1
  <2>4. /\ pc' = pc /\ i' = i /\ j' = j /\ chunks' = chunks
        /\ todo' = todo /\ pieces' = pieces
    BY <1>1
  <2>5. (\E m \in 0 .. Len(words) : Tiles(pieces, 1, m) /\ Tiles(todo, m + 1, Len(words)))'
        = \E m \in 0 .. Len(words) : Tiles(pieces, 1, m) /\ Tiles(todo, m + 1, Len(words))
    BY ONLY <2>2, <2>4 DEF Tiles
  <2> QED
    BY ONLY <2>2, <2>3, <2>4, <2>5 DEF Splitting
<1>7. Packing' = Packing
  BY <1>1, <1>4, Frozen DEF Packing, Tiles
<1>8. Buffering' = Buffering
  <2>1. \A b : FirstWord(b)' = FirstWord(b)
    BY <1>1, Frozen
  <2>2. \A a, z : Uniform(a, z)' = Uniform(a, z)
    BY <1>1, Frozen
  <2>3. strategy' = strategy /\ words' = words /\ blocks' = blocks
    BY <1>1, Frozen
  <2>4. Open(FirstWord(j))' = Open(FirstWord(j)) /\ Open(FirstWord(i))' = Open(FirstWord(i))
    BY <1>1, <2>1, Frozen DEF Open
  <2>5. Uniform(i, j - 1)' = Uniform(i, j - 1)
    BY <1>1, <2>2
  <2> QED
    BY <1>1, <2>3, <2>4, <2>5 DEF Buffering, is_atomic
<1>9. Lapping' = Lapping
  BY <1>1, Frozen DEF Lapping
<1>10. Embedding' = Embedding /\ Waiting' = Waiting
  BY <1>1, Frozen DEF Embedding, Waiting
<1>11. Cutting' = Cutting
  BY <1>1, <1>4, Frozen DEF Cutting, Tiles
<1>12. Good(chunks)' = Good(chunks) /\ Draft(chunks)' = Draft(chunks) /\ Ended(chunks)' = Ended(chunks)
  BY <1>1, Frozen
<1> QED
  BY <1>1, <1>2, <1>3, <1>5, <1>6, <1>7, <1>8, <1>9, <1>10, <1>11, <1>12, Frozen DEF CInv

-----------------------------------------------------------------------------
(* The blocks that are handed over *)

BlockOf(b) ==
  [order |-> b, kind |-> flow[b].kind, section |-> flow[b].section, words |-> WordsOf(b)]

(* A block of the splitter is one for the chunkers, with a word for each of its lines. *)
LEMMA BlocksOfFlow ==
  ASSUME FlowInv, NEW b \in DOMAIN flow
  PROVE  /\ BlockOf(b) \in Blocks /\ ~is_furniture(BlockOf(b))
         /\ \A n \in flow[b].first .. flow[b].last : ~Blank(n) =>
              \E k \in 1 .. Len(WordsOf(b)) : WordsOf(b)[k].line = n
         /\ flow[b].header => \E k \in 1 .. Len(WordsOf(b)) : WordsOf(b)[k].line = 1
<1> DEFINE S == {n \in flow[b].first .. flow[b].last : ~Blank(n)}
           content == InOrder(S, <)
           text == IF flow[b].header THEN <<1>> \o content ELSE content
           word == [w \in DOMAIN text |->
                     [units |-> lines[text[w]].units, line |-> text[w],
                      stop |-> lines[text[w]].kind = "paragraph",
                      gap |-> IF ~(flow[b].header /\ w = 1) /\ text[w] < Len(lines)
                                   /\ Blank(text[w] + 1)
                              THEN 1 ELSE 2]]
           W == [units : Nat, gap : Nat, stop : BOOLEAN, line : Nat]
<1>1. /\ flow \in Seq(FlowBlocks) /\ lines \in Seq(Lines)
      /\ Len(lines) \in Nat /\ DOMAIN lines = 1 .. Len(lines)
  BY FlowFacts
<1>2. flow[b].first \in DOMAIN lines /\ flow[b].last \in flow[b].first .. Len(lines)
  BY DEF FlowInv, Laid, Before
<1>3. flow[b] \in FlowBlocks
  <2>1. DOMAIN flow = 1 .. Len(flow)
    BY <1>1, LenProperties
  <2> QED
    BY <1>1, <2>1, ElementOfSeq
<1>4. /\ flow[b].kind \in FlowKinds /\ flow[b].section \in Seq(Nat) /\ flow[b].header \in BOOLEAN
  BY <1>3 DEF FlowBlocks
<1>5. S \in SUBSET (1 .. Len(lines)) /\ 1 \in 1 .. Len(lines)
  BY <1>1, <1>2
<1>6. /\ content \in Seq(S) /\ Len(content) \in Nat
      /\ \A n \in S : \E k \in 1 .. Len(content) : content[k] = n
  BY ZenonT(40), <1>1, <1>5, NumbersInOrder
<1>7. word = WordsOf(b)
  BY DEF WordsOf
<1> HIDE DEF content
<1>8. /\ text \in Seq(1 .. Len(lines)) /\ Len(text) \in Nat /\ DOMAIN text = 1 .. Len(text)
      /\ \A n \in S : \E k \in 1 .. Len(text) : text[k] = n
      /\ flow[b].header => \E k \in 1 .. Len(text) : text[k] = 1
  <2>0. content \in Seq(1 .. Len(lines))
    <3>1. S \subseteq 1 .. Len(lines)
      BY <1>5
    <3> HIDE DEF S
    <3> QED
      BY <1>6, <3>1, SeqMonotonic
  <2>1. CASE ~flow[b].header
    BY <1>6, <2>0, <2>1, LenProperties
  <2>2. CASE flow[b].header
    <3>1. text = <<1>> \o content
      BY <2>2
    <3>2. <<1>> \in Seq(1 .. Len(lines)) /\ Len(<<1>>) = 1 /\ <<1>>[1] = 1
      BY <1>5
    <3> HIDE DEF text, S
    <3>3. /\ text \in Seq(1 .. Len(lines)) /\ Len(text) = Len(<<1>>) + Len(content)
          /\ \A k \in 1 .. Len(<<1>>) + Len(content) :
               text[k] = IF k <= Len(<<1>>) THEN <<1>>[k] ELSE content[k - Len(<<1>>)]
      BY <2>0, <3>1, <3>2, ConcatProperties
    <3>4. /\ Len(text) = Len(content) + 1
          /\ \A k \in 1 .. Len(content) + 1 : text[k] = IF k <= 1 THEN 1 ELSE content[k - 1]
      BY SMTT(40), <1>6, <3>2, <3>3
    <3>5. 1 \in 1 .. Len(text) /\ text[1] = 1
      BY <1>6, <3>4
    <3>6. ASSUME NEW n \in S
          PROVE  \E k \in 1 .. Len(text) : text[k] = n
      <4>1. PICK k \in 1 .. Len(content) : content[k] = n
        BY <1>6
      <4>2. k + 1 \in 1 .. Len(content) + 1 /\ ~(k + 1 <= 1) /\ (k + 1) - 1 = k
        BY <1>6, <4>1
      <4>3. text[k + 1] = content[(k + 1) - 1]
        BY <3>4, <4>2
      <4> QED
        BY <3>4, <4>1, <4>2, <4>3
    <3>7. DOMAIN text = 1 .. Len(text) /\ Len(text) \in Nat
      BY <3>3, LenProperties
    <3> QED
      BY <3>3, <3>5, <3>6, <3>7
  <2> QED
    BY <2>1, <2>2
<1> HIDE DEF text
<1>9. ASSUME NEW w \in 1 .. Len(text)
      PROVE  word[w] \in W /\ word[w].line = text[w]
  <2>1. text[w] \in 1 .. Len(lines)
    BY <1>8, ElementOfSeq
  <2>2. lines[text[w]] \in Lines
    BY <1>1, <2>1, ElementOfSeq
  <2>3. lines[text[w]].units \in Nat /\ text[w] \in Nat
    BY <1>1, <2>1, <2>2 DEF Lines
  <2> QED
    BY <1>8, <2>3
<1>10. word \in Seq(W) /\ Len(word) = Len(text)
  <2>1. word = [w \in 1 .. Len(text) |-> word[w]]
    BY <1>8
  <2>2. \A w \in 1 .. Len(text) : word[w] \in W
    BY <1>9
  <2> HIDE DEF word, W
  <2>3. word \in [1 .. Len(text) -> W]
    BY <2>1, <2>2
  <2>4. word \in Seq(W)
    BY SMTT(40), <1>8, <2>3, SeqDef
  <2>5. DOMAIN word = 1 .. Len(text)
    BY <2>3
  <2> QED
    BY <1>8, <2>4, <2>5, LenProperties
<1> HIDE DEF word, S
<1>11. \A n \in S : \E k \in 1 .. Len(word) : word[k].line = n
  <2> SUFFICES ASSUME NEW n \in S
               PROVE  \E k \in 1 .. Len(word) : word[k].line = n
    OBVIOUS
  <2>1. PICK k \in 1 .. Len(text) : text[k] = n
    BY <1>8
  <2>2. word[k].line = n /\ k \in 1 .. Len(word)
    BY <1>9, <1>10, <2>1
  <2> QED
    BY <2>2
<1> USE DEF S
<1>12. flow[b].header => \E k \in 1 .. Len(word) : word[k].line = 1
  BY <1>8, <1>9, <1>10
<1>13. BlockOf(b) \in Blocks /\ ~is_furniture(BlockOf(b))
  <2>1. b \in Nat
    BY <1>1, LenProperties
  <2>2. flow[b].kind \in Kinds /\ flow[b].kind \notin {"header", "footer", "page_number"}
    BY <1>4 DEF FlowKinds, Kinds
  <2>3. WordsOf(b) \in Seq(W)
    BY <1>7, <1>10
  <2> QED
    BY <1>4, <2>1, <2>2, <2>3 DEF BlockOf, Blocks, is_furniture
<1> QED
  BY <1>7, <1>11, <1>12, <1>13

(* And all of them are a document. *)
LEMMA SourceTypes ==
  ASSUME FlowInv
  PROVE  /\ SourceBlocks = {BlockOf(b) : b \in DOMAIN flow}
         /\ SourceBlocks \in SUBSET Blocks /\ IsFiniteSet(SourceBlocks)
         /\ \A x, y \in SourceBlocks : x.order = y.order => x = y
<1>1. SourceBlocks = {BlockOf(b) : b \in DOMAIN flow}
  BY DEF SourceBlocks, BlockOf
<1>2. SourceBlocks \in SUBSET Blocks
  BY <1>1, BlocksOfFlow
<1>3. IsFiniteSet(SourceBlocks)
  <2> DEFINE f == [b \in DOMAIN flow |-> BlockOf(b)]
  <2>1. SourceBlocks = {f[b] : b \in DOMAIN flow}
    BY <1>1
  <2>2. IsFiniteSet(DOMAIN flow)
    <3>1. DOMAIN flow = 1 .. Len(flow) /\ Len(flow) \in Nat
      BY FlowFacts, LenProperties
    <3>2. IsFiniteSet(1 .. Len(flow))
      BY <3>1, FS_Interval
    <3> QED
      BY <3>1, <3>2
  <2> HIDE DEF f
  <2> QED
    BY <2>1, <2>2, FiniteImage
<1>4. \A b \in DOMAIN flow : BlockOf(b).order = b
  BY DEF BlockOf
<1>5. \A x, y \in SourceBlocks : x.order = y.order => x = y
  BY <1>1, <1>4
<1> QED
  BY <1>1, <1>2, <1>3, <1>5

(* Line n is in the text that is chunked. *)
InText(n) == \E w \in 1 .. Len(words) : words[w].line = n

(* Every line with content is, once the chunker is called, and a text that *)
(* fails has none but a header.                                            *)
Carries ==
  /\ pc \notin {"waiting", "failed"} => \A n \in DOMAIN lines : ~Blank(n) => InText(n)
  /\ pc = "failed" => \A n \in DOMAIN lines : ~Blank(n) => header /\ n = 1

(* When the splitter is done, no line is lost. *)
LEMMA AllHeld ==
  ASSUME FlowInv, NoLineLost, FlowDone, NEW n \in DOMAIN lines, ~Blank(n)
  PROVE  Held(flow, n) \/ (header /\ n = 1)
<1>1. at > Len(lines) /\ pending = 0
  BY DEF FlowDone, Empty
<1>2. at \in Nat /\ Len(lines) \in Nat /\ n \in 1 .. Len(lines)
  BY FlowFacts
<1>3. Start = at
  BY <1>1 DEF Start
<1>4. n < Start
  BY ONLY <1>1, <1>2, <1>3
<1> QED
  BY <1>4 DEF NoLineLost

(* Nor is one when the blocks are handed over. *)
LEMMA HandedOver ==
  ASSUME FlowInv, NoLineLost, CInv, hand_over
  PROVE  CInv' /\ Carries'
<1>1. /\ pc = "waiting" /\ FlowDone /\ flow # <<>>
      /\ strategy' \in DOMAIN Documents /\ target' \in Targets /\ overlap' \in OverlapsOf(strategy')
      /\ blocks' = _prepare(SourceBlocks) /\ words' = _flatten(blocks')
      /\ i' = StartOf(strategy') /\ todo' = RangesOf(strategy', Len(words'))
      /\ pc' = IF words' = <<>> THEN "done" ELSE FirstStep[strategy']
      /\ UNCHANGED <<j, tokens, pieces, sims, chunks>> /\ UNCHANGED fvars
  BY DEF hand_over
<1>2. /\ SourceBlocks = {BlockOf(b) : b \in DOMAIN flow}
      /\ SourceBlocks \in SUBSET Blocks /\ IsFiniteSet(SourceBlocks)
      /\ \A x, y \in SourceBlocks : x.order = y.order => x = y
  BY SourceTypes
<1>3. /\ TextOf(words', blocks')
      /\ \A x \in SourceBlocks : x.words # <<>> /\ ~is_furniture(x) =>
           \A k \in 1 .. Len(x.words) : \E w \in 1 .. Len(words') : words'[w].line = x.words[k].line
  BY ZenonT(40), <1>1, <1>2, DocumentText
<1>4. CInv'
  <2>1. Arguments'
    <3>1. strategy' \in Strategies
      BY <1>1, ChunkingAssumption
    <3>2. Text'
      BY <1>3 DEF Text
    <3> QED
      BY <1>1, <3>1, <3>2 DEF Arguments, OverlapsOf
  <2>2. chunks = <<>> /\ pieces = <<>> /\ sims = <<>> /\ j = 1 /\ tokens = 0
    BY <1>1 DEF CInv, Waiting
  <2>3. Begun'
    BY <1>1, <2>1, <2>2 DEF Begun, StartOf, RangesOf, FirstStep
  <2> QED
    BY <2>3, BegunInv, PTL
<1>5. ASSUME NEW n \in DOMAIN lines, ~Blank(n)
      PROVE  \E w \in 1 .. Len(words') : words'[w].line = n
  <2>1. \E b \in DOMAIN flow : \E k \in 1 .. Len(WordsOf(b)) : WordsOf(b)[k].line = n
    <3>1. DOMAIN flow = 1 .. Len(flow) /\ Len(flow) \in Nat
      BY FlowFacts, LenProperties
    <3>2. CASE Held(flow, n)
      <4>1. PICK b \in 1 .. Len(flow) : flow[b].first <= n /\ n <= flow[b].last
        BY <3>2 DEF Held
      <4>2. flow[b].first \in DOMAIN lines /\ flow[b].last \in flow[b].first .. Len(lines)
        BY <3>1, <4>1 DEF FlowInv, Laid, Before
      <4>3. Len(lines) \in Nat /\ DOMAIN lines = 1 .. Len(lines)
        BY FlowFacts
      <4>4. n \in flow[b].first .. flow[b].last
        BY <4>1, <4>2, <4>3
      <4> QED
        BY <1>5, <3>1, <4>1, <4>4, BlocksOfFlow
    <3>3. CASE header /\ n = 1
      <4>1. 1 \in DOMAIN flow
        BY <1>1, <3>1, FlowFacts, EmptySeq
      <4>2. flow[1].header
        BY <3>3, <4>1 DEF NoLineLost
      <4> QED
        BY <3>3, <4>1, <4>2, BlocksOfFlow
    <3> QED
      BY <1>1, <1>5, <3>2, <3>3, AllHeld
  <2>2. PICK b \in DOMAIN flow : \E k \in 1 .. Len(WordsOf(b)) : WordsOf(b)[k].line = n
    BY <2>1
  <2>3. PICK k \in 1 .. Len(WordsOf(b)) : WordsOf(b)[k].line = n
    BY <2>2
  <2>4. BlockOf(b) \in SourceBlocks /\ BlockOf(b).words = WordsOf(b) /\ ~is_furniture(BlockOf(b))
    <3>1. BlockOf(b).words = WordsOf(b)
      BY DEF BlockOf
    <3> QED
      BY <1>2, <3>1, BlocksOfFlow
  <2>5. WordsOf(b) # <<>>
    BY <2>3, EmptySeq
  <2> QED
    BY <1>3, <2>3, <2>4, <2>5
<1>6. Carries'
  <2>1. pc' # "failed"
    <3>1. strategy' \in Strategies
      BY <1>1, ChunkingAssumption
    <3>2. FirstStep[strategy'] # "failed"
      <4>1. /\ FirstStep["fixed"] = "grow" /\ FirstStep["recursive"] = "split"
            /\ FirstStep["layout"] = "pack blocks" /\ FirstStep["semantic"] = "embed"
        BY DEF FirstStep
      <4>2. \A s \in Strategies : FirstStep[s] # "failed"
        BY ONLY <4>1 DEF Strategies
      <4> QED
        BY <3>1, <4>2
    <3> QED
      BY <1>1, <3>2
  <2>2. \A n \in DOMAIN lines : ~Blank(n) => InText(n)'
    BY <1>5 DEF InText
  <2>3. lines' = lines /\ \A n : Blank(n)' = Blank(n)
    BY <1>1 DEF fvars, Blank
  <2> QED
    BY <2>1, <2>2, <2>3 DEF Carries
<1> QED
  BY <1>4, <1>6

-----------------------------------------------------------------------------
(* Chunks that follow each other up to the last word cover all of them *)

LEMMA Covered ==
  ASSUME Text, NEW c, Linked(c), Ended(c), NEW w \in 1 .. Len(words)
  PROVE  \E n \in 1 .. Len(c) : w \in c[n].from .. c[n].to
<1> DEFINE later == {n \in 1 .. Len(c) : w <= c[n].to}
<1>1. /\ Len(c) \in Nat \ {0} /\ Len(words) \in Nat
      /\ \A n \in 1 .. Len(c) : c[n].from \in Nat /\ c[n].to \in Nat
      /\ c[Len(c)].to = Len(words)
  <2>1. /\ Len(c) \in Nat
        /\ \A n \in 1 .. Len(c) : c[n].from \in Nat /\ c[n].to \in Nat
    BY ChunkTypes
  <2> QED
    BY <2>1, TextTypes DEF Ended
<1>2. later \in SUBSET Nat /\ later # {}
  <2>1. Len(c) \in later
    BY <1>1
  <2>2. 1 .. Len(c) \subseteq Nat
    BY <1>1
  <2> QED
    BY <2>1, <2>2
<1>3. \E n \in later : \A m \in later : n <= m
  <2> HIDE DEF later
  <2> QED
    BY <1>2, LeastNatural
<1>4. PICK n \in later : \A m \in later : n <= m
  BY <1>3
<1>5. n \in 1 .. Len(c) /\ w <= c[n].to /\ LinkAt(c, n, c[n].from)
  BY DEF Linked
<1>6. c[n].from <= w
  <2>1. CASE n = 1
    <3>1. c[n].from = 1
      BY <1>5, <2>1 DEF LinkAt
    <3> QED
      BY ONLY <1>1, <3>1
  <2>2. CASE n # 1
    <3>1. n - 1 \in 1 .. Len(c) /\ ~(n <= n - 1)
      BY <1>1, <1>5, <2>2
    <3>2. ~(w <= c[n - 1].to)
      BY <1>4, <3>1
    <3>3. c[n].from <= c[n - 1].to + 1
      <4>1. c[n].from <= c[n - 1].to + 1 \/ c[n].from = c[n - 1].to + 1
        BY <1>5, <2>2 DEF LinkAt
      <4>2. c[n].from \in Nat /\ c[n - 1].to \in Nat
        BY <1>1, <1>5, <3>1
      <4> QED
        BY ONLY <4>1, <4>2
    <3>4. c[n - 1].to \in Nat /\ c[n].from \in Nat /\ w \in Nat
      BY <1>1, <1>5, <3>1
    <3> QED
      BY ONLY <3>2, <3>3, <3>4
  <2> QED
    BY <2>1, <2>2
<1>7. w \in c[n].from .. c[n].to
  <2>1. c[n].from \in Nat /\ c[n].to \in Nat /\ w \in Nat
    BY <1>1, <1>5
  <2> QED
    BY ONLY <1>5, <1>6, <2>1
<1> QED
  BY <1>5, <1>7

-----------------------------------------------------------------------------
(* The invariant of both stages *)

Inv == FlowInv /\ CInv /\ NoLineLost /\ Carries

LEMMA InitInv == Init => Inv
<1> SUFFICES ASSUME Init
             PROVE  Inv
  OBVIOUS
<1>1. FlowInit /\ FlowInv /\ NoLineLost
  BY InitFlowInv, FlowKeepsFirst DEF Init
<1>2. CASE extension = Paged
  <2>1. ChunkInit
    BY <1>2 DEF Init
  <2>2. CInv
    BY <2>1, ChunkInitInv
  <2>3. lines = <<>>
    BY <1>1, <1>2, PagedAssumption DEF FlowInit
  <2>4. DOMAIN lines = {}
    BY <2>3
  <2>5. Carries
    BY <2>4 DEF Carries
  <2> QED
    BY <1>1, <2>2, <2>5 DEF Inv
<1>3. CASE extension # Paged
  <2>1. Called({}, "layout") /\ pc = "waiting"
    BY <1>3 DEF Init
  <2>2. CInv
    BY <2>1, WaitingInv
  <2>3. Carries
    BY <2>1 DEF Carries
  <2> QED
    BY <1>1, <2>2, <2>3 DEF Inv
<1> QED
  BY <1>2, <1>3

LEMMA SplitInv ==
  ASSUME Inv, split
  PROVE  Inv'
<1>1. pc = "waiting" /\ FlowNext /\ UNCHANGED cvars
  BY DEF split
<1>2. FlowInv'
  BY <1>1, NextFlowInv DEF Inv
<1>3. NoLineLost'
  BY <1>1, FlowKeeps DEF Inv
<1>4. CInv'
  BY <1>1, StutterChunks DEF Inv
<1>5. Carries'
  BY <1>1 DEF Carries, cvars
<1> QED
  BY <1>2, <1>3, <1>4, <1>5 DEF Inv

LEMMA RefuseInv ==
  ASSUME Inv, refuse
  PROVE  Inv'
<1>1. /\ pc = "waiting" /\ FlowDone /\ flow = <<>> /\ pc' = "failed"
      /\ UNCHANGED input /\ UNCHANGED <<i, j, tokens, todo, pieces, sims, chunks>>
      /\ UNCHANGED fvars
  BY DEF refuse
<1>2. FlowInv' /\ NoLineLost'
  BY <1>1, StutterFlow, FlowKeepsStill DEF Inv
<1>3. CInv'
  <2>1. Arguments /\ Draft(chunks) /\ Counters
    BY <1>1 DEF Inv, CInv
  <2>2. Counters'
    BY <1>1, <2>1, Frozen DEF Counters
  <2>3. Draft(chunks')
    BY <1>1, <2>1
  <2>4. /\ Windows' /\ Splitting' /\ Packing' /\ Buffering' /\ Lapping' /\ Embedding' /\ Cutting'
        /\ Waiting'
    BY <1>1 DEF Windows, Splitting, Packing, Buffering, Lapping, Embedding, Cutting, Waiting
  <2> QED
    BY <1>1, <2>1, <2>2, <2>3, <2>4, CInvKept
<1>4. Carries'
  <2>1. \A n \in DOMAIN lines : ~Blank(n) => header /\ n = 1
    <3>1. \A n : ~Held(<<>>, n)
      BY DEF Held
    <3> QED
      BY <1>1, <3>1, AllHeld DEF Inv
  <2> QED
    BY <1>1, <2>1 DEF Carries, fvars, Blank
<1> QED
  BY <1>2, <1>3, <1>4 DEF Inv

LEMMA HandOverInv ==
  ASSUME Inv, hand_over
  PROVE  Inv'
<1>1. UNCHANGED fvars
  BY DEF hand_over
<1>2. FlowInv' /\ NoLineLost'
  BY <1>1, StutterFlow, FlowKeepsStill DEF Inv
<1> QED
  BY <1>2, HandedOver DEF Inv

LEMMA ChunkInv ==
  ASSUME Inv, chunk
  PROVE  Inv'
<1>1. ChunkNext /\ UNCHANGED fvars
  BY DEF chunk
<1>2. FlowInv' /\ NoLineLost'
  BY <1>1, StutterFlow, FlowKeepsStill DEF Inv
<1>3. CInv'
  BY <1>1, ChunkingKeeps DEF Inv
<1>4. pc \notin {"waiting", "failed"} /\ pc' \notin {"waiting", "failed"} /\ UNCHANGED input
  BY <1>1 DEF ChunkNext, FitEstimate, FitVerified, EmitWindow, KeepRange, SplitRange, SplitDone,
              PackPiece, PackDone, PackAtomic, PackBlock, PackBlocksDone, ApplyOverlap,
              EmbedSentences, ReadGap, GapsDone
<1>5. Carries'
  BY <1>1, <1>4 DEF Inv, Carries, InText, fvars, input, Blank
<1> QED
  BY <1>2, <1>3, <1>5 DEF Inv

LEMMA StutterInv ==
  ASSUME Inv, UNCHANGED vars
  PROVE  Inv'
<1>1. UNCHANGED fvars /\ UNCHANGED cvars
  BY DEF vars
<1>2. FlowInv' /\ NoLineLost' /\ CInv'
  BY <1>1, StutterFlow, FlowKeepsStill, StutterChunks DEF Inv
<1>3. Carries'
  BY <1>1 DEF Inv, Carries, InText, fvars, cvars, input, Blank
<1> QED
  BY <1>2, <1>3 DEF Inv

LEMMA InvCorrect == Spec => []Inv
<1>1. Inv /\ [Next]_vars => Inv'
  BY SplitInv, RefuseInv, HandOverInv, ChunkInv, StutterInv DEF Next
<1> QED
  BY <1>1, InitInv, PTL DEF Spec

-----------------------------------------------------------------------------
(* The theorems *)

(* What the invariant says of the chunks. *)
LEMMA ChunksAre ==
  ASSUME Inv
  PROVE  /\ Text /\ Linked(chunks) /\ Named(chunks) /\ Leads(chunks) /\ Fit(chunks)
         /\ strategy = "layout" => Structure(chunks)
         /\ DOMAIN chunks = 1 .. Len(chunks) /\ Len(chunks) \in Nat
         /\ \A n \in 1 .. Len(chunks) :
              /\ chunks[n].from \in 1 .. Len(words) /\ chunks[n].to \in 1 .. Len(words)
              /\ chunks[n].from <= chunks[n].to /\ chunks[n].blocks \in Seq(Nat)
         /\ Len(words) \in Nat
<1>1. Text /\ Good(chunks)
  BY DEF Inv, CInv, Arguments
<1>2. /\ Linked(chunks) /\ Named(chunks) /\ Leads(chunks) /\ Fit(chunks)
      /\ strategy = "layout" => Structure(chunks)
  BY <1>1 DEF Good
<1> QED
  BY <1>1, <1>2, ChunkTypes, TextTypes

(* The variables of both stages keep their types, for every document,      *)
(* budget and overlap; no chunk is empty, and each names a block.          *)
THEOREM TypeCorrect == Spec => []TypeOK
<1>1. Inv => ChunkTypeOK
  <2> SUFFICES ASSUME Inv
               PROVE  ChunkTypeOK
    OBVIOUS
  <2>1. /\ strategy \in Strategies /\ target \in Targets /\ overlap \in OverlapsOf(strategy)
        /\ pc \in {"grow", "verify", "emit", "split", "pack", "pack blocks", "overlap",
                   "embed", "cut", "done", "error", "waiting", "failed"}
        /\ i \in 0 .. Len(words) + 1 /\ j \in 1 .. Len(words) + 1 /\ tokens \in Nat
    BY DEF Inv, CInv, Arguments, Counters
  <2>2. ASSUME NEW n \in DOMAIN chunks
        PROVE  /\ 1 <= chunks[n].lead /\ chunks[n].lead <= chunks[n].from
               /\ chunks[n].from <= chunks[n].to /\ chunks[n].to <= Len(words)
               /\ chunks[n].blocks # <<>>
    <3>1. /\ n \in 1 .. Len(chunks) /\ Len(words) \in Nat
          /\ chunks[n].from \in 1 .. Len(words) /\ chunks[n].to \in 1 .. Len(words)
          /\ chunks[n].from <= chunks[n].to
      BY ChunksAre
    <3>2. 1 <= chunks[n].lead /\ chunks[n].lead <= chunks[n].from
      BY <3>1, ChunksAre DEF Leads
    <3>3. chunks[n].blocks # <<>>
      <4>1. words[chunks[n].from].block \in Range(chunks[n].blocks)
        <5> DEFINE s == IF chunks[n].lead < chunks[n].from THEN chunks[n].from - 1
                        ELSE chunks[n].from
        <5>1. Range(chunks[n].blocks) = Touched(s, chunks[n].to)
          BY <3>1, ChunksAre DEF Named
        <5>2. chunks[n].from \in s .. chunks[n].to
          BY ONLY <3>1
        <5> HIDE DEF s
        <5> QED
          BY <5>1, <5>2 DEF Touched
      <4>2. Range(<<>>) = {}
        BY DEF Range
      <4> QED
        BY <4>1, <4>2
    <3>4. chunks[n].to <= Len(words)
      BY ONLY <3>1
    <3> QED
      BY <3>1, <3>2, <3>3, <3>4
  <2> QED
    BY <2>1, <2>2 DEF ChunkTypeOK
<1> QED
  BY <1>1, InvCorrect, FlowTypeCorrect, PTL DEF TypeOK

(* No content is dropped: the chunks take every word of the document, in   *)
(* order, whichever chunker runs, and however large its budget and overlap *)
(* are.                                                                    *)
THEOREM NothingSkippedCorrect == Spec => []NothingSkipped
<1>1. Inv => NothingSkipped
  <2> SUFFICES ASSUME Inv
               PROVE  NothingSkipped
    OBVIOUS
  <2>1. ASSUME NEW n \in DOMAIN chunks
        PROVE  IF n = 1 THEN chunks[1].from = 1
               ELSE /\ chunks[n].from <= chunks[n - 1].to + 1
                    /\ IF strategy = "fixed" THEN chunks[n].from > chunks[n - 1].from
                       ELSE chunks[n].from = chunks[n - 1].to + 1
    <3>1. n \in 1 .. Len(chunks) /\ LinkAt(chunks, n, chunks[n].from) /\ Len(chunks) \in Nat
      BY ChunksAre DEF Linked
    <3>2. CASE n = 1
      BY <3>1, <3>2 DEF LinkAt
    <3>3. CASE n # 1
      <4>1. n - 1 \in 1 .. Len(chunks)
        BY ONLY <3>1, <3>3
      <4>2. /\ chunks[n].from \in 1 .. Len(words) /\ chunks[n - 1].from \in 1 .. Len(words)
            /\ chunks[n - 1].to \in 1 .. Len(words) /\ Len(words) \in Nat
        BY <3>1, <4>1, ChunksAre
      <4>3. IF strategy = "fixed"
              THEN chunks[n - 1].from < chunks[n].from /\ chunks[n].from <= chunks[n - 1].to + 1
              ELSE chunks[n].from = chunks[n - 1].to + 1
        BY <3>1, <3>3 DEF LinkAt
      <4>4. chunks[n].from <= chunks[n - 1].to + 1
        BY ONLY <4>2, <4>3
      <4>5. chunks[n - 1].from < chunks[n].from => chunks[n].from > chunks[n - 1].from
        BY ONLY <4>2
      <4> QED
        BY <3>3, <4>3, <4>4, <4>5
    <3> QED
      BY <3>2, <3>3
  <2>2. ASSUME pc = "done", words # <<>>
        PROVE  chunks # <<>> /\ Last(chunks).to = Len(words)
    BY <2>2 DEF Inv, CInv, Ended, Last
  <2> QED
    BY <2>1, <2>2 DEF NothingSkipped
<1> QED
  BY <1>1, InvCorrect, PTL

(* Provenance: a chunk names the blocks that its text is in, all of them   *)
(* and no others, but that of a tail which "recursive" puts in front it    *)
(* names the last one only.                                                *)
THEOREM NamesCorrect == Spec => []BlocksAreNamed
<1>1. Inv => BlocksAreNamed
  <2> SUFFICES ASSUME Inv
               PROVE  BlocksAreNamed
    OBVIOUS
  <2>1. Named(chunks) /\ DOMAIN chunks = 1 .. Len(chunks)
    BY ChunksAre
  <2> QED
    BY <2>1 DEF Named, Touched, TouchedFrom, BlocksAreNamed
<1> QED
  BY <1>1, InvCorrect, PTL

(* The windows of the fixed chunker fit the budget as it is counted, though *)
(* they are measured by an estimate, and for whatever budget.               *)
THEOREM WindowsCorrect == Spec => []WindowsFit
<1>1. Inv => WindowsFit
  BY ChunksAre DEF Fit, WindowsFit
<1> QED
  BY <1>1, InvCorrect, PTL

(* The layout chunker keeps tables apart, headings first and sections      *)
(* unmixed, in all that a chunk names but for a block carried over; and    *)
(* that is the last of the chunk before, small enough and no table.        *)
THEOREM StructureCorrect == Spec => []StructureIsKept
<1>1. Inv => StructureIsKept
  <2> SUFFICES ASSUME Inv, strategy = "layout"
               PROVE  StructureIsKept
    BY DEF StructureIsKept
  <2>1. Structure(chunks) /\ DOMAIN chunks = 1 .. Len(chunks)
    BY ChunksAre
  <2> QED
    BY <2>1 DEF Structure, StructureIsKept
<1> QED
  BY <1>1, InvCorrect, PTL

(* From the file to the index: each line with content is in a chunk, by    *)
(* whatever strategy the text is chunked, and a file is refused only when  *)
(* it has no such line, or none but the header of a CSV.                   *)
THEOREM EveryLineCorrect == Spec => []EveryLineIsChunked
<1>1. Inv => EveryLineIsChunked
  <2> SUFFICES ASSUME Inv
               PROVE  EveryLineIsChunked
    OBVIOUS
  <2>1. ASSUME pc = "done", NEW n \in DOMAIN lines, ~Blank(n)
        PROVE  \E c \in DOMAIN chunks : \E w \in chunks[c].from .. chunks[c].to : words[w].line = n
    <3>1. PICK w \in 1 .. Len(words) : words[w].line = n
      BY <2>1 DEF Inv, Carries, InText
    <3>2. words # <<>>
      BY <3>1
    <3>3. Ended(chunks)
      BY <2>1, <3>2 DEF Inv, CInv
    <3>4. \E c \in 1 .. Len(chunks) : w \in chunks[c].from .. chunks[c].to
      BY <3>3, ChunksAre, Covered
    <3> QED
      BY <3>1, <3>4, ChunksAre
  <2>2. ASSUME pc = "failed", NEW n \in DOMAIN lines, ~Blank(n)
        PROVE  n \in IF header THEN {1} ELSE {}
    BY <2>2 DEF Inv, Carries
  <2> QED
    BY <2>1, <2>2 DEF EveryLineIsChunked
<1> QED
  BY <1>1, InvCorrect, PTL
=============================================================================
