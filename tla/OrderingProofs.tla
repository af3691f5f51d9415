--------------------------- MODULE OrderingProofs ---------------------------
(***************************************************************************)
(* Facts about data that the proofs about texts and rankings rest on.      *)
(***************************************************************************)
EXTENDS Ordering, FiniteSetsExt, SequencesExt, SequenceTheorems, FiniteSetTheorems, TLAPS

-----------------------------------------------------------------------------
(* The least and the greatest number of a set *)

LEMMA LeastNatural ==
  ASSUME NEW T \in SUBSET Nat, T # {}
  PROVE  \E n \in T : \A m \in T : n <= m
<1> DEFINE R == {ss \in Nat \X Nat : ss[1] < ss[2]}
<1>1. IsWellFoundedOn(R, Nat)
  BY NatLessThanWellFounded DEF OpToRel
<1>2. PICK n \in T : \A m \in T : ~ (<<m, n>> \in R)
  BY <1>1, WFMin
<1>3. \A m \in T : m < n => <<m, n>> \in R
  OBVIOUS
<1>4. \A m \in T : ~ (m < n)
  <2> HIDE DEF R
  <2> QED
    BY <1>2, <1>3
<1>5. \A m \in T : n <= m
  BY <1>4
<1> HIDE DEF R
<1> QED
  BY <1>5

LEMMA LeastIn ==
  ASSUME NEW S \in SUBSET Nat, S # {}
  PROVE  Min(S) \in S /\ \A m \in S : Min(S) <= m
BY LeastNatural DEF Min

LEMMA GreatestIn ==
  ASSUME NEW n \in Nat, NEW S \in SUBSET (0 .. n), S # {}
  PROVE  Max(S) \in S /\ \A m \in S : m <= Max(S)
<1> DEFINE U == {b \in Nat : \A m \in S : m <= b}
<1>1. n \in U
  OBVIOUS
<1>2. PICK g \in U : \A b \in U : g <= b
  BY <1>1, LeastNatural
<1>3. g \in S
  <2> SUFFICES ASSUME g \notin S PROVE FALSE
    OBVIOUS
  <2>1. \A m \in S : m \in Nat /\ m <= g /\ m # g
    OBVIOUS
  <2>2. \A m \in S : m <= g - 1
    BY <2>1
  <2>3. g - 1 \in Nat
    <3>1. PICK m \in S : TRUE
      OBVIOUS
    <3> QED
      BY <2>1, <3>1
  <2>4. g - 1 \in U
    BY <2>2, <2>3
  <2> QED
    BY <2>4, <1>2
<1>4. \E x \in S : \A m \in S : x >= m
  BY <1>2, <1>3
<1> QED
  BY <1>4 DEF Max

-----------------------------------------------------------------------------
(* Sets in order *)

(* below maps each member of S to those before it, in a total order. *)
TotalOrder(S, below) ==
  /\ below \in [S -> SUBSET S]
  /\ \A x \in S : x \notin below[x]
  /\ \A x, y \in S : y \in below[x] => below[y] \subseteq below[x]
  /\ \A x, y \in S : x = y \/ x \in below[y] \/ y \in below[x]

LEMMA RankedInOrder ==
  ASSUME NEW S, IsFiniteSet(S), NEW below, TotalOrder(S, below)
  PROVE  LET s == Ranked(S, below) IN
         /\ s \in Seq(S) /\ Len(s) = Cardinality(S) /\ Len(s) \in Nat
         /\ DOMAIN s = 1 .. Len(s)
         /\ \A x \in S : \E n \in 1 .. Len(s) : s[n] = x
         /\ \A m, n \in 1 .. Len(s) : m < n => s[m] \in below[s[n]]
         /\ \A m, n \in 1 .. Len(s) : s[m] \in below[s[n]] => m < n
<1> DEFINE rank == [x \in S |-> Cardinality(below[x])]
           N == Cardinality(S)
           s == Ranked(S, below)
<1>1. N \in Nat
  BY FS_CardinalityType
<1>2. \A x \in S : IsFiniteSet(below[x]) /\ rank[x] \in 0 .. N - 1
  <2> SUFFICES ASSUME NEW x \in S PROVE IsFiniteSet(below[x]) /\ rank[x] \in 0 .. N - 1
    OBVIOUS
  <2>1. below[x] \in SUBSET (S \ {x})
    BY DEF TotalOrder
  <2>2. IsFiniteSet(S \ {x}) /\ Cardinality(S \ {x}) = N - 1
    BY FS_RemoveElement
  <2>3. IsFiniteSet(below[x]) /\ Cardinality(below[x]) <= N - 1
    BY <2>1, <2>2, FS_Subset
  <2>4. Cardinality(below[x]) \in Nat
    BY <2>3, FS_CardinalityType
  <2> QED
    BY <1>1, <2>3, <2>4
<1>3. \A x, y \in S : y \in below[x] => rank[y] < rank[x]
  <2> SUFFICES ASSUME NEW x \in S, NEW y \in S, y \in below[x] PROVE rank[y] < rank[x]
    OBVIOUS
  <2>1. below[y] \in SUBSET below[x] /\ below[y] # below[x]
    BY DEF TotalOrder
  <2>2. Cardinality(below[y]) <= Cardinality(below[x]) /\ Cardinality(below[y]) # Cardinality(below[x])
    BY <1>2, <2>1, FS_Subset
  <2> QED
    BY <1>2, <2>2
<1>4. \A x, y \in S : rank[x] = rank[y] => x = y
  BY <1>2, <1>3 DEF TotalOrder
<1>5. rank \in Surjection(S, 0 .. N - 1)
  <2>1. rank \in [S -> 0 .. N - 1]
    BY <1>2
  <2>2. rank \in Injection(S, 0 .. N - 1)
    BY <2>1, <1>4 DEF Injection, IsInjective
  <2>3. IsFiniteSet(0 .. N - 1) /\ Cardinality(0 .. N - 1) = N
    BY <1>1, FS_Interval
  <2> QED
    BY <2>2, <2>3, FS_Injection
<1>6. \A k \in 0 .. N - 1 : \E x \in S : rank[x] = k
  BY <1>5 DEF Surjection
<1>7. s = [n \in 1 .. N |-> CHOOSE x \in S : Cardinality(below[x]) = n - 1]
  BY DEF Ranked
<1>8. \A n \in 1 .. N : s[n] \in S /\ rank[s[n]] = n - 1
  <2> SUFFICES ASSUME NEW n \in 1 .. N PROVE s[n] \in S /\ rank[s[n]] = n - 1
    OBVIOUS
  <2>1. n - 1 \in 0 .. N - 1
    BY <1>1
  <2>2. \E x \in S : Cardinality(below[x]) = n - 1
    BY <1>6, <2>1
  <2>3. s[n] = CHOOSE x \in S : Cardinality(below[x]) = n - 1
    BY <1>7
  <2> HIDE DEF s
  <2> QED
    BY <2>2, <2>3
<1> HIDE DEF s, rank
<1>9. s \in Seq(S) /\ Len(s) = N /\ DOMAIN s = 1 .. N
  <2>1. DOMAIN s = 1 .. N
    BY <1>7
  <2>2. s \in [1 .. N -> S]
    BY <1>7, <1>8
  <2>3. s \in Seq(S)
    BY <1>1, <2>2, SeqDef
  <2>4. Len(s) \in Nat /\ DOMAIN s = 1 .. Len(s)
    BY <2>3, LenProperties
  <2> QED
    BY <1>1, <2>1, <2>3, <2>4
<1>10. \A x \in S : \E n \in 1 .. N : s[n] = x
  <2> SUFFICES ASSUME NEW x \in S PROVE \E n \in 1 .. N : s[n] = x
    OBVIOUS
  <2>1. rank[x] + 1 \in 1 .. N /\ rank[x] = (rank[x] + 1) - 1
    BY <1>1, <1>2
  <2>2. s[rank[x] + 1] \in S /\ rank[s[rank[x] + 1]] = rank[x]
    BY <1>8, <2>1
  <2> QED
    BY <1>4, <2>1, <2>2
<1>11. \A m, n \in 1 .. N : m < n <=> s[m] \in below[s[n]]
  <2> SUFFICES ASSUME NEW m \in 1 .. N, NEW n \in 1 .. N PROVE m < n <=> s[m] \in below[s[n]]
    OBVIOUS
  <2>1. s[m] \in S /\ s[n] \in S /\ rank[s[m]] = m - 1 /\ rank[s[n]] = n - 1
    BY <1>8
  <2>2. s[m] = s[n] \/ s[m] \in below[s[n]] \/ s[n] \in below[s[m]]
    BY <2>1 DEF TotalOrder
  <2>3. s[m] \in below[s[n]] => m < n
    BY <1>1, <1>3, <2>1
  <2>4. s[n] \in below[s[m]] => n < m
    BY <1>1, <1>3, <2>1
  <2>5. s[m] = s[n] => m = n
    BY <1>1, <2>1
  <2> QED
    BY <2>2, <2>3, <2>4, <2>5
<1> QED
  BY <1>1, <1>9, <1>10, <1>11 DEF s

-----------------------------------------------------------------------------
(* Joining sequences, and adding up *)

LEMMA FlattenIs ==
  ASSUME NEW X, NEW seqs \in Seq(Seq(X)), Len(seqs) # 0
  PROVE  \E f : /\ f \in [1 .. Len(seqs) -> Seq(X)]
                /\ f[1] = seqs[1]
                /\ \A n \in 1 .. Len(seqs) - 1 : f[n + 1] = f[n] \o seqs[n + 1]
                /\ FlattenSeq(seqs) = f[Len(seqs)]
<1> DEFINE Eq(f, n) == f = [k \in 1 .. n |-> IF k = 1 THEN seqs[k] ELSE f[k - 1] \o seqs[k]]
           N == Len(seqs)
           f == CHOOSE g : Eq(g, N)
<1>1. N \in Nat /\ \A k \in 1 .. N : seqs[k] \in Seq(X)
  BY LenProperties, ElementOfSeq
<1>2. \A n \in Nat : \E g : Eq(g, n)
  <2> DEFINE T == {n \in Nat : ~ \E g : Eq(g, n)}
  <2> SUFFICES ASSUME T # {} PROVE FALSE
    OBVIOUS
  <2>1. PICK n \in T : \A m \in T : n <= m
    <3>1. T \in SUBSET Nat
      OBVIOUS
    <3> HIDE DEF T
    <3> QED
      BY <3>1, LeastNatural
  <2>2. n \in Nat /\ ~ \E g : Eq(g, n)
    BY <2>1
  <2>3. n # 0
    <3> DEFINE g == [k \in 1 .. 0 |-> seqs[k]]
    <3>1. Eq(g, 0)
      OBVIOUS
    <3> QED
      BY <2>2, <3>1
  <2>4. \E h : Eq(h, n - 1)
    <3>1. n - 1 \in Nat /\ ~(n <= n - 1)
      BY <2>2, <2>3
    <3>2. n - 1 \notin T
      <4> HIDE DEF T
      <4> QED
        BY ONLY <2>1, <3>1
    <3> QED
      BY <3>1, <3>2
  <2>5. PICK h : Eq(h, n - 1)
    BY <2>4
  <2> DEFINE g == [k \in 1 .. n |-> IF k = 1 THEN seqs[k] ELSE h[k - 1] \o seqs[k]]
  <2>6. \A k \in 1 .. n : k # 1 => k - 1 \in 1 .. n - 1 /\ g[k - 1] = h[k - 1]
    <3> SUFFICES ASSUME NEW k \in 1 .. n, k # 1
                 PROVE  k - 1 \in 1 .. n - 1 /\ g[k - 1] = h[k - 1]
      OBVIOUS
    <3>1. k - 1 \in 1 .. n - 1 /\ k - 1 \in 1 .. n
      BY <2>2
    <3>2. g[k - 1] = IF k - 1 = 1 THEN seqs[k - 1] ELSE h[(k - 1) - 1] \o seqs[k - 1]
      BY <3>1
    <3>3. h[k - 1] = IF k - 1 = 1 THEN seqs[k - 1] ELSE h[(k - 1) - 1] \o seqs[k - 1]
      BY ONLY <2>5, <3>1
    <3> QED
      BY ONLY <3>1, <3>2, <3>3
  <2>7. Eq(g, n)
    BY <2>6
  <2> QED
    BY <2>2, <2>7
<1>3. Eq(f, N)
  BY <1>1, <1>2
<1>4. FlattenSeq(seqs) = f[N]
  BY DEF FlattenSeq
<1> HIDE DEF f
<1>5. f[1] = seqs[1] /\ \A n \in 1 .. N - 1 : f[n + 1] = f[n] \o seqs[n + 1]
  <2>1. 1 \in 1 .. N /\ \A n \in 1 .. N - 1 : n + 1 \in 1 .. N /\ n + 1 # 1 /\ (n + 1) - 1 = n
    BY <1>1
  <2> QED
    BY <1>3, <2>1
<1>6. \A n \in 1 .. N : f[n] \in Seq(X)
  <2> DEFINE T == {n \in 1 .. N : f[n] \notin Seq(X)}
  <2> SUFFICES ASSUME T # {} PROVE FALSE
    OBVIOUS
  <2>1. PICK n \in T : \A m \in T : n <= m
    <3>1. T \in SUBSET Nat
      OBVIOUS
    <3> HIDE DEF T
    <3> QED
      BY <3>1, LeastNatural
  <2>2. n # 1
    BY <1>1, <1>5
  <2>3. n - 1 \in 1 .. N - 1 /\ n - 1 \in 1 .. N /\ (n - 1) + 1 = n /\ n - 1 \notin T
    BY <1>1, <2>1, <2>2
  <2>4. f[n - 1] \in Seq(X) /\ seqs[n] \in Seq(X) /\ f[n] = f[n - 1] \o seqs[n]
    BY <1>1, <1>5, <2>3
  <2> QED
    BY <2>4, ConcatProperties
<1>7. f \in [1 .. N -> Seq(X)]
  <2>1. DOMAIN f = 1 .. N /\ f = [n \in 1 .. N |-> f[n]]
    BY <1>3
  <2> QED
    BY <1>6, <2>1
<1> QED
  BY <1>4, <1>5, <1>7

(* Adding up, from nothing on. *)
LEMMA SumsExist ==
  ASSUME NEW N \in Nat, NEW u
  PROVE  \E f : f = [k \in 0 .. N |-> IF k = 0 THEN 0 ELSE f[k - 1] + u[k]]
<1> DEFINE Eq(f, n) == f = [k \in 0 .. n |-> IF k = 0 THEN 0 ELSE f[k - 1] + u[k]]
           T == {n \in Nat : ~ \E g : Eq(g, n)}
<1> SUFFICES ASSUME T # {} PROVE FALSE
  OBVIOUS
<1>1. PICK n \in T : \A m \in T : n <= m
  <2>1. T \in SUBSET Nat
    OBVIOUS
  <2> HIDE DEF T
  <2> QED
    BY <2>1, LeastNatural
<1>2. n # 0
  <2> DEFINE g == [k \in 0 .. 0 |-> 0]
  <2>1. Eq(g, 0)
    OBVIOUS
  <2> QED
    BY <2>1
<1>3. n - 1 \in Nat /\ n - 1 \notin T
  BY <1>1, <1>2
<1>4. PICK h : Eq(h, n - 1)
  BY <1>3
<1> DEFINE g == [k \in 0 .. n |-> IF k = 0 THEN 0 ELSE h[k - 1] + u[k]]
<1>5. \A k \in 0 .. n - 1 : g[k] = h[k]
  BY <1>3, <1>4
<1>6. \A k \in 0 .. n : k # 0 => k - 1 \in 0 .. n - 1
  BY <1>3
<1>7. Eq(g, n)
  BY <1>5, <1>6
<1> QED
  BY <1>1, <1>7

(* Joining one more sequence.                                              *)
LEMMA FlattenAppend ==
  ASSUME NEW X, NEW seqs \in Seq(Seq(X)), NEW last \in Seq(X)
  PROVE  /\ FlattenSeq(seqs) \in Seq(X)
         /\ FlattenSeq(Append(seqs, last)) = FlattenSeq(seqs) \o last
<1> DEFINE more == Append(seqs, last)
           N == Len(seqs)
<1>1. N \in Nat /\ more \in Seq(Seq(X)) /\ Len(more) = N + 1 /\ more[N + 1] = last
      /\ \A k \in 1 .. N : more[k] = seqs[k] /\ seqs[k] \in Seq(X)
  BY LenProperties, AppendProperties, ElementOfSeq
<1> HIDE DEF more
<1>2. Len(more) # 0
  BY <1>1
<1>3. PICK g : /\ g \in [1 .. Len(more) -> Seq(X)]
               /\ g[1] = more[1]
               /\ \A n \in 1 .. Len(more) - 1 : g[n + 1] = g[n] \o more[n + 1]
               /\ FlattenSeq(more) = g[Len(more)]
  <2>1. \E g : /\ g \in [1 .. Len(more) -> Seq(X)]
               /\ g[1] = more[1]
               /\ \A n \in 1 .. Len(more) - 1 : g[n + 1] = g[n] \o more[n + 1]
               /\ FlattenSeq(more) = g[Len(more)]
    BY <1>1, <1>2, FlattenIs
  <2> QED
    BY <2>1
<1>4. CASE N = 0
  <2>1. seqs = <<>>
    BY <1>4, EmptySeq
  <2>2. FlattenSeq(seqs) = <<>>
    BY <2>1, <1>4 DEF FlattenSeq
  <2>3. FlattenSeq(more) = last
    BY <1>1, <1>3, <1>4
  <2>4. <<>> \o last = last /\ <<>> \in Seq(X)
    BY ConcatEmptySeq, EmptySeq
  <2> QED
    BY <2>2, <2>3, <2>4 DEF more
<1>5. CASE N # 0
  <2>1. PICK f : /\ f \in [1 .. N -> Seq(X)]
                 /\ f[1] = seqs[1]
                 /\ \A n \in 1 .. N - 1 : f[n + 1] = f[n] \o seqs[n + 1]
                 /\ FlattenSeq(seqs) = f[N]
    <3>1. \E f : /\ f \in [1 .. N -> Seq(X)]
                 /\ f[1] = seqs[1]
                 /\ \A n \in 1 .. N - 1 : f[n + 1] = f[n] \o seqs[n + 1]
                 /\ FlattenSeq(seqs) = f[N]
      BY <1>5, FlattenIs
    <3> QED
      BY <3>1
  <2> DEFINE T == {n \in 1 .. N : f[n] # g[n]}
  <2>2. T = {}
    <3> SUFFICES ASSUME T # {} PROVE FALSE
      OBVIOUS
    <3>1. PICK n \in T : \A m \in T : n <= m
      <4>1. T \in SUBSET Nat
        OBVIOUS
      <4> HIDE DEF T
      <4> QED
        BY <4>1, LeastNatural
    <3>2. n \in 1 .. N /\ f[n] # g[n]
      BY <3>1
    <3>3. n # 1
      BY <1>1, <1>3, <1>5, <2>1, <3>2
    <3>4. n - 1 \in 1 .. N /\ n - 1 \in 1 .. N - 1 /\ n - 1 \in 1 .. Len(more) - 1 /\ (n - 1) + 1 = n
      BY <1>1, <3>2, <3>3
    <3>5. n - 1 \notin T
      <4>1. ~(n <= n - 1)
        BY <3>2
      <4> HIDE DEF T
      <4> QED
        BY <3>1, <4>1
    <3>6. f[n] = f[n - 1] \o seqs[n] /\ g[n] = g[n - 1] \o more[n]
      BY <1>3, <2>1, <3>4
    <3>7. f[n - 1] = g[n - 1]
      BY <3>4, <3>5
    <3> QED
      BY <1>1, <3>2, <3>6, <3>7
  <2>3. N \in 1 .. N /\ N \in 1 .. Len(more) - 1
    BY <1>1, <1>5
  <2>4. f[N] = g[N]
    BY <2>2, <2>3
  <2>5. g[N + 1] = g[N] \o more[N + 1]
    BY <1>3, <2>3
  <2> QED
    BY <1>1, <1>3, <2>1, <2>3, <2>4, <2>5 DEF more
<1> QED
  BY <1>4, <1>5

(* Numbers in order.                                                       *)
LEMMA NumbersInOrder ==
  ASSUME NEW n \in Nat, NEW S \in SUBSET (1 .. n)
  PROVE  LET s == InOrder(S, <) IN
         /\ s \in Seq(S) /\ Len(s) \in Nat /\ DOMAIN s = 1 .. Len(s)
         /\ \A x \in S : \E k \in 1 .. Len(s) : s[k] = x
         /\ \A k \in 1 .. Len(s) : s[k] \in S
         /\ \A k, l \in 1 .. Len(s) : k < l => s[k] < s[l]
<1> DEFINE below == [x \in S |-> {y \in S : y < x}]
           s == Ranked(S, below)
<1>1. IsFiniteSet(S)
  <2>1. IsFiniteSet(1 .. n)
    BY FS_Interval
  <2> QED
    BY <2>1, FS_Subset
<1>2. TotalOrder(S, below)
  <2>1. below \in [S -> SUBSET S] /\ \A x \in S : below[x] = {y \in S : y < x}
    OBVIOUS
  <2> HIDE DEF below
  <2>2. \A x, y \in S : y \in below[x] <=> y < x
    BY <2>1
  <2>3. \A x, y \in S : x = y \/ x < y \/ y < x
    OBVIOUS
  <2>4. \A x, y \in S : y \in below[x] => below[y] \subseteq below[x]
    <3> SUFFICES ASSUME NEW x \in S, NEW y \in S, y \in below[x], NEW z \in below[y]
                 PROVE  z \in below[x]
      OBVIOUS
    <3>1. z \in S /\ z < y /\ y < x
      BY <2>1, <2>2
    <3> QED
      BY <2>2, <3>1
  <2> QED
    BY <2>1, <2>2, <2>3, <2>4 DEF TotalOrder
<1>3. InOrder(S, <) = s
  BY DEF InOrder
<1> HIDE DEF below
<1>4. /\ s \in Seq(S) /\ Len(s) \in Nat
      /\ DOMAIN s = 1 .. Len(s)
      /\ \A x \in S : \E k \in 1 .. Len(s) : s[k] = x
      /\ \A k, l \in 1 .. Len(s) : k < l => s[k] \in below[s[l]]
  BY <1>1, <1>2, RankedInOrder
<1>5. \A k \in 1 .. Len(s) : s[k] \in S
  BY <1>4, ElementOfSeq
<1> HIDE DEF s
<1>6. \A k, l \in 1 .. Len(s) : k < l => s[k] < s[l]
  <2> SUFFICES ASSUME NEW k \in 1 .. Len(s), NEW l \in 1 .. Len(s), k < l PROVE s[k] < s[l]
    OBVIOUS
  <2>1. s[k] \in below[s[l]] /\ s[l] \in S
    BY <1>4, <1>5
  <2> QED
    BY <2>1 DEF below
<1> QED
  BY <1>3, <1>4, <1>5, <1>6

(* The greatest number of a set, when it is known.                         *)
LEMMA GreatestIs ==
  ASSUME NEW S \in SUBSET Nat, NEW g \in S, \A m \in S : m <= g
  PROVE  Max(S) = g
<1>1. \A x \in S : (\A m \in S : x >= m) => x = g
  OBVIOUS
<1>2. \E x \in S : \A m \in S : x >= m
  OBVIOUS
<1> QED
  BY <1>1, <1>2 DEF Max
=============================================================================
