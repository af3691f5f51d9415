-------------------------- MODULE RetrievalProofs --------------------------
(***************************************************************************)
(* For any number of embed stages, documents and model widths: the race to *)
(* create a collection is harmless, and a repeated ingest leaves no        *)
(* orphans, also while requests read the index.  For any damping constant: *)
(* what two retrievers agree on is ranked before what one of them found,   *)
(* and the list of one alone is shown in its order.  The passages of an    *)
(* answer are chunks of one moment.                                        *)
(***************************************************************************)
EXTENDS Retrieval, OrderingProofs

(* A stage that goes on past the collection fits it, unless it lost the    *)
(* race to create it.                                                      *)
FitsOrRaced ==
  \A e \in Embedders :
    (at[e] \in {"clear", "put"} /\ collection # model[e]) => e \in raced

(* Between its two calls a stage has no points in the index. *)
ClearedFirst ==
  (\A e, f \in Embedders : job[e] = job[f] => e = f) =>
    \A e \in Embedders : at[e] = "put" => PointsOf(job[e]) = {}

IInv ==
  /\ IndexTypeOK
  /\ FitsOrRaced
  /\ RaceIsHarmless
  /\ ClearedFirst
  /\ NoOrphans

-----------------------------------------------------------------------------

LEMMA ChunksFacts ==
  ASSUME NEW d, NEW v, NEW p \in Chunks(d, v)
  PROVE  p[1] = d /\ p[2] = v /\ p[3] \in Parts
  BY DEF Chunks

LEMMA InitIInv == IndexInit => IInv
<1> SUFFICES ASSUME IndexInit PROVE IInv
  OBVIOUS
<1> USE IndexAssumption DEF IndexInit
<1>0. \A p \in points : p[1] \in Documents /\ p[2] = 1 /\ p[3] \in Parts
  BY ChunksFacts
<1>a. /\ model \in [Embedders \cup {Api} -> Widths] /\ job \in [Embedders -> Documents]
      /\ \A e \in Embedders : at[e] = "load" /\ held[e] = 0
      /\ at \in [Embedders -> Awaits \cup Ends]
  BY DEF Awaits, Ends
<1>b. /\ \A d \in Documents : version[d] = 1 /\ version[d] \in 1 .. MaxVersion[d]
      /\ collection \in Widths \cup {0} /\ (points # {} => collection # 0)
  OBVIOUS
<1>1. IndexTypeOK
  BY <1>0, <1>a, <1>b DEF IndexTypeOK
<1>2. FitsOrRaced /\ RaceIsHarmless /\ ClearedFirst
  BY DEF FitsOrRaced, RaceIsHarmless, ClearedFirst
<1>3. NoOrphans
  BY <1>0 DEF NoOrphans
<1> QED
  BY <1>1, <1>2, <1>3 DEF IInv

LEMMA NextIInv == IInv /\ [IndexNext]_ivars => IInv'
<1> SUFFICES ASSUME IInv, [IndexNext]_ivars PROVE IInv'
  OBVIOUS
<1> USE IndexAssumption DEF IInv
<1>1. ASSUME NEW e \in Embedders, load_chunks(e) PROVE IInv'
  <2> USE <1>1 DEF load_chunks, Go
  <2>a. at' = [at EXCEPT ![e] = "exists"] /\ at' \in [Embedders -> Awaits \cup Ends]
    BY DEF IndexTypeOK, Awaits, Ends
  <2>b. version[job[e]] \in 1 .. version[job[e]]
    <3>1. job[e] \in Documents
      BY DEF IndexTypeOK
    <3>2. version[job[e]] \in 1 .. MaxVersion[job[e]] /\ MaxVersion[job[e]] \in Nat
      BY <3>1 DEF IndexTypeOK
    <3> QED
      BY <3>2
  <2>c. \A f \in Embedders :
          IF at'[f] = "load" THEN held'[f] = 0 ELSE held'[f] \in 1 .. version[job[f]]
    <3> SUFFICES ASSUME NEW f \in Embedders
                 PROVE  IF at'[f] = "load" THEN held'[f] = 0
                        ELSE held'[f] \in 1 .. version[job[f]]
      OBVIOUS
    <3>1. CASE f = e
      BY <3>1, <2>a, <2>b DEF IndexTypeOK
    <3>2. CASE f # e
      BY <3>2, <2>a DEF IndexTypeOK
    <3> QED
      BY <3>1, <3>2
  <2>d. \A f \in Embedders : at'[f] \in {"clear", "put", "ready"} => collection # 0
    BY <2>a DEF IndexTypeOK
  <2>1. IndexTypeOK'
    BY <2>a, <2>c, <2>d DEF IndexTypeOK
  <2>2. FitsOrRaced' /\ RaceIsHarmless'
    BY DEF IndexTypeOK, FitsOrRaced, RaceIsHarmless
  <2>3. ClearedFirst' /\ NoOrphans'
    BY DEF IndexTypeOK, ClearedFirst, NoOrphans, PointsOf
  <2> QED
    BY <2>1, <2>2, <2>3
<1>2. ASSUME NEW e \in Embedders, ensure_collection(e) PROVE IInv'
  <2> USE <1>2 DEF ensure_collection, Go
  <2>0. /\ at' = [at EXCEPT ![e] = at'[e]]
        /\ at'[e] \in {"create", "clear", "mismatch"}
        /\ at'[e] = "clear" => collection = model[e]
        /\ at'[e] = "mismatch" => collection \notin {0, model[e]}
    BY DEF IndexTypeOK
  <2>1. IndexTypeOK'
    BY <2>0 DEF IndexTypeOK, Awaits, Ends
  <2>2. FitsOrRaced' /\ RaceIsHarmless'
    BY <2>0 DEF IndexTypeOK, FitsOrRaced, RaceIsHarmless
  <2>3. ClearedFirst' /\ NoOrphans'
    BY <2>0 DEF IndexTypeOK, ClearedFirst, NoOrphans, PointsOf
  <2> QED
    BY <2>1, <2>2, <2>3
<1>3. ASSUME NEW e \in Embedders, create_collection(e) PROVE IInv'
  <2> USE <1>3 DEF create_collection, Go
  <2>1. IndexTypeOK'
    BY DEF IndexTypeOK, Awaits, Ends
  <2>2. FitsOrRaced' /\ RaceIsHarmless'
    BY DEF IndexTypeOK, FitsOrRaced, RaceIsHarmless
  <2>3. ClearedFirst' /\ NoOrphans'
    BY DEF IndexTypeOK, ClearedFirst, NoOrphans, PointsOf
  <2> QED
    BY <2>1, <2>2, <2>3
<1>4. ASSUME NEW e \in Embedders, delete_document(e) PROVE IInv'
  <2> USE <1>4 DEF delete_document, Go
  <2>1. IndexTypeOK'
    BY DEF IndexTypeOK, Awaits, Ends, PointsOf
  <2>2. FitsOrRaced' /\ RaceIsHarmless'
    BY DEF IndexTypeOK, FitsOrRaced, RaceIsHarmless
  <2>3. ClearedFirst' /\ NoOrphans'
    BY DEF IndexTypeOK, ClearedFirst, NoOrphans, PointsOf
  <2> QED
    BY <2>1, <2>2, <2>3
<1>5. ASSUME NEW e \in Embedders, upsert_chunks(e) PROVE IInv'
  <2>1. CASE collection = model[e]
    <3> USE <1>5, <2>1 DEF upsert_chunks, Go
    <3>0. /\ at' = [at EXCEPT ![e] = "ready"] /\ UNCHANGED <<model, job>>
          /\ points' = points \cup Chunks(job[e], held[e])
          /\ UNCHANGED <<held, version, collection, raced>>
      OBVIOUS
    <3>a. held[e] \in 1 .. version[job[e]] /\ job[e] \in Documents /\ collection # 0
      BY DEF IndexTypeOK
    <3>b. \A p \in points' :
            p \in points \/ (p[1] = job[e] /\ p[2] = held[e] /\ p[3] \in Parts)
      BY <3>0, ChunksFacts
    <3>1. IndexTypeOK'
      BY <3>0, <3>a, <3>b DEF IndexTypeOK, Awaits, Ends
    <3>2. FitsOrRaced' /\ RaceIsHarmless'
      BY DEF IndexTypeOK, FitsOrRaced, RaceIsHarmless
    <3>3. ASSUME \A f, g \in Embedders : job[f] = job[g] => f = g
          PROVE  /\ PointsOf(job[e])' = Chunks(job[e], held[e])
                 /\ \A d \in Documents : d # job[e] => PointsOf(d)' = PointsOf(d)
      <4>1. PointsOf(job[e]) = {}
        BY <3>3 DEF ClearedFirst
      <4>2. PointsOf(job[e])' = Chunks(job[e], held[e])
        BY <4>1, <3>0, ChunksFacts DEF PointsOf
      <4>3. \A d \in Documents : d # job[e] => PointsOf(d)' = PointsOf(d)
        BY <3>0, ChunksFacts DEF PointsOf
      <4> QED
        BY <4>2, <4>3
    <3>4. ClearedFirst'
      BY <3>0, <3>3 DEF IndexTypeOK, ClearedFirst
    <3>5. NoOrphans'
      <4> SUFFICES ASSUME \A f, g \in Embedders : job[f] = job[g] => f = g
                   PROVE  /\ \A p, q \in points' : p[1] = q[1] => p[2] = q[2]
                          /\ \A f \in Embedders : at'[f] = "ready" =>
                               PointsOf(job[f])' = Chunks(job[f], held[f])
        BY <3>0 DEF NoOrphans, Chunks
      <4>1. \A p \in points : p[1] # job[e]
        BY DEF ClearedFirst, PointsOf
      <4>2. \A p, q \in points' : p[1] = q[1] => p[2] = q[2]
        BY <4>1, <3>b DEF NoOrphans
      <4>3. \A f \in Embedders : at'[f] = "ready" => PointsOf(job[f])' = Chunks(job[f], held[f])
        BY <3>0, <3>3 DEF NoOrphans, IndexTypeOK
      <4> QED
        BY <4>2, <4>3
    <3> QED
      BY <3>1, <3>2, <3>4, <3>5
  <2>2. CASE collection # model[e]
    <3> USE <1>5, <2>2 DEF upsert_chunks, Go
    <3>1. IndexTypeOK'
      BY DEF IndexTypeOK, Awaits, Ends
    <3>2. FitsOrRaced' /\ RaceIsHarmless'
      BY DEF IndexTypeOK, FitsOrRaced, RaceIsHarmless
    <3>3. ClearedFirst' /\ NoOrphans'
      BY DEF IndexTypeOK, ClearedFirst, NoOrphans, PointsOf
    <3> QED
      BY <3>1, <3>2, <3>3
  <2> QED
    BY <2>1, <2>2
<1>6. ASSUME NEW d \in Documents, replace_chunks(d) PROVE IInv'
  <2> USE <1>6 DEF replace_chunks
  <2>1. IndexTypeOK'
    BY DEF IndexTypeOK, Awaits, Ends
  <2>2. FitsOrRaced' /\ RaceIsHarmless'
    BY DEF FitsOrRaced, RaceIsHarmless
  <2>3. ClearedFirst' /\ NoOrphans'
    BY DEF ClearedFirst, NoOrphans, PointsOf
  <2> QED
    BY <2>1, <2>2, <2>3
<1>7. CASE UNCHANGED ivars
  BY <1>7 DEF ivars, IndexTypeOK, FitsOrRaced, RaceIsHarmless, ClearedFirst, NoOrphans, PointsOf
<1> QED
  BY <1>1, <1>2, <1>3, <1>4, <1>5, <1>6, <1>7 DEF IndexNext, embed_stage

-----------------------------------------------------------------------------

(* Requests read the index and Postgres and change neither: the stages run *)
(* as they do without them.                                                *)
THEOREM RetrievalImplements == RetrievalSpec => IndexSpec
<1>1. RetrievalInit => IndexInit
  BY DEF RetrievalInit
<1>2. [RetrievalNext]_rvars => [IndexNext]_ivars
  BY DEF RetrievalNext, Request, Answers, _dense, _lexical, retriever_fails, resolve,
     rvars, ivars, qvars
<1> QED
  BY <1>1, <1>2, PTL DEF RetrievalSpec, IndexSpec

THEOREM IndexInvariant == RetrievalSpec => []IInv
<1>1. IndexSpec => []IInv
  BY InitIInv, NextIInv, PTL DEF IndexSpec
<1> QED
  BY <1>1, RetrievalImplements, PTL

(* Losing the race to create the collection is an error only when the      *)
(* winner has another width.                                               *)
THEOREM RaceCorrect == RetrievalSpec => []RaceIsHarmless
<1>1. IInv => RaceIsHarmless
  BY DEF IInv
<1> QED
  BY <1>1, IndexInvariant, PTL

(* delete_document before upsert_chunks: the points of a document are of   *)
(* one version.                                                            *)
THEOREM NoOrphansCorrect == RetrievalSpec => []NoOrphans
<1>1. IInv => NoOrphans
  BY DEF IInv
<1> QED
  BY <1>1, IndexInvariant, PTL

-----------------------------------------------------------------------------
(* Reciprocal rank fusion *)

(* 1/x + 1/y > 1/z, multiplied out, when neither x nor y is as large as    *)
(* twice z.                                                                *)
LEMMA TwoFractions ==
  ASSUME NEW x \in Nat \ {0}, NEW y \in Nat \ {0}, NEW z \in Nat \ {0}, x < 2 * z, y < 2 * z
  PROVE  (x + y) * z > x * y
<1>1. x * y < (2 * z) * y
  BY SMT
<1>2. x * y < x * (2 * z)
  BY SMT
<1>3. 2 * (x * y) < 2 * ((x + y) * z)
  BY <1>1, <1>2, SMT
<1> QED
  BY <1>3, SMT

(* The reason for AgreementWins: as long as retrievers are asked for no    *)
(* more than k + 1 hits, a chunk that both returned is ordered before one  *)
(* that only one of them returned, whatever the ranks.                     *)
THEOREM AgreementBeats ==
  ASSUME retrieval_top_k <= rrf_k + 1,
         NEW h, h.ranks \in [Retrievers -> 1 .. retrieval_top_k],
         NEW g, NEW r \in Retrievers, g.ranks \in [{r} -> 1 .. retrieval_top_k]
  PROVE  Before(h, g)
<1> USE RetrievalAssumption
<1> DEFINE x == rrf_k + h.ranks.dense
           y == rrf_k + h.ranks.lexical
           z == rrf_k + g.ranks[r]
<1>1. x \in Nat \ {0} /\ y \in Nat \ {0} /\ z \in Nat \ {0}
  BY DEF Retrievers
<1>2. x < 2 * z /\ y < 2 * z
  BY DEF Retrievers
<1>3. Score(h.ranks).num = x + y /\ Score(h.ranks).den = x * y
  BY DEF Score
<1>4. Score(g.ranks).num = 1 /\ Score(g.ranks).den = z
  BY DEF Score, Retrievers
<1> HIDE DEF x, y, z
<1>5. (x + y) * z > x * y
  BY <1>1, <1>2, TwoFractions
<1>6. Score(h.ranks).num * Score(g.ranks).den > Score(g.ranks).num * Score(h.ranks).den
  BY <1>1, <1>3, <1>4, <1>5
<1> QED
  BY <1>6 DEF Before

-----------------------------------------------------------------------------
(* The order of hits is total, so that the fused list is one list *)

Ids == Nat \X Nat \X Nat
RankMaps == [{"dense"} -> Nat \ {0}] \cup [{"lexical"} -> Nat \ {0}] \cup [Retrievers -> Nat \ {0}]

(* Hits of different chunks, each found by somebody. *)
AreHits(H) ==
  /\ \A h \in H : h.chunk \in Ids /\ h.ranks \in RankMaps
  /\ \A h, g \in H : h.chunk = g.chunk => h = g

(* Both sides of a comparison may be multiplied. *)
LEMMA Scaled ==
  ASSUME NEW m \in Nat, NEW n \in Nat, NEW b \in Nat \ {0}
  PROVE  (m * b >= n * b <=> m >= n) /\ (m * b > n * b <=> m > n)
<1>1. m >= n => m * b >= n * b
  BY SMT
<1>2. m < n => m * b < n * b
  BY SMT
<1> QED
  BY <1>1, <1>2, SMT

(* x/a >= y/b >= z/c, multiplied out. *)
LEMMA FractionsCompose ==
  ASSUME NEW x \in Nat, NEW y \in Nat, NEW z \in Nat,
         NEW a \in Nat \ {0}, NEW b \in Nat \ {0}, NEW c \in Nat \ {0},
         x * b >= y * a, y * c >= z * b
  PROVE  /\ x * c >= z * a
         /\ x * b > y * a \/ y * c > z * b => x * c > z * a
<1> DEFINE p == x * b  q == y * a  r == y * c  t == z * b  u == x * c  v == z * a
<1>0. p \in Nat /\ q \in Nat /\ r \in Nat /\ t \in Nat /\ u \in Nat /\ v \in Nat
  BY SMT
<1>1. p * c = u * b /\ q * c = r * a /\ t * a = v * b
  BY SMT
<1>2. (p * c >= q * c <=> p >= q) /\ (p * c > q * c <=> p > q)
  BY <1>0, Scaled
<1>3. (r * a >= t * a <=> r >= t) /\ (r * a > t * a <=> r > t)
  BY <1>0, Scaled
<1>4. (u * b >= v * b <=> u >= v) /\ (u * b > v * b <=> u > v)
  BY <1>0, Scaled
<1>5. p >= q /\ r >= t
  OBVIOUS
<1>6. u * b \in Nat /\ v * b \in Nat /\ r * a \in Nat
  BY <1>0, SMT
<1>7. u >= v /\ (p > q \/ r > t => u > v)
  <2> HIDE DEF p, q, r, t, u, v
  <2>1. u * b >= r * a /\ r * a >= v * b
    BY <1>1, <1>2, <1>3, <1>5
  <2>2. p > q => u * b > r * a
    BY <1>1, <1>2
  <2>3. r > t => r * a > v * b
    BY <1>1, <1>3
  <2>4. u * b >= v * b /\ (p > q \/ r > t => u * b > v * b)
    BY <1>6, <2>1, <2>2, <2>3
  <2> QED
    BY <1>4, <2>4
<1> QED
  BY <1>7

LEMMA ScorePositive ==
  ASSUME NEW ranks \in RankMaps
  PROVE  /\ Score(ranks).num \in Nat \ {0} /\ Score(ranks).den \in Nat \ {0}
         /\ Cardinality(DOMAIN ranks) \in Nat
<1> USE RetrievalAssumption
<1>1. CASE ranks \in [Retrievers -> Nat \ {0}]
  <2>1. ranks.dense \in Nat \ {0} /\ ranks.lexical \in Nat \ {0} /\ DOMAIN ranks = Retrievers
    BY <1>1 DEF Retrievers
  <2>2. (rrf_k + ranks.dense) * (rrf_k + ranks.lexical) \in Nat \ {0}
    BY <2>1, SMT
  <2>3. Cardinality(Retrievers) = 2
    <3>1. IsFiniteSet({"dense"}) /\ Cardinality({"dense"}) = 1 /\ "lexical" \notin {"dense"}
      BY FS_Singleton
    <3>2. Cardinality({"dense"} \cup {"lexical"}) = Cardinality({"dense"}) + 1
      BY ONLY <3>1, FS_AddElement
    <3>3. Retrievers = {"dense"} \cup {"lexical"}
      BY DEF Retrievers
    <3> QED
      BY <3>1, <3>2, <3>3
  <2> QED
    BY <2>1, <2>2, <2>3 DEF Score
<1>2. ASSUME NEW r \in Retrievers, ranks \in [{r} -> Nat \ {0}]
      PROVE  /\ Score(ranks).num \in Nat \ {0} /\ Score(ranks).den \in Nat \ {0}
             /\ Cardinality(DOMAIN ranks) \in Nat
  <2>1. DOMAIN ranks = {r} /\ {r} # Retrievers /\ (CHOOSE s \in DOMAIN ranks : TRUE) = r
    BY <1>2 DEF Retrievers
  <2>2. Cardinality({r}) = 1
    BY FS_Singleton
  <2> QED
    BY <1>2, <2>1, <2>2 DEF Score
<1> QED
  BY <1>1, <1>2 DEF RankMaps, Retrievers

LEMMA BeforeOrders ==
  ASSUME NEW H, AreHits(H)
  PROVE  TotalOrder(H, [x \in H |-> {y \in H : Before(y, x)}])
<1> DEFINE N(h) == Score(h.ranks).num
           D(h) == Score(h.ranks).den
           C(h) == Cardinality(DOMAIN h.ranks)
<1>1. \A h \in H : N(h) \in Nat \ {0} /\ D(h) \in Nat \ {0} /\ C(h) \in Nat
  BY ScorePositive DEF AreHits
<1>2. \A h, g \in H : Before(h, g) <=>
        \/ N(h) * D(g) > N(g) * D(h)
        \/ N(h) * D(g) = N(g) * D(h) /\ C(h) > C(g)
        \/ N(h) * D(g) = N(g) * D(h) /\ C(h) = C(g) /\ IdBefore(h.chunk, g.chunk)
  BY DEF Before
<1> HIDE DEF N, D, C
<1>3. \A h, g \in H : N(h) * D(g) \in Nat
  BY <1>1, SMT
<1>4. \A h, g \in H :
        h.chunk = g.chunk \/ IdBefore(h.chunk, g.chunk) \/ IdBefore(g.chunk, h.chunk)
  BY DEF AreHits, IdBefore, Ids
<1>5. \A h \in H : ~IdBefore(h.chunk, h.chunk)
  BY DEF AreHits, IdBefore, Ids
<1>6. \A f, g, h \in H :
        IdBefore(f.chunk, g.chunk) /\ IdBefore(g.chunk, h.chunk) => IdBefore(f.chunk, h.chunk)
  BY DEF AreHits, IdBefore, Ids
<1>7. \A h \in H : ~Before(h, h)
  BY <1>1, <1>2, <1>3, <1>5
<1>8. \A h, g \in H : h = g \/ Before(h, g) \/ Before(g, h)
  <2> SUFFICES ASSUME NEW h \in H, NEW g \in H, h # g PROVE Before(h, g) \/ Before(g, h)
    OBVIOUS
  <2>1. IdBefore(h.chunk, g.chunk) \/ IdBefore(g.chunk, h.chunk)
    BY <1>4 DEF AreHits
  <2>2. N(h) * D(g) \in Nat /\ N(g) * D(h) \in Nat /\ C(h) \in Nat /\ C(g) \in Nat
    BY <1>1, <1>3
  <2> QED
    BY <1>2, <2>1, <2>2
<1>9. \A f, g, h \in H : Before(f, g) /\ Before(g, h) => Before(f, h)
  <2> SUFFICES ASSUME NEW f \in H, NEW g \in H, NEW h \in H, Before(f, g), Before(g, h)
               PROVE  Before(f, h)
    OBVIOUS
  <2>1. /\ N(f) * D(g) \in Nat /\ N(g) * D(f) \in Nat /\ N(g) * D(h) \in Nat
        /\ N(h) * D(g) \in Nat /\ N(f) * D(h) \in Nat /\ N(h) * D(f) \in Nat
        /\ C(f) \in Nat /\ C(g) \in Nat /\ C(h) \in Nat
    BY <1>1, <1>3
  <2>2. N(f) * D(g) >= N(g) * D(f) /\ N(g) * D(h) >= N(h) * D(g)
    BY <1>2, <2>1
  <2>3. /\ N(f) * D(h) >= N(h) * D(f)
        /\ N(f) * D(g) > N(g) * D(f) \/ N(g) * D(h) > N(h) * D(g) => N(f) * D(h) > N(h) * D(f)
    BY <1>1, <2>2, FractionsCompose
  <2>4. CASE N(f) * D(h) > N(h) * D(f)
    BY <1>2, <2>4
  <2>5. CASE N(f) * D(h) = N(h) * D(f)
    <3>1. N(f) * D(g) = N(g) * D(f) /\ N(g) * D(h) = N(h) * D(g)
      BY <2>1, <2>2, <2>3, <2>5
    <3>2. C(f) > C(g) \/ (C(f) = C(g) /\ IdBefore(f.chunk, g.chunk))
      BY <1>2, <2>1, <3>1
    <3>3. C(g) > C(h) \/ (C(g) = C(h) /\ IdBefore(g.chunk, h.chunk))
      BY <1>2, <2>1, <3>1
    <3>4. C(f) > C(h) \/ (C(f) = C(h) /\ IdBefore(f.chunk, h.chunk))
      BY <1>6, <2>1, <3>2, <3>3
    <3> QED
      BY <1>2, <2>5, <3>4
  <2> QED
    BY <2>1, <2>3, <2>4, <2>5
<1> QED
  BY <1>7, <1>8, <1>9 DEF TotalOrder

LEMMA RangeFinite ==
  ASSUME NEW S, NEW s \in Seq(S)
  PROVE  IsFiniteSet(Range(s)) /\ Range(s) \subseteq S /\ Cardinality(Range(s)) <= Len(s)
<1>1. Len(s) \in Nat /\ DOMAIN s = 1 .. Len(s) /\ s \in [1 .. Len(s) -> S]
  BY LenProperties
<1>2. IsFiniteSet(1 .. Len(s)) /\ Cardinality(1 .. Len(s)) = Len(s)
  BY <1>1, FS_Interval
<1>3. s \in Surjection(1 .. Len(s), Range(s))
  BY <1>1 DEF Surjection, Range
<1> QED
  BY <1>1, <1>2, <1>3, FS_Surjection DEF Range

(* What may be fused: lists of different ids. *)
AreRankings(lists) ==
  /\ lists \in [Retrievers -> Seq(Ids)]
  /\ \A r \in Retrievers : IsInjective(lists[r])

(* A chunk's rank is its place in the list. *)
LEMMA RanksOf ==
  ASSUME NEW lists, AreRankings(lists), NEW c \in Ids
  PROVE  /\ DOMAIN Ranks(lists, c) = {r \in Retrievers : c \in Range(lists[r])}
         /\ \A r \in DOMAIN Ranks(lists, c) :
              /\ Ranks(lists, c)[r] \in DOMAIN lists[r]
              /\ lists[r][Ranks(lists, c)[r]] = c
         /\ \A r \in Retrievers : \A n \in DOMAIN lists[r] :
              lists[r][n] = c => r \in DOMAIN Ranks(lists, c) /\ Ranks(lists, c)[r] = n
<1> DEFINE R == {r \in Retrievers : c \in Range(lists[r])}
           first(r, p) == lists[r][p] = c /\ \A q \in 1 .. p - 1 : lists[r][q] # c
           P(r) == CHOOSE p \in DOMAIN lists[r] : first(r, p)
<1>1. Ranks(lists, c) = [r \in R |-> P(r)]
  BY DEF Ranks
<1>2. \A r \in Retrievers : Len(lists[r]) \in Nat /\ DOMAIN lists[r] = 1 .. Len(lists[r])
  BY LenProperties DEF AreRankings
<1>3. \A r \in Retrievers : \A m, n \in DOMAIN lists[r] : lists[r][m] = lists[r][n] => m = n
  BY DEF AreRankings, IsInjective
<1>4. \A r \in Retrievers : \A n \in DOMAIN lists[r] : lists[r][n] = c => first(r, n)
  BY <1>2, <1>3
<1>5. \A r \in R : \E n \in DOMAIN lists[r] : lists[r][n] = c
  BY DEF Range
<1>6. \A r \in R : P(r) \in DOMAIN lists[r] /\ first(r, P(r))
  <2> HIDE DEF first
  <2> QED
    BY <1>4, <1>5
<1>7. \A r \in R : P(r) \in DOMAIN lists[r] /\ lists[r][P(r)] = c
  BY <1>6
<1>8. \A r \in Retrievers : \A n \in DOMAIN lists[r] : lists[r][n] = c => r \in R
  BY DEF Range
<1> HIDE DEF P, R
<1> QED
  BY <1>1, <1>3, <1>7, <1>8 DEF R

LEMMA HitsAre ==
  ASSUME NEW lists, AreRankings(lists)
  PROVE  AreHits(Hits(lists)) /\ IsFiniteSet(Hits(lists))
<1> DEFINE F == UNION {Range(lists[r]) : r \in Retrievers}
           H == Hits(lists)
           h == [c \in F |-> [chunk |-> c, ranks |-> Ranks(lists, c)]]
<1>1. H = {[chunk |-> c, ranks |-> Ranks(lists, c)] : c \in F}
  BY DEF Hits
<1>2. F = Range(lists["dense"]) \cup Range(lists["lexical"])
  BY DEF Retrievers
<1>3. F \subseteq Ids /\ IsFiniteSet(F)
  <2>1. lists["dense"] \in Seq(Ids) /\ lists["lexical"] \in Seq(Ids)
    BY DEF AreRankings, Retrievers
  <2>2. /\ IsFiniteSet(Range(lists["dense"])) /\ Range(lists["dense"]) \subseteq Ids
        /\ IsFiniteSet(Range(lists["lexical"])) /\ Range(lists["lexical"]) \subseteq Ids
    BY <2>1, RangeFinite
  <2> QED
    BY <1>2, <2>2, FS_Union
<1>4. \A c \in F : \E r \in Retrievers : c \in Range(lists[r])
  OBVIOUS
<1> HIDE DEF F
<1>5. \A c \in F : Ranks(lists, c) \in RankMaps
  <2> SUFFICES ASSUME NEW c \in F PROVE Ranks(lists, c) \in RankMaps
    OBVIOUS
  <2> DEFINE k == Ranks(lists, c)
  <2>1. /\ DOMAIN k = {r \in Retrievers : c \in Range(lists[r])}
        /\ \A r \in DOMAIN k : k[r] \in DOMAIN lists[r]
    BY <1>3, RanksOf
  <2>2. \A r \in Retrievers : DOMAIN lists[r] \subseteq Nat \ {0}
    BY LenProperties DEF AreRankings
  <2>3. k = [r \in DOMAIN k |-> k[r]]
    BY DEF Ranks
  <2>4. k \in [DOMAIN k -> Nat \ {0}]
    <3> HIDE DEF k
    <3> QED
      BY <2>1, <2>2, <2>3
  <2>5. DOMAIN k \in {{"dense"}, {"lexical"}, Retrievers}
    <3>1. DOMAIN k \in SUBSET {"dense", "lexical"} /\ DOMAIN k # {}
      BY <1>4, <2>1 DEF Retrievers
    <3> QED
      BY ONLY <3>1 DEF Retrievers
  <2> HIDE DEF k
  <2>6. k \in RankMaps
    BY <2>4, <2>5 DEF RankMaps
  <2> QED
    BY <2>6 DEF k
<1>6. AreHits(H)
  BY <1>1, <1>3, <1>5 DEF AreHits
<1>7. IsFiniteSet(H)
  <2>1. h \in Surjection(F, H)
    BY <1>1 DEF Surjection
  <2> QED
    BY <1>3, <2>1, FS_Surjection
<1> QED
  BY <1>6, <1>7

(* A sequence s of the hits in H: best first, each once. *)
BestFirst(s, H) ==
  /\ s \in Seq(H) /\ Len(s) = Cardinality(H) /\ Len(s) \in Nat /\ DOMAIN s = 1 .. Len(s)
  /\ \A h \in H : \E n \in 1 .. Len(s) : s[n] = h
  /\ \A m, n \in 1 .. Len(s) : m < n <=> Before(s[m], s[n])
  /\ \A m, n \in 1 .. Len(s) : s[m] = s[n] => m = n

LEMMA InOrderSorts ==
  ASSUME NEW H, AreHits(H), IsFiniteSet(H)
  PROVE  BestFirst(InOrder(H, Before), H)
<1> DEFINE below == [x \in H |-> {y \in H : Before(y, x)}]
           s == Ranked(H, below)
<1>1. TotalOrder(H, below)
  BY BeforeOrders
<1>2. InOrder(H, Before) = s
  BY DEF InOrder
<1>3. \A x, y \in H : y \in below[x] <=> Before(y, x)
  OBVIOUS
<1> HIDE DEF below
<1>4. /\ s \in Seq(H) /\ Len(s) = Cardinality(H) /\ Len(s) \in Nat
      /\ DOMAIN s = 1 .. Len(s)
      /\ \A x \in H : \E n \in 1 .. Len(s) : s[n] = x
      /\ \A m, n \in 1 .. Len(s) : m < n => s[m] \in below[s[n]]
      /\ \A m, n \in 1 .. Len(s) : s[m] \in below[s[n]] => m < n
  BY <1>1, RankedInOrder
<1> HIDE DEF s
<1>5. \A n \in 1 .. Len(s) : s[n] \in H
  BY <1>4, ElementOfSeq
<1>6. \A m, n \in 1 .. Len(s) : m < n <=> Before(s[m], s[n])
  BY <1>3, <1>4, <1>5
<1>7. \A m, n \in 1 .. Len(s) : s[m] = s[n] => m = n
  <2> SUFFICES ASSUME NEW m \in 1 .. Len(s), NEW n \in 1 .. Len(s), s[m] = s[n] PROVE m = n
    OBVIOUS
  <2>1. s[n] \notin below[s[n]] /\ s[m] \notin below[s[m]]
    BY <1>1, <1>5 DEF TotalOrder
  <2>2. ~(m < n) /\ ~(n < m)
    BY <1>4, <2>1
  <2> QED
    BY <1>4, <2>2
<1> QED
  BY <1>2, <1>4, <1>6, <1>7 DEF BestFirst

LEMMA TheLess ==
  ASSUME NEW m \in Nat, NEW n \in Nat
  PROVE  Min({m, n}) \in {m, n} /\ Min({m, n}) \in Nat /\ Min({m, n}) <= m /\ Min({m, n}) <= n
<1>1. {m, n} \in SUBSET Nat /\ {m, n} # {}
  OBVIOUS
<1>2. Min({m, n}) \in {m, n} /\ \A k \in {m, n} : Min({m, n}) <= k
  BY <1>1, LeastIn
<1> QED
  BY <1>1, <1>2

(* The fused list is the beginning of the ordered one. *)
LEMMA FusedFirst ==
  ASSUME NEW lists, AreRankings(lists)
  PROVE  LET o == InOrder(Hits(lists), Before)
             f == reciprocal_rank_fusion(lists)
         IN /\ BestFirst(o, Hits(lists))
            /\ f \in Seq(Hits(lists)) /\ Len(f) \in Nat /\ DOMAIN f = 1 .. Len(f)
            /\ Len(f) <= Len(o) /\ Len(f) <= rerank_top_n /\ Len(f) \in {Len(o), rerank_top_n}
            /\ \A n \in 1 .. Len(f) : f[n] = o[n]
<1> DEFINE o == InOrder(Hits(lists), Before)
           N == Min({Len(o), rerank_top_n})
<1>1. BestFirst(o, Hits(lists))
  BY HitsAre, InOrderSorts
<1>2. reciprocal_rank_fusion(lists) = SubSeq(o, 1, N)
  BY DEF reciprocal_rank_fusion
<1> HIDE DEF o
<1>3. o \in Seq(Hits(lists)) /\ Len(o) \in Nat
  BY <1>1 DEF BestFirst
<1>4. rerank_top_n \in Nat
  BY RetrievalAssumption
<1>5. N \in {Len(o), rerank_top_n} /\ N \in Nat /\ N <= Len(o) /\ N <= rerank_top_n
  BY <1>3, <1>4, TheLess
<1> DEFINE f == SubSeq(o, 1, N)
<1> HIDE DEF N
<1>6. \A k \in 1 .. N : k \in 1 .. Len(o)
  BY <1>3, <1>5
<1>7. /\ f \in Seq(Hits(lists)) /\ Len(f) = (IF 1 <= N THEN N - 1 + 1 ELSE 0)
      /\ \A k \in 1 .. N - 1 + 1 : f[k] = o[1 + k - 1]
  BY <1>3, <1>5, <1>6, SubSeqProperties
<1> HIDE DEF f
<1>8. Len(f) = N /\ \A k \in 1 .. N : f[k] = o[k]
  BY <1>5, <1>7
<1>9. DOMAIN f = 1 .. Len(f)
  BY <1>7, LenProperties
<1> QED
  BY <1>1, <1>2, <1>5, <1>7, <1>8, <1>9 DEF f, o

LEMMA ResolvedFirst ==
  ASSUME NEW lists, AreRankings(lists), NEW T
  PROVE  LET f == reciprocal_rank_fusion(lists)
             G == {h \in Range(f) : h.chunk \in T}
         IN /\ BestFirst(Resolved(f, T), G) /\ AreHits(G)
            /\ Cardinality(G) <= Len(f)
<1> DEFINE f == reciprocal_rank_fusion(lists)
           G == {h \in Range(f) : h.chunk \in T}
<1>1. f \in Seq(Hits(lists)) /\ Len(f) \in Nat
  BY FusedFirst
<1>2. IsFiniteSet(Range(f)) /\ Range(f) \subseteq Hits(lists) /\ Cardinality(Range(f)) <= Len(f)
  BY <1>1, RangeFinite
<1>3. Resolved(f, T) = InOrder(G, Before)
  BY DEF Resolved
<1> HIDE DEF f
<1>4. G \in SUBSET Range(f)
  OBVIOUS
<1>5. IsFiniteSet(G) /\ Cardinality(G) <= Cardinality(Range(f))
  BY <1>2, <1>4, FS_Subset
<1>6. Cardinality(G) \in Nat /\ Cardinality(Range(f)) \in Nat
  BY <1>2, <1>5, FS_CardinalityType
<1>7. AreHits(G)
  BY <1>2, HitsAre DEF AreHits
<1> HIDE DEF G
<1>8. BestFirst(InOrder(G, Before), G)
  BY <1>5, <1>7, InOrderSorts
<1> QED
  BY <1>1, <1>2, <1>3, <1>5, <1>6, <1>7, <1>8 DEF f, G

-----------------------------------------------------------------------------
(* The request *)

(* The lists are of chunks that have existed, each of them once, and there *)
(* is no answer before the end.                                            *)
RInv ==
  /\ RetrievalTypeOK
  /\ AreRankings(rankings)
  /\ points \subseteq EverLive
  /\ phase # "answered" => passages = <<>>
  /\ passages \in Seq([chunk : Ids, ranks : RankMaps])
  /\ OneVersionShown

LEMMA EverLiveIds ==
  ASSUME IInv
  PROVE  /\ EverLive \subseteq Ids
         /\ Live \subseteq EverLive
         /\ \A d \in Documents, v \in Nat : v \in 1 .. version[d] => Chunks(d, v) \subseteq EverLive
         /\ \A c, e \in Live : c[1] = e[1] => c[2] = e[2]
<1>1. \A d \in Documents : d \in Nat /\ version[d] \in Nat /\ version[d] \in 1 .. version[d]
  BY IndexAssumption DEF IInv, IndexTypeOK
<1>2. Parts \subseteq Nat
  BY IndexAssumption
<1>3. \A c \in EverLive : \E d \in Documents : c \in {d} \X (1 .. version[d]) \X Parts
  BY DEF EverLive
<1>4. EverLive \subseteq Ids
  <2>1. \A d \in Documents : {d} \subseteq Nat /\ 1 .. version[d] \subseteq Nat
    BY <1>1
  <2>2. \A d \in Documents : {d} \X (1 .. version[d]) \X Parts \subseteq Ids
    BY ONLY <1>2, <2>1 DEF Ids
  <2> QED
    BY ONLY <1>3, <2>2
<1>5. \A d \in Documents, v \in Nat : v \in 1 .. version[d] => Chunks(d, v) \subseteq EverLive
  BY DEF EverLive, Chunks
<1>6. \A c \in Live : \E d \in Documents : c \in {d} \X {version[d]} \X Parts
  BY DEF Live, Chunks
<1>7. Live \subseteq EverLive
  BY <1>1, <1>6 DEF EverLive
<1>8. \A c \in Live : c[1] \in Documents /\ c[2] = version[c[1]]
  BY <1>6
<1> QED
  BY <1>4, <1>5, <1>7, <1>8

LEMMA InitRInv == RetrievalInit => RInv
<1> SUFFICES ASSUME RetrievalInit PROVE RInv
  OBVIOUS
<1> USE DEF RetrievalInit
<1>1. IInv
  BY InitIInv
<1>2. <<>> \in Seq(Ids) /\ Len(<<>>) = 0 /\ Range(<<>>) = {} /\ IsInjective(<<>>)
  BY DEF Range, IsInjective
<1>3. AreRankings(rankings)
  BY <1>2 DEF AreRankings
<1>4. RetrievalTypeOK
  BY <1>1, <1>2, RetrievalAssumption DEF RetrievalTypeOK, IInv, Retrievers
<1>5. points \subseteq EverLive
  <2>1. \A d \in Documents : Chunks(d, 1) \subseteq EverLive
    BY <1>1, EverLiveIds DEF IndexInit
  <2> QED
    BY <2>1 DEF IndexInit
<1>6. OneVersionShown
  BY DEF OneVersionShown
<1> QED
  BY <1>3, <1>4, <1>5, <1>6 DEF RInv

(* One retriever answers: a list of up to retrieval_top_k different chunks. *)
LEMMA AnswersRInv ==
  ASSUME IInv, RInv, NEW r \in Retrievers, NEW S \in SUBSET EverLive,
         NEW n \in 0 .. retrieval_top_k, NEW list \in RankedLists(S, n), Answers(r, list)
  PROVE  RInv'
<1> USE DEF RInv, RetrievalTypeOK, Answers
<1>0. EverLive \subseteq Ids
  BY EverLiveIds
<1>1. n \in Nat /\ n <= retrieval_top_k
  BY RetrievalAssumption
<1>2. list \in [1 .. n -> S] /\ IsInjective(list)
  BY DEF RankedLists
<1>3. list \in Seq(S) /\ Len(list) = n /\ Range(list) \subseteq S
  <2>1. list \in Seq(S)
    BY <1>1, <1>2, SeqDef
  <2>2. DOMAIN list = 1 .. n /\ DOMAIN list = 1 .. Len(list) /\ Len(list) \in Nat
    BY <1>2, <2>1, LenProperties
  <2> QED
    BY <1>1, <2>1, <2>2, RangeFinite
<1>4. list \in Seq(Ids)
  <2>1. list \in [1 .. n -> Ids]
    BY <1>0, <1>2
  <2> QED
    BY <1>1, <2>1, SeqDef
<1>5. UNCHANGED <<ivars, scope, passages>> /\ EverLive' = EverLive
  BY DEF ivars, EverLive
<1>6. AreRankings(rankings')
  BY <1>2, <1>4 DEF AreRankings
<1>7. RetrievalTypeOK'
  <2>1. IndexTypeOK'
    BY <1>5 DEF IndexTypeOK, ivars, PointsOf
  <2>2. rankings' = [rankings EXCEPT ![r] = list] /\ rankings \in [Retrievers -> Seq(Ids)]
    BY DEF AreRankings
  <2>3. \A s \in Retrievers :
          /\ Len(rankings'[s]) <= retrieval_top_k
          /\ s \in waiting' => rankings'[s] = <<>>
          /\ IsInjective(rankings'[s])
          /\ Range(rankings'[s]) \subseteq EverLive
    BY <1>1, <1>2, <1>3, <2>2
  <2>4. phase' \in {"gather", "resolve", "answered"} /\ waiting' \subseteq Retrievers
    OBVIOUS
  <2>5. phase' \in {"resolve", "answered"} <=> waiting' = {}
    OBVIOUS
  <2> QED
    BY <1>5, <2>1, <2>3, <2>4, <2>5
<1>8. passages' = passages /\ phase = "gather"
  OBVIOUS
<1> QED
  BY <1>5, <1>6, <1>7, <1>8 DEF OneVersionShown, ivars, AreRankings

(* The passages are resolved. *)
LEMMA ResolveRInv ==
  ASSUME IInv, RInv, resolve
  PROVE  RInv'
<1> USE DEF RInv, RetrievalTypeOK, resolve
<1> DEFINE f == reciprocal_rank_fusion(rankings)
           G == {h \in Range(f) : h.chunk \in Live}
<1>1. BestFirst(passages', G) /\ AreHits(G) /\ Cardinality(G) <= Len(f)
  BY ResolvedFirst
<1>2. Len(f) \in Nat /\ Len(f) <= rerank_top_n
  BY FusedFirst
<1>3. UNCHANGED <<ivars, scope, waiting>> /\ EverLive' = EverLive /\ IndexTypeOK'
  BY DEF ivars, EverLive, IndexTypeOK
<1>4. \A h \in G : h.chunk \in Live
  OBVIOUS
<1>5. \A h \in G : h = [chunk |-> h.chunk, ranks |-> h.ranks] /\ h.chunk \in Ids /\ h.ranks \in RankMaps
  <2>1. f \in Seq(Hits(rankings))
    BY FusedFirst
  <2>2. G \subseteq Hits(rankings)
    BY <2>1, RangeFinite
  <2> QED
    BY <1>1, <2>2 DEF Hits, AreHits
<1> HIDE DEF G, f
<1>6. /\ passages' \in Seq(G) /\ Len(passages') = Cardinality(G) /\ Len(passages') \in Nat
      /\ DOMAIN passages' = 1 .. Len(passages')
      /\ \A i, j \in DOMAIN passages' : passages'[i] = passages'[j] => i = j
  BY <1>1 DEF BestFirst
<1>7. \A i \in DOMAIN passages' : passages'[i] \in G
  BY <1>6, ElementOfSeq
<1>8. Len(passages') <= rerank_top_n
  BY <1>1, <1>2, <1>6, RetrievalAssumption
<1>9. OneVersionShown'
  <2>1. \A c, e \in Live : c[1] = e[1] => c[2] = e[2]
    BY EverLiveIds
  <2>2. \A i, j \in DOMAIN passages' : passages'[i].chunk = passages'[j].chunk => i = j
    BY <1>1, <1>6, <1>7 DEF AreHits
  <2> QED
    BY <1>4, <1>7, <2>1, <2>2 DEF OneVersionShown
<1>10. passages' \in Seq([chunk : Ids, ranks : RankMaps])
  <2>1. G \subseteq [chunk : Ids, ranks : RankMaps]
    BY <1>5
  <2> QED
    BY <1>6, <2>1, SeqMonotonic
<1>11. rankings' = [s \in Retrievers |-> <<>>] /\ waiting = {} /\ waiting' = {}
  OBVIOUS
<1>12. <<>> \in Seq(Ids) /\ Len(<<>>) = 0 /\ Range(<<>>) = {} /\ IsInjective(<<>>)
  BY DEF Range, IsInjective
<1>13. RetrievalTypeOK' /\ AreRankings(rankings')
  BY <1>3, <1>8, <1>11, <1>12, RetrievalAssumption DEF AreRankings
<1> QED
  BY <1>3, <1>9, <1>10, <1>13 DEF ivars

(* Ids stay ids of chunks that have existed: versions only grow. *)
LEMMA IndexRInv ==
  ASSUME IInv, IInv', RInv, IndexNext, UNCHANGED qvars
  PROVE  RInv'
<1> USE DEF RInv, RetrievalTypeOK, qvars
<1>1. \A d \in Documents : version[d] \in Nat /\ version'[d] \in Nat /\ version[d] <= version'[d]
  <2>0. version \in [Documents -> Nat]
    BY DEF IInv, IndexTypeOK
  <2>1. \/ version' = version
        \/ \E d \in Documents : version' = [version EXCEPT ![d] = @ + 1]
    BY DEF IndexNext, embed_stage, load_chunks, ensure_collection, create_collection,
           delete_document, upsert_chunks, replace_chunks
  <2> QED
    BY ONLY <2>0, <2>1
<1>2. EverLive \subseteq EverLive'
  BY <1>1 DEF EverLive
<1>3. points' \subseteq points \cup UNION {Chunks(d, v) : d \in Documents, v \in Nat}
  BY DEF IInv, IndexTypeOK, IndexNext, embed_stage, load_chunks, ensure_collection,
         create_collection, delete_document, upsert_chunks, replace_chunks, Go
<1>4. points' \subseteq EverLive'
  <2> SUFFICES ASSUME NEW p \in points' PROVE p \in EverLive'
    OBVIOUS
  <2>1. CASE p \in points
    BY <1>2, <2>1
  <2>2. ASSUME NEW d \in Documents, NEW v \in Nat, p \in Chunks(d, v) PROVE p \in EverLive'
    <3>1. p[1] = d /\ p[2] = v
      BY <2>2, ChunksFacts
    <3>2. v \in 1 .. version'[d]
      BY <3>1 DEF IInv, IndexTypeOK
    <3> QED
      BY <2>2, <3>2 DEF EverLive, Chunks
  <2> QED
    BY <1>3, <2>1, <2>2
<1>5. RetrievalTypeOK'
  BY <1>2 DEF IInv
<1> QED
  BY <1>4, <1>5 DEF OneVersionShown, AreRankings

LEMMA NextRInv == IInv /\ IInv' /\ RInv /\ [RetrievalNext]_rvars => RInv'
<1> SUFFICES ASSUME IInv, IInv', RInv, [RetrievalNext]_rvars PROVE RInv'
  OBVIOUS
<1>1. CASE IndexNext /\ UNCHANGED qvars
  BY <1>1, IndexRInv
<1>2. CASE _dense
  <2>1. PICK n \in 0 .. retrieval_top_k :
          \E list \in RankedLists({p \in points : scope = {} \/ p[1] \in scope}, n) :
            Answers("dense", list)
    BY <1>2 DEF _dense
  <2>2. {p \in points : scope = {} \/ p[1] \in scope} \in SUBSET EverLive
    BY DEF RInv
  <2> QED
    BY <2>1, <2>2, AnswersRInv DEF Retrievers
<1>3. CASE _lexical
  <2>1. Live \in SUBSET EverLive
    BY EverLiveIds
  <2> QED
    BY <1>3, <2>1, AnswersRInv DEF _lexical, Retrievers
<1>4. ASSUME NEW r \in Retrievers, retriever_fails(r) PROVE RInv'
  <2>1. <<>> \in RankedLists({}, 0) /\ 0 \in 0 .. retrieval_top_k /\ {} \in SUBSET EverLive
    BY RetrievalAssumption DEF RankedLists, IsInjective
  <2> QED
    BY <1>4, <2>1, AnswersRInv DEF retriever_fails
<1>5. CASE resolve
  BY <1>5, ResolveRInv
<1>6. CASE UNCHANGED rvars
  BY <1>6 DEF RInv, RetrievalTypeOK, AreRankings, OneVersionShown, EverLive, IInv,
              rvars, ivars, qvars
<1> QED
  BY <1>1, <1>2, <1>3, <1>4, <1>5, <1>6 DEF RetrievalNext, Request

LEMMA RInvCorrect == RetrievalSpec => []RInv
<1>1. RetrievalSpec => [](IInv /\ RInv)
  <2>1. RetrievalSpec => []IInv
    BY IndexInvariant
  <2> QED
    BY <2>1, InitRInv, NextRInv, PTL DEF RetrievalSpec
<1> QED
  BY <1>1, PTL

(* The type invariant of the request: the lists are of different chunks    *)
(* that have existed, no longer than asked for, and so is the answer.      *)
THEOREM RetrievalTypeCorrect == RetrievalSpec => []RetrievalTypeOK
<1>1. RInv => RetrievalTypeOK
  BY DEF RInv
<1> QED
  BY <1>1, RInvCorrect, PTL

(* The passages of an answer are chunks of one moment: no document shows   *)
(* two versions of itself, and no chunk is shown twice.                    *)
THEOREM OneVersionCorrect == RetrievalSpec => []OneVersionShown
<1>1. RInv => OneVersionShown
  BY DEF RInv
<1> QED
  BY <1>1, RInvCorrect, PTL

(* What a hit is made of. *)
LEMMA HitOf ==
  ASSUME RInv, NEW h \in Hits(rankings)
  PROVE  /\ h.chunk \in Ids /\ h.ranks = Ranks(rankings, h.chunk)
         /\ DOMAIN h.ranks \in {{"dense"}, {"lexical"}, Retrievers}
         /\ h.ranks \in [DOMAIN h.ranks -> 1 .. retrieval_top_k]
         /\ \A r \in DOMAIN h.ranks :
              h.ranks[r] \in DOMAIN rankings[r] /\ rankings[r][h.ranks[r]] = h.chunk
<1>1. AreRankings(rankings) /\ RetrievalTypeOK
  BY DEF RInv
<1>2. h.chunk \in Ids /\ h.ranks \in RankMaps
  BY <1>1, HitsAre DEF AreHits
<1>3. h.ranks = Ranks(rankings, h.chunk)
  BY DEF Hits
<1>4. \A r \in DOMAIN h.ranks :
        r \in Retrievers /\ h.ranks[r] \in DOMAIN rankings[r] /\ rankings[r][h.ranks[r]] = h.chunk
  <2>1. \A c \in Ids :
          /\ DOMAIN Ranks(rankings, c) = {r \in Retrievers : c \in Range(rankings[r])}
          /\ \A r \in DOMAIN Ranks(rankings, c) :
               /\ Ranks(rankings, c)[r] \in DOMAIN rankings[r]
               /\ rankings[r][Ranks(rankings, c)[r]] = c
    BY ONLY <1>1, RanksOf
  <2> QED
    BY ONLY <1>2, <1>3, <2>1
<1>5. \A r \in Retrievers : DOMAIN rankings[r] \subseteq 1 .. retrieval_top_k
  <2> SUFFICES ASSUME NEW r \in Retrievers PROVE DOMAIN rankings[r] \subseteq 1 .. retrieval_top_k
    OBVIOUS
  <2>1. Len(rankings[r]) \in Nat /\ DOMAIN rankings[r] = 1 .. Len(rankings[r])
    BY <1>1, LenProperties DEF AreRankings
  <2>2. Len(rankings[r]) <= retrieval_top_k /\ retrieval_top_k \in Nat
    BY <1>1, RetrievalAssumption DEF RetrievalTypeOK
  <2> QED
    BY ONLY <2>1, <2>2
<1>6. h.ranks = [r \in DOMAIN h.ranks |-> h.ranks[r]] /\ DOMAIN h.ranks \in {{"dense"}, {"lexical"}, Retrievers}
  BY <1>2 DEF RankMaps
<1>7. h.ranks \in [DOMAIN h.ranks -> 1 .. retrieval_top_k]
  BY ONLY <1>4, <1>5, <1>6
<1> QED
  BY <1>2, <1>3, <1>4, <1>6, <1>7

(* The hits that are resolved, and where they are in the fused list. *)
LEMMA Shown ==
  ASSUME RInv, resolve
  PROVE  LET o == InOrder(Hits(rankings), Before)
             f == reciprocal_rank_fusion(rankings)
         IN /\ \A i \in DOMAIN passages' :
                 \E n \in 1 .. Len(f) : passages'[i] = o[n] /\ o[n].chunk \in Live
            /\ \A n \in 1 .. Len(f) : o[n].chunk \in Live =>
                 \E i \in DOMAIN passages' : passages'[i] = o[n]
            /\ \A i, j \in DOMAIN passages' :
                 i \in Nat \ {0} /\ j \in Nat \ {0} /\ (i < j <=> Before(passages'[i], passages'[j]))
<1> DEFINE o == InOrder(Hits(rankings), Before)
           f == reciprocal_rank_fusion(rankings)
           G == {h \in Range(f) : h.chunk \in Live}
<1>1. AreRankings(rankings) /\ passages' = Resolved(f, Live)
  BY DEF RInv, resolve
<1>2. BestFirst(passages', G)
  BY <1>1, ResolvedFirst
<1>3. DOMAIN f = 1 .. Len(f) /\ \A n \in 1 .. Len(f) : f[n] = o[n]
  BY <1>1, FusedFirst
<1> HIDE DEF f, o
<1>4. \A h : h \in Range(f) <=> \E n \in 1 .. Len(f) : h = o[n]
  BY <1>3 DEF Range
<1>5. \A h : h \in G <=> h.chunk \in Live /\ \E n \in 1 .. Len(f) : h = o[n]
  BY <1>4
<1> HIDE DEF G
<1>6. /\ passages' \in Seq(G) /\ Len(passages') \in Nat /\ DOMAIN passages' = 1 .. Len(passages')
      /\ \A h \in G : \E n \in 1 .. Len(passages') : passages'[n] = h
      /\ \A m, n \in 1 .. Len(passages') : m < n <=> Before(passages'[m], passages'[n])
  BY <1>2 DEF BestFirst
<1>7. \A i \in DOMAIN passages' : passages'[i] \in G
  BY <1>6, ElementOfSeq
<1>8. \A i \in DOMAIN passages' :
        \E n \in 1 .. Len(f) : passages'[i] = o[n] /\ o[n].chunk \in Live
  BY <1>5, <1>7
<1>9. \A n \in 1 .. Len(f) : o[n].chunk \in Live => \E i \in DOMAIN passages' : passages'[i] = o[n]
  BY <1>5, <1>6
<1>10. \A i, j \in DOMAIN passages' :
         i \in Nat \ {0} /\ j \in Nat \ {0} /\ (i < j <=> Before(passages'[i], passages'[j]))
  BY <1>6
<1> QED
  BY <1>8, <1>9, <1>10 DEF o, f

LEMMA LastStep ==
  ASSUME RInv, [RetrievalNext]_rvars, phase # phase', phase' = "answered"
  PROVE  \/ resolve
         \/ /\ \A s \in Retrievers : rankings[s] = <<>> /\ rankings'[s] = <<>>
            /\ phase = "gather" /\ passages' = <<>>
<1>1. resolve \/ \E r \in Retrievers : \E list : Answers(r, list)
  BY DEF RetrievalNext, Request, rvars, qvars, _dense, _lexical, retriever_fails, Retrievers
<1>2. ASSUME NEW r \in Retrievers, NEW list, Answers(r, list)
      PROVE  /\ \A s \in Retrievers : rankings[s] = <<>> /\ rankings'[s] = <<>>
             /\ phase = "gather" /\ passages' = <<>>
  <2>1. r \in waiting /\ rankings' = [rankings EXCEPT ![r] = list] /\ phase = "gather"
        /\ passages' = passages /\ \A s \in Retrievers : rankings'[s] = <<>>
    BY <1>2 DEF Answers
  <2>2. rankings \in [Retrievers -> Seq(Ids)] /\ rankings[r] = <<>> /\ passages = <<>>
    BY <2>1 DEF RInv, AreRankings, RetrievalTypeOK
  <2> QED
    BY <2>1, <2>2
<1> QED
  BY <1>1, <1>2

(* What both retrievers found comes before what only one of them found,    *)
(* and is never left out for it, for any damping constant and as long as   *)
(* no more than k + 1 hits are asked for.                                  *)
THEOREM AgreementCorrect == RetrievalSpec => AgreementWins
<1>1. ASSUME RInv, [RetrievalNext]_rvars, retrieval_top_k <= rrf_k + 1, phase = "resolve", Answered',
             NEW i \in DOMAIN passages', ~Both(passages'[i]),
             NEW c \in Range(rankings.dense) \cap Range(rankings.lexical) \cap Live
      PROVE  \E j \in 1 .. i - 1 : passages'[j].chunk = c
  <2> DEFINE o == InOrder(Hits(rankings), Before)
             f == reciprocal_rank_fusion(rankings)
             h == [chunk |-> c, ranks |-> Ranks(rankings, c)]
             g == passages'[i]
  <2>1. resolve
    BY <1>1, LastStep DEF Answered
  <2>2. PICK n \in 1 .. Len(f) : g = o[n] /\ o[n].chunk \in Live
    <3>1. \E n \in 1 .. Len(f) : g = o[n] /\ o[n].chunk \in Live
      BY <1>1, <2>1, Shown
    <3> QED
      BY <3>1
  <2>3. AreRankings(rankings)
    BY <1>1 DEF RInv
  <2>4. /\ BestFirst(o, Hits(rankings)) /\ Len(f) \in Nat /\ Len(f) <= Len(o)
    BY <2>3, FusedFirst
  <2>5. h \in Hits(rankings) /\ h.chunk = c /\ h.ranks = Ranks(rankings, c)
    BY DEF Hits, Retrievers
  <2> HIDE DEF o, f, h, g
  <2>6. Len(o) \in Nat /\ n \in 1 .. Len(o)
    BY <2>4 DEF BestFirst
  <2>7. PICK m \in 1 .. Len(o) : o[m] = h
    BY <2>4, <2>5 DEF BestFirst
  <2>8. g \in Hits(rankings)
    BY <2>2, <2>4, <2>6, ElementOfSeq DEF BestFirst
  <2>9. h.ranks \in [Retrievers -> 1 .. retrieval_top_k]
    <3>1. c \in Ids
      BY <1>1, <2>5, HitOf
    <3>2. DOMAIN h.ranks = Retrievers
      <4>1. DOMAIN Ranks(rankings, c) = {r \in Retrievers : c \in Range(rankings[r])}
        BY <2>3, <3>1, RanksOf
      <4>2. \A r \in Retrievers : c \in Range(rankings[r])
        BY DEF Retrievers
      <4> QED
        BY <2>5, <4>1, <4>2
    <3>3. h.ranks \in [DOMAIN h.ranks -> 1 .. retrieval_top_k]
      BY <1>1, <2>5, HitOf
    <3> QED
      BY <3>2, <3>3
  <2>10. PICK r \in Retrievers : g.ranks \in [{r} -> 1 .. retrieval_top_k]
    <3>1. /\ DOMAIN g.ranks \in {{"dense"}, {"lexical"}, Retrievers}
          /\ g.ranks \in [DOMAIN g.ranks -> 1 .. retrieval_top_k]
      BY <1>1, <2>8, HitOf
    <3>2. DOMAIN g.ranks # Retrievers
      BY <1>1 DEF Both, g
    <3> QED
      BY <3>1, <3>2 DEF Retrievers
  <2>11. Before(h, g)
    BY <1>1, <2>9, <2>10, AgreementBeats
  <2>12. m < n
    BY <2>2, <2>4, <2>6, <2>7, <2>11 DEF BestFirst
  <2>13. m \in 1 .. Len(f)
    BY <2>4, <2>12
  <2>14. PICK j \in DOMAIN passages' : passages'[j] = h
    <3>1. \E j \in DOMAIN passages' : passages'[j] = o[m]
      BY <1>1, <2>1, <2>5, <2>7, <2>13, Shown DEF o, f
    <3> QED
      BY <2>7, <3>1
  <2>15. j \in Nat \ {0} /\ i \in Nat /\ (j < i <=> Before(h, g))
    BY <1>1, <2>1, <2>14, Shown DEF g
  <2>16. j \in 1 .. i - 1
    BY ONLY <2>11, <2>15
  <2> QED
    BY <2>5, <2>14, <2>16
<1>2. RInv /\ [RetrievalNext]_rvars =>
        [(retrieval_top_k <= rrf_k + 1 /\ phase = "resolve" /\ Answered') =>
           \A i \in DOMAIN passages' :
             ~Both(passages'[i]) =>
               \A c \in Range(rankings.dense) \cap Range(rankings.lexical) \cap Live :
                 \E j \in 1 .. i - 1 : passages'[j].chunk = c]_rvars
  BY <1>1
<1> QED
  BY <1>2, RInvCorrect, PTL DEF RetrievalSpec, AgreementWins

-----------------------------------------------------------------------------
(* A list on its own *)

(* Places that ascend and leave none out are those one counts. *)
LEMMA PlacesCount ==
  ASSUME NEW M \in Nat, NEW K \in Nat, NEW p \in [1 .. M -> 1 .. K],
         \A m, n \in 1 .. M : m < n => p[m] < p[n],
         \A k \in 1 .. K : \E n \in 1 .. M : p[n] = k
  PROVE  M = K /\ \A n \in 1 .. M : p[n] = n
<1> DEFINE T == {n \in 1 .. M : p[n] # n}
<1>1. T = {}
  <2> SUFFICES ASSUME T # {} PROVE FALSE
    OBVIOUS
  <2>1. T \in SUBSET Nat
    OBVIOUS
  <2> HIDE DEF T
  <2>2. PICK n \in T : \A m \in T : n <= m
    BY <2>1, LeastNatural
  <2>3. n \in 1 .. M /\ p[n] # n /\ p[n] \in 1 .. K /\ \A m \in 1 .. M : m < n => p[m] = m
    BY <2>1, <2>2 DEF T
  <2>4. CASE p[n] < n
    <3>1. p[n] \in 1 .. M /\ p[p[n]] = p[n]
      BY <2>3, <2>4
    <3> QED
      BY <2>3, <2>4, <3>1
  <2>5. CASE p[n] > n
    <3>1. n \in 1 .. K
      BY <2>3, <2>5
    <3>2. PICK m \in 1 .. M : p[m] = n
      BY <3>1
    <3>3. ~(m < n) /\ m # n
      BY <2>3, <2>5, <3>2
    <3>4. n < m
      BY <2>3, <3>2, <3>3
    <3> QED
      BY <2>3, <2>5, <3>2, <3>4
  <2> QED
    BY <2>3, <2>4, <2>5
<1>2. \A n \in 1 .. M : p[n] = n
  BY <1>1
<1>3. M <= K
  <2>1. CASE M = 0
    BY <2>1
  <2>2. CASE M # 0
    <3>1. M \in 1 .. M
      BY <2>2
    <3>2. p[M] = M /\ p[M] \in 1 .. K
      BY <1>2, <3>1
    <3> QED
      BY <3>2
  <2> QED
    BY <2>1, <2>2
<1>4. K <= M
  <2>1. CASE K = 0
    BY <2>1
  <2>2. CASE K # 0
    <3>1. PICK n \in 1 .. M : p[n] = K
      BY <2>2
    <3> QED
      BY <1>2, <3>1
  <2> QED
    BY <2>1, <2>2
<1> QED
  BY <1>2, <1>3, <1>4

(* When only r found anything, its list is the ordered one. *)
LEMMA OneListOrdered ==
  ASSUME RInv, NEW r \in Retrievers, \A s \in Retrievers \ {r} : rankings[s] = <<>>
  PROVE  LET o == InOrder(Hits(rankings), Before) IN
         /\ Len(o) = Len(rankings[r])
         /\ \A n \in 1 .. Len(o) : o[n].chunk = rankings[r][n]
<1> DEFINE o == InOrder(Hits(rankings), Before)
           H == Hits(rankings)
           L == rankings[r]
<1>1. AreRankings(rankings)
  BY DEF RInv
<1>2. BestFirst(o, H) /\ AreHits(H)
  BY <1>1, HitsAre, InOrderSorts
<1>3. L \in Seq(Ids) /\ Len(L) \in Nat /\ DOMAIN L = 1 .. Len(L)
  BY <1>1, LenProperties DEF AreRankings
<1>4. \A s \in Retrievers : s # r => Range(rankings[s]) = {}
  BY DEF Range
<1> HIDE DEF o
<1>5. \A h \in H : DOMAIN h.ranks = {r} /\ h.ranks[r] \in 1 .. Len(L) /\ L[h.ranks[r]] = h.chunk
  <2> SUFFICES ASSUME NEW h \in H
               PROVE  DOMAIN h.ranks = {r} /\ h.ranks[r] \in 1 .. Len(L) /\ L[h.ranks[r]] = h.chunk
    OBVIOUS
  <2>1. /\ DOMAIN h.ranks \in {{"dense"}, {"lexical"}, Retrievers}
        /\ \A s \in DOMAIN h.ranks :
              h.ranks[s] \in DOMAIN rankings[s] /\ rankings[s][h.ranks[s]] = h.chunk
    BY HitOf
  <2>2. \A s \in DOMAIN h.ranks : s = r
    <3>1. \A s \in Retrievers : s # r => DOMAIN rankings[s] = {}
      OBVIOUS
    <3> QED
      BY <2>1, <3>1 DEF Retrievers
  <2>3. DOMAIN h.ranks = {r}
    BY <2>1, <2>2 DEF Retrievers
  <2> QED
    BY <1>3, <2>1, <2>3
<1>6. \A k \in 1 .. Len(L) : \E h \in H : h.ranks[r] = k
  <2> SUFFICES ASSUME NEW k \in 1 .. Len(L) PROVE \E h \in H : h.ranks[r] = k
    OBVIOUS
  <2>1. L[k] \in Range(L) /\ L[k] \in Ids
    BY <1>3, ElementOfSeq DEF Range
  <2> DEFINE h == [chunk |-> L[k], ranks |-> Ranks(rankings, L[k])]
  <2>2. h \in H
    BY <2>1 DEF Hits
  <2>3. Ranks(rankings, L[k])[r] = k
    <3>1. \A c \in Ids : \A s \in Retrievers : \A n \in DOMAIN rankings[s] :
            rankings[s][n] = c => Ranks(rankings, c)[s] = n
      <4> SUFFICES ASSUME NEW c \in Ids
                   PROVE  \A s \in Retrievers : \A n \in DOMAIN rankings[s] :
                            rankings[s][n] = c => Ranks(rankings, c)[s] = n
        OBVIOUS
      <4>1. \A s \in Retrievers : \A n \in DOMAIN rankings[s] :
              rankings[s][n] = c => s \in DOMAIN Ranks(rankings, c) /\ Ranks(rankings, c)[s] = n
        BY ONLY <1>1, c \in Ids, RanksOf
      <4> QED
        BY ONLY <4>1
    <3> QED
      BY <1>3, <2>1, <3>1
  <2> QED
    BY <2>2, <2>3
<1>7. \A h, g \in H : h.ranks[r] < g.ranks[r] => Before(h, g)
  <2> SUFFICES ASSUME NEW h \in H, NEW g \in H, h.ranks[r] < g.ranks[r] PROVE Before(h, g)
    OBVIOUS
  <2>0. {r} # Retrievers
    BY DEF Retrievers
  <2>1. DOMAIN h.ranks = {r} /\ DOMAIN g.ranks = {r} /\ {r} # Retrievers
    BY ONLY <1>5, <2>0, h \in H, g \in H
  <2>2. /\ Score(h.ranks) = [num |-> 1, den |-> rrf_k + h.ranks[r]]
        /\ Score(g.ranks) = [num |-> 1, den |-> rrf_k + g.ranks[r]]
    BY <2>1 DEF Score
  <2>3. h.ranks[r] \in Nat /\ g.ranks[r] \in Nat /\ rrf_k \in Nat
    BY <1>3, <1>5, RetrievalAssumption
  <2>4. 1 * (rrf_k + g.ranks[r]) > 1 * (rrf_k + h.ranks[r])
    BY <2>3
  <2> QED
    BY <2>2, <2>4 DEF Before
<1>8. /\ o \in Seq(H) /\ Len(o) \in Nat /\ DOMAIN o = 1 .. Len(o)
      /\ \A h \in H : \E n \in 1 .. Len(o) : o[n] = h
      /\ \A m, n \in 1 .. Len(o) : m < n <=> Before(o[m], o[n])
      /\ \A m, n \in 1 .. Len(o) : o[m] = o[n] => m = n
  BY <1>2 DEF BestFirst
<1>9. \A n \in 1 .. Len(o) : o[n] \in H
  BY <1>8, ElementOfSeq
<1> DEFINE p == [n \in 1 .. Len(o) |-> o[n].ranks[r]]
<1>10. p \in [1 .. Len(o) -> 1 .. Len(L)]
  BY <1>5, <1>9
<1>11. \A m, n \in 1 .. Len(o) : m < n => p[m] < p[n]
  <2> SUFFICES ASSUME NEW m \in 1 .. Len(o), NEW n \in 1 .. Len(o), m < n PROVE p[m] < p[n]
    OBVIOUS
  <2>1. p[m] = o[m].ranks[r] /\ p[n] = o[n].ranks[r] /\ p[m] \in Nat /\ p[n] \in Nat
    BY <1>3, <1>10
  <2>2. ~(p[n] < p[m])
    <3> SUFFICES ASSUME p[n] < p[m] PROVE FALSE
      OBVIOUS
    <3>1. Before(o[n], o[m])
      BY <1>7, <1>9, <2>1
    <3>2. n < m
      BY <1>8, <3>1
    <3> QED
      BY <1>8, <3>2
  <2>3. p[m] # p[n]
    <3> SUFFICES ASSUME p[m] = p[n] PROVE FALSE
      OBVIOUS
    <3>1. o[m].chunk = o[n].chunk
      BY <1>5, <1>9, <2>1
    <3>2. o[m] = o[n]
      BY <1>2, <1>9, <3>1 DEF AreHits
    <3> QED
      BY <1>8, <3>2
  <2> QED
    BY <2>1, <2>2, <2>3
<1>12. \A k \in 1 .. Len(L) : \E n \in 1 .. Len(o) : p[n] = k
  BY <1>6, <1>8
<1> HIDE DEF p
<1>13. Len(o) = Len(L) /\ \A n \in 1 .. Len(o) : p[n] = n
  BY <1>3, <1>8, <1>10, <1>11, <1>12, PlacesCount
<1>14. \A n \in 1 .. Len(o) : o[n].chunk = L[n]
  <2> SUFFICES ASSUME NEW n \in 1 .. Len(o) PROVE o[n].chunk = L[n]
    OBVIOUS
  <2>1. o[n] \in H /\ o[n].ranks[r] = n
    BY <1>9, <1>13 DEF p
  <2>2. L[o[n].ranks[r]] = o[n].chunk
    BY <1>5, <2>1
  <2> QED
    BY <2>1, <2>2
<1> QED
  BY <1>13, <1>14 DEF o

(* A query survives the failure of one retriever: the passages are the     *)
(* other's hits in the other's order, and none that exists is missing      *)
(* unless there are enough before it.                                      *)
THEOREM OneListCorrect == RetrievalSpec => OneListIsEnough
<1>1. ASSUME RInv, [RetrievalNext]_rvars, phase # phase', Answered',
             NEW r \in Retrievers, \A s \in Retrievers \ {r} : rankings[s] = <<>>
      PROVE  LET kept == SubSeq(rankings[r], 1, Min({Len(rankings[r]), rerank_top_n})) IN
             /\ {passages'[i].chunk : i \in DOMAIN passages'} = Range(kept) \cap Live
             /\ \A i, j \in DOMAIN passages' : i < j =>
                  \E m, n \in DOMAIN kept :
                    m < n /\ kept[m] = passages'[i].chunk /\ kept[n] = passages'[j].chunk
  <2> DEFINE L == rankings[r]
             N == Min({Len(L), rerank_top_n})
             kept == SubSeq(L, 1, N)
             o == InOrder(Hits(rankings), Before)
             f == reciprocal_rank_fusion(rankings)
  <2>1. L \in Seq(Ids) /\ Len(L) \in Nat /\ rerank_top_n \in Nat /\ AreRankings(rankings)
    BY <1>1, LenProperties, RetrievalAssumption DEF RInv, AreRankings
  <2>2. N \in {Len(L), rerank_top_n} /\ N \in Nat /\ N <= Len(L) /\ N <= rerank_top_n
    BY <2>1, TheLess
  <2> HIDE DEF N
  <2>3. kept \in Seq(Ids) /\ Len(kept) = N /\ DOMAIN kept = 1 .. N /\ \A n \in 1 .. N : kept[n] = L[n]
    <3>1. \A k \in 1 .. N : k \in 1 .. Len(L)
      BY <2>1, <2>2
    <3>2. /\ kept \in Seq(Ids) /\ Len(kept) = (IF 1 <= N THEN N - 1 + 1 ELSE 0)
          /\ \A k \in 1 .. N - 1 + 1 : kept[k] = L[1 + k - 1]
      BY <2>1, <2>2, <3>1, SubSeqProperties
    <3> HIDE DEF kept
    <3>3. Len(kept) = N /\ \A k \in 1 .. N : kept[k] = L[k]
      BY <2>2, <3>2
    <3> QED
      BY <3>2, <3>3, LenProperties
  <2> HIDE DEF kept
  <2>4. CASE resolve
    <3>1. /\ Len(o) = Len(L) /\ \A n \in 1 .. Len(o) : o[n].chunk = L[n]
      BY <1>1, OneListOrdered
    <3>2. /\ BestFirst(o, Hits(rankings)) /\ Len(f) \in Nat
          /\ Len(f) <= Len(o) /\ Len(f) <= rerank_top_n /\ Len(f) \in {Len(o), rerank_top_n}
      BY <2>1, FusedFirst
    <3>3. /\ \A i \in DOMAIN passages' : \E n \in 1 .. Len(f) : passages'[i] = o[n] /\ o[n].chunk \in Live
          /\ \A n \in 1 .. Len(f) : o[n].chunk \in Live => \E i \in DOMAIN passages' : passages'[i] = o[n]
          /\ \A i, j \in DOMAIN passages' : i < j <=> Before(passages'[i], passages'[j])
      BY <1>1, <2>4, Shown
    <3> HIDE DEF o, f, L
    <3>4. Len(f) = N
      BY <2>1, <2>2, <3>1, <3>2
    <3>5. \A n \in 1 .. N : o[n].chunk = kept[n]
      BY <2>2, <2>3, <3>1, <3>2, <3>4
    <3>6. {passages'[i].chunk : i \in DOMAIN passages'} = Range(kept) \cap Live
      BY <2>3, <3>3, <3>4, <3>5 DEF Range
    <3>7. ASSUME NEW i \in DOMAIN passages', NEW j \in DOMAIN passages', i < j
          PROVE  \E m, n \in DOMAIN kept :
                   m < n /\ kept[m] = passages'[i].chunk /\ kept[n] = passages'[j].chunk
      <4>1. PICK m \in 1 .. N : passages'[i] = o[m]
        BY <3>3, <3>4, <3>7
      <4>2. PICK n \in 1 .. N : passages'[j] = o[n]
        BY <3>3, <3>4, <3>7
      <4>3. Before(o[m], o[n])
        BY <3>3, <3>7, <4>1, <4>2
      <4>4. m \in 1 .. Len(o) /\ n \in 1 .. Len(o)
        BY <2>1, <2>2, <3>1, <4>1, <4>2
      <4>5. m < n
        BY <3>2, <4>3, <4>4 DEF BestFirst
      <4> QED
        BY <2>3, <3>5, <4>1, <4>2, <4>5
    <3> QED
      BY <3>6, <3>7 DEF kept, N, L
  <2>5. CASE /\ \A s \in Retrievers : rankings[s] = <<>> /\ rankings'[s] = <<>>
             /\ phase = "gather" /\ passages' = <<>>
    <3>1. Len(L) = 0
      BY <2>5
    <3>2. N = 0
      BY <2>1, <2>2, <3>1
    <3>3. DOMAIN kept = {} /\ DOMAIN passages' = {}
      BY <2>3, <2>5, <3>2
    <3>4. Range(kept) = {} /\ {passages'[i].chunk : i \in DOMAIN passages'} = {}
      BY <3>3 DEF Range
    <3> QED
      BY <3>3, <3>4 DEF kept, N
  <2> QED
    BY <1>1, <2>4, <2>5, LastStep DEF Answered
<1>2. RInv /\ [RetrievalNext]_rvars =>
        [\A r \in Retrievers :
           (phase # phase' /\ Answered' /\ \A s \in Retrievers \ {r} : rankings[s] = <<>>) =>
             LET kept == SubSeq(rankings[r], 1, Min({Len(rankings[r]), rerank_top_n})) IN
             /\ {passages'[i].chunk : i \in DOMAIN passages'} = Range(kept) \cap Live
             /\ \A i, j \in DOMAIN passages' : i < j =>
                  \E m, n \in DOMAIN kept :
                    m < n /\ kept[m] = passages'[i].chunk /\ kept[n] = passages'[j].chunk]_rvars
  BY <1>1
<1> QED
  BY <1>2, RInvCorrect, PTL DEF RetrievalSpec, OneListIsEnough
=============================================================================
