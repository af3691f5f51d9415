----------------------------- MODULE Retrieval -----------------------------
(***************************************************************************)
(* hybrid_search (ragent/retrieval/search.py): Qdrant and Postgres are     *)
(* asked at the same time, what they answer is fused on rank               *)
(* (retrieval/fusion.py), and the hits are resolved against the chunks     *)
(* that exist by then.  Embed and chunk stages go on between the awaits.   *)
(* A retriever may fail, which counts as having found nothing.             *)
(***************************************************************************)
EXTENDS VectorIndex, Ordering, SequencesExt

CONSTANTS
  retrieval_top_k,   \* hits asked of each retriever
  rerank_top_n,      \* hits kept after the fusion
  rrf_k,             \* the damping constant
  Scopes             \* document_ids a request may carry; {} means all

ASSUME RetrievalAssumption ==
  /\ retrieval_top_k \in Nat \ {0}
  /\ rerank_top_n \in Nat \ {0}
  /\ rrf_k \in Nat \ {0}
  /\ Scopes \subseteq SUBSET Documents

VARIABLES
  phase,      \* of the request: "gather", "resolve" or "answered"
  scope,      \* its document_ids
  rankings,   \* what each retriever answered, <<>> when it failed (local)
  waiting,    \* the retrievers that have not answered
  passages    \* the answer: [chunk, ranks], best first

qvars == <<phase, scope, rankings, waiting, passages>>
rvars == <<ivars, qvars>>

Retrievers == {"dense", "lexical"}

Live == UNION {Chunks(d, version[d]) : d \in Documents}
EverLive == UNION {{d} \X (1 .. version[d]) \X Parts : d \in Documents}

RetrievalInit ==
  /\ IndexInit
  /\ phase = "gather"
  /\ scope \in Scopes
  /\ rankings = [r \in Retrievers |-> <<>>]
  /\ waiting = Retrievers
  /\ passages = <<>>

-----------------------------------------------------------------------------
(* Reciprocal rank fusion *)

(* hit.ranks: the best rank each retriever gave a chunk. *)
Ranks(lists, c) ==
  [r \in {s \in Retrievers : c \in Range(lists[s])} |->
     CHOOSE p \in DOMAIN lists[r] :
       lists[r][p] = c /\ \A q \in 1 .. p - 1 : lists[r][q] # c]

(* Mutation: the better of the two ranks counts, and agreement nothing. *)
Score_best(ranks) ==
  LET best == Min({ranks[r] : r \in DOMAIN ranks}) IN [num |-> 1, den |-> rrf_k + best]

(* The sum of 1 / (k + rank), as a fraction. *)
Score(ranks) ==
  IF DOMAIN ranks = Retrievers
  THEN [num |-> (rrf_k + ranks.dense) + (rrf_k + ranks.lexical),
        den |-> (rrf_k + ranks.dense) * (rrf_k + ranks.lexical)]
  ELSE [num |-> 1, den |-> rrf_k + ranks[CHOOSE r \in DOMAIN ranks : TRUE]]

(* The order of ids, which are as good as random. *)
IdBefore(c, e) ==
  \/ c[1] < e[1]
  \/ c[1] = e[1] /\ c[2] < e[2]
  \/ c[1] = e[1] /\ c[2] = e[2] /\ c[3] < e[3]

(* By score, then by the number of retrievers, then by id. *)
Before(h, g) ==
  LET a == Score(h.ranks)  b == Score(g.ranks)
      x == a.num * b.den   y == b.num * a.den
      m == Cardinality(DOMAIN h.ranks)  n == Cardinality(DOMAIN g.ranks)
  IN \/ x > y
     \/ x = y /\ m > n
     \/ x = y /\ m = n /\ IdBefore(h.chunk, g.chunk)

Hits(lists) ==
  {[chunk |-> c, ranks |-> Ranks(lists, c)] : c \in UNION {Range(lists[r]) : r \in Retrievers}}

(* Mutation: the limit is dropped. *)
fusion_unlimited(lists) ==
  InOrder(Hits(lists), Before)

reciprocal_rank_fusion(lists) ==
  LET ordered == InOrder(Hits(lists), Before)
  IN SubSeq(ordered, 1, Min({Len(ordered), rerank_top_n}))

-----------------------------------------------------------------------------
(* The request *)

(* The sequences of n different members of S. *)
RankedLists(S, n) == {l \in [1 .. n -> S] : IsInjective(l)}

(* Mutation: nothing is returned unless both have found something. *)
Answers_either(r, list) ==
  /\ phase = "gather"
  /\ r \in waiting
  /\ rankings' = [rankings EXCEPT ![r] = list]
  /\ waiting' = waiting \ {r}
  /\ phase' = IF waiting' # {} THEN "gather"
              ELSE IF \E s \in Retrievers : rankings'[s] = <<>> THEN "answered"
              ELSE "resolve"
  /\ UNCHANGED <<ivars, scope, passages>>

(* The retrievers are awaited together; when neither found anything, there *)
(* is nothing to resolve.                                                  *)
Answers(r, list) ==
  /\ phase = "gather"
  /\ r \in waiting
  /\ rankings' = [rankings EXCEPT ![r] = list]
  /\ waiting' = waiting \ {r}
  /\ phase' = IF waiting' # {} THEN "gather"
              ELSE IF \A s \in Retrievers : rankings'[s] = <<>> THEN "answered"
              ELSE "resolve"
  /\ UNCHANGED <<ivars, scope, passages>>

(* The nearest points that the filter lets through, all of them if there   *)
(* are no more than asked for.  A query of another width than the          *)
(* collection, or no collection, is an error.                              *)
_dense ==
  LET hits == {p \in points : scope = {} \/ p[1] \in scope} IN
  /\ collection = model[Api]
  /\ \E n \in 0 .. retrieval_top_k : \E list \in RankedLists(hits, n) :
       /\ n = retrieval_top_k \/ Range(list) = hits
       /\ Answers("dense", list)

(* Any chunks may match; the request's document_ids are not passed on.     *)
_lexical ==
  \E n \in 0 .. retrieval_top_k : \E list \in RankedLists(Live, n) : Answers("lexical", list)

retriever_fails(r) == Answers(r, <<>>)

(* The hits of a list whose chunks are in S; they stay in their order. *)
Resolved(list, S) == InOrder({h \in Range(list) : h.chunk \in S}, Before)

(* Mutation: what Qdrant holds is trusted to exist. *)
resolve_trusting ==
  /\ phase = "resolve"
  /\ passages' = Resolved(reciprocal_rank_fusion(rankings), Live \cup points)
  /\ phase' = "answered"
  /\ rankings' = [r \in Retrievers |-> <<>>]
  /\ UNCHANGED <<ivars, scope, waiting>>

(* chunk_citation_targets: one statement; a chunk that is gone is skipped. *)
resolve ==
  /\ phase = "resolve"
  /\ passages' = Resolved(reciprocal_rank_fusion(rankings), Live)
  /\ phase' = "answered"
  /\ rankings' = [r \in Retrievers |-> <<>>]
  /\ UNCHANGED <<ivars, scope, waiting>>

Request ==
  \/ _dense
  \/ _lexical
  \/ \E r \in Retrievers : retriever_fails(r)
  \/ resolve

RetrievalNext ==
  \/ IndexNext /\ UNCHANGED qvars
  \/ Request

RetrievalSpec == RetrievalInit /\ [][RetrievalNext]_rvars

-----------------------------------------------------------------------------
(* Properties *)

Answered == phase = "answered"
Both(h) == DOMAIN h.ranks = Retrievers

RetrievalTypeOK ==
  /\ IndexTypeOK
  /\ phase \in {"gather", "resolve", "answered"}
  /\ scope \in Scopes
  /\ \A r \in Retrievers :
       /\ Len(rankings[r]) <= retrieval_top_k
       /\ r \in waiting => rankings[r] = <<>>
       /\ IsInjective(rankings[r])
       /\ Range(rankings[r]) \subseteq EverLive
  /\ waiting \subseteq Retrievers
  /\ phase \in {"resolve", "answered"} <=> waiting = {}
  /\ Len(passages) <= rerank_top_n

(* Whatever the stages do between retrieval and resolution, the passages   *)
(* are chunks of one moment: no document shows two versions of itself, as  *)
(* the index may, and no chunk is shown twice.                             *)
OneVersionShown ==
  \A i, j \in DOMAIN passages :
    LET c == passages[i].chunk  e == passages[j].chunk IN
    /\ c[1] = e[1] => c[2] = e[2]
    /\ c = e => i = j

(* What both retrievers found comes before what only one of them found,    *)
(* however high, and is never left out for it, as long as they are asked   *)
(* for no more than k + 1 hits.                                            *)
AgreementWins ==
  [][(retrieval_top_k <= rrf_k + 1 /\ phase = "resolve" /\ Answered') =>
       \A i \in DOMAIN passages' :
         ~Both(passages'[i]) =>
           \A c \in Range(rankings.dense) \cap Range(rankings.lexical) \cap Live :
             \E j \in 1 .. i - 1 : passages'[j].chunk = c]_rvars

(* A query survives the failure of one retriever: the passages are the     *)
(* other's hits in the other's order, and none that exists is missing      *)
(* unless there are enough before it.                                      *)
OneListIsEnough ==
  [][\A r \in Retrievers :
       (phase # phase' /\ Answered' /\ \A s \in Retrievers \ {r} : rankings[s] = <<>>) =>
         LET kept == SubSeq(rankings[r], 1, Min({Len(rankings[r]), rerank_top_n})) IN
         /\ {passages'[i].chunk : i \in DOMAIN passages'} = Range(kept) \cap Live
         /\ \A i, j \in DOMAIN passages' : i < j =>
              \E m, n \in DOMAIN kept :
                m < n /\ kept[m] = passages'[i].chunk /\ kept[n] = passages'[j].chunk]_rvars
=============================================================================
