---------------------------- MODULE VectorIndex ----------------------------
(***************************************************************************)
(* The Qdrant collection of one chunking strategy (retrieval/vectors.py)   *)
(* and the embed stages that fill it (stages/index.py).  Every call of the *)
(* client is an await, so embed stages of different documents, and two of  *)
(* one document after a redelivery, interleave between any two of them,    *)
(* and a chunk stage that runs again replaces the chunks meanwhile.        *)
(*                                                                         *)
(* A chunk's id is <<document, version, part>>: replace_chunks gives every *)
(* chunk a new id, so each replacement starts a version.  A point is the   *)
(* id of its chunk, whose document is the payload that filters look at.    *)
(***************************************************************************)
EXTENDS Naturals, FiniteSets

CONSTANTS
  Documents,   \* documents that have chunks
  Embedders,   \* embed stages, one coroutine each
  Api,         \* the API process, which embeds the queries
  Widths,      \* vector widths of the embedding models in use
  Settings,    \* the width each process may be configured for
  Jobs,        \* the document each embed stage may be given
  Parts,       \* the chunks a document is cut into
  MaxVersion   \* bounds how often the chunks of each document are replaced

ASSUME IndexAssumption ==
  /\ Documents \subseteq Nat \ {0}
  /\ Parts \subseteq Nat \ {0}
  /\ Widths \subseteq Nat \ {0}
  /\ Api \notin Embedders
  /\ Settings \subseteq [Embedders \cup {Api} -> Widths]
  /\ Jobs \subseteq [Embedders -> Documents]
  /\ MaxVersion \in [Documents -> Nat \ {0}]

VARIABLES
  model,       \* the width of the model each process is configured with
  job,         \* the document of each embed stage
  at,          \* the await each embed stage is at
  held,        \* the version whose chunks it read
  version,     \* the version of each document's chunks in Postgres
  collection,  \* the width the collection was made for, 0 when there is none
  points,      \* the points in it
  raced        \* history: stages whose create_collection met a 409

ivars == <<model, job, at, held, version, collection, points, raced>>

Chunks(d, v) == {d} \X {v} \X Parts
PointsOf(d) == {p \in points : p[1] = d}

Awaits == {"load", "exists", "create", "clear", "put"}
Ends == {"ready", "mismatch", "rejected"}

(* The collection is missing, or it holds what an earlier ingest put there. *)
IndexInit ==
  /\ model \in Settings
  /\ job \in Jobs
  /\ at = [e \in Embedders |-> "load"]
  /\ held = [e \in Embedders |-> 0]
  /\ version = [d \in Documents |-> 1]
  /\ \/ collection = 0 /\ points = {}
     \/ collection \in Widths /\ points = UNION {Chunks(d, 1) : d \in Documents}
  /\ raced = {}

Go(e, from, to) ==
  /\ at[e] = from
  /\ at' = [at EXCEPT ![e] = to]
  /\ UNCHANGED <<model, job>>

load_chunks(e) ==
  /\ Go(e, "load", "exists")
  /\ held' = [held EXCEPT ![e] = version[job[e]]]
  /\ UNCHANGED <<version, collection, points, raced>>

(* Mutation: a collection that exists is taken as it is. *)
ensure_collection_any(e) ==
  /\ Go(e, "exists", IF collection = 0 THEN "create" ELSE "clear")
  /\ UNCHANGED <<held, version, collection, points, raced>>

(* ensure_collection: a collection that exists has to be of this width.    *)
ensure_collection(e) ==
  /\ Go(e, "exists", CASE collection = 0 -> "create"
                       [] collection = model[e] -> "clear"
                       [] OTHER -> "mismatch")
  /\ UNCHANGED <<held, version, collection, points, raced>>

(* The one that found no collection makes it; a 409 is swallowed, and the  *)
(* width of the winner is not looked at.                                   *)
create_collection(e) ==
  /\ Go(e, "create", "clear")
  /\ collection' = IF collection = 0 THEN model[e] ELSE collection
  /\ raced' = IF collection = 0 THEN raced ELSE raced \cup {e}
  /\ UNCHANGED <<held, version, points>>

(* Mutation: only the points of the chunks that are put again are dropped. *)
delete_chunks(e) ==
  /\ Go(e, "clear", "put")
  /\ points' = points \ Chunks(job[e], held[e])
  /\ UNCHANGED <<held, version, collection, raced>>

delete_document(e) ==
  /\ Go(e, "clear", "put")
  /\ points' = points \ PointsOf(job[e])
  /\ UNCHANGED <<held, version, collection, raced>>

(* Qdrant takes vectors of the collection's width only. *)
upsert_chunks(e) ==
  /\ IF collection = model[e]
       THEN /\ Go(e, "put", "ready")
            /\ points' = points \cup Chunks(job[e], held[e])
       ELSE /\ Go(e, "put", "rejected")
            /\ UNCHANGED points
  /\ UNCHANGED <<held, version, collection, raced>>

embed_stage(e) ==
  \/ load_chunks(e)
  \/ ensure_collection(e)
  \/ create_collection(e)
  \/ delete_document(e)
  \/ upsert_chunks(e)

(* A chunk stage that is delivered again: one transaction. *)
replace_chunks(d) ==
  /\ version[d] < MaxVersion[d]
  /\ version' = [version EXCEPT ![d] = @ + 1]
  /\ UNCHANGED <<model, job, at, held, collection, points, raced>>

IndexNext ==
  \/ \E e \in Embedders : embed_stage(e)
  \/ \E d \in Documents : replace_chunks(d)

IndexSpec == IndexInit /\ [][IndexNext]_ivars

-----------------------------------------------------------------------------
(* Properties *)

(* Type invariant; points exist only in a collection. *)
IndexTypeOK ==
  /\ model \in [Embedders \cup {Api} -> Widths]
  /\ job \in [Embedders -> Documents]
  /\ at \in [Embedders -> Awaits \cup Ends]
  /\ held \in [Embedders -> Nat]
  /\ \A e \in Embedders :
       IF at[e] = "load" THEN held[e] = 0 ELSE held[e] \in 1 .. version[job[e]]
  /\ version \in [Documents -> Nat]
  /\ \A d \in Documents : version[d] \in 1 .. MaxVersion[d]
  /\ collection \in Widths \cup {0}
  /\ \A p \in points :
       p[1] \in Documents /\ p[2] \in 1 .. version[p[1]] /\ p[3] \in Parts
  /\ raced \subseteq Embedders
  /\ \A e \in Embedders : at[e] \in {"clear", "put", "ready"} => collection # 0
  /\ points # {} => collection # 0

(* Losing the race to create the collection is not an error: a stage fails *)
(* only when the collection is for another width than its own, which it is *)
(* told plainly unless it lost that very race.                             *)
RaceIsHarmless ==
  \A e \in Embedders :
    /\ at[e] \in {"mismatch", "rejected"} => collection \notin {0, model[e]}
    /\ at[e] = "rejected" => e \in raced

(* An ingest that is repeated leaves no orphans: as long as a document has *)
(* one embed stage at a time, its points are of one version, and when that *)
(* stage is over they are those of the chunks it read.                     *)
NoOrphans ==
  (\A e, f \in Embedders : job[e] = job[f] => e = f) =>
    /\ \A p, q \in points : p[1] = q[1] => p[2] = q[2]
    /\ \A e \in Embedders :
         at[e] = "ready" => PointsOf(job[e]) = Chunks(job[e], held[e])
=============================================================================
