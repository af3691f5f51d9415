------------------------------- MODULE Ingest -------------------------------
(***************************************************************************)
(* What the handlers leave behind: blocks and chunks in Postgres, and the  *)
(* points in Qdrant (ragent/ingest/stages, ragent/db/repo.py), written     *)
(* while StageConsumer's coroutines are at pc "handle".                    *)
(*                                                                         *)
(* Blocks and chunks get fresh ids whenever they are written, so one       *)
(* number stands for all the rows one call inserted.  A handler's await is *)
(* an action here; StageConsumer's atomic HandlerSucceeds becomes the last *)
(* of them, and every other step of a consumer is taken as it is.          *)
(*                                                                         *)
(* Left out: the text, pages, metadata and payloads; the Qdrant collection *)
(* itself (ensure_collection only fails, as any await may); the stages     *)
(* that write no artefact (convert, ocr, tables, figures).                 *)
(***************************************************************************)
EXTENDS StageConsumer

CONSTANTS
  chunk_strategies,  \* Settings.chunk_strategies, a sequence
  Skipped            \* those chunk_stage leaves to the bench ("semantic")

Strategies == {chunk_strategies[i] : i \in DOMAIN chunk_strategies}

ASSUME IngestAssumption ==
  /\ chunk_strategies \in Seq(Strategies) \ {<<>>}
  /\ Skipped \subseteq Strategies

VARIABLES
  hasText,  \* the document has text to extract; never changed
  blocks,   \* rows of blocks, by the parse that wrote them
  chunks,   \* rows of chunks by strategy, with the blocks chunk_blocks names
  points,   \* the document's points, by the strategy of their collection
  work,     \* where each coroutine is in its handler, and what it has read
  minted,   \* how many ids were generated
  contended \* history: handlers got into each other's way (Contention)

artefacts == <<blocks, chunks, points, minted>>

ingestVars == <<vars, hasText, artefacts, work, contended>>

Parsers == {"parse", "parse_flow"}
Writers == Parsers \cup {"chunk", "contextualize", "embed"}

NoChunks == [id |-> 0, cites |-> {}, prefix |-> FALSE]

(* What embed makes of the chunks it read: their ids and embedding_text. *)
PointOf(c) == [id |-> c.id, prefix |-> c.prefix]

(* The strategies chunk_stage goes through. *)
Chunked == SelectSeq(chunk_strategies, LAMBDA s : s \notin Skipped)

(* What a finished document's artefacts depend on. *)
ASSUME OrderAssumption ==
  Entry \notin Writers /\ \A f \in Families : ArtefactsInOrder(f)

Idle == [phase |-> "read", i |-> 1, blocks |-> {}, seen |-> PointOf(NoChunks)]

-----------------------------------------------------------------------------
(* Steps inside a handler *)

Working(x, s, phase) == At(x, s, "handle") /\ work[x].phase = phase

Progress(x, w) ==
  /\ work' = [work EXCEPT ![x] = w]
  /\ UNCHANGED hasText

(* The handler goes on. *)
Proceed(x, w) == Progress(x, w) /\ UNCHANGED vars

(* The handler returns. *)
Return(x) == Progress(x, Idle) /\ HandlerSucceeds(x)

IngestInit ==
  /\ Init
  /\ hasText \in BOOLEAN
  /\ blocks = {}
  /\ chunks = [s \in Strategies |-> NoChunks]
  /\ points = [s \in Strategies |-> {}]
  /\ work = [x \in Slots |-> Idle]
  /\ minted = 0
  /\ contended = FALSE

(* The transaction of both parsers starts by deleting the blocks it sees.  *)
(* Under READ COMMITTED it does not see those of a transaction still open. *)
(* parse_flow gives up before, on a document without text; parse does not. *)
parse_delete(x) ==
  /\ \E s \in Parsers : Working(x, s, "read") /\ (s = "parse_flow" => hasText)
  /\ Proceed(x, [Idle EXCEPT !.phase = "write", !.blocks = blocks])
  /\ UNCHANGED artefacts

(* The blocks written under a new id: a page without text has none. *)
insert_blocks(id) == IF hasText THEN {id} ELSE {}

(* Mutation: chunk_blocks has no foreign key that cascades. *)
parse_commit_uncascaded(x) ==
  /\ \E s \in Parsers : Working(x, s, "write")
  /\ minted' = minted + 1
  /\ blocks' = (blocks \ work[x].blocks) \cup insert_blocks(minted')
  /\ Return(x)
  /\ UNCHANGED <<chunks, points>>

(* It inserts its own and commits.  What cited the deleted ones cites them *)
(* no longer.                                                              *)
parse_commit(x) ==
  /\ \E s \in Parsers : Working(x, s, "write")
  /\ minted' = minted + 1
  /\ blocks' = (blocks \ work[x].blocks) \cup insert_blocks(minted')
  /\ chunks' = [s \in Strategies |->
                  [chunks[s] EXCEPT !.cites = @ \ work[x].blocks]]
  /\ Return(x)
  /\ UNCHANGED points

(* Without blocks, chunk_stage raises. *)
load_blocks(x) ==
  /\ Working(x, "chunk", "read")
  /\ blocks # {}
  /\ Proceed(x, [Idle EXCEPT !.phase = "write", !.blocks = blocks])
  /\ UNCHANGED artefacts

(* Deleted by a parse transaction that is still open: a reference waits.   *)
Locked(b) == \E y \in Slots, s \in Parsers : Working(y, s, "write") /\ b \in work[y].blocks

(* Mutation: the chunks keep the parser's temporary block ids. *)
replace_chunks_temporary(x) ==
  /\ Working(x, "chunk", "write")
  /\ work[x].i <= Len(Chunked)
  /\ minted' = minted + 1
  /\ chunks' = [chunks EXCEPT ![Chunked[work[x].i]] =
                  [id |-> minted', cites |-> {}, prefix |-> FALSE]]
  /\ Proceed(x, [work[x] EXCEPT !.i = @ + 1])
  /\ UNCHANGED <<blocks, points>>

(* One transaction for each strategy.  The foreign key refuses links to    *)
(* blocks that are gone: then the handler raises.                          *)
replace_chunks(x) ==
  /\ Working(x, "chunk", "write")
  /\ work[x].i <= Len(Chunked)
  /\ \A b \in work[x].blocks : b \in blocks /\ ~Locked(b)
  /\ minted' = minted + 1
  /\ chunks' = [chunks EXCEPT ![Chunked[work[x].i]] =
                  [id |-> minted', cites |-> work[x].blocks, prefix |-> FALSE]]
  /\ Proceed(x, [work[x] EXCEPT !.i = @ + 1])
  /\ UNCHANGED <<blocks, points>>

chunk_return(x) ==
  /\ Working(x, "chunk", "write")
  /\ work[x].i > Len(Chunked)
  /\ Return(x)
  /\ UNCHANGED artefacts

(* contextualize_stage knows the first strategy only, and raises when it   *)
(* has no chunks.                                                          *)
context_load(x) ==
  LET c == chunks[chunk_strategies[1]]
  IN  /\ Working(x, "contextualize", "read")
      /\ c.id # 0
      /\ Proceed(x, [Idle EXCEPT !.phase = "write", !.seen = PointOf(c)])
      /\ UNCHANGED artefacts

(* The update goes by id: chunks replaced meanwhile stay without prefix. *)
context_update(x) ==
  LET s == chunk_strategies[1]
  IN  /\ Working(x, "contextualize", "write")
      /\ chunks' = [chunks EXCEPT ![s].prefix = @ \/ chunks[s].id = work[x].seen.id]
      /\ Return(x)
      /\ UNCHANGED <<blocks, points, minted>>

embed_strategy(x) == chunk_strategies[work[x].i]

embed_load(x) ==
  LET c == chunks[embed_strategy(x)]
  IN  /\ Working(x, "embed", "read")
      /\ work[x].i <= Len(chunk_strategies)
      /\ Proceed(x, IF c.id = 0
                      THEN [work[x] EXCEPT !.i = @ + 1]
                      ELSE [work[x] EXCEPT !.phase = "clear", !.seen = PointOf(c)])
      /\ UNCHANGED artefacts

(* delete_document *)
embed_clear(x) ==
  /\ Working(x, "embed", "clear")
  /\ points' = [points EXCEPT ![embed_strategy(x)] = {}]
  /\ Proceed(x, [work[x] EXCEPT !.phase = "write"])
  /\ UNCHANGED <<blocks, chunks, minted>>

(* Mutation: only the first strategy that has chunks is embedded. *)
embed_upsert_first(x) ==
  /\ Working(x, "embed", "write")
  /\ points' = [points EXCEPT ![embed_strategy(x)] = @ \cup {work[x].seen}]
  /\ Proceed(x, [Idle EXCEPT !.i = Len(chunk_strategies) + 1])
  /\ UNCHANGED <<blocks, chunks, minted>>

(* upsert_chunks: a point's id is its chunk's, so it replaces that one. *)
embed_upsert(x) ==
  /\ Working(x, "embed", "write")
  /\ points' = [points EXCEPT ![embed_strategy(x)] =
                  {p \in @ : p.id # work[x].seen.id} \cup {work[x].seen}]
  /\ Proceed(x, [Idle EXCEPT !.i = work[x].i + 1])
  /\ UNCHANGED <<blocks, chunks, minted>>

(* The status is set when every strategy is through, with chunks or not. *)
embed_return(x) ==
  /\ Working(x, "embed", "read")
  /\ work[x].i > Len(chunk_strategies)
  /\ Return(x)
  /\ UNCHANGED artefacts

(* A stage that writes no artefact returns. *)
PlainReturn(x) ==
  /\ msg[x].stage \notin Writers
  /\ Return(x)
  /\ UNCHANGED artefacts

(* Any other step of a consumer.  A handler that raises, or whose worker   *)
(* dies, loses what it had read and the transaction it had open.           *)
Elsewhere(x) ==
  /\ Consume(x) \/ Disturb(x)
  /\ pc[x] = "handle" => pc'[x] # "complete"
  /\ work' = IF pc'[x] = "handle" THEN work ELSE [work EXCEPT ![x] = Idle]
  /\ UNCHANGED <<artefacts, hasText>>

Handle(x) ==
  \/ PlainReturn(x)
  \/ parse_delete(x)
  \/ parse_commit(x)
  \/ load_blocks(x)
  \/ replace_chunks(x)
  \/ chunk_return(x)
  \/ context_load(x)
  \/ context_update(x)
  \/ embed_load(x)
  \/ embed_clear(x)
  \/ embed_upsert(x)
  \/ embed_return(x)

(* A handler is at work on a stage that was completed before, or that      *)
(* another coroutine is at work on.                                        *)
Contention ==
  \E x \in Slots :
    /\ pc[x] = "handle"
    /\ \/ msg[x].stage \in done
       \/ \E y \in Slots \ {x}, where \in {"handle", "complete"} : At(y, msg[x].stage, where)

IngestNext ==
  /\ \E x \in Slots : Handle(x) \/ Elsewhere(x)
  /\ contended' = (contended \/ Contention')

IngestSpec == IngestInit /\ [][IngestNext]_ingestVars

-----------------------------------------------------------------------------
(* Properties *)

Point == [id : Nat, prefix : BOOLEAN]

(* Types, the foreign key of chunk_blocks, and ids that were generated: a  *)
(* link never names a block that is gone, though parse and chunk may       *)
(* overlap when messages are redelivered.                                  *)
IngestTypeOK ==
  /\ hasText \in BOOLEAN
  /\ contended \in BOOLEAN
  /\ minted \in Nat
  /\ blocks \subseteq 1 .. minted
  /\ chunks \in [Strategies -> [id : 0 .. minted, cites : SUBSET blocks, prefix : BOOLEAN]]
  /\ points \in [Strategies -> SUBSET Point]
  /\ work \in [Slots -> [phase : {"read", "write", "clear"}, i : Nat \ {0},
                       blocks : SUBSET (1 .. minted), seen : Point]]
  /\ \A x \in Slots : work[x] # Idle => pc[x] = "handle"

(* A finished document whose stages each had one coroutine at work at a    *)
(* time, and none once they were completed.                                *)
Finished ==
  /\ docStatus = "ready"
  /\ is_complete(docFamily, Completed(row))
  /\ ~contended

(* The vectors of a finished document are those of the chunks it has now,  *)
(* for every strategy, with the preamble contextualize wrote: what earlier *)
(* attempts of chunk or embed left, or a crash half-way, is gone.          *)
ReadyIsSearchable ==
  Finished =>
    /\ \A s \in Strategies :
         points[s] = IF chunks[s].id = 0 THEN {} ELSE {PointOf(chunks[s])}
    /\ chunks[chunk_strategies[1]].prefix

(* Every chunk of a finished document names all the blocks it came from:   *)
(* no block was written or deleted after chunk had read them.              *)
ReadyIsCitable ==
  Finished =>
    \A s \in Strategies : chunks[s].id # 0 => chunks[s].cites = blocks /\ blocks # {}

(* "The join that keeps citations resolvable. Written in the same          *)
(* transaction as the chunks so a chunk can never exist without it"        *)
(* (replace_chunks).                                                       *)
NoChunkWithoutBlocks == \A s \in Strategies : chunks[s].id # 0 => chunks[s].cites # {}
=============================================================================
