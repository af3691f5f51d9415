# RAGent in TLA+

RAGent ingests documents through a pipeline of stages connected by RabbitMQ
queues, stores what it extracts in Postgres, MinIO and Qdrant, and answers
questions with citations that point back into the source. This directory holds
TLA+ models of the parts where order, concurrency and failure decide whether
that works, the TLC configurations that check them, and TLAPS proofs about
them. Paths below are relative to the repository root.

`PROJECT.json` holds the same project for tools: components, runs, the source
lines each definition models, the hazards found in the code, and the theorems.

    tlc -workers 2 -config pipeline.cfg MCStageConsumer
    tlapm StageConsumerProofs.tla

## 1. Inventory

| component | source | state it keeps | operations | talks to |
|---|---|---|---|---|
| stage graph, scheduler | `ragent/pipeline/stages.py` | none (a constant table) | `effective_deps`, `ready_stages`, `is_complete`, `retry_delay_ms`, `validate_pipeline` | called by the hand-off, the API and the tests |
| hand-off, failure policy | `ragent/pipeline/runner.py` | none | `next_messages`, `plan_failure`, `resume_plan` (never called) | stage graph |
| stage consumer | `ragent/workers/run.py` | coroutines, one per unacked delivery | `_on_message`, `_handle_failure` | broker, stage store, handlers |
| stage store | `ragent/pipeline/store_pg.py` | `ingest_stages`, `documents.status` | `begin_stage`, `complete_stage`, `mark_dispatched`, `fail_stage` | Postgres |
| broker topology | `ragent/pipeline/topology.py` | work queues, retry tiers, dead-letter queues | `build_topology`, `declare` | RabbitMQ |
| stage handlers | `ragent/ingest/stages/*.py` | pages, blocks, chunks, vectors, `documents` | one per stage | repository, vector index, object store, progress |
| document repository | `ragent/db/repo.py` | all document tables | `create_document`, `replace_chunks`, `chunk_citation_targets`, ... | Postgres |
| upload endpoint | `ragent/api/main.py` | none | store, deduplicate, create the run, publish `detect` | object store, repository, broker |
| progress relay | `ragent/pipeline/progress.py`, `api/main.py` | Valkey subscriptions | `publish`, `subscribe`, the event stream | handlers, browser |
| browser | `web/components/Sidebar.tsx`, `Ask.tsx`, `web/lib/api.ts` | the documents it shows, open streams, requests under way; the turns of the question pane | snapshot, progress event, answer; frames of `/ask` | API |
| vector index | `ragent/retrieval/vectors.py` | one Qdrant collection per strategy | `ensure_collection`, `upsert_chunks`, `delete_document`, `search` | Qdrant |
| retrieval | `ragent/retrieval/search.py`, `fusion.py` | none | dense and lexical search, reciprocal rank fusion, citations | vector index, repository |
| chunkers, splitter, detection, coordinates | `ragent/ingest/*.py` | none | pure algorithms | handlers |
| answering | `ragent/agent/answer.py`, `ragent/api/openai_compat.py` | none | streamed answer with citation markers | retrieval, providers |
| providers, configuration, storage | `ragent/providers`, `config.py`, `storage.py` | caches of clients | HTTP and settings | external services |

How a document moves: the upload endpoint commits `documents` and
`ingest_runs` and publishes one message for `detect`. A worker coroutine takes
a message, marks the stage running, awaits the handler, records the completion
and reads a snapshot of the run in one transaction, reserves the stages that
became ready in a second transaction, publishes one message for each, and acks.
A failure goes to a retry tier (a queue with a time to live that dead-letters
back into the work queue) or to the stage's dead-letter queue. Nothing else
coordinates the workers: the stage rows, the messages and the acks are all.

What is hard in it, and what each component owes:

* **Consumer, store and scheduler together.** Two coroutines of one document
  run at once (`tables` and `figures`), the completion and the reservation of
  followers are two transactions, deliveries are at-least-once, workers die
  between any two awaits. Owed: a stage starts only after its dependencies and
  only on the document's path; once, when nothing is redelivered; no stage is
  lost; retries end; `documents.status` and the stage rows agree.
* **Handlers and repository.** Stages are re-run by redelivery and replace what
  later stages have built upon. Owed: a `ready` document has chunks whose
  vectors and block links exist.
* **Upload.** Three stores are written in turn without a transaction, requests
  for the same bytes overlap and are repeated, confirmations get lost. Owed: a
  message names only what exists, a content enters the pipeline once, and what
  a client is told is true.
* **Progress.** Pub/sub keeps nothing for a late subscriber, answers overtake
  each other. Owed: a client is never shown what has not happened.
* **Vector index.** Creation is check-then-act, a document's points are
  replaced by two calls. Owed: the race hurts nobody, no orphans.
* **Retrieval.** Two rankings are fused, either may fail, chunks are replaced
  between the search and the resolution. Owed: agreement ranks first, one
  retriever is enough, every passage exists and is of one version.
* **Chunkers and splitter.** Several passes over the same words, with budgets
  whose counts do not add up. Owed: no text is lost between the file and its
  chunks, chunks name the blocks their words are from, budgets and structure
  are kept, every loop ends.
* **Answering and its stream.** A provider cuts its text anywhere and may fail
  half-way; so does the network. Owed: a response that ends properly is whole,
  its citations are those of all its text, and no frame is lost or mixed up.

## 2. Modules

| module | models | extends |
|---|---|---|
| `StageGraph` | the scheduler's operators, for any graph (constants) | |
| `StageShape` | what a graph must look like for the guarantees to hold, without recursion | `StageGraph` |
| `Pipeline` | the `PIPELINE` table, `validate_pipeline`; evaluated as an assumption | instance of `StageGraph` |
| `StageSchedule` | abstract specification: stages start once, in order, and end for good | `StageGraph` |
| `StageConsumer` | one document: the consumers, the stage store and the queues between them | `StageShape` |
| `Ingest` | the artefacts the handlers write (blocks, chunks, links, vectors) | `StageConsumer` |
| `Progress` | events, the relay and the browser's document list | `StageConsumer` |
| `Upload` | `POST /documents` with its three stores | |
| `VectorIndex` | one collection and the embed stages that fill it | |
| `Retrieval` | `hybrid_search` and the fusion, while stages run | `VectorIndex`, `Ordering` |
| `Chunking` | the four chunkers | `Ordering` |
| `FlowText` | markdown, CSV and plain text cut into blocks | |
| `FlowChunking` | the stages `parse_flow` and `chunk`: a file, its blocks, its chunks | `Chunking`, `FlowText` |
| `Answer` | providers, `answer_stream`, the three endpoints | `Ordering` |
| `EventStream` | `/ask` on the wire, `streamEvents`, and the turn on the page | `Answer` |
| `MC...` | instances for TLC: graphs, documents, texts, deltas | the module named |
| `Ordering` | the members of a set in an order | |
| `StageConsumerProofs` | proofs about `StageConsumer`, and that it implements `StageSchedule` | |
| `IngestProofs`, `ProgressProofs`, `FlowChunkingProofs`, `UploadProofs`, `RetrievalProofs`, `AnswerProofs` | proofs about the others | |
| `OrderingProofs` | facts about sets of numbers and sets in order, for the others | |

Definitions named `..._something` under a comment "Mutation" are altered copies
of the definition that follows; no specification uses them. Put in its place,
each makes a property fail, which shows that the property says something.

### StageConsumer and the code

A *slot* is one message and the coroutine that serves it, if any. `pc` says
where it is:

| `pc` | meaning | action that leaves it | code |
|---|---|---|---|
| `free` | no message | (`Send` fills it) | |
| `queued` | in the stage's work queue | `Deliver` | broker; handler lookup, `run.py:119` |
| `delayed` | in a retry tier | `Expire` | `topology.py:127` |
| `begin` | before `begin_stage` | `begin_stage` | `run.py:126`, `store_pg.py:39` |
| `handle` | awaiting the handler | `HandlerSucceeds`, `HandlerRaises`, `Quarantine` | `run.py:128`, `stages/*.py` |
| `complete` | before `complete_stage` | `complete_stage` | `run.py:139`, `store_pg.py:53` |
| `mark` | before `mark_dispatched` | `mark_dispatched` | `run.py:148`, `store_pg.py:26` |
| `publish` | publishing followers, one at a time | `PublishFollower` | `run.py:149` |
| `fail_retry`, `retry` | `fail_stage`, then the retry message | `fail_stage_retry`, `PublishRetry` | `run.py:160` |
| `fail_dead`, `fail_document`, `dead_letter` | the two statements of `fail_stage`, then the dead letter | `fail_stage_dead`, `fail_document`, `dead_letter` | `run.py:177`, `store_pg.py:94` |
| `ack` | before the ack | `Ack` | `run.py:155`, `run.py:185` |

`row` is `ingest_stages.status` (`"none"` for a missing row), `docStatus` is
`documents.status`, `docFamily` is what `detect_format` says of the bytes
(`Unsupported` when it raises), `todo` the followers a coroutine computed and
has still to hand on, `dlq` the stages with a dead letter. `done` is a history
variable: the stages that ever completed. `orphan` marks a coroutine whose
delivery the broker gave to another one.

Each await that changes the store or the broker is an action, because the
coroutines of every worker interleave there; what happens between two awaits is
part of the action before. Each store call is the transaction the code makes:
`complete_stage` writes and reads its snapshot in one, `fail_stage(permanent)`
is two.

Faults, each a kind that a configuration allows and counts:

* `crash`: the worker dies anywhere but while it publishes followers; the
  broker requeues the message. `crash_reserved` is the same while it publishes.
  They are separate because the second loses the followers (finding `resume`).
* `disconnect`: the channel is lost, the broker redelivers, and the coroutine
  runs on; `connect_robust` gives it a channel to publish on.
* `store`: a call outside the handler's `try` raises, and
  `raw.process(requeue=False)` rejects the message to the dead-letter queue.

Abstracted, on the safe side: any handler may raise (the `tables` and `figures`
stubs never do), followers are published in any order, a worker crash takes one
coroutine at a time. Left out: the attempt, error and metrics columns (nothing
reads them to decide), progress events (see `Progress`), prefetch
(it only rules out interleavings), malformed messages (the program receives
only what it wrote), two documents at once (they share no state here).

### Ingest and the code

`Ingest` extends `StageConsumer` and opens up the place `handle`. Every await of
a handler is an action; the last one is also the consumer's `HandlerSucceeds`,
and all other steps of the consumers are taken as they are (`Elsewhere`). A
handler may raise at any await, because the consumer's `HandlerRaises` is
enabled throughout; it then loses what it had read and an open transaction.

| handler | actions | code |
|---|---|---|
| `parse`, `parse_flow` | `parse_delete`, `parse_commit` | one transaction: delete what it sees, insert, (`parse`) set the status, commit |
| `chunk` | `load_blocks`, `replace_chunks` for each strategy, `chunk_return` | `repo.py:257`, `repo.py:295` (a transaction each) |
| `contextualize` | `context_load`, `context_update` | `index.py:103`: first strategy only, update by id |
| `embed` | for each strategy `embed_load`, `embed_clear`, `embed_upsert`; `embed_return` | `index.py:145`, `vectors.py:88`, `vectors.py:139` |
| the others | `PlainReturn` | they write no artefact |

Rows written by one call share one generated id: `blocks` is the set of ids of
the parses whose blocks exist, `chunks[s]` the id of the current chunking of a
strategy with the blocks it `cites` and whether it has its preamble, `points[s]`
the points of the document in the strategy's collection. `work` is what a
coroutine holds between awaits. `parse` is two actions because the transaction
runs at READ COMMITTED: what it deletes is what it saw. The cascade from
`blocks` to `chunk_blocks` (`init.sql`) is part of the commit, and the foreign
key is the guard of `replace_chunks`. `contended` is a history variable: some
handler ran for a stage that was completed already, or at the same time as
another coroutine of that stage.

A document with text is taken to yield blocks and, for each strategy that is not
skipped, chunks: neither parser emits page furniture, which is all the chunkers
drop. `hasText` is fixed at the start; a scan without text gives `parse` no
blocks, and `chunk` then fails.

### Progress and the code

`Progress` extends `StageConsumer` with everything between a handler's last
write and what the browser shows. One document, one browser.

| part | state | actions | code |
|---|---|---|---|
| handlers | `announce`: events each coroutine has still to publish | `handler_done`, `publish`; `carry_on` waits for it, `disturbed` may cut it short | `stages/*.py`, `progress.py:43` |
| event stream | `relay`, `head`, `stream` | `snapshot_status`, `snapshot_stages`, `subscribe` | `main.py:325`, `progress.py:50` |
| document API | `fetch[f]`: a request and what its answer has so far | `list_documents`, `detail_status`, `detail_stages` | `main.py:222`, `repo.py:117` |
| browser | `view` | `open_page`, `on_snapshot`, `on_progress`, `patch` | `Sidebar.tsx:25`, `:42`, `api.ts:70` |

`publish` reaches the stream only if the relay is `"live"`. `document_detail` is
two statements outside a transaction, hence two actions, in the stream's
snapshot as in a request. An event is not shown but starts a request, which
nobody waits for, so answers come in any order. `show` is the effect: whenever
the shown status changes, the stream is closed with what is left on it, and
opened again, with a new snapshot, unless the document is finished. `heard` is
a history variable; `lost` counts events and answers lost, by an error that the
code swallows on either side.

### Upload and the code

`place[r]` is the await of `upload` (`main.py:163`) that request `r` is at, and
each await is an action; what the handler does before its first await belongs to
the first. A file is its content, which `sha256_of` tells apart, and the
extension of its name, which the object key keeps, so that two names of one
content are two objects.

| `place` | action | code |
|---|---|---|
| `idle` | `upload` | the body is read, empty and too large ones refused |
| `put` | `put_object` | `storage.py`, an object under `Key(r)` |
| `insert` | `create_document` | `repo.py:60`, `ON CONFLICT DO NOTHING` elects the creator |
| `run` | `ensure_run` | `repo.py`, only for the creator |
| `wait`, `connect`, `declare` | `exchange`, `connect`, `declare` | `_Broker`: one connection, opened under a lock; the channel is kept (`main.py:56`) before the topology is declared, so after a `declare` that fails later requests publish on it without declaring |
| `publish` | `publish_detect`, `publish_closed` | with publisher confirms |

Any await may `raise`; a confirmation may be lost (`confirm_lost`), the broker
may close the channel, the API may `restart`. `take` is a worker: it may have
the message before the client has the answer.

### VectorIndex, Retrieval and the code

`VectorIndex` gives each embed stage one action per call of the Qdrant client:
`load_chunks`, `ensure_collection` (looks, `vectors.py:66`), `create_collection`,
`delete_document`, `upsert_chunks`. A chunk's id is its document, a version
(`replace_chunks` gives new ids) and a part. Each process has its own configured
model; only the model's width matters, to Qdrant as well. `Ingest` has one
embed stage of one document in full; here there are several, of several
documents, so that they meet in `ensure_collection`.

`Retrieval` adds one request. `_dense` and `_lexical` answer in any order, with
any ranking of what the code lets through (points that the filter matches;
chunks that exist), or fail. `reciprocal_rank_fusion` is computed in fractions,
with the code's tie-breaks, and sorted by `InOrder`. `resolve` is the one statement that reads the
citation targets; a hit whose chunk is gone is skipped.

### Chunking, FlowText, FlowChunking and the code

A text is a sequence of words. A word knows its block, the separator that
follows it, whether a sentence ends there, and its units, in which the token
counter counts; characters are abstracted to what the separators, the counter
and the provenance look at. A chunk is a range of words of its own, the place
where its text begins (before them, when an overlap was put in front) and the
blocks it names. Each turn of a loop is an action:

| strategy | actions | code in `chunking.py` |
|---|---|---|
| `fixed` | `FitEstimate`, `FitVerified`, `EmitWindow` | grow by estimates, scale back on the real count, step back for the overlap |
| `recursive` | `KeepRange`, `SplitRange`, `PackPiece`, `ApplyOverlap` | `_split_recursive` as a stack of ranges, then packing |
| `layout` | `PackAtomic`, `PackBlock`, `ApplyOverlap` | blocks, flushed at boundaries, sections and budgets |
| `semantic` | `EmbedSentences`, `ReadGap`, `GapsDone` | similarities are any numbers; the percentile is computed |

`approx_tokens` rounds as Python does (1.3 per unit, half to even), because the
scaling loop depends on counts that do not add up. `FlowText` reads lines, which
are what the regular expressions tell apart (blank, heading of a level, fence
with a marker, list, table, text): one action for each branch of the loops of
`split_markdown`, `split_csv`, `split_plain`. `FlowChunking` is the hand-over
between the stages: the blocks become words, and words remember their line.

### Answer, EventStream and the code

`Answer` keeps texts as sequences of the characters that markers are made of.
`LLMSettings` run through every setting of a provider (`llm.py:_provider`). A
request is `ask` (`main.py:357`) or `chat_completions` (`openai_compat.py`),
which may refuse it. `stream_text` is one delta, `usage_chunk` a chunk with token
counts, `conclude` the end of the stream, `provider_fails` an exception;
`apologize` and `extract` are the ways to answer without a provider. `frames` is
what the endpoint has yielded, event by event, with the JSON kind of its value.

`EventStream` writes the frames of `/ask` as sse-starlette does (an event line,
a data line, an empty line, each ended by CR LF; keep-alive comments in between),
as tokens. `streamEvents(n)` is one read of any `n` tokens: it normalises the
line ends of that read, splits the buffer at blank lines, and calls the
handlers of `Ask.tsx`, after which the page is rendered.

## 3. What is checked

Six runs must find no error.

| run | instance | properties | question |
|---|---|---|---|
| `pipeline` | shipped graph, every family and an unsupported document; no faults | `TypeOK` `DispatchAfterDeps` `ReadyNeedsAllStages` `SingleFlight` `ImplementsSchedule` `EventuallyVerdict` | does a run without faults dispatch in order, once, as the abstract schedule says, and always end with a verdict that rows and status agree on? |
| `diamond_stuck` | diamond with a stage that has no handler; one crash, duplicated delivery or store error | `NotSilentlyStuck` `EventuallySettled` | does a disturbed run always end, and is one that cannot go on visible in a dead-letter queue? |
| `ingest` | the writing stages, two strategies with chunks and one without; one crash | `IngestTypeOK` `ReadyIsSearchable` `ReadyIsCitable` | do vectors and links of a finished document belong to its current chunks, whatever failed half-way? do links outlive blocks? |
| `progress` | a chain of three stages; one crash or duplicated delivery; one event or answer lost | `ProgressTypeOK` `ShownIsEarned` `EndIsExplained` `HeardIsShown` `NoStageLost` | is the browser ever ahead of the store, does an answer contradict itself, does a browser that heard the end show it? is a stage lost? |
| `chunking` | small documents and every short text, several budgets and overlaps | `TypeOK` `NothingSkipped` `BlocksAreNamed` `WindowsFit` `StructureIsKept` `SectionIsTrail` `BlocksAreWhole` `EveryLineIsChunked` `EveryFileIsDone` | does every line reach a chunk, which blocks does a chunk name, what is kept together, and does every loop end? |
| `api` | one kind of request: uploads | `UploadTypeOK` `NothingDangles` `EnteredOnce` `AnswersAreTrue` `StrandedWasTold` `EveryoneIsAnswered` | what may the worker and the client rely on, whatever overlaps or fails? |
| | or a search beside embed stages | `RetrievalTypeOK` `RaceIsHarmless` `NoOrphans` `OneVersionShown` `AgreementWins` `OneListIsEnough` | is the race to create a collection harmless, is an answer of one version, does fusion do what it is for? |
| | or a question | `StreamTypeOK` `FinishedIsWhole` `HandledAsSent` | is a finished answer whole, with the citations of all its text, however it was cut? |

`MCApi` extends `Upload`, `Retrieval` and `MCEventStream`. The three share a
process and no state, so a behaviour of it has requests of one kind (`served`)
and nothing is lost by not interleaving them.

Six runs show where the code does not do what its comments and tests say; the
quotations are in `PROJECT.json` under `findings`.

* `resume` (`ReservedIsRequeued`): a crash between `mark_dispatched` and the
  publish leaves followers pending for good. The comment relies on a resume at
  start-up that is not there: `resume_plan` has no caller.
* `ingest_links` (`NoChunkWithoutBlocks`): a redelivered `parse` deletes the
  blocks that finished chunks cite; the chunks stay, without links, and nothing
  rebuilds them.
* `frames` (`FramesStayWhole`): line ends are normalised on each read by itself,
  so a read that ends between CR and LF makes two line ends of one, and the
  frame around them is lost.
* `no_citations` (`TextOtherwise`): an answer without citations sends an empty
  object where the page expects a list, and rendering throws.
* `overlap_blocks` (`TextIsNamed`): the tail that `recursive` puts in front of a
  chunk may reach into two blocks or more, and only the last is added to the
  chunk's provenance, although "the overlap's blocks join this chunk too"
  (`chunking.py:324`).
* `overlap_sections` (`RulesAreKept`): the overlap of `layout` may put a small last
  block of one section in front of the heading of the next. A test demands that
  prose of two sections never shares a chunk, and the rules of `chunk_layout` that
  a heading starts one.

The passing properties `BlocksAreNamed` and `StructureIsKept` say exactly how far
the last two go: of a tail the last block is named and no other, and a chunk of
`layout` keeps the rules in all its blocks but one carried over, which is the last
block of the chunk before, within the overlap, and no table.

### Bounds

*Slots and faults.* `Slots` bounds the messages that exist at once, to three (two
in `progress`). A run without faults needs no more: both siblings, and the
message one of them is publishing. A crash reuses the slot of its message. A
duplicated delivery may need more, since every coroutine may then exist twice;
a publish for which there is no slot waits, which the broker would not make it
do. For safety this leaves out what would follow; `EventuallySettled` says
openly that a run may end with every slot at such a publish. `MaxFaults` is one
wherever there are faults. What more faults, more messages and other graphs
do to the safety properties is proved (section 4), not checked.

*Graphs.* The diamond has the shape that makes the shipped graph hard (two stages
that become ready together and a third that waits for both, families that skip
them) and five stages instead of ten. On the shipped graph each stage has two
attempts, enough for a retry and an exhaustion; the real limits, three to five,
only repeat the first. `ingest` keeps the stages that write, in the shipped
order, with a retry for `chunk` and `embed`, the handlers with several writes.
`progress` has a chain, since siblings add nothing to what the browser sees.
Slots are symmetric in safety runs; no run with a liveness property uses symmetry.

*Requests.* `progress` has two requests of the browser: enough for an answer that
arrives after a later one. `api` has three uploads of two contents under two
names: two race for the same bytes while a third repeats one of them or sends
others. Uploads are alike, so only one order of the three files is taken
(`InOneOrder`). `MaxTrouble` is one failure of any kind; a second only fails
another request, and the proofs allow any number.

*Index.* Two embed stages make the race; their documents may be the same one (a
redelivery), which is chunked again once, or two. Three documents and a limit of
two hits per retriever let a hit fall off the end. One process may have a
narrower model, or the search a scope, not both (`ScopedOrRaced`): the filter
does not bear on the widths.

*Texts.* Words of one to four units meet budgets of three and five tokens: single
words are over a budget, and counts do not add up in both directions. Overlaps
are none, one, and as large as a window. Paragraphs have up to two or three
words and layouts three blocks, enough for a boundary inside each kind of loop
and for an overlap across two of them. Markdown has every sequence of up to four lines of five
kinds and of up to three lines of nine, CSV and plain text of up to five lines with two
rows to a block. `rows_per_block` is 40 in the code; two is the smallest that
has full, partial and several groups.

*Streams.* Up to two deltas, each one of two texts that complete each other's
markers: of one digit and of two, in range and out of range, repeated and in
order. A read takes up to eight tokens, as many as a frame has; `MaxTears` is one
read that ends inside a CR LF.

`CHECK_DEADLOCK` is off because every modelled activity ends: a run has no
messages left, requests are answered, texts are chunked.

### Fairness

* `FairSpec` (`pipeline`, `diamond_stuck`): weak fairness of `Consume(x)` for
  each slot. The broker keeps delivering, a coroutine that can take its next step
  does, and a retry tier's time runs out. Workers run as services that are
  restarted, their awaits have timeouts (`command_timeout` on the pool, 180 s
  for the converter) or are local, and queues are durable. Nothing is assumed of
  the faults, and within a slot nothing chooses a handler's outcome: it may fail
  every time.
* `FairApi` (`api`): for uploads, as in `FairUpload` of `Upload`, weak fairness of
  the next await of each request that was begun, and of the worker that takes
  messages. uvicorn's event loop runs every ready task. Weak fairness is enough for the lock although requests
  compete for it: each takes it at most once. Clients need not send, and nothing
  has to fail.
* `FlowChunking!Spec` (`chunking`): weak fairness of the next step, since the
  stages are handlers that run by themselves; so what is checked is that the
  loops terminate.
* `ingest` and `progress` check safety and assume none, and the searches and
  questions of `api` likewise.
  `HeardIsShown` is stated of states at rest, so that its run can use symmetry.
  That rest is reached is not checked: an event starts one request, a request
  has one answer, and only an answer that changes the status opens a stream.

### What does not hold

What the models show and no comment of the code denies, so that no run is about
it. The properties above are stated so as not to claim it.

The pipeline:

* `detect` sets `quarantined` (`ingest/stages/detect.py:48`) and raises a
  permanent failure, whose `fail_stage` overwrites it with `failed`
  (`pipeline/store_pg.py:97`). No document stays quarantined.
* A redelivered `detect` or `parse` sets the document back to `processing`
  (`db/repo.py:89`), also after `embed` made it ready, and nothing makes it ready
  again. Hence `EndIsExplained` and `HeardIsShown` are about runs without
  redelivery.
* A store or broker call that raises outside the handler's `try`
  (`workers/run.py:126`) sends the message to the dead-letter queue at its first
  attempt; the retry policy is not asked, and the document stays `processing`.
* With a crash *and* a duplicated delivery on one stage, an orphaned coroutine
  may set the row back to running after its stage was finished or given up, and
  then die: the row says running for ever. `NoStageLost` is about either, not both.
* A stage that was completed and runs again replaces what later stages built
  upon, and they are not dispatched again: after a redelivered `chunk` the
  vectors name chunks that are gone. And two coroutines of one stage may overlap,
  after a lost channel or a worker that died between publishing a retry and its
  ack. Then one `embed` may clear the points the other wrote, and fail, while the
  other completes the document; and two overlapping `parse` transactions keep
  both copies of the blocks, since neither sees what the other inserts.
  `ReadyIsSearchable` and `ReadyIsCitable` exclude such runs (`contended`).

Around it:

* An upload that failed after its insert cannot be mended by sending the file
  again, which is answered `duplicate`: the document has no message. Its creator
  was told of an error (`StrandedWasTold`), nobody else is.
* Events published between the snapshot and the subscription of a stream
  (`api/main.py:334`) reach nobody. If `ready` is among them the page says
  `processing` until it is loaded again. `HeardIsShown` is about a browser that heard.
* A permanent failure publishes no event: a page that has the last event behind
  it keeps showing `processing` for a document that failed.
* The loser of the race to create a collection does not compare widths
  (`retrieval/vectors.py:66`); with another model it fails at the upsert, with
  Qdrant's error instead of its own. `RaceIsHarmless` says that it fails only then.
* `_lexical` does not pass on the request's `document_ids`
  (`retrieval/search.py:74`): passages may come from documents outside the scope.
* `describe` and `active_provider` (`providers/llm.py:326`) raise when
  `LLM_PROVIDER` is `anthropic` without a key; `available` is false then, and the
  answer is extractive.
* The question pane becomes usable again only when `done` is handled
  (`web/components/Ask.tsx:68`): a provider that fails in mid-stream, or a lost
  `done` frame, leaves it busy.

## 4. What is proved

TLAPS checks these for every value of the constants that satisfies the named
assumptions of the modules. The number of slots, stages, faults, requests,
contents, documents and so on is arbitrary. TLC evaluates every assumption on
the instances.

The assumptions about types are `GraphAssumption`, `ConsumerAssumption`,
`FlowTextAssumption`, `IndexAssumption` and the like (`ProgressAssumption` also
says that no stage is called `ready` or `quarantined`, which the events are told
apart by). Three are about the shape of a graph:

* `ShapeAssumption` says what the guarantees really need and `validate_pipeline`
  does not check: for each family, detection comes first, every stage runs before
  the terminal stage, and any two stages are either ordered or wait for exactly
  the same stages (*layered*).
* `RunAssumption` is what `validate_pipeline` does check by simulation: no set of
  finished stages short of the whole path leaves nothing to run.
* `OrderAssumption` says what the artefacts rely on and nothing checks: on every
  family's path one parser comes before `chunk`, `chunk` before `contextualize`,
  and that before `embed`. TLC evaluates it on the shipped table too
  (`ShippedOrder`).

About `StageConsumer`:

* `TypeCorrect`, `DispatchCorrect`, `ReadyCorrect` (`StageConsumerProofs`): the
  invariants `TypeOK`, `DispatchAfterDeps` and `ReadyNeedsAllStages` under every
  fault. The inductive invariant `IInv` adds to them that messages, followers
  and rows are all *on track* (on the path, with dependencies that completed at
  some time), that `done` is closed under dependencies, that a message past
  detection carries the detected family, and that a coroutine about to retry has
  an attempt left. `done` is a history because rows go back from succeeded to
  running on redelivery; being on track survives that.
* `NoStageLostCorrect`, `NotSilentlyStuckCorrect` (`StageConsumerProofs`): a run does
  not end with a stage that was neither finished nor given up, under any number
  of worker crashes, or of duplicated deliveries, or one of either; and a run that ends short of
  the end has a dead letter, under any number of crashes and store errors, or one
  fault with duplicated deliveries among them. (A worker that dies while it
  publishes is excluded from both: run `resume`.) The invariant `InGoodHands` says
  that a row which is not final has a coroutine or message that answers for it,
  and that a stage whose dependencies have succeeded but which has no row yet has
  somebody who will find it: the core is `CompleteHands`, where the snapshot
  that `complete_stage` reads in its own transaction holds every such stage. Both
  theorems are instances of it, with other places that count as answering. At
  the end nobody answers for anything, and by `RunAssumption` an unfinished run
  would have a stage somebody must answer for.
* `SingleFlightUntilFault`, `SingleFlightCorrect` (`StageConsumerProofs`): no two
  coroutines work on the same stage until a fault happens, hence never in a run
  without faults. The invariant `FInv` relates each coroutine's place to
  its stage's row, and says that followers not handed on yet are in nobody
  else's hands and that siblings are reserved together. The core is
  `FollowersUnclaimed`: if a stage completed while another coroutine sat between
  `complete_stage` and `mark_dispatched` with the same follower, the two stages
  would be neither ordered nor siblings, which a layered graph rules out. On a
  graph that is not layered the code would publish twice.
* `ScheduleCorrect` (`StageConsumerProofs`): the fault-free consumers implement
  `StageSchedule`, with each row's status read as a phase. `begin_stage` of the
  entry starts detection, `mark_dispatched` starts the followers together,
  `complete_stage` and `fail_stage(permanent)` finish a stage, and every other
  step stutters.
* `ReadyStays` (`StageConsumerProofs`), an action property: until a fault happens, no
  step takes `ready` from a document. Single flight leaves no earlier handler
  that could still write `processing`, and `StatusMatches` ties a failed document
  to a failed stage.

About what is composed with it:

* `IngestImplements` (`IngestProofs`): `Ingest` implements `StageConsumer`, so
  every theorem above about `Spec` holds of the run with its artefacts.
* `IngestTypeCorrect` (`IngestProofs`): `IngestTypeOK`, for any strategies and
  faults. It is inductive together with `TypeOK`: what matters is that a parse
  removes from every chunk what it deletes, that `replace_chunks` cites blocks
  that exist, and that no step of another coroutine moves one that is in its
  handler (`HandlersKeep`).
* `SearchableCorrect`, `CitableCorrect` (`IngestProofs`): `ReadyIsSearchable` and
  `ReadyIsCitable`, for any strategies and any number of crashes, retries and
  coroutines, as long as no handler ran again after its stage was completed or
  beside another coroutine of its stage. The inductive invariant `AInv` says what
  each handler may rely on: chunks cite exactly the blocks there are
  (`ChunksCiteBlocks`), what `chunk` has read is still there
  (`ChunkerIsCurrent`), points are those of the current chunks
  (`PointsMatchChunks`), `contextualize` updates the chunks it read
  (`ContextIsCurrent`), and `embed` has replaced the points of every strategy up
  to the one it is at (`EmbedIsCurrent`). Each part is kept because a stage whose
  artefact another builds upon is not *on track* to run again (`NothingLater`,
  from `OrderAssumption`), and a handler that failed half-way starts over with
  its first strategy.
* `ProgressTypeCorrect` (`ProgressProofs`): `ProgressTypeOK`, with `PlacesOK`,
  which relates the relay's place to what the browser holds.
* `ProgressImplements`, `ShownCorrect` (`ProgressProofs`): watchers leave the
  consumers' protocol alone; and `ShownIsEarned` holds under every fault, for
  any number of requests. The invariant `WInv` says that every body on its way,
  in the snapshot, on the stream, in an answer or on the screen, is *earned*:
  it names as succeeded only stages in `done`, and says `ready` only when the
  path is done. Both statements of `document_detail` read earned bodies
  (`ReadyCorrect`), and `done` only grows.
* `ExplainedCorrect` (`ProgressProofs`): without redelivery, no answer shown
  contradicts itself, although `document_detail` reads the document and its
  stages in two statements. The invariant `WInv` carries `Explained` for every
  body on its way: whatever its first statement saw still holds at the second
  (`ReadyStays` for `ready`, `StatusMatches` for `failed`).
* `HeardCorrect` (`ProgressProofs`): `HeardIsShown`. A browser that heard of the
  end shows it when its requests are answered, in whatever order they come back.
  The invariant `PInv` says that, once heard, `ready` is shown or *promised*: on
  the stream, in an answer, or still to be read by a request or a snapshot that
  will find the document ready. The hard step is an older answer that overwrites
  `ready`: it opens the stream again, and its new snapshot is the promise.

About the others:

* `UploadTypeCorrect`, `NothingDanglesCorrect`, `EnteredOnceCorrect`,
  `AnswersCorrect`, `StrandedCorrect` (`UploadProofs`): all safety properties of
  uploads. The insert elects one request for each content, its `creator`, and
  only the creator gets past it; so the invariant says, of each content, how far
  its creator is (`CreatorsProgress`), and that nobody else wrote its run or its
  message (`OnlyFromCreators`).
* `RetrievalImplements`, `RaceCorrect`, `NoOrphansCorrect` (`RetrievalProofs`):
  requests leave the index alone; a stage fails only on a collection of another
  width (`FitsOrRaced`); and a document with one embed stage has points of one
  version, because between its two calls it has none (`ClearedFirst`).
* `AgreementBeats` (`RetrievalProofs`): for any damping constant `k` and any
  ranks up to `k + 1`, `1/(k+a) + 1/(k+b) > 1/(k+c)`, so what both retrievers
  found is ordered before what one of them found. The shipped settings ask each
  retriever for 50 hits and have `rrf_k` = 60, which is within that bound.
* `AgreementCorrect` (`AgreementWins`, an action property): the same of the
  passages that are shown, and that no cut at `rerank_top_n` and no chunk that is
  gone changes it. `BeforeOrders` proves the order of hits total (fractions are
  compared by products, so its transitivity is `FractionsCompose`), so that the
  ordered list is one list in which a better hit has a smaller place
  (`InOrderSorts`, from `RankedInOrder` in `OrderingProofs`).
* `OneListCorrect` (`OneListIsEnough`, an action property): with one list alone
  the order by score is that list. Its places ascend and leave none out, so they
  are 1, 2, 3 and so on (`PlacesCount`).
* `RetrievalTypeCorrect`, `OneVersionCorrect`: `RetrievalTypeOK` and
  `OneVersionShown`, whatever embed and chunk stages do meanwhile. The invariant
  `RInv` adds that the index only has chunks that have existed, and that the lists
  are lists of different ids.

About a text (`FlowChunkingProofs`), for texts of any length with headings of any
level, and any number of rows to a block; the run `chunking` has texts of up to
five lines:

* `FlowTypeCorrect`: blocks lie within the text, and what is pending has begun.
* `SectionCorrect` (`SectionIsTrail`): a block is filed under exactly the headings
  it stands below. The invariant `Filed` says that the stack is the trail of the
  headings so far. Levels ascend along a trail (`TrailMarks`), so what a heading
  pops from the end of the stack is all that it closes (`TrailOpened`).
* `WholeCorrect` (`BlocksAreWhole`): no fenced block ends before its closing
  fence, no block mixes lines of two kinds, and all groups of rows but the last
  are full. The invariant `FlowInv` adds that what is pending is of one kind
  (`OneKind`), that `rows` is the number of rows pending (`RowsCounted`), and
  that only a block with which the text ends may be short (`Uncut`).

About what is chunked (`FlowChunkingProofs`), for any documents and texts, and for
budgets and overlaps of any size; the run `chunking` has documents and texts of a
few words. `ChunkingAssumption` says that a document is a finite set of blocks of
which no two share a place, as one parse numbers them. (Two parses at once may
insert their blocks twice, see the hazards; Python's sort then leaves them as
the database returned them.)

* `TypeCorrect` (`TypeOK`), `NothingSkippedCorrect`, `NamesCorrect`
  (`BlocksAreNamed`), `WindowsCorrect` (`WindowsFit`), `StructureCorrect`
  (`StructureIsKept`): all safety properties of the four chunkers. The inductive
  invariant `CInv` says of the chunks so far that each begins where the one before
  it allows (`Linked`) and that, until an overlap is put in front, it names
  exactly the blocks of its own words (`Plain`). To that it adds what each loop
  relies on:
  * `Windows` (`fixed`): the window begins where a chunk may and, once accepted,
    counts to no more than the budget. Stepping back for the overlap never reaches
    the start of the window before.
  * `Splitting` (`recursive`): the ranges kept and the ranges still to be split
    tile the text. A range is split into ranges that tile it (`PartsTile`), which
    needs `Fresh`: a range that is split at newlines has no blank line left.
  * `Packing`, `Buffering`: what is open begins where a chunk may; what the layout
    chunker buffers is `Uniform`, of one section, without a table and with a
    heading at most in front.
  * `Cutting` (`semantic`): the sentences tile the text (`SentencesTile`).

  An overlap moves the start of a chunk's text back and names at most one block
  more (`Lapped`): one that the chunk lacks (`Joined`) or none, when the text only
  reaches further into the chunk's first block (`Within`). Under `layout` it is a
  whole block, the last of the chunk before, small and no table
  (`BlockOverlaps`). `Prepared` and `Flattened`
  say what `_prepare` and `_flatten` return: blocks in their places, and words in
  order with every block a run of them.
* `EveryLineCorrect` (`EveryLineIsChunked`): from the file to the chunks. While the
  splitter runs, `NoLineLost` says that each line with content that it has read
  is in a block or pending, unless it is the header, which every block of a CSV
  has. When `chunk` is called, `Carries` says that each such line is a word of
  the text, and by `Covered` every word is in a chunk in the end.

About an answer and its stream (`AnswerProofs`), for any number of deltas of any
length, passages, keep-alives, reads of any size and torn reads; the run `api`
has two deltas and one torn read:

* `FinishedCorrect` (`FinishedIsWhole`): the invariant `AnswerInv` says that the
  frames so far hold all the text the provider sent, and that the frames of the
  end are there together or not at all (`Ended`), each once. So the page that
  finds `done` finds the citations of all the text, and the provider that fails
  half-way has sent none of them.
* `StreamTypeCorrect` (`StreamTypeOK`), `HandledCorrect` (`HandledAsSent`). The
  invariant `StreamInv` has two halves. `WireOK` says what sse-starlette wrote: a
  data line has its event line before it and its blank line behind it, and
  frames are numbered upwards. `Reading` says how the buffer lies upon what was
  taken from the wire (`Held`): its line feeds and fields are those of the wire in
  order, none is missing behind the place where the last frame was cut off, and
  only a torn read adds a line feed that is not there. From that, a piece between
  two cuts has at most one data line, and that with its own event line
  (`Dispatch`); while no read is torn, the cuts fall exactly at the blank lines
  of frames (`CutEnds`, `AtCut`), so no frame that was read whole is missing
  (`DispatchWhole`, `Complete`). `ReadStep` puts them together for a read of any
  size, and `ReadingKept` says that what is written meanwhile disturbs nothing.

Nothing here is an induction over data. A step of the splitter adds at most one
block that `flush` completes and one of its own; sums over words are only compared
(`SumsGrow`, `NothingCosts`); and where a sequence would be argued about member by
member, the least counterexample is refuted. It exists by `LeastNatural`, which
follows from the well-foundedness of `<` on the naturals stated as a set of pairs.
What cannot be had in this way, such as which number a sum or a percentile is,
no invariant needs.

Model-checked only:

* everything temporal under fairness (`EventuallyVerdict`, `EventuallySettled`,
  `EveryoneIsAnswered`, `EveryFileIsDone`), which is out of the prover's reach;
* `ReservedIsRequeued`, `NoChunkWithoutBlocks`, `FramesStayWhole`,
  `TextOtherwise`, `TextIsNamed` and `RulesAreKept` are no theorems: they do not
  hold (section 3).

So every safety property that a passing run checks is proved, and every temporal
one is only checked.

## 5. What is not modelled

* *Format detection, text-layer assessment, coordinate conversion, cell parser*
  (`ingest/formats.py`, `classify.py`, `bbox.py`, `numeric.py`): tables of
  signatures, statistics and arithmetic on reals, regular expressions over
  characters. They keep no state. Detection's answer is a constant of
  `StageConsumer`.
* *Extraction from PDFs and office conversion*: what a library does with bytes.
  The models take that a document with text has blocks.
* *`ocr`, `tables`, `figures`*: their handlers write nothing yet, and are modelled
  as stages that succeed or fail.
* *`resume_plan`*: nothing calls it.
* *Providers' HTTP, prices, embedders*: calls of other services. Their failures
  are modelled where they are handled.
* *Exchanges and bindings*: the declared topology is data that RabbitMQ checks;
  the models have queues, retry tiers and dead-letter queues as places. So
  `AnswersAreTrue` takes the queue of `detect` to exist, as it does once a worker
  has started or an upload has declared it. Before that, an upload whose `declare`
  failed half-way leaves a channel on which later ones publish without declaring,
  and a message that no queue takes would be answered `queued`.
* *Configuration, object storage, scripts, infrastructure, viewer*: settings, I/O,
  operator tools and presentation.
