---------------------------- MODULE IngestProofs ----------------------------
(***************************************************************************)
(* Proofs about Ingest: the handlers' writes do not disturb the consumers, *)
(* so what holds of StageConsumer holds here; the references between       *)
(* blocks and chunks are kept whatever overlaps; and what a finished       *)
(* document left in both stores agrees, unless handlers overlapped.        *)
(***************************************************************************)
EXTENDS Ingest, StageConsumerProofs

(* A step of a handler is no step of the consumer, or its success. *)
LEMMA HandleRefines ==
  ASSUME NEW x \in Slots, Handle(x)
  PROVE  HandlerSucceeds(x) \/ UNCHANGED vars
<1>1. CASE PlainReturn(x)
  BY <1>1 DEF PlainReturn, Return
<1>2. CASE parse_delete(x) \/ load_blocks(x) \/ replace_chunks(x)
  BY <1>2 DEF parse_delete, load_blocks, replace_chunks, Proceed
<1>3. CASE parse_commit(x) \/ chunk_return(x) \/ context_update(x) \/ embed_return(x)
  BY <1>3 DEF parse_commit, chunk_return, context_update, embed_return, Return
<1>4. CASE context_load(x) \/ embed_load(x) \/ embed_clear(x) \/ embed_upsert(x)
  BY <1>4 DEF context_load, embed_load, embed_clear, embed_upsert, Proceed
<1> QED
  BY <1>1, <1>2, <1>3, <1>4 DEF Handle

LEMMA IngestStepRefines == [IngestNext]_ingestVars => [Next]_vars
<1>1. ASSUME IngestNext PROVE [Next]_vars
  <2>1. PICK x \in Slots : Handle(x) \/ Elsewhere(x)
    BY <1>1 DEF IngestNext
  <2>2. CASE Handle(x)
    BY <2>2, HandleRefines DEF Next, Consume
  <2>3. CASE Elsewhere(x)
    BY <2>3 DEF Elsewhere, Next
  <2> QED
    BY <2>1, <2>2, <2>3
<1>2. ASSUME UNCHANGED ingestVars PROVE UNCHANGED vars
  BY <1>2 DEF ingestVars
<1> QED
  BY <1>1, <1>2

(* The ingest run with its artefacts implements the consumers' protocol.   *)
THEOREM IngestImplements == IngestSpec => Spec
<1>1. IngestInit => Init
  BY DEF IngestInit
<1> QED
  BY <1>1, IngestStepRefines, PTL DEF IngestSpec, Spec

-----------------------------------------------------------------------------

(* What the proof needs of the strategies. *)
LEMMA StrategyAt ==
  /\ Len(chunk_strategies) \in Nat
  /\ \A i \in Nat \ {0} : i <= Len(chunk_strategies) => chunk_strategies[i] \in Strategies
  /\ chunk_strategies[1] \in Strategies
<1>1. chunk_strategies \in Seq(Strategies) /\ chunk_strategies # <<>>
  BY IngestAssumption
<1>2. Len(chunk_strategies) \in Nat /\ DOMAIN chunk_strategies = 1 .. Len(chunk_strategies)
  BY <1>1
<1>3. Len(chunk_strategies) # 0
  BY <1>1
<1> QED
  BY <1>2, <1>3 DEF Strategies

(* The parts of IngestTypeOK, named for the proof. *)
WorkRecord(n) == [phase : {"read", "write", "clear"}, i : Nat \ {0},
                  blocks : SUBSET (1 .. n), seen : Point]

ChunkRecord(n, B) == [id : 0 .. n, cites : SUBSET B, prefix : BOOLEAN]

LEMMA IdleIsWork ==
  ASSUME NEW n \in Nat PROVE Idle \in WorkRecord(n)
BY DEF Idle, WorkRecord, Point, PointOf, NoChunks

LEMMA InitIngestTypeOK == IngestInit => IngestTypeOK
<1> SUFFICES ASSUME IngestInit PROVE IngestTypeOK
  OBVIOUS
<1>1. NoChunks \in ChunkRecord(0, {})
  BY DEF NoChunks, ChunkRecord
<1>2. Idle \in WorkRecord(0)
  BY IdleIsWork
<1> QED
  BY <1>1, <1>2 DEF IngestInit, IngestTypeOK, WorkRecord, ChunkRecord

(* A handler that goes on keeps its coroutine's record well formed. *)
LEMMA WorkStep ==
  ASSUME IngestTypeOK, NEW x \in Slots, NEW w \in WorkRecord(minted'),
         minted' \in Nat, minted <= minted', pc[x] = "handle", Proceed(x, w)
  PROVE  /\ hasText' \in BOOLEAN
         /\ work' \in [Slots -> WorkRecord(minted')]
         /\ \A y \in Slots : work'[y] # Idle => pc'[y] = "handle"
<1>1. WorkRecord(minted) \subseteq WorkRecord(minted')
  BY DEF WorkRecord, IngestTypeOK
<1>2. work \in [Slots -> WorkRecord(minted')]
  BY <1>1 DEF IngestTypeOK, WorkRecord
<1> QED
  BY <1>2 DEF IngestTypeOK, Proceed, Progress, vars

(* So does one that returns. *)
LEMMA ReturnStep ==
  ASSUME IngestTypeOK, TypeOK, NEW x \in Slots,
         minted' \in Nat, minted <= minted', Return(x)
  PROVE  /\ hasText' \in BOOLEAN
         /\ work' \in [Slots -> WorkRecord(minted')]
         /\ \A y \in Slots : work'[y] # Idle => pc'[y] = "handle"
<1>1. WorkRecord(minted) \subseteq WorkRecord(minted')
  BY DEF WorkRecord, IngestTypeOK
<1>2. work \in [Slots -> WorkRecord(minted')]
  BY <1>1 DEF IngestTypeOK, WorkRecord
<1>3. Idle \in WorkRecord(minted')
  BY IdleIsWork
<1>4. work' = [work EXCEPT ![x] = Idle] /\ hasText' = hasText /\ HandlerSucceeds(x)
  BY DEF Return, Progress
<1>5. ASSUME NEW y \in Slots, work'[y] # Idle PROVE pc'[y] = "handle"
  <2>1. y # x /\ work[y] # Idle
    BY <1>2, <1>4, <1>5
  <2> QED
    BY <2>1, <1>4, OthersKeep DEF Consume, IngestTypeOK
<1> QED
  BY <1>2, <1>3, <1>4, <1>5 DEF IngestTypeOK

(* The rows: ids that were generated, and links to blocks that exist.      *)
RowsOK ==
  /\ minted \in Nat
  /\ blocks \subseteq 1 .. minted
  /\ chunks \in [Strategies -> ChunkRecord(minted, blocks)]
  /\ points \in [Strategies -> SUBSET Point]

LEMMA RowsOfType == IngestTypeOK => RowsOK
BY DEF IngestTypeOK, RowsOK, ChunkRecord

LEMMA RowsUnchanged == RowsOK /\ UNCHANGED artefacts => RowsOK'
BY DEF RowsOK, ChunkRecord, artefacts

LEMMA ParseCommitRows ==
  ASSUME IngestTypeOK, NEW x \in Slots, parse_commit(x)
  PROVE  RowsOK' /\ minted <= minted'
<1>1. minted \in Nat /\ minted' = minted + 1 /\ points' = points
  BY DEF parse_commit, IngestTypeOK
<1>2. blocks' \subseteq 1 .. minted'
  BY <1>1 DEF parse_commit, insert_blocks, IngestTypeOK
<1>3. blocks \ work[x].blocks \subseteq blocks'
  BY DEF parse_commit
<1>4. ASSUME NEW s \in Strategies
      PROVE  [chunks[s] EXCEPT !.cites = @ \ work[x].blocks] \in ChunkRecord(minted', blocks')
  <2>1. chunks[s] \in ChunkRecord(minted, blocks)
    BY DEF IngestTypeOK, ChunkRecord
  <2>2. chunks[s].cites \ work[x].blocks \subseteq blocks'
    BY <1>3, <2>1 DEF ChunkRecord
  <2> QED
    BY <1>1, <2>1, <2>2 DEF ChunkRecord
<1>5. chunks' \in [Strategies -> ChunkRecord(minted', blocks')]
  BY <1>4 DEF parse_commit
<1> QED
  BY <1>1, <1>2, <1>5 DEF RowsOK, IngestTypeOK

LEMMA ReplaceRows ==
  ASSUME IngestTypeOK, NEW x \in Slots, replace_chunks(x)
  PROVE  RowsOK' /\ minted <= minted'
<1>1. minted \in Nat /\ minted' = minted + 1 /\ points' = points /\ blocks' = blocks
  BY DEF replace_chunks, IngestTypeOK
<1>2. work[x].blocks \subseteq blocks
  BY DEF replace_chunks
<1>3. [id |-> minted', cites |-> work[x].blocks, prefix |-> FALSE]
        \in ChunkRecord(minted', blocks)
  BY <1>1, <1>2 DEF ChunkRecord
<1>4. chunks \in [Strategies -> ChunkRecord(minted', blocks)]
  BY <1>1 DEF IngestTypeOK, ChunkRecord
<1>5. chunks' \in [Strategies -> ChunkRecord(minted', blocks)]
  BY <1>3, <1>4 DEF replace_chunks
<1> QED
  BY <1>1, <1>5 DEF RowsOK, IngestTypeOK

LEMMA ContextRows ==
  ASSUME IngestTypeOK, NEW x \in Slots, context_update(x)
  PROVE  RowsOK'
<1> DEFINE s == chunk_strategies[1]
           c == [chunks[s] EXCEPT !.prefix = @ \/ chunks[s].id = work[x].seen.id]
<1>1. chunks \in [Strategies -> ChunkRecord(minted, blocks)] /\ s \in Strategies
  BY StrategyAt DEF IngestTypeOK, ChunkRecord
<1>2. c \in ChunkRecord(minted, blocks)
  BY <1>1 DEF ChunkRecord
<1>3. chunks' = [chunks EXCEPT ![s] = c]
  BY DEF context_update
<1>4. UNCHANGED <<blocks, points, minted>>
  BY DEF context_update
<1> QED
  BY <1>1, <1>2, <1>3, <1>4 DEF RowsOK, IngestTypeOK

LEMMA EmbedRows ==
  ASSUME IngestTypeOK, NEW x \in Slots, embed_clear(x) \/ embed_upsert(x)
  PROVE  RowsOK'
<1>1. points \in [Strategies -> SUBSET Point] /\ work[x].seen \in Point
  BY DEF IngestTypeOK
<1>2. UNCHANGED <<blocks, chunks, minted>>
  BY DEF embed_clear, embed_upsert
<1>3. points' \in [Strategies -> SUBSET Point]
  <2>1. CASE embed_clear(x)
    BY <1>1, <2>1 DEF embed_clear
  <2>2. CASE embed_upsert(x)
    BY <1>1, <2>2 DEF embed_upsert
  <2> QED
    BY <2>1, <2>2
<1> QED
  BY <1>2, <1>3 DEF RowsOK, IngestTypeOK, ChunkRecord

-----------------------------------------------------------------------------

(* What a handler keeps for its next await is well formed. *)
LEMMA ProceedStep ==
  ASSUME IngestTypeOK, NEW x \in Slots, NEW w \in WorkRecord(minted),
         pc[x] = "handle", Proceed(x, w), RowsOK', minted <= minted',
         contended' \in BOOLEAN
  PROVE  IngestTypeOK'
<1>1. minted \in Nat /\ minted' \in Nat
  BY DEF IngestTypeOK, RowsOK
<1>2. w \in WorkRecord(minted')
  BY <1>1 DEF WorkRecord
<1> QED
  BY <1>1, <1>2, WorkStep DEF IngestTypeOK, RowsOK, WorkRecord, ChunkRecord

LEMMA ReturnTypeOK ==
  ASSUME IngestTypeOK, TypeOK, NEW x \in Slots, Return(x), RowsOK',
         minted <= minted', contended' \in BOOLEAN
  PROVE  IngestTypeOK'
<1>1. minted \in Nat /\ minted' \in Nat
  BY DEF IngestTypeOK, RowsOK
<1> QED
  BY <1>1, ReturnStep DEF IngestTypeOK, RowsOK, WorkRecord, ChunkRecord

LEMMA HandleTypeOK ==
  ASSUME IngestTypeOK, TypeOK, NEW x \in Slots, Handle(x), contended' \in BOOLEAN
  PROVE  IngestTypeOK'
<1>1. work[x] \in WorkRecord(minted) /\ minted \in Nat
  BY DEF IngestTypeOK, WorkRecord
<1>2. Idle \in WorkRecord(minted)
  BY <1>1, IdleIsWork
<1>3. UNCHANGED artefacts => RowsOK' /\ minted <= minted'
  BY <1>1, RowsOfType, RowsUnchanged DEF artefacts
<1>4. ASSUME NEW c \in ChunkRecord(minted, blocks) PROVE PointOf(c) \in Point
  BY <1>1, <1>4 DEF ChunkRecord, PointOf, Point
<1>5. chunks \in [Strategies -> ChunkRecord(minted, blocks)] /\ blocks \subseteq 1 .. minted
  BY DEF IngestTypeOK, ChunkRecord
<1>6. CASE PlainReturn(x) \/ chunk_return(x) \/ embed_return(x)
  BY <1>3, <1>6, ReturnTypeOK DEF PlainReturn, chunk_return, embed_return
<1>7. CASE parse_commit(x)
  <2>1. RowsOK' /\ minted <= minted'
    BY <1>7, ParseCommitRows
  <2> QED
    BY <1>7, <2>1, ReturnTypeOK DEF parse_commit
<1>8. CASE context_update(x)
  <2>1. RowsOK' /\ minted' = minted
    BY <1>8, ContextRows DEF context_update
  <2> QED
    BY <1>1, <1>8, <2>1, ReturnTypeOK DEF context_update
<1>9. CASE parse_delete(x) \/ load_blocks(x)
  <2> DEFINE w == [Idle EXCEPT !.phase = "write", !.blocks = blocks]
  <2>1. w \in WorkRecord(minted)
    BY <1>2, <1>5 DEF WorkRecord, Idle
  <2>2. pc[x] = "handle" /\ Proceed(x, w) /\ UNCHANGED artefacts
    BY <1>9 DEF parse_delete, load_blocks, Working, At
  <2> QED
    BY <1>3, <2>1, <2>2, ProceedStep
<1>10. CASE replace_chunks(x)
  <2> DEFINE w == [work[x] EXCEPT !.i = @ + 1]
  <2>1. w \in WorkRecord(minted)
    BY <1>1 DEF WorkRecord
  <2>2. pc[x] = "handle" /\ Proceed(x, w)
    BY <1>10 DEF replace_chunks, Working, At
  <2>3. RowsOK' /\ minted <= minted'
    BY <1>10, ReplaceRows
  <2> QED
    BY <2>1, <2>2, <2>3, ProceedStep
<1>11. CASE context_load(x)
  <2> DEFINE w == [Idle EXCEPT !.phase = "write", !.seen = PointOf(chunks[chunk_strategies[1]])]
  <2>1. PointOf(chunks[chunk_strategies[1]]) \in Point
    BY <1>4, <1>5, StrategyAt
  <2>2. w \in WorkRecord(minted)
    BY <1>2, <2>1 DEF WorkRecord, Idle
  <2>3. pc[x] = "handle" /\ Proceed(x, w) /\ UNCHANGED artefacts
    BY <1>11 DEF context_load, Working, At
  <2> QED
    BY <1>3, <2>2, <2>3, ProceedStep
<1>12. CASE embed_load(x)
  <2> DEFINE c == chunks[embed_strategy(x)]
             w == IF c.id = 0
                    THEN [work[x] EXCEPT !.i = @ + 1]
                    ELSE [work[x] EXCEPT !.phase = "clear", !.seen = PointOf(c)]
  <2>1. work[x].i \in Nat \ {0} /\ work[x].i <= Len(chunk_strategies)
    BY <1>1, <1>12 DEF embed_load, WorkRecord
  <2>2. PointOf(c) \in Point
    BY <1>4, <1>5, <2>1, StrategyAt DEF embed_strategy
  <2>3. w \in WorkRecord(minted)
    <3>1. [work[x] EXCEPT !.i = @ + 1] \in WorkRecord(minted)
      BY <1>1 DEF WorkRecord
    <3>2. [work[x] EXCEPT !.phase = "clear", !.seen = PointOf(c)] \in WorkRecord(minted)
      <4> HIDE DEF c
      <4> QED
        BY <1>1, <2>2 DEF WorkRecord
    <3> QED
      BY <3>1, <3>2
  <2>4. pc[x] = "handle" /\ Proceed(x, w) /\ UNCHANGED artefacts
    BY <1>12 DEF embed_load, Working, At
  <2> QED
    BY <1>3, <2>3, <2>4, ProceedStep
<1>13. CASE embed_clear(x)
  <2> DEFINE w == [work[x] EXCEPT !.phase = "write"]
  <2>1. w \in WorkRecord(minted)
    BY <1>1 DEF WorkRecord
  <2>2. pc[x] = "handle" /\ Proceed(x, w) /\ minted' = minted
    BY <1>13 DEF embed_clear, Working, At
  <2> QED
    BY <1>1, <1>13, <2>1, <2>2, EmbedRows, ProceedStep
<1>14. CASE embed_upsert(x)
  <2> DEFINE w == [Idle EXCEPT !.i = work[x].i + 1]
  <2>1. w \in WorkRecord(minted)
    BY <1>1, <1>2 DEF WorkRecord, Idle
  <2>2. pc[x] = "handle" /\ Proceed(x, w) /\ minted' = minted
    BY <1>14 DEF embed_upsert, Working, At
  <2> QED
    BY <1>1, <1>14, <2>1, <2>2, EmbedRows, ProceedStep
<1> QED
  BY <1>6, <1>7, <1>8, <1>9, <1>10, <1>11, <1>12, <1>13, <1>14 DEF Handle

(* The other steps of the consumers keep the rows, and forget what a       *)
(* coroutine that leaves its handler was doing.                            *)
LEMMA ElsewhereTypeOK ==
  ASSUME IngestTypeOK, TypeOK, NEW x \in Slots, Elsewhere(x), contended' \in BOOLEAN
  PROVE  IngestTypeOK'
<1>1. RowsOK' /\ minted' = minted /\ hasText' = hasText
  BY RowsOfType, RowsUnchanged DEF Elsewhere, artefacts
<1>2. work' \in [Slots -> WorkRecord(minted)]
  BY IdleIsWork DEF Elsewhere, IngestTypeOK, WorkRecord
<1>3. ASSUME NEW y \in Slots, work'[y] # Idle PROVE pc'[y] = "handle"
  <2>1. work[y] # Idle /\ (y = x => pc'[x] = "handle")
    BY <1>3 DEF Elsewhere, IngestTypeOK
  <2> QED
    BY <2>1, OthersKeep DEF Elsewhere, IngestTypeOK
<1> QED
  BY <1>1, <1>2, <1>3 DEF IngestTypeOK, RowsOK, WorkRecord, ChunkRecord

LEMMA NextIngestTypeOK ==
  ASSUME IngestTypeOK, TypeOK, [IngestNext]_ingestVars
  PROVE  IngestTypeOK'
<1>1. CASE IngestNext
  <2>1. PICK x \in Slots : Handle(x) \/ Elsewhere(x)
    BY <1>1 DEF IngestNext
  <2>2. contended' \in BOOLEAN
    BY <1>1 DEF IngestNext, IngestTypeOK
  <2> QED
    BY <2>1, <2>2, HandleTypeOK, ElsewhereTypeOK
<1>2. CASE UNCHANGED ingestVars
  BY <1>2 DEF ingestVars, artefacts, vars, IngestTypeOK
<1> QED
  BY <1>1, <1>2

(* For any strategies, messages and faults: no link between a chunk and a  *)
(* block outlives the block, and no coroutine holds what it read beyond    *)
(* its handler.                                                            *)
THEOREM IngestTypeCorrect == IngestSpec => []IngestTypeOK
<1>1. IngestSpec => []TypeOK
  BY IngestImplements, TypeCorrect, PTL
<1>2. IngestTypeOK /\ TypeOK /\ [IngestNext]_ingestVars => IngestTypeOK'
  BY NextIngestTypeOK
<1> QED
  BY <1>1, <1>2, InitIngestTypeOK, PTL DEF IngestSpec

(* A document with artefacts is called ready no earlier than one without:  *)
(* ReadyNeedsAllStages of the consumers, through IngestImplements.         *)
THEOREM IngestReady == IngestSpec => []ReadyNeedsAllStages
BY IngestImplements, ReadyCorrect, PTL

-----------------------------------------------------------------------------

(* Once its dependencies have completed, a stage's artefacts are final     *)
(* until it runs itself: the parts of the invariant, stage by stage.       *)

(* Chunks cite the blocks there are, all of them, and no parser is still   *)
(* to come.                                                                *)
ChunksCiteBlocks ==
  \A s \in Strategies :
    chunks[s].id # 0 => /\ chunks[s].cites = blocks /\ blocks # {}
                        /\ OnTrack("chunk")

(* What chunk has read is still there. *)
ChunkerIsCurrent ==
  \A x \in Slots : Working(x, "chunk", "write") => work[x].blocks = blocks /\ blocks # {}

(* Vectors are those of the chunks there are, and chunk is not to come. *)
PointsMatchChunks ==
  \A s \in Strategies :
    points[s] # {} => /\ points[s] = {PointOf(chunks[s])} /\ chunks[s].id # 0
                      /\ OnTrack("embed")

(* So the update by id finds the chunks it was made for. *)
ContextIsCurrent ==
  \A x \in Slots : Working(x, "contextualize", "write") =>
    work[x].seen.id = chunks[chunk_strategies[1]].id

PrefixWhenPassed == Passed("contextualize") => chunks[chunk_strategies[1]].prefix

Embedded(s) == chunks[s].id # 0 => points[s] # {}

(* embed has replaced the vectors of every strategy up to the one it is at. *)
EmbeddedSoFar(x) ==
  /\ work[x].phase # "read" =>
       /\ work[x].i <= Len(chunk_strategies)
       /\ chunks[embed_strategy(x)].id # 0
       /\ work[x].seen = PointOf(chunks[embed_strategy(x)])
  /\ work[x].phase = "write" => points[embed_strategy(x)] = {}
  /\ \A k \in 1 .. Len(chunk_strategies) :
       k < work[x].i => \/ Embedded(chunk_strategies[k])
                        \/ /\ work[x].phase = "write"
                           /\ chunk_strategies[k] = embed_strategy(x)

EmbedIsCurrent == \A x \in Slots : At(x, "embed", "handle") => EmbeddedSoFar(x)

EmbeddedWhenPassed == Passed("embed") => \A s \in Strategies : Embedded(s)

ArtefactsCurrent ==
  /\ ChunksCiteBlocks
  /\ ChunkerIsCurrent
  /\ PointsMatchChunks
  /\ ContextIsCurrent
  /\ PrefixWhenPassed
  /\ EmbedIsCurrent
  /\ EmbeddedWhenPassed

(* As long as no handler got into another's way. *)
AInv == ~contended => ~Contention /\ ArtefactsCurrent

-----------------------------------------------------------------------------

LEMMA InitAInv == IngestInit => AInv
BY DEF IngestInit, Init, AInv, Contention, ArtefactsCurrent, ChunksCiteBlocks,
   ChunkerIsCurrent, PointsMatchChunks, ContextIsCurrent, PrefixWhenPassed,
   EmbedIsCurrent, EmbeddedSoFar, EmbeddedWhenPassed, Embedded, Passed, Working, At, NoChunks

(* What a stage on its way says of the stages before it. *)
LEMMA InOrder ==
  ASSUME IInv
  PROVE  /\ OnTrack("chunk") => \A s \in Parsers : OnTrack(s) => s \in done
         /\ OnTrack("contextualize") => "chunk" \in done
         /\ OnTrack("embed") => "contextualize" \in done
         /\ \A s \in done : OnTrack(s)
<1>1. done \in SUBSET stage_names_for(docFamily) /\ DownClosed(docFamily, done)
  BY DEF IInv, DoneClosed, Path
<1>2. ASSUME NEW s \in Writers, OnTrack(s)
      PROVE  s \in stage_names_for(docFamily) /\ docFamily \in Families
  <2>1. s \in stage_names_for(docFamily)
    BY <1>2, OrderAssumption DEF OnTrack, Path
  <2> QED
    BY <2>1, GraphAssumption DEF stage_names_for
<1>3. ASSUME NEW s \in Writers, OnTrack(s), NEW u, Before(u, s, docFamily)
      PROVE  u \in done
  BY <1>1, <1>3 DEF OnTrack, Before
<1>4. OnTrack("chunk") => \A s \in Parsers : OnTrack(s) => s \in done
  BY <1>2, <1>3, OrderAssumption DEF Writers, Parsers, ArtefactsInOrder
<1>5. OnTrack("contextualize") => "chunk" \in done
  BY <1>2, <1>3, OrderAssumption DEF Writers, ArtefactsInOrder
<1>6. OnTrack("embed") => "contextualize" \in done
  BY <1>2, <1>3, OrderAssumption DEF Writers, ArtefactsInOrder
<1>7. \A s \in done : OnTrack(s)
  BY <1>1 DEF OnTrack, DownClosed, Path
<1> QED
  BY <1>4, <1>5, <1>6, <1>7

(* A handler that nobody disturbs runs before the stages that depend on    *)
(* what it writes: they are not on track, and have nobody at work.         *)
LEMMA NothingLater ==
  ASSUME IInv, ~Contention, NEW x \in Slots, NEW s, At(x, s, "handle")
  PROVE  /\ OnTrack(s) /\ s \notin done /\ ~Passed(s)
         /\ \A y \in Slots \ {x} : ~At(y, s, "handle")
         /\ s \in Parsers => ~OnTrack("chunk")
         /\ s = "chunk" => ~OnTrack("contextualize")
         /\ s \in Parsers \cup {"chunk", "contextualize"} => ~OnTrack("embed")
<1>1. OnTrack(s)
  BY DEF IInv, MessagesOnTrack, At, Live
<1>2. s \notin done /\ ~Passed(s) /\ \A y \in Slots \ {x} : ~At(y, s, "handle")
  BY DEF Contention, At, Passed
<1>3. s \in Parsers => ~OnTrack("chunk")
  BY <1>1, <1>2, InOrder
<1>4. s = "chunk" => ~OnTrack("contextualize")
  BY <1>2, InOrder
<1>5. OnTrack("embed") => OnTrack("contextualize") /\ "contextualize" \in done
  BY InOrder
<1>6. OnTrack("contextualize") => OnTrack("chunk") /\ "chunk" \in done
  BY InOrder
<1> QED
  BY <1>1, <1>2, <1>3, <1>4, <1>5, <1>6

LEMMA OffTrack ==
  ASSUME IInv, NEW s, ~OnTrack(s)
  PROVE  /\ ~Passed(s)
         /\ \A y \in Slots, where \in {"handle", "complete"} : ~At(y, s, where)
<1>1. \A y \in Slots, where \in {"handle", "complete"} : ~At(y, s, where)
  BY DEF IInv, MessagesOnTrack, At, Live
<1>2. s \notin done
  BY InOrder
<1> QED
  BY <1>1, <1>2 DEF Passed

-----------------------------------------------------------------------------
(* How coroutines move *)

LEMMA ProceedFrame ==
  ASSUME IngestTypeOK, NEW x \in Slots, NEW w, Proceed(x, w)
  PROVE  /\ \A y, s, where : At(y, s, where)' <=> At(y, s, where)
         /\ \A s : /\ OnTrack(s)' <=> OnTrack(s)
                   /\ Passed(s)' <=> Passed(s)
         /\ work'[x] = w
         /\ \A y \in Slots \ {x} : work'[y] = work[y]
<1>1. UNCHANGED vars /\ work' = [work EXCEPT ![x] = w]
  BY DEF Proceed, Progress
<1> QED
  BY <1>1 DEF vars, At, OnTrack, Path, Passed, IngestTypeOK

LEMMA ReturnFrame ==
  ASSUME TypeOK, IngestTypeOK, NEW x \in Slots, NEW u, At(x, u, "handle"), Return(x)
  PROVE  /\ \A y \in Slots : \A s : At(y, s, "handle")' => y # x /\ At(y, s, "handle")
         /\ \A s : /\ OnTrack(s)' <=> OnTrack(s)
                   /\ Passed(s)' => Passed(s) \/ s = u
         /\ \A y \in Slots \ {x} : work'[y] = work[y]
<1>1. /\ pc' = [pc EXCEPT ![x] = "complete"]
      /\ UNCHANGED <<docFamily, msg, done>>
      /\ work' = [work EXCEPT ![x] = Idle]
  BY DEF Return, Progress, HandlerSucceeds, Goto
<1>2. \A y \in Slots : \A s : At(y, s, "handle")' => y # x /\ At(y, s, "handle")
  BY <1>1 DEF At, TypeOK
<1>3. \A y \in Slots : \A s : At(y, s, "complete")' => At(y, s, "complete") \/ s = u
  BY <1>1 DEF At, TypeOK
<1> QED
  BY <1>1, <1>2, <1>3 DEF OnTrack, Path, Passed, IngestTypeOK

(* The other steps bring coroutines into a handler that have read nothing, *)
(* and none past it; what completes had passed its handler.                *)
LEMMA ElsewhereFrame ==
  ASSUME TypeOK, IngestTypeOK, NEW x \in Slots, Elsewhere(x)
  PROVE  /\ \A y \in Slots : \A s : At(y, s, "handle")' =>
              \/ At(y, s, "handle") /\ work'[y] = work[y]
              \/ work'[y] = Idle
         /\ \A s : /\ OnTrack(s) => OnTrack(s)'
                   /\ Passed(s)' => Passed(s)
         /\ UNCHANGED artefacts
<1>1. /\ pc \in [Slots -> {"free"} \cup Waiting \cup Held]
      /\ msg \in [Slots -> [stage : Stages, attempt : Nat \ {0}, family : Families]]
  BY DEF TypeOK
<1>2. /\ Consume(x) \/ Disturb(x)
      /\ pc[x] = "handle" => pc'[x] # "complete"
      /\ work' = IF pc'[x] = "handle" THEN work ELSE [work EXCEPT ![x] = Idle]
      /\ UNCHANGED artefacts
  BY DEF Elsewhere
<1>3. /\ \A y \in Slots : \A s : At(y, s, "handle")' => At(y, s, "handle") \/ pc[y] # "handle"
      /\ \A y \in Slots : \A s : At(y, s, "complete")' => At(y, s, "complete")
      /\ \A s \in done' : Passed(s)
      /\ done \subseteq done' /\ docFamily' = docFamily
  <2> USE <1>1, <1>2 DEF Goto, Send, Release, At, Passed
  <2>1. CASE Deliver(x) \/ begin_stage(x) \/ HandlerSucceeds(x)
    BY <2>1 DEF Deliver, begin_stage, HandlerSucceeds
  <2>2. CASE (\E permanent \in BOOLEAN : HandlerRaises(x, permanent)) \/ Quarantine(x)
    BY <2>2 DEF HandlerRaises, Quarantine
  <2>3. CASE complete_stage(x) \/ mark_dispatched(x)
    BY <2>3 DEF complete_stage, mark_dispatched
  <2>4. CASE \E s \in Stages, y \in Slots : PublishFollower(x, s, y)
    BY <2>4 DEF PublishFollower
  <2>5. CASE fail_stage_retry(x) \/ (\E y \in Slots : PublishRetry(x, y)) \/ Expire(x)
    BY <2>5 DEF fail_stage_retry, PublishRetry, Expire
  <2>6. CASE fail_stage_dead(x) \/ fail_document(x) \/ dead_letter(x) \/ Ack(x)
    BY <2>6 DEF fail_stage_dead, fail_document, dead_letter, Ack
  <2>7. CASE Crash(x) \/ Reject(x)
    BY <2>7 DEF Crash, Reject
  <2>8. CASE \E y \in Slots : LoseConnection(x, y)
    BY <2>8 DEF LoseConnection
  <2> QED
    BY <2>1, <2>2, <2>3, <2>4, <2>5, <2>6, <2>7, <2>8 DEF Consume, Disturb
<1>4. \A s : /\ OnTrack(s) => OnTrack(s)'
             /\ Passed(s)' => Passed(s)
  BY <1>3 DEF OnTrack, Path, Passed
<1>5. \A y \in Slots : \A s : At(y, s, "handle")' =>
        \/ At(y, s, "handle") /\ work'[y] = work[y]
        \/ work'[y] = Idle
  BY <1>2, <1>3 DEF At, IngestTypeOK
<1> QED
  BY <1>2, <1>4, <1>5

(* They keep the artefacts current. *)
LEMMA ElsewhereCurrent ==
  ASSUME TypeOK, IngestTypeOK, NEW x \in Slots, Elsewhere(x), ArtefactsCurrent
  PROVE  ArtefactsCurrent'
<1> USE ElsewhereFrame DEF ArtefactsCurrent, artefacts
<1>1. ChunksCiteBlocks' /\ PointsMatchChunks'
  BY DEF ChunksCiteBlocks, PointsMatchChunks
<1>2. ChunkerIsCurrent' /\ ContextIsCurrent'
  BY DEF ChunkerIsCurrent, ContextIsCurrent, Working, Idle
<1>3. PrefixWhenPassed' /\ EmbeddedWhenPassed'
  BY DEF PrefixWhenPassed, EmbeddedWhenPassed, Embedded
<1>4. EmbedIsCurrent'
  <2> SUFFICES ASSUME NEW y \in Slots, At(y, "embed", "handle")'
               PROVE  EmbeddedSoFar(y)'
    BY DEF EmbedIsCurrent
  <2>1. CASE At(y, "embed", "handle") /\ work'[y] = work[y]
    BY <2>1 DEF EmbedIsCurrent, EmbeddedSoFar, embed_strategy, Embedded
  <2>2. CASE work'[y] = Idle
    BY <2>2 DEF EmbeddedSoFar, embed_strategy, Idle
  <2> QED
    BY <2>1, <2>2
<1> QED
  BY <1>1, <1>2, <1>3, <1>4

-----------------------------------------------------------------------------
(* What each await of a handler does to the artefacts *)

(* Awaits that only read, and the end of handlers that wrote before. *)
LEMMA ReadingCurrent ==
  ASSUME IInv, IngestTypeOK, NEW x \in Slots, ~Contention, ArtefactsCurrent,
         \/ parse_delete(x) \/ load_blocks(x) \/ context_load(x)
         \/ PlainReturn(x) \/ chunk_return(x)
  PROVE  ArtefactsCurrent'
<1> USE DEF ArtefactsCurrent, artefacts
<1>0. TypeOK /\ OrderAssumption
  BY OrderAssumption DEF IInv
<1>1. CASE parse_delete(x) \/ load_blocks(x) \/ context_load(x)
  <2>1. PICK w : Proceed(x, w)
    BY <1>1 DEF parse_delete, load_blocks, context_load
  <2>2. UNCHANGED artefacts /\ ~At(x, "embed", "handle")
    BY <1>1 DEF parse_delete, load_blocks, context_load, Working, At, Parsers
  <2>3. ChunksCiteBlocks' /\ PointsMatchChunks' /\ PrefixWhenPassed' /\ EmbeddedWhenPassed'
    BY <2>1, <2>2, ProceedFrame
    DEF ChunksCiteBlocks, PointsMatchChunks, PrefixWhenPassed, EmbeddedWhenPassed, Embedded
  <2>4. EmbedIsCurrent'
    BY <2>1, <2>2, ProceedFrame DEF EmbedIsCurrent, EmbeddedSoFar, embed_strategy, Embedded
  <2>5. ChunkerIsCurrent'
    <3> SUFFICES ASSUME NEW y \in Slots, Working(y, "chunk", "write")'
                 PROVE  (work[y].blocks = blocks /\ blocks # {})'
      BY DEF ChunkerIsCurrent
    <3>1. CASE y # x
      BY <3>1, <2>1, <2>2, ProceedFrame DEF ChunkerIsCurrent, Working
    <3>2. CASE y = x
      <4>1. At(x, "chunk", "handle")
        BY <3>2, <2>1, ProceedFrame DEF Working
      <4>2. load_blocks(x)
        BY <4>1, <1>1 DEF parse_delete, context_load, Working, At, Parsers
      <4>3. Proceed(x, [Idle EXCEPT !.phase = "write", !.blocks = blocks]) /\ blocks # {}
        BY <4>2 DEF load_blocks
      <4>4. work'[x] = [Idle EXCEPT !.phase = "write", !.blocks = blocks]
        BY <4>3, ProceedFrame
      <4> QED
        BY <2>2, <3>2, <4>3, <4>4 DEF Idle
    <3> QED
      BY <3>1, <3>2
  <2>6. ContextIsCurrent'
    <3> SUFFICES ASSUME NEW y \in Slots, Working(y, "contextualize", "write")'
                 PROVE  (work[y].seen.id = chunks[chunk_strategies[1]].id)'
      BY DEF ContextIsCurrent
    <3>1. CASE y # x
      BY <3>1, <2>1, <2>2, ProceedFrame DEF ContextIsCurrent, Working
    <3>2. CASE y = x
      <4>1. At(x, "contextualize", "handle")
        BY <3>2, <2>1, ProceedFrame DEF Working
      <4>2. context_load(x)
        BY <4>1, <1>1 DEF parse_delete, load_blocks, Working, At, Parsers
      <4> DEFINE p == PointOf(chunks[chunk_strategies[1]])
      <4>3. Proceed(x, [Idle EXCEPT !.phase = "write", !.seen = p])
        BY <4>2 DEF context_load
      <4>4. work'[x] = [Idle EXCEPT !.phase = "write", !.seen = p]
        BY <4>3, ProceedFrame
      <4>5. p.id = chunks[chunk_strategies[1]].id
        BY DEF PointOf
      <4> QED
        BY <2>2, <3>2, <4>4, <4>5 DEF Idle
    <3> QED
      BY <3>1, <3>2
  <2> QED
    BY <2>3, <2>4, <2>5, <2>6
<1>2. CASE PlainReturn(x) \/ chunk_return(x)
  <2>1. PICK u : At(x, u, "handle") /\ u \notin {"contextualize", "embed"}
    BY <1>2 DEF PlainReturn, chunk_return, Return, HandlerSucceeds, Working, At, Writers
  <2>2. Return(x) /\ UNCHANGED artefacts
    BY <1>2 DEF PlainReturn, chunk_return
  <2>3. ChunksCiteBlocks' /\ PointsMatchChunks' /\ PrefixWhenPassed' /\ EmbeddedWhenPassed'
    BY <1>0, <2>1, <2>2, ReturnFrame
    DEF ChunksCiteBlocks, PointsMatchChunks, PrefixWhenPassed, EmbeddedWhenPassed, Embedded
  <2>4. ChunkerIsCurrent' /\ ContextIsCurrent'
    BY <1>0, <2>1, <2>2, ReturnFrame DEF ChunkerIsCurrent, ContextIsCurrent, Working
  <2>5. EmbedIsCurrent'
    BY <1>0, <2>1, <2>2, ReturnFrame DEF EmbedIsCurrent, EmbeddedSoFar, embed_strategy, Embedded
  <2> QED
    BY <2>3, <2>4, <2>5
<1> QED
  BY <1>1, <1>2

(* Nobody has chunks yet when a parser writes. *)
LEMMA ParseCurrent ==
  ASSUME IInv, IngestTypeOK, NEW x \in Slots, ~Contention, ArtefactsCurrent,
         parse_commit(x)
  PROVE  ArtefactsCurrent'
<1> USE DEF ArtefactsCurrent
<1>0. TypeOK
  BY DEF IInv
<1>1. PICK u \in Parsers : At(x, u, "handle")
  BY DEF parse_commit, Working
<1>2. ~OnTrack("chunk") /\ ~OnTrack("embed") /\ ~OnTrack("contextualize")
  BY <1>1, NothingLater, InOrder
<1>3. \A s \in {"chunk", "contextualize", "embed"} :
        ~OnTrack(s)' /\ ~Passed(s)' /\ \A y \in Slots : ~At(y, s, "handle")'
  BY <1>0, <1>1, <1>2, OffTrack, ReturnFrame DEF parse_commit, Parsers
<1>4. /\ \A s \in Strategies : chunks[s].id = 0 /\ points[s] = {}
      /\ points' = points
      /\ \A s \in Strategies : chunks'[s].id = 0
  BY <1>2 DEF ChunksCiteBlocks, PointsMatchChunks, IngestTypeOK, parse_commit
<1> QED
  BY <1>3, <1>4 DEF ChunksCiteBlocks, ChunkerIsCurrent, PointsMatchChunks, ContextIsCurrent,
                    PrefixWhenPassed, EmbedIsCurrent, EmbeddedWhenPassed, Working

(* Chunks are written before anybody has seen them, from blocks that are   *)
(* still all there are.                                                    *)
LEMMA ReplaceCurrent ==
  ASSUME IInv, IngestTypeOK, NEW x \in Slots, ~Contention, ArtefactsCurrent,
         replace_chunks(x)
  PROVE  ArtefactsCurrent'
<1> USE DEF ArtefactsCurrent
<1> DEFINE t == Chunked[work[x].i]
           w == [work[x] EXCEPT !.i = @ + 1]
<1>1. At(x, "chunk", "handle") /\ work[x].blocks = blocks /\ blocks # {} /\ Proceed(x, w)
  BY DEF replace_chunks, Working, ChunkerIsCurrent
<1>2. OnTrack("chunk") /\ ~OnTrack("embed") /\ ~OnTrack("contextualize")
  BY <1>1, NothingLater
<1>3. \A s \in {"contextualize", "embed"} :
        ~OnTrack(s)' /\ ~Passed(s)' /\ \A y \in Slots : ~At(y, s, "handle")'
  BY <1>1, <1>2, OffTrack, ProceedFrame
<1>4. /\ \A s \in Strategies : points[s] = {}
      /\ points' = points /\ blocks' = blocks
      /\ chunks' = [chunks EXCEPT ![t] = [id |-> minted', cites |-> blocks, prefix |-> FALSE]]
      /\ chunks \in [Strategies -> [id : 0 .. minted, cites : SUBSET blocks, prefix : BOOLEAN]]
  BY <1>1, <1>2 DEF PointsMatchChunks, IngestTypeOK, replace_chunks
<1>5. ChunksCiteBlocks'
  <2> HIDE DEF t, w
  <2> QED
    BY <1>1, <1>2, <1>4, ProceedFrame DEF ChunksCiteBlocks
<1>6. ChunkerIsCurrent'
  <2>1. work'[x].blocks = blocks
    BY <1>1, ProceedFrame DEF IngestTypeOK
  <2>2. \A y \in Slots : At(y, "chunk", "handle")' => y = x
    BY <1>1, ProceedFrame, NothingLater
  <2> QED
    BY <1>1, <1>4, <2>1, <2>2 DEF ChunkerIsCurrent, Working
<1> QED
  BY <1>3, <1>4, <1>5, <1>6
  DEF PointsMatchChunks, ContextIsCurrent, PrefixWhenPassed, EmbedIsCurrent,
      EmbeddedWhenPassed, Working

(* The preambles reach the chunks that are there, before embed reads them. *)
LEMMA ContextCurrent ==
  ASSUME IInv, IngestTypeOK, NEW x \in Slots, ~Contention, ArtefactsCurrent,
         context_update(x)
  PROVE  ArtefactsCurrent'
<1> USE DEF ArtefactsCurrent
<1> DEFINE s == chunk_strategies[1]
           c == [chunks[s] EXCEPT !.prefix = @ \/ chunks[s].id = work[x].seen.id]
<1>0. TypeOK
  BY DEF IInv
<1>1. /\ At(x, "contextualize", "handle") /\ Return(x)
      /\ work[x].seen.id = chunks[s].id
  BY DEF context_update, Working, ContextIsCurrent
<1>2. ~OnTrack("embed")
  BY <1>1, NothingLater
<1>3. ~OnTrack("embed")' /\ ~Passed("embed")' /\ \A y \in Slots : ~At(y, "embed", "handle")'
  BY <1>0, <1>1, <1>2, OffTrack, ReturnFrame
<1>4. /\ \A t \in Strategies : points[t] = {}
      /\ points' = points /\ blocks' = blocks
      /\ chunks' = [chunks EXCEPT ![s] = c]
      /\ chunks \in [Strategies -> [id : 0 .. minted, cites : SUBSET blocks, prefix : BOOLEAN]]
      /\ s \in Strategies
  BY <1>2, StrategyAt DEF PointsMatchChunks, IngestTypeOK, context_update
<1>5. /\ c.id = chunks[s].id /\ c.cites = chunks[s].cites /\ c.prefix
      /\ \A t \in Strategies : chunks'[t].id = chunks[t].id /\ chunks'[t].cites = chunks[t].cites
      /\ chunks'[s].prefix
  BY <1>1, <1>4
<1> HIDE DEF s, c
<1>6. ChunksCiteBlocks'
  BY <1>0, <1>1, <1>4, <1>5, ReturnFrame DEF ChunksCiteBlocks
<1>7. ChunkerIsCurrent'
  BY <1>0, <1>1, <1>4, ReturnFrame DEF ChunkerIsCurrent, Working
<1>8. ContextIsCurrent'
  BY <1>0, <1>1, <1>4, <1>5, ReturnFrame, NothingLater DEF ContextIsCurrent, Working
<1>9. PrefixWhenPassed'
  BY <1>5 DEF PrefixWhenPassed, s
<1> QED
  BY <1>3, <1>4, <1>6, <1>7, <1>8, <1>9
  DEF PointsMatchChunks, EmbedIsCurrent, EmbeddedWhenPassed

(* An await of embed before its last leaves everything but its own place   *)
(* and the vectors of the strategy it is at.                               *)
LEMMA EmbedAwait ==
  ASSUME IInv, IngestTypeOK, NEW x \in Slots, ~Contention, ArtefactsCurrent,
         NEW w, At(x, "embed", "handle"), Proceed(x, w),
         UNCHANGED <<blocks, chunks, minted>>,
         PointsMatchChunks', EmbeddedSoFar(x)'
  PROVE  ArtefactsCurrent'
<1> USE DEF ArtefactsCurrent
<1>1. /\ \A y \in Slots : At(y, "embed", "handle")' => y = x
      /\ ~Passed("embed")'
  BY NothingLater, ProceedFrame
<1>2. ~Working(x, "chunk", "write") /\ ~Working(x, "contextualize", "write")
  BY DEF Working, At
<1>3. ChunksCiteBlocks' /\ PrefixWhenPassed'
  BY ProceedFrame DEF ChunksCiteBlocks, PrefixWhenPassed
<1>4. ChunkerIsCurrent' /\ ContextIsCurrent'
  <2>1. \A y \in Slots, s \in {"chunk", "contextualize"} :
          Working(y, s, "write")' => Working(y, s, "write") /\ work'[y] = work[y]
    BY <1>2, ProceedFrame DEF Working, At
  <2> QED
    BY <2>1 DEF ChunkerIsCurrent, ContextIsCurrent
<1> QED
  BY <1>1, <1>3, <1>4 DEF EmbedIsCurrent, EmbeddedWhenPassed

(* It passes a strategy without chunks, or has read the chunks there are. *)
LEMMA EmbedLoadCurrent ==
  ASSUME IInv, IngestTypeOK, NEW x \in Slots, ~Contention, ArtefactsCurrent,
         embed_load(x)
  PROVE  ArtefactsCurrent'
<1> DEFINE i == work[x].i
           c == chunks[embed_strategy(x)]
           w == IF c.id = 0
                  THEN [work[x] EXCEPT !.i = @ + 1]
                  ELSE [work[x] EXCEPT !.phase = "clear", !.seen = PointOf(c)]
<1>1. /\ At(x, "embed", "handle") /\ work[x].phase = "read" /\ i <= Len(chunk_strategies)
      /\ Proceed(x, w) /\ UNCHANGED artefacts
  BY DEF embed_load, Working
<1>2. /\ work'[x] = w /\ i \in Nat \ {0} /\ Len(chunk_strategies) \in Nat
      /\ work[x] \in [phase : {"read", "write", "clear"}, i : Nat \ {0},
                      blocks : SUBSET (1 .. minted), seen : Point]
  BY <1>1, ProceedFrame, StrategyAt DEF IngestTypeOK
<1>3. \A k \in 1 .. Len(chunk_strategies) : k < i => Embedded(chunk_strategies[k])
  BY <1>1 DEF ArtefactsCurrent, EmbedIsCurrent, EmbeddedSoFar
<1>4. EmbeddedSoFar(x)'
  <2>1. CASE c.id = 0
    <3>1. work'[x].phase = "read" /\ work'[x].i = i + 1
      BY <1>1, <1>2, <2>1
    <3>2. Embedded(chunk_strategies[i])
      BY <2>1 DEF Embedded, embed_strategy
    <3>3. \A k \in 1 .. Len(chunk_strategies) : k < i + 1 => Embedded(chunk_strategies[k])
      BY <1>2, <1>3, <3>2
    <3> QED
      BY <1>1, <3>1, <3>3 DEF EmbeddedSoFar, Embedded, artefacts
  <2>2. CASE c.id # 0
    <3>1. work'[x].phase = "clear" /\ work'[x].i = i /\ work'[x].seen = PointOf(c)
      BY <1>2, <2>2
    <3> QED
      BY <1>1, <1>3, <2>2, <3>1 DEF EmbeddedSoFar, embed_strategy, Embedded, artefacts
  <2> QED
    BY <2>1, <2>2
<1>5. PointsMatchChunks'
  BY <1>1, ProceedFrame DEF ArtefactsCurrent, PointsMatchChunks, artefacts
<1> HIDE DEF w
<1> QED
  BY <1>1, <1>4, <1>5, EmbedAwait DEF artefacts

LEMMA EmbedClearCurrent ==
  ASSUME IInv, IngestTypeOK, NEW x \in Slots, ~Contention, ArtefactsCurrent,
         embed_clear(x)
  PROVE  ArtefactsCurrent'
<1> DEFINE i == work[x].i
           t == embed_strategy(x)
           w == [work[x] EXCEPT !.phase = "write"]
<1>1. /\ At(x, "embed", "handle") /\ work[x].phase = "clear"
      /\ Proceed(x, w) /\ UNCHANGED <<blocks, chunks, minted>>
      /\ points' = [points EXCEPT ![t] = {}]
  BY DEF embed_clear, Working
<1>2. /\ i <= Len(chunk_strategies) /\ chunks[t].id # 0 /\ work[x].seen = PointOf(chunks[t])
      /\ \A k \in 1 .. Len(chunk_strategies) : k < i => Embedded(chunk_strategies[k])
  BY <1>1 DEF ArtefactsCurrent, EmbedIsCurrent, EmbeddedSoFar
<1>3. /\ work'[x].phase = "write" /\ work'[x].i = i /\ work'[x].seen = work[x].seen
      /\ t \in Strategies /\ points \in [Strategies -> SUBSET Point]
      /\ Len(chunk_strategies) \in Nat
      /\ \A k \in 1 .. Len(chunk_strategies) : chunk_strategies[k] \in Strategies
  BY <1>1, <1>2, ProceedFrame, StrategyAt DEF IngestTypeOK, embed_strategy
<1>4. EmbeddedSoFar(x)'
  <2>1. embed_strategy(x)' = t
    BY <1>3 DEF embed_strategy
  <2>2. \A k \in 1 .. Len(chunk_strategies) :
          k < i => Embedded(chunk_strategies[k])' \/ chunk_strategies[k] = t
    BY <1>1, <1>2, <1>3 DEF Embedded
  <2> QED
    BY <1>1, <1>2, <1>3, <2>1, <2>2 DEF EmbeddedSoFar
<1>5. PointsMatchChunks'
  BY <1>1, <1>3, ProceedFrame DEF ArtefactsCurrent, PointsMatchChunks
<1> HIDE DEF w
<1> QED
  BY <1>1, <1>4, <1>5, EmbedAwait

(* The new vectors are alone, and of the chunks there are. *)
LEMMA EmbedUpsertCurrent ==
  ASSUME IInv, IngestTypeOK, NEW x \in Slots, ~Contention, ArtefactsCurrent,
         embed_upsert(x)
  PROVE  ArtefactsCurrent'
<1> DEFINE i == work[x].i
           t == embed_strategy(x)
           w == [Idle EXCEPT !.i = i + 1]
<1>1. /\ At(x, "embed", "handle") /\ work[x].phase = "write"
      /\ Proceed(x, w) /\ UNCHANGED <<blocks, chunks, minted>>
      /\ points' = [points EXCEPT ![t] = {p \in @ : p.id # work[x].seen.id} \cup {work[x].seen}]
  BY DEF embed_upsert, Working
<1>2. /\ i <= Len(chunk_strategies) /\ chunks[t].id # 0 /\ work[x].seen = PointOf(chunks[t])
      /\ points[t] = {}
      /\ \A k \in 1 .. Len(chunk_strategies) :
           k < i => Embedded(chunk_strategies[k]) \/ chunk_strategies[k] = t
  BY <1>1 DEF ArtefactsCurrent, EmbedIsCurrent, EmbeddedSoFar
<1>3. /\ i \in Nat \ {0} /\ work'[x].phase = "read" /\ work'[x].i = i + 1
      /\ t \in Strategies /\ points \in [Strategies -> SUBSET Point]
      /\ Len(chunk_strategies) \in Nat
      /\ \A k \in 1 .. Len(chunk_strategies) : chunk_strategies[k] \in Strategies
  BY <1>1, <1>2, ProceedFrame, StrategyAt DEF IngestTypeOK, embed_strategy, Idle
<1>4. points' = [points EXCEPT ![t] = {PointOf(chunks[t])}]
  BY <1>1, <1>2, <1>3
<1>5. EmbeddedSoFar(x)'
  <2>1. \A s \in Strategies : s = t => Embedded(s)'
    BY <1>3, <1>4 DEF Embedded
  <2>2. \A s \in Strategies : Embedded(s) => Embedded(s)'
    BY <1>1, <1>3, <1>4 DEF Embedded
  <2>3. \A k \in 1 .. Len(chunk_strategies) : k < i + 1 => Embedded(chunk_strategies[k])'
    <3> SUFFICES ASSUME NEW k \in 1 .. Len(chunk_strategies), k < i + 1
                 PROVE  Embedded(chunk_strategies[k])'
      OBVIOUS
    <3>1. CASE k = i
      BY <3>1, <1>3, <2>1 DEF embed_strategy
    <3>2. CASE k # i
      <4>1. k < i
        BY <1>3, <3>2
      <4> QED
        BY <4>1, <1>2, <1>3, <2>1, <2>2
    <3> QED
      BY <3>1, <3>2
  <2> QED
    BY <1>3, <2>3 DEF EmbeddedSoFar
<1>6. PointsMatchChunks'
  <2>1. OnTrack("embed") /\ OnTrack("embed")'
    BY <1>1, NothingLater, ProceedFrame
  <2> QED
    BY <1>1, <1>2, <1>3, <1>4, <2>1 DEF ArtefactsCurrent, PointsMatchChunks
<1> HIDE DEF w
<1> QED
  BY <1>1, <1>5, <1>6, EmbedAwait

(* embed returns when every strategy that has chunks has its vectors. *)
LEMMA EmbedReturnCurrent ==
  ASSUME IInv, IngestTypeOK, NEW x \in Slots, ~Contention, ArtefactsCurrent,
         embed_return(x)
  PROVE  ArtefactsCurrent'
<1> USE DEF ArtefactsCurrent
<1>0. TypeOK
  BY DEF IInv
<1>1. /\ At(x, "embed", "handle") /\ work[x].phase = "read"
      /\ work[x].i > Len(chunk_strategies) /\ Return(x) /\ UNCHANGED artefacts
  BY DEF embed_return, Working
<1>2. \A s \in Strategies : Embedded(s)
  <2> SUFFICES ASSUME NEW k \in DOMAIN chunk_strategies
               PROVE  Embedded(chunk_strategies[k])
    BY DEF Strategies
  <2>1. k \in 1 .. Len(chunk_strategies) /\ Len(chunk_strategies) \in Nat /\ work[x].i \in Nat
    BY IngestAssumption DEF IngestTypeOK
  <2>2. k < work[x].i
    BY <1>1, <2>1
  <2> QED
    BY <1>1, <2>1, <2>2 DEF EmbedIsCurrent, EmbeddedSoFar
<1>3. EmbeddedWhenPassed'
  BY <1>1, <1>2 DEF EmbeddedWhenPassed, Embedded, artefacts
<1>4. ChunksCiteBlocks' /\ PointsMatchChunks'
  BY <1>0, <1>1, ReturnFrame DEF ChunksCiteBlocks, PointsMatchChunks, artefacts
<1>5. PrefixWhenPassed'
  BY <1>0, <1>1, ReturnFrame DEF PrefixWhenPassed, artefacts
<1>6. ChunkerIsCurrent' /\ ContextIsCurrent'
  BY <1>0, <1>1, ReturnFrame DEF ChunkerIsCurrent, ContextIsCurrent, Working, artefacts
<1>7. EmbedIsCurrent'
  BY <1>0, <1>1, ReturnFrame, NothingLater DEF EmbedIsCurrent
<1> QED
  BY <1>3, <1>4, <1>5, <1>6, <1>7

-----------------------------------------------------------------------------

LEMMA NextAInv ==
  ASSUME IInv, IngestTypeOK, AInv, [IngestNext]_ingestVars
  PROVE  AInv'
<1>1. CASE IngestNext
  <2> SUFFICES ASSUME ~contended'
               PROVE  ~Contention' /\ ArtefactsCurrent'
    BY DEF AInv
  <2>1. ~contended /\ ~Contention' /\ ~Contention /\ ArtefactsCurrent
    BY <1>1 DEF IngestNext, AInv
  <2>2. PICK x \in Slots : Handle(x) \/ Elsewhere(x)
    BY <1>1 DEF IngestNext
  <2>3. CASE Handle(x)
    BY <2>1, <2>3, ReadingCurrent, ParseCurrent, ReplaceCurrent, ContextCurrent,
       EmbedLoadCurrent, EmbedClearCurrent, EmbedUpsertCurrent, EmbedReturnCurrent DEF Handle
  <2>4. CASE Elsewhere(x)
    BY <2>1, <2>4, ElsewhereCurrent DEF IInv
  <2> QED
    BY <2>1, <2>2, <2>3, <2>4
<1>2. CASE UNCHANGED ingestVars
  BY <1>2 DEF ingestVars, artefacts, vars, AInv, Contention, ArtefactsCurrent,
     ChunksCiteBlocks, ChunkerIsCurrent, PointsMatchChunks, ContextIsCurrent,
     PrefixWhenPassed, EmbedIsCurrent, EmbeddedSoFar, EmbeddedWhenPassed, Embedded,
     Passed, Working, At, OnTrack, Path, embed_strategy
<1> QED
  BY <1>1, <1>2

LEMMA SpecAInv == IngestSpec => [](IInv /\ AInv)
<1>1. IngestSpec => []IInv
  BY IngestImplements, SpecIInv, PTL
<1>2. IInv /\ IngestTypeOK /\ AInv /\ [IngestNext]_ingestVars => AInv'
  BY NextAInv
<1> QED
  BY <1>1, <1>2, InitAInv, IngestTypeCorrect, PTL DEF IngestSpec

(* When the document is finished, embed and contextualize have completed. *)
LEMMA FinishedRan ==
  ASSUME IInv, AInv, Finished
  PROVE  ArtefactsCurrent /\ Passed("contextualize") /\ Passed("embed")
<1>1. docFamily \in Families /\ Path \subseteq Completed(row)
  BY DEF IInv, FamilyIsKnown, Finished, is_complete, Path
<1>2. Completed(row) \subseteq done
  BY DEF Completed, IInv, DoneClosed
<1>3. {"contextualize", "embed"} \subseteq done
  BY <1>1, <1>2, OrderAssumption DEF ArtefactsInOrder, Path
<1> QED
  BY <1>3 DEF Passed, Finished, AInv

(* For every graph with the artefacts in order, any strategies, messages   *)
(* and crashes: unless handlers got into each other's way, a finished      *)
(* document's vectors are those of its chunks, preambles included.         *)
THEOREM SearchableCorrect == IngestSpec => []ReadyIsSearchable
<1>1. IInv /\ AInv => ReadyIsSearchable
  <2> SUFFICES ASSUME IInv, AInv, Finished, NEW s \in Strategies
               PROVE  /\ points[s] = IF chunks[s].id = 0 THEN {} ELSE {PointOf(chunks[s])}
                      /\ chunks[chunk_strategies[1]].prefix
    BY StrategyAt DEF ReadyIsSearchable
  <2>1. PrefixWhenPassed /\ PointsMatchChunks /\ EmbeddedWhenPassed
        /\ Passed("contextualize") /\ Passed("embed")
    BY FinishedRan DEF ArtefactsCurrent
  <2> QED
    BY <2>1 DEF PrefixWhenPassed, PointsMatchChunks, EmbeddedWhenPassed, Embedded
<1> QED
  BY <1>1, SpecAInv, PTL

(* And its chunks cite all the blocks there are. *)
THEOREM CitableCorrect == IngestSpec => []ReadyIsCitable
<1>1. IInv /\ AInv => ReadyIsCitable
  BY FinishedRan DEF ReadyIsCitable, ArtefactsCurrent, ChunksCiteBlocks
<1> QED
  BY <1>1, SpecAInv, PTL
=============================================================================
