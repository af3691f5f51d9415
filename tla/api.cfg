CONSTANTS
  Requests = {r1, r2, r3}
  Contents = {c1, c2}
  Unusable = {"empty"}
  Extensions = {"pdf", "txt"}
  NoOne = "no one"
  MaxTrouble = 1
  Documents = {1, 2, 3}
  e1 = e1
  e2 = e2
  Embedders <- TwoStages
  Settings <- SomeSettings
  Jobs <- SomeJobs
  Api = "api"
  Widths = {384, 768}
  Parts = {1}
  MaxVersion <- OnlyTheFirst
  retrieval_top_k = 2
  rerank_top_n = 2
  rrf_k = 60
  Scopes = {{}, {2}}
  Endpoints = {"ask", "stream", "complete"}
  MaxPassages = 2
  Deltas <- SomeDeltas
  MaxDeltas = 2
  STRATEGIES = {"layout"}
  ModelNames <- SomeNames
  Conversations <- SomeConversations
  MaxRead = 8
  MaxTears = 1
  MaxPings = 1
SPECIFICATION FairApi
INVARIANTS
  UploadTypeOK
  NothingDangles
  EnteredOnce
  AnswersAreTrue
  StrandedWasTold
  RetrievalTypeOK
  RaceIsHarmless
  NoOrphans
  OneVersionShown
  StreamTypeOK
  FinishedIsWhole
  HandledAsSent
PROPERTIES
  EveryoneIsAnswered
  AgreementWins
  OneListIsEnough
CHECK_DEADLOCK FALSE
