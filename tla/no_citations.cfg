CONSTANTS
  Endpoints = {"ask", "stream", "complete"}
  MaxPassages = 2
  Deltas <- SomeDeltas
  MaxDeltas = 2
  STRATEGIES = {"layout"}
  ModelNames <- SomeNames
  Conversations <- SomeConversations
  MaxRead = 8
  MaxTears = 1
  MaxPings = 1
SPECIFICATION StreamSpec
INVARIANTS
  TextOtherwise
CHECK_DEADLOCK FALSE
