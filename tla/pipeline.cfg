CONSTANTS
  Stages <- StageNames
  Families <- FormatFamily
  families <- FamiliesOf
  depends_on <- DependsOn
  Entry <- EntryStage
  TERMINAL_STAGE <- TerminalStage
  Processing <- ProcessingStages
  max_attempts <- TwoAttempts
  Slots = {x1, x2, x3}
  Provisional = "pdf"
  Unsupported <- NoRoute
  DocFamilies <- AllDocuments
  Handlers <- AllHandlers
  FaultKinds = {}
  MaxFaults = 0
SPECIFICATION FairSpec
INVARIANTS
  TypeOK
  DispatchAfterDeps
  ReadyNeedsAllStages
  SingleFlight
PROPERTIES
  ImplementsSchedule
  EventuallyVerdict
CHECK_DEADLOCK FALSE
