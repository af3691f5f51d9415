CONSTANTS
  Stages <- IngestStages
  Families <- IngestFamilies
  families <- IngestFamiliesOf
  depends_on <- IngestDependsOn
  Entry = "detect"
  TERMINAL_STAGE = "embed"
  Processing = {"detect", "parse"}
  max_attempts <- IngestAttempts
  Slots = {x1, x2, x3}
  Provisional = "pdf"
  Unsupported = "none"
  DocFamilies = {"pdf", "flow"}
  Handlers <- IngestStages
  FaultKinds = {"crash"}
  MaxFaults = 1
  chunk_strategies <- ThreeStrategies
  Skipped = {"semantic"}
SPECIFICATION IngestSpec
SYMMETRY SlotSymmetry
INVARIANTS
  IngestTypeOK
  ReadyIsSearchable
  ReadyIsCitable
CHECK_DEADLOCK FALSE
