CONSTANTS
  Stages <- DiamondStages
  Families <- DiamondFamilies
  families <- DiamondFamiliesOf
  depends_on <- DiamondDependsOn
  Entry = "detect"
  TERMINAL_STAGE = "embed"
  Processing = {"detect"}
  max_attempts <- UnevenAttempts
  Slots = {x1, x2, x3}
  Provisional = "pdf"
  Unsupported <- NoRoute
  DocFamilies = {"pdf"}
  Handlers <- DiamondStages
  FaultKinds = {"crash_reserved"}
  MaxFaults = 1
SPECIFICATION Spec
SYMMETRY SlotSymmetry
INVARIANTS
  ReservedIsRequeued
CHECK_DEADLOCK FALSE
