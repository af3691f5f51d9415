CONSTANTS
  Stages <- DiamondStages
  Families <- DiamondFamilies
  families <- DiamondFamiliesOf
  depends_on <- DiamondDependsOn
  Entry = "detect"
  TERMINAL_STAGE = "embed"
  Processing = {"detect"}
  max_attempts <- UnevenAttempts
  Slots = {x1, x2, x3}
  Provisional = "pdf"
  Unsupported <- NoRoute
  DocFamilies <- DiamondFamilies
  Handlers <- WithoutConvert
  FaultKinds = {"crash", "disconnect", "store"}
  MaxFaults = 1
SPECIFICATION FairSpec
INVARIANTS
  NotSilentlyStuck
PROPERTIES
  EventuallySettled
CHECK_DEADLOCK FALSE
