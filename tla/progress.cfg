CONSTANTS
  Stages <- ChainStages
  Families = {"pdf"}
  families <- OneFamily
  depends_on <- ChainDependsOn
  Entry = "detect"
  TERMINAL_STAGE = "embed"
  Processing = {"detect", "parse"}
  max_attempts <- OneAttempt
  Slots = {x1, x2}
  Provisional = "pdf"
  Unsupported = "none"
  DocFamilies = {"pdf", "none"}
  Handlers <- ChainStages
  FaultKinds = {"crash", "disconnect"}
  MaxFaults = 1
  Fetches = {f1, f2}
  MaxTrouble = 1
SPECIFICATION ProgressSpec
SYMMETRY Symmetry
INVARIANTS
  ProgressTypeOK
  ShownIsEarned
  EndIsExplained
  HeardIsShown
  NoStageLost
CHECK_DEADLOCK FALSE
