CONSTANTS
  d1 = d1
  f1 = f1
  b1 = b1
  d2 = d2
  Deps <- Two
  Lists <- Given
  Needs <- One
  Files <- Inputs
  Bins <- Tools
  Base <- NoDeps
  Runners <- Both
  K = 2
  InstTimeout = 3
  RunTimeout = 3
  Slack = 1
  Cap = 5
  Floor = 2
  Pull = 1
  Python = TRUE
  Rounds = 3
  HealTries = 2
  RepairSteps = 2
  Scans = 2
SPECIFICATION Spec
INVARIANTS
  SoughtOnce
  FetchedIsFlagged
  SandboxReleased
PROPERTIES
  RerunWithinLife
  ScanEnds
CHECK_DEADLOCK FALSE
