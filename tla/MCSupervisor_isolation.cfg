\* One call whose child may end in any way and leave a process with its pipe,
\* and whose callbacks may outlast the join.
SPECIFICATION Spec
CONSTANTS
  r1 = r1  r2 = r2
  Runs = {r1}
  Slots = 1
  PipeRoom = 2
  Inheritors = {"group", "session"}
  SlowCallback = TRUE
  PopenMayFail = FALSE
INVARIANTS TruthfulOutcome TreeKilled
PROPERTIES ImplementsIsolatedCalls
CHECK_DEADLOCK FALSE
