\* Two calls and one permit; callbacks end within the join's five seconds and
\* no process survives its child.
SPECIFICATION FairSpec
CONSTANTS
  r1 = r1  r2 = r2
  Runs = {r1, r2}
  Slots = 1
  PipeRoom = 1
  Inheritors = {}
  SlowCallback = FALSE
  PopenMayFail = TRUE
INVARIANTS GateAccounting ChildrenBounded DiagnosisKept
PROPERTIES CallReturns
CHECK_DEADLOCK FALSE
