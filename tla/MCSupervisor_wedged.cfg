\* One call whose child may leave a process of its group with its pipe (a pip
\* or git that the child started without capturing its output, say).
SPECIFICATION FairSpec
CONSTANTS
  r1 = r1  r2 = r2
  Runs = {r1}
  Slots = 1
  PipeRoom = 1
  Inheritors = {"group"}
  SlowCallback = FALSE
  PopenMayFail = FALSE
PROPERTIES WedgedPipeReturns
CHECK_DEADLOCK FALSE
