\* Two sessions over the shared stores.
SPECIFICATION FairSpec
CONSTANTS
  a = a  b = b  d = d  v = v
  Entries = {a, b}
  Deps = {d}
  Vars = {}
  Rankings <- MCRankings
  UserEntries <- MCUserEntries
  StepCap = 3
  MaxApproaches = 2
  Revisers = {"xpu", "hints", "llm"}
  Synthesize = TRUE
  Sessions = 2
INVARIANTS RunsPerApproach LearnedFromSuccess ForeignInputsCap FuzzIsTheWinners
PROPERTIES ImplementsMakeRunnable SessionEnds
CHECK_DEADLOCK FALSE
