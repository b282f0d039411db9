\* Restarts: two jobs of the operator, a table of one that is reloaded
\* once, events of the runs arriving late and writes to the file failing.
SPECIFICATION Spec
CONSTANTS
  t1 = t1  t2 = t2  free = free  pro = pro  owner = owner
  j1 = j1  j2 = j2  j3 = j3
  Tenants = {t1}
  Tiers = {owner}
  Unmetered = {owner}
  ApiRpm <- MCRpm
  ScansPerDay <- MCScans
  SandboxBudget <- MCSandbox
  Concurrency <- MCConcurrency
  GpuBudget <- MCGpu
  Jobs = {j1, j2}
  MaxJobs = 1
  Costs = {0}
  Events = {"progress"}
  LateDrain = TRUE
  StoreMayFail = TRUE
  Callers <- OwnerOnly
  GpuEnabled = FALSE
  SpawnMayFail = FALSE
  MaxRestarts = 1
  MaxWindows = 0
INVARIANTS NoGhostRunning
PROPERTIES PersistedVerdictSurvives
CHECK_DEADLOCK FALSE
SYMMETRY Symmetry
