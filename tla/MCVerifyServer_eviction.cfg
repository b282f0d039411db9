\* Eviction: three jobs of the operator, discovery or deep, in a table of two;
\* events of a run touch its job.
\* A thread may fail to start; the process never restarts.
SPECIFICATION Spec
CONSTANTS
  t1 = t1  t2 = t2  free = free  pro = pro  owner = owner
  j1 = j1  j2 = j2  j3 = j3
  Tenants = {t1}
  Tiers = {owner}
  Unmetered = {owner}
  ApiRpm <- MCRpm
  ScansPerDay <- MCScans
  SandboxBudget <- MCSandbox
  Concurrency <- MCConcurrency
  GpuBudget <- MCGpu
  Jobs = {j1, j2, j3}
  MaxJobs = 2
  Costs = {0}
  Events = {"stage"}
  LateDrain = FALSE
  StoreMayFail = FALSE
  Callers <- OwnerOnly
  GpuEnabled = FALSE
  SpawnMayFail = TRUE
  MaxRestarts = 0
  MaxWindows = 0
INVARIANTS ActiveNeverEvicted
PROPERTIES EvictsOldestFinished
CHECK_DEADLOCK FALSE
SYMMETRY Symmetry
