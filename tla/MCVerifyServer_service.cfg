\* The service: two requests of one metered tenant, who may change tier between
\* them, with GPU, a budget of two seconds, runs that cost none or two, and a
\* calendar window that may pass.
SPECIFICATION FairSpec
CONSTANTS
  t1 = t1  t2 = t2  free = free  pro = pro  owner = owner
  j1 = j1  j2 = j2  j3 = j3
  Tenants = {t1}
  Tiers = {free, pro}
  Unmetered = {}
  ApiRpm <- MCRpm
  ScansPerDay <- MCScans
  SandboxBudget <- MCSandbox
  Concurrency <- MCConcurrency
  GpuBudget <- MCGpu
  Jobs = {j1, j2}
  MaxJobs = 2
  Costs = {0, 2}
  Events = {}
  LateDrain = FALSE
  StoreMayFail = FALSE
  Callers <- FreeOrPro
  GpuEnabled = TRUE
  SpawnMayFail = FALSE
  MaxRestarts = 0
  MaxWindows = 1
INVARIANTS SlotAccounting ParallelVerifiesBounded EachRunBilledOnce FinalRowComplete
PROPERTIES ImplementsAdmission SlotEventuallyFree EveryRequestSettles
CHECK_DEADLOCK FALSE
