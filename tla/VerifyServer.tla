---------------------------- MODULE VerifyServer ----------------------------
(***************************************************************************)
(* The verification service (spike/server.py): POST /api/verify admits a   *)
(* request, and run_job runs it on a thread of its own.                    *)
(*                                                                         *)
(* A request and the job it becomes share one identity j.  pc[j] is the    *)
(* point its handler thread, and then its job thread, has reached.  Every  *)
(* step is one critical section (the limiter's lock, _LOCK, one SQLite     *)
(* transaction) together with the thread-local code around it, so the      *)
(* interleavings of the model are those the locks allow.  The isolated run *)
(* itself is one step here with the outcomes Supervisor.tla gives it.      *)
(* Definitions named ..._Mutant are faulty variants of those they precede. *)
(***************************************************************************)
EXTENDS Limiter, JobTable, Functions

CONSTANTS
  Callers,       \* <<tenant, tier>> pairs that present themselves
  GpuEnabled,    \* CALMA_ENABLE_GPU
  SpawnMayFail,  \* whether Thread.start may raise
  Events,        \* events a run reports: a subset of {"stage", "progress"}
  LateDrain,     \* whether a drain thread may outlive its run
  MaxRestarts,   \* bound: restarts of the process in one behaviour
  MaxWindows     \* bound: calendar windows that pass in one behaviour

ASSUME ServerAssumption ==
  /\ Callers \subseteq Tenants \X Tiers
  /\ GpuEnabled \in BOOLEAN
  /\ SpawnMayFail \in BOOLEAN
  /\ Events \subseteq {"stage", "progress"}
  /\ LateDrain \in BOOLEAN
  /\ MaxRestarts \in Nat
  /\ MaxWindows \in Nat

VARIABLES
  pc,        \* [Jobs -> PCs]
  req,       \* [Jobs -> Request] what the handler made of the request
  drain,     \* [Jobs -> BOOLEAN] the job's drain thread outlived its run
  spent,     \* [Jobs -> Nat] seconds the job's sandboxes ran (history)
  restarts,  \* restarts so far
  windows    \* calendar windows passed so far

serverVars == <<pc, req, drain, spent, restarts, windows>>
vars == <<limiterVars, jobVars, serverVars>>

Request == [tenant : Tenants, tier : Tiers, deep : BOOLEAN,
            armed : BOOLEAN, slot : BOOLEAN]

Handling == {"gpu", "admit", "insert", "birth", "spawn"}
Working == {"begin", "save begin", "clone", "run", "save end", "close log",
            "release", "bill", "bill gpu", "save final"}
PCs == {"idle", "refused", "stuck", "exited", "dead"} \cup Handling \cup Working

TypeOK ==
  /\ LimiterTypeOK
  /\ JobTypeOK
  /\ pc \in [Jobs -> PCs]
  /\ req \in [Jobs -> Request]
  /\ drain \in [Jobs -> BOOLEAN]
  /\ spent \in [Jobs -> Nat]
  /\ restarts \in 0..MaxRestarts
  /\ windows \in 0..MaxWindows

Init ==
  /\ LimiterInit
  /\ JobInit
  /\ pc = [j \in Jobs |-> "idle"]
  /\ req \in [Jobs -> {[tenant |-> c[1], tier |-> c[2], deep |-> d,
                        armed |-> FALSE, slot |-> FALSE]
                         : c \in Callers, d \in BOOLEAN}]
  /\ drain = [j \in Jobs |-> FALSE]
  /\ spent = [j \in Jobs |-> 0]
  /\ restarts = 0
  /\ windows = 0

At(j, p) == pc[j] = p
Goto(j, p) == pc' = [pc EXCEPT ![j] = p]

----------------------------------------------------------------------------
(* POST /api/verify, on the request's handler thread *)

\* check_api_rate, then the gates: a local path on the hosted service, a
\* feature the tier lacks, an installation of another tenant.  The gates read
\* no shared counter; any request may fail one.
Submit(j) ==
  /\ At(j, "idle")
  /\ CheckApiRate(req[j].tenant, req[j].tier)
  /\ \/ WithinRate(req[j].tenant, req[j].tier) /\ Goto(j, "gpu")
     \/ Goto(j, "refused")
  /\ UNCHANGED <<jobVars, req, drain, spent, restarts, windows>>

ArmGpu(j) ==
  LET tier == req[j].tier IN
  /\ At(j, "gpu")
  /\ req' = [req EXCEPT ![j].armed = /\ GpuEnabled
                                     /\ GpuBudget[tier] > 0
                                     /\ GpuAdmitted(req[j].tenant, tier)]
  /\ Goto(j, "admit")
  /\ UNCHANGED <<limiterVars, jobVars, drain, spent, restarts, windows>>

\* A request over its concurrency is refused.
Refuse(j) ==
  /\ At(j, "admit")
  /\ req[j].deep
  /\ ScanDecision(req[j].tenant, req[j].tier) = "concurrency"
  /\ Goto(j, "refused")
  /\ UNCHANGED <<limiterVars, jobVars, req, drain, spent, restarts, windows>>

\* A request over its daily quota or its sandbox budget is made a discovery
\* scan; an admitted one holds a slot.  The job dict follows.
Admit(j) ==
  LET t == req[j].tenant
      d == IF req[j].deep THEN ScanDecision(t, req[j].tier) ELSE "daily"
  IN /\ At(j, "admit")
     /\ d # "concurrency"
     /\ IF req[j].deep THEN AdmitScan(t, req[j].tier) ELSE UNCHANGED limiterVars
     /\ req' = [req EXCEPT ![j].deep = (d = "ok"), ![j].slot = (d = "ok")]
     /\ CreateJob(j)
     /\ Goto(j, "insert")
     /\ UNCHANGED <<drain, spent, restarts, windows>>

Insert(j) ==
  /\ At(j, "insert")
  /\ InsertJob(j)
  /\ Goto(j, "birth")
  /\ UNCHANGED <<limiterVars, req, drain, spent, restarts, windows>>

PersistBirth(j) ==
  /\ At(j, "birth")
  /\ Persist(j)
  /\ Goto(j, "spawn")
  /\ UNCHANGED <<limiterVars, req, drain, spent, restarts, windows>>

\* Thread(...).start(): when it raises, the handler ends with nothing undone.
Spawn(j) ==
  /\ At(j, "spawn")
  /\ \/ Goto(j, "begin")
     \/ SpawnMayFail /\ Goto(j, "stuck")
  /\ UNCHANGED <<limiterVars, jobVars, req, drain, spent, restarts, windows>>

----------------------------------------------------------------------------
(* run_job, on the job's own thread *)

\* The updates run_job makes of a job dict.
WithStatus(r, status, stage) == [r EXCEPT !.status = status, !.stage = stage]
WithResult(r, seconds, gpuSeconds) ==
  [r EXCEPT !.status = "done", !.stage = "done",
            !.seconds = seconds, !.gpuSeconds = gpuSeconds]
WithEvent(r, e) ==
  IF e = "stage" THEN [r EXCEPT !.stage = "working"]
  ELSE [r EXCEPT !.progress = TRUE]

Begin(j) ==
  /\ At(j, "begin")
  /\ SetJob(j, WithStatus(job[j], "running", "cloning"))
  /\ Goto(j, "save begin")
  /\ UNCHANGED <<limiterVars, req, drain, spent, restarts, windows>>

SaveBegin(j) ==
  /\ At(j, "save begin")
  /\ Persist(j)
  /\ Goto(j, "clone")
  /\ UNCHANGED <<limiterVars, req, drain, spent, restarts, windows>>

Clone(j) ==
  /\ At(j, "clone")
  /\ Goto(j, "run")
  /\ UNCHANGED <<limiterVars, jobVars, req, drain, spent, restarts, windows>>

CloneFails(j) ==
  /\ At(j, "clone")
  /\ SetJob(j, WithStatus(job[j], "error", "error"))
  /\ Goto(j, "save end")
  /\ UNCHANGED <<limiterVars, req, drain, spent, restarts, windows>>

\* An update replayed with the status it was sent under.
Report_Mutant(j) ==
  /\ At(j, "run") \/ drain[j]
  /\ \E e \in Events :
       SetJob(j, WithStatus(job[j], "running", "working"))
  /\ drain' = [drain EXCEPT ![j] = FALSE]
  /\ UNCHANGED <<limiterVars, pc, req, spent, restarts, windows>>

\* A stage update or a log line of the run, replayed by its drain thread.
\* Lines with a run index or an elapsed time also set the progress line.  A
\* thread that outlived its run delivers the one event it had in hand, and
\* then finds its pipe closed (Supervisor!OneLateEvent).
Report(j) ==
  /\ At(j, "run") \/ drain[j]
  /\ \E e \in Events : SetJob(j, WithEvent(job[j], e))
  /\ drain' = [drain EXCEPT ![j] = FALSE]
  /\ UNCHANGED <<limiterVars, pc, req, spent, restarts, windows>>

\* What a run can have used: nothing unless it re-executes.
Usage(j) == IF req[j].deep THEN Costs ELSE {0}
GpuUsage(j) == IF req[j].deep /\ req[j].armed THEN Costs ELSE {0}

\* The supervisor joins the drain thread for five seconds only.
LeaveDrain(j) ==
  \E b \in {FALSE, LateDrain} : drain' = [drain EXCEPT ![j] = b]

RunReturns(j) ==
  /\ At(j, "run")
  /\ \E c \in Usage(j), g \in GpuUsage(j) :
       /\ SetJob(j, WithResult(job[j], c, g))
       /\ spent' = [spent EXCEPT ![j] = c]
  /\ LeaveDrain(j)
  /\ Goto(j, "save end")
  /\ UNCHANGED <<limiterVars, req, restarts, windows>>

\* The exception escapes the thread.
RunRaises_Mutant(j) ==
  /\ At(j, "run")
  /\ \E c \in Usage(j) : spent' = [spent EXCEPT ![j] = c]
  /\ LeaveDrain(j)
  /\ Goto(j, "stuck")
  /\ UNCHANGED <<limiterVars, jobVars, req, restarts, windows>>

\* BudgetExceeded (killed, crashed, no result), or any other exception.  The
\* result, and with it the cost of the run, is gone.
RunRaises(j) ==
  /\ At(j, "run")
  /\ \E c \in Usage(j), s \in {"exceeded budget", "error"} :
       /\ SetJob(j, WithStatus(job[j], "error", s))
       /\ spent' = [spent EXCEPT ![j] = c]
  /\ LeaveDrain(j)
  /\ Goto(j, "save end")
  /\ UNCHANGED <<limiterVars, req, restarts, windows>>

SaveEnd(j) ==
  /\ At(j, "save end")
  /\ Persist(j)
  /\ Goto(j, "close log")
  /\ UNCHANGED <<limiterVars, req, drain, spent, restarts, windows>>

\* The slot is freed on the success path only.
CloseLog_Mutant(j) ==
  /\ At(j, "close log")
  /\ SetJob(j, [job[j] EXCEPT !.closed = TRUE])
  /\ Goto(j, IF req[j].slot /\ job[j].status = "done"
             THEN "release" ELSE "save final")
  /\ UNCHANGED <<limiterVars, req, drain, spent, restarts, windows>>

CloseLog(j) ==
  /\ At(j, "close log")
  /\ SetJob(j, [job[j] EXCEPT !.closed = TRUE])
  /\ Goto(j, IF req[j].slot THEN "release" ELSE "save final")
  /\ UNCHANGED <<limiterVars, req, drain, spent, restarts, windows>>

Release(j) ==
  /\ At(j, "release")
  /\ ReleaseSlot(req[j].tenant)
  /\ Goto(j, "bill")
  /\ UNCHANGED <<jobVars, req, drain, spent, restarts, windows>>

Bill(j) ==
  /\ At(j, "bill")
  /\ RecordSandbox(req[j].tenant, job[j].seconds)
  /\ Goto(j, "bill gpu")
  /\ UNCHANGED <<jobVars, req, drain, spent, restarts, windows>>

BillGpu(j) ==
  /\ At(j, "bill gpu")
  /\ RecordGpu(req[j].tenant, job[j].gpuSeconds)
  /\ Goto(j, "save final")
  /\ UNCHANGED <<jobVars, req, drain, spent, restarts, windows>>

\* Relies on the write of the status change.
SaveFinal_Mutant(j) ==
  /\ At(j, "save final")
  /\ Goto(j, "exited")
  /\ UNCHANGED <<limiterVars, jobVars, req, drain, spent, restarts, windows>>

SaveFinal(j) ==
  /\ At(j, "save final")
  /\ Persist(j)
  /\ Goto(j, "exited")
  /\ UNCHANGED <<limiterVars, req, drain, spent, restarts, windows>>

----------------------------------------------------------------------------
(* The environment: the calendar, and the end of the process *)

WindowPasses ==
  /\ windows < MaxWindows
  /\ windows' = windows + 1
  /\ MinutePasses \/ MidnightPasses \/ MonthPasses
  /\ UNCHANGED <<jobVars, pc, req, drain, spent, restarts>>

\* A redeploy or a crash, and the boot that follows: threads, job dicts and
\* counters are gone, the rows are reloaded.
Restart ==
  /\ restarts < MaxRestarts
  /\ restarts' = restarts + 1
  /\ LimiterForgets
  /\ LoadPersisted
  /\ pc' = [j \in Jobs |-> IF pc[j] \in {"idle", "refused"} THEN pc[j] ELSE "dead"]
  /\ drain' = [j \in Jobs |-> FALSE]
  /\ UNCHANGED <<req, spent, windows>>

Handler(j) ==
  \/ Submit(j) \/ ArmGpu(j) \/ Refuse(j) \/ Admit(j) \/ Insert(j)
  \/ PersistBirth(j) \/ Spawn(j)

JobThread(j) ==
  \/ Begin(j) \/ SaveBegin(j) \/ Clone(j) \/ CloneFails(j)
  \/ RunReturns(j) \/ RunRaises(j)
  \/ SaveEnd(j) \/ CloseLog(j) \/ Release(j) \/ Bill(j) \/ BillGpu(j)
  \/ SaveFinal(j)

Next ==
  \/ \E j \in Jobs : Handler(j) \/ JobThread(j) \/ Report(j)
  \/ WindowPasses
  \/ Restart

Spec == Init /\ [][Next]_vars

----------------------------------------------------------------------------
(* Safety *)

Unreleased == {"insert", "birth", "spawn", "stuck", "begin", "save begin",
               "clone", "run", "save end", "close log", "release"}
HoldsSlot(j) == req[j].slot /\ pc[j] \in Unreleased
Holders(t) == {j \in Jobs : req[j].tenant = t /\ HoldsSlot(j)}

\* The limiter's counter is the number of the tenant's jobs that hold a slot:
\* the reservation in verify() and the release in run_job's `finally`, on two
\* threads, and the clamp at zero in release_slot, lose or invent none.
SlotAccounting == \A t \in Tenants : inflight[t] = Cardinality(Holders(t))

\* Whatever requests of a tenant race, and whatever tiers they present, the deep
\* verifies it re-executes at once are no more than the concurrency of the tier
\* of one of them, or one of them is unmetered.
Covers(j, S) ==
  req[j].tier \in Unmetered \/ Cardinality(S) <= Concurrency[req[j].tier]
Reexecuting(t) ==
  {j \in Jobs : req[j].tenant = t /\ req[j].deep /\ pc[j] = "run"}
ParallelVerifiesBounded ==
  \A t \in Tenants : Reexecuting(t) # {} =>
    \E j \in Reexecuting(t) : Covers(j, Reexecuting(t))

\* Within one process, the two meters of a tenant never exceed what its
\* returned runs reported, and until a calendar window passes they are exactly
\* that: each run is billed once for its sandboxes and once for its GPU, by the
\* thread that ran it, whichever order the threads come to the limiter in.
Settled(t, points) == {j \in Jobs : req[j].tenant = t /\ req[j].slot /\ pc[j] \in points}
Billed(t) == Settled(t, {"bill gpu", "save final", "exited"})
GpuBilled(t) == Settled(t, {"save final", "exited"})
Reported(t) == SumFunctionOnSet([j \in Jobs |-> job[j].seconds], Billed(t))
GpuReported(t) == SumFunctionOnSet([j \in Jobs |-> job[j].gpuSeconds], GpuBilled(t))
EachRunBilledOnce ==
  \A t \in Tenants :
    /\ sandbox[t] <= Reported(t) /\ gpu[t] <= GpuReported(t)
    /\ windows = 0 => sandbox[t] = Reported(t) /\ gpu[t] = GpuReported(t)

\* A job whose thread is still at work is in the table, so its owner can poll
\* it: eviction by later submissions never takes it (_evict_jobs).
ActiveNeverEvicted ==
  \A j \in Jobs :
    pc[j] \in {"birth", "spawn"} \cup Working /\ ~Finished(j) => j \in JOBS

\* A job shown as queued or running has a thread that will move it on: a
\* restart never brings back a "running" nobody runs (jobstore.load_all).
\* Threads that cannot be started are another matter (SlotEventuallyFree).
NoGhostRunning ==
  \A j \in JOBS :
    ~SpawnMayFail /\ job[j].status \in {"queued", "running"} =>
      pc[j] \in {"birth", "spawn"} \cup Working

\* When the job's thread ends, the row holds the complete outcome: the
\* terminal status, the cost of the run and the closing log line, although
\* the row of the status change was written before that line.
FinalRowComplete ==
  \A j \in Jobs :
    pc[j] = "exited" /\ ~StoreMayFail =>
      /\ store[j].status = job[j].status /\ Finished(j)
      /\ store[j].closed
      /\ store[j].seconds = job[j].seconds

VerdictsKept == \A j \in Jobs :
  store[j].status \in Terminal =>
    /\ store'[j].status = store[j].status
    /\ j \in JOBS' => job'[j].status = store[j].status

\* A verdict that reached the file is final: no later write, late event or
\* restart turns its row back, and whoever reads the job reads that status.
PersistedVerdictSurvives == [][VerdictsKept]_vars

\* Submissions keep the table within its cap, or full of unfinished work, and
\* what they evict finished before whatever finished job they keep.
EvictsOldestFinished ==
  [][restarts' = restarts /\ JOBS' # JOBS =>
       /\ Cardinality(JOBS') <= MaxJobs \/ \A i \in JOBS' : ~Finished(i)
       /\ \A i \in JOBS \ JOBS', k \in JOBS' :
            Finished(k) => <<i, k>> \in older]_vars

\* The counter implements the set of slot holders it counts.
Held == {j \in Jobs : HoldsSlot(j)}
CallerOf == [j \in Jobs |-> <<req[j].tenant, req[j].tier>>]
ADM == INSTANCE ScanAdmission WITH holders <- Held, caller <- CallerOf
ImplementsAdmission == ADM!Spec

----------------------------------------------------------------------------
(* Liveness *)

\* Handler and job threads are scheduled by the operating system, and a run
\* ends because its child is watched (Supervisor.tla).  Nothing obliges a
\* request to come, a window to pass or the process to restart.
Fairness == \A j \in Jobs :
  /\ WF_vars(ArmGpu(j) \/ Refuse(j) \/ Admit(j) \/ Insert(j)
             \/ PersistBirth(j) \/ Spawn(j))
  /\ WF_vars(JobThread(j))
FairSpec == Spec /\ Fairness

\* Once requests stop coming every slot is back with its tenant, whether the
\* runs returned, were killed or raised and whether the clones failed: "on
\* success the caller MUST later call release_slot" (limits.py, admit_scan).
SlotEventuallyFree == \A t \in Tenants : <>[](inflight[t] = 0)

\* Every request that is admitted past its gates is answered, and its job
\* reaches a terminal status in the table or is lost to a restart.
EveryRequestSettles ==
  \A j \in Jobs : pc[j] = "gpu" ~> pc[j] \in {"refused", "exited", "dead"}
============================================================================
