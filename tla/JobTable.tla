------------------------------ MODULE JobTable ------------------------------
(***************************************************************************)
(* The backend's record of its verification jobs: the in-memory table      *)
(* JOBS of spike/server.py, bounded by eviction, and the SQLite file of    *)
(* spike/core/jobstore.py it is written through to and reloaded from.      *)
(*                                                                         *)
(* A job dict outlives its entry in JOBS: the thread that runs the job     *)
(* keeps a reference to it.  `job` is the dict, `JOBS` the set of ids in   *)
(* the table.  The time stamps "created" and "updated" are only ever       *)
(* compared, so each is kept as the order it induces.  Of the log only the *)
(* presence of the closing line is kept, and of the result of a run only   *)
(* the cost it reports.                                                    *)
(***************************************************************************)
EXTENDS Integers, FiniteSets

CONSTANTS
  Jobs,         \* the ids the service can hand out
  MaxJobs,      \* CALMA_MAX_JOBS
  Costs,        \* sandbox and GPU seconds a run may report
  StoreMayFail  \* whether a write to the SQLite file may fail

ASSUME JobAssumption ==
  /\ IsFiniteSet(Jobs)
  /\ MaxJobs \in Nat \ {0}
  /\ Costs \subseteq Nat
  /\ 0 \in Costs
  /\ StoreMayFail \in BOOLEAN

VARIABLES
  job,    \* [Jobs -> JobRecord] the job dicts
  JOBS,   \* the ids in the in-memory table
  store,  \* [Jobs -> JobRecord] the rows of the file; NoJob: no row
  born,   \* <<i, j>>: the dict of i was created before that of j
  older   \* <<i, j>>: i was last updated before j

jobVars == <<job, JOBS, store, born, older>>

Statuses == {"none", "queued", "running", "done", "error"}
Stages == {"none", "queued", "cloning", "working", "done",
           "exceeded budget", "error", "interrupted"}
Terminal == {"done", "stopped", "error"}

JobRecord == [status : Statuses, stage : Stages, progress : BOOLEAN,
              closed : BOOLEAN, seconds : Nat, gpuSeconds : Nat]

NoJob == [status |-> "none", stage |-> "none", progress |-> FALSE,
          closed |-> FALSE, seconds |-> 0, gpuSeconds |-> 0]

NewJob == [NoJob EXCEPT !.status = "queued", !.stage = "queued"]

JobTypeOK ==
  /\ job \in [Jobs -> JobRecord]
  /\ JOBS \in SUBSET Jobs
  /\ store \in [Jobs -> JobRecord]
  /\ born \in SUBSET (Jobs \X Jobs)
  /\ older \in SUBSET (Jobs \X Jobs)

JobInit ==
  /\ job = [j \in Jobs |-> NoJob]
  /\ JOBS = {}
  /\ store = [j \in Jobs |-> NoJob]
  /\ born = {}
  /\ older = {}

----------------------------------------------------------------------------
Exists(j) == job[j].status # "none"
Finished(j) == job[j].status \in Terminal
HasRow(j) == store[j].status # "none"

\* The n elements of S that come first, or last, in a strict order.
FirstOf(S, n, before) ==
  {s \in S : Cardinality({r \in S : <<r, s>> \in before}) < n}
LastOf(S, n, before) ==
  {s \in S : Cardinality({r \in S : <<s, r>> \in before}) < n}

\* job["updated"] = time.time(): j becomes the most recently updated.
Touch(j) ==
  older' = {p \in older : p[1] # j}
             \cup {<<k, j>> : k \in {i \in Jobs \ {j} : Exists(i)}}

----------------------------------------------------------------------------
(* Operations *)

\* The dict is built by the request's thread; no other thread knows of it.
CreateJob(j) ==
  /\ job' = [job EXCEPT ![j] = NewJob]
  /\ born' = born \cup {<<k, j>> : k \in {i \in Jobs \ {j} : Exists(i) \/ HasRow(i)}}
  /\ Touch(j)
  /\ UNCHANGED <<JOBS, store>>

\* Drops the oldest jobs, finished or not.
Evicted_Any_Mutant(t) ==
  IF Cardinality(t) <= MaxJobs THEN {}
  ELSE FirstOf(t, Cardinality(t) - MaxJobs, older)

\* Sorts the wrong way round.
Evicted_Order_Mutant(t) ==
  IF Cardinality(t) <= MaxJobs THEN {}
  ELSE LastOf({i \in t : Finished(i)}, Cardinality(t) - MaxJobs, older)

\* _evict_jobs on a table t: over the cap, drop the oldest finished jobs.
Evicted(t) ==
  IF Cardinality(t) <= MaxJobs THEN {}
  ELSE FirstOf({i \in t : Finished(i)}, Cardinality(t) - MaxJobs, older)

InsertJob(j) ==
  /\ JOBS' = (JOBS \cup {j}) \ Evicted(JOBS \cup {j})
  /\ UNCHANGED <<job, store, born, older>>

\* _set: one update of the dict under _LOCK.  What follows a change of
\* status, the write to the file, is off the lock: a step of its own.
SetJob(j, new) ==
  /\ job' = [job EXCEPT ![j] = new]
  /\ Touch(j)
  /\ UNCHANGED <<JOBS, store, born>>

\* _persist: the dict as it is now, in one SQLite transaction, best effort.
Persist(j) ==
  /\ \/ store' = [store EXCEPT ![j] = job[j]]
     \/ StoreMayFail /\ store' = store
  /\ UNCHANGED <<job, JOBS, born, older>>

\* Reloads a row as it was left.
Reloaded_Mutant(row) == row

\* load_all: a row left non-terminal by the process that died is an error.
Reloaded(row) ==
  IF row.status \in Terminal THEN row
  ELSE [row EXCEPT !.status = "error", !.stage = "interrupted",
                   !.progress = FALSE]

StrictOrders(S) ==
  {R \in SUBSET (S \X S) :
     /\ \A a \in S : <<a, a>> \notin R
     /\ \A a, b \in S : a # b => (<<a, b>> \in R <=> <<b, a>> \notin R)
     /\ \A a, b, c \in S : <<a, b>> \in R /\ <<b, c>> \in R => <<a, c>> \in R}

\* _load_persisted in a new process.  The time stamp a row holds is that of
\* its last write: the order they leave is any.
LoadPersisted ==
  LET rows == {j \in Jobs : HasRow(j)}
      kept == LastOf(rows, MaxJobs, born)
  IN /\ JOBS' = kept
     /\ job' = [j \in Jobs |-> IF j \in kept THEN Reloaded(store[j]) ELSE NoJob]
     /\ older' \in StrictOrders(kept)
     /\ UNCHANGED <<store, born>>
============================================================================
