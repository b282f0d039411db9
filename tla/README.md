# Calma in TLA+

Calma re-runs a repository, captures the numbers its code produces, recomputes them
independently and gives each reported number a verdict. This directory holds TLA+ models of
its service, its isolation of runs, its make-runnable loop, its sandboxes, its verdicts and its
recompute oracle, the TLC configurations that check them on small instances, and TLAPS proofs of
what matters most for every instance. Paths below are relative to `src/spike/` unless they begin
with `src/`.

    tlc -workers 2 -config MCVerifyServer_service.cfg MCVerifyServer
    tlapm VerificationProofs.tla

Definitions whose name ends in `_Mutant` are faulty variants of the definition they precede;
each shows that a property distinguishes the code from a plausible bug in it. No
specification uses them.

## 1. Inventory

### Components that are modelled

| Component | State | Operations | Hard behaviours | What makes it correct |
|---|---|---|---|---|
| **Tiered limits and metering** `core/limits.py` | per-tenant counters by calendar window: requests per minute, scans per day, in-flight deep verifies, sandbox and GPU seconds per month | `check_api_rate`, `admit_scan`, `admit_gpu`, `release_slot`, `record_sandbox_seconds`, `record_gpu_seconds` | decided on the handler's thread, undone on the job's thread; a tenant may change tier between calls; counters are lost with the process | the in-flight counter is the number of slot holders; parallel runs stay within a tier; each run is billed once; every slot comes back |
| **Verification service** `server.py` | `JOBS`, the job dicts, one thread per job | `POST /api/verify`, `run_job`, `_set`, `_evict_jobs`, boot | every lock is released between any two steps; updates of a job come from its own thread and from its drain thread; thread start may fail | unfinished work is never evicted, every admitted request settles, the last write is complete |
| **Durable job store** `core/jobstore.py` | one SQLite row per job | `save`, `load_all`, (`prune`) | best-effort writes off the lock; a redeploy between any two | no job comes back running; a verdict in the file is final |
| **Process isolation** `runner/supervisor.py`, `runner/isolated_verify.py` | a semaphore, and per call a child, two pipes, a result file | `run_isolated`, `_supervise`, `_kill_tree`, `_drain_events`, `_reap`; the child's `main` | the child may exit, be killed, fork, fill its pipe or leave it to another process at any moment; the join is bounded | permits are conserved, live children are bounded, the reported cause has its ground, the call returns |
| **Verification pipeline** `pipeline.py`, `runner/data_resolver.py` | the checkout, the kept run result and its manifest, the records | `verify_repo`: a ladder of up to five attempts, the top K, the diff, four overlays | each attempt replaces the result of the one before and leaves its traces in the checkout; overlays rewrite one verdict after another | what a confirmation and a refutation rest on; overlays only withdraw; what was put in the place of the repository's own data withholds affirmations |
| **Verdict core** `core/verdict.py`, `core/diff.py`, `core/interval.py`, `core/redteam_gate.py` | none (pure) | `_bound_call`, `diff_claim`, `decide`, `monotone`, `screen` | a dozen conditions in a fixed order, with exceptions to exceptions | no confirmation without reproduction by more than a name, agreement with a recognised oracle, and determinism |
| **Make-runnable orchestrator** `orchestrator/orchestrate.py`, `types.py`, `reviser.py` | one session: the queue of approaches, revisions, tried keys, the pending fix, the budget, the best result so far | `execute`, `make_revise`, remediation, the synthesized driver, `orchestrate` | what a run teaches is credited one run later; a resolved data failure may run again; traces of one candidate outlive it | no thrashing, only what worked is learned, foreign inputs cap the result, at most so many runs |
| **Experience stores** `orchestrator/cache.py`, `xpu.py`, `distill.py` | approach cache, hints, experience, journal | reads and writes of a session | later sessions act on what earlier ones wrote | as above, over sessions |
| **Environment build and repair** `pipeline.py` (`_run_repo`, `repair_loop`), `runner/build.py` | the plan, the venv, the plan cache | plan precedence, healing, repair, `ensure_venv` | retries change the list that runs | retries end; flags survive them |
| **Sandbox effectors** `runner/e2b_runner.py`, `runner/effector.py` | one machine: its life, what is installed, what was fetched | boot, install ladder, data sources, acquisition with resolve-and-retry, k timed runs, release | setup eats the machine's life; any step may raise | re-runs end in time, no paid look-up twice, the machine is released |
| **Transparency ledger** `attest/tlog.py` | a list and its file | `append`, `_save`, load | appended by endpoint threads with no lock | an untampered chain verifies (it does not, see 4) |
| **Metric catalog, recipes, recompute** `core/catalog.py`, `core/textmetrics.py`, `core/conventions.py`, `recipes/`, `synth/formula.py` | none (pure) | the 32 catalog metrics, the recipe kernels and packs, the adapter, `recompute_any`, the convention search, the cross-check | two implementations of many metrics; degenerate columns; ties; labels of one class | answers tied by an identity are tied; one name has one value; a wrong number is not rescued by a convention |

How they interact: `verify` (handler thread) calls the limiter, inserts a job and starts a
thread; `run_job` on that thread calls `run_isolated`; that spawns a child which runs
`verify_repo`, and whose events a drain thread turns into `_set` and `_log` calls on the same
job dict. Back in `run_job` the result becomes the job's, the row is written, and the
`finally` releases the slot and bills the cost. In the child, `verify_repo` is sequential: it
makes the repository run (through `orchestrate`, which calls an effector for every approach, or
through `_run_repo`), then binds each claim to a captured computation, recomputes it with the
oracle, decides, and overlays. The attestation endpoint appends a finished job's verdict to the
ledger.

### Components that are not modelled

* **Claim discovery**: text and table extraction. It keeps no state, and its patterns are data
  no property tells apart: the claims are the inputs of `Verification`. The merge of claims
  found before and after the run goes by text position, and is left out with it.
* **Data acquisition**: host lists, file names and downloads. The loop that calls it is in
  `Sandbox` and, on the host, in `RunLadder`.
* **API keys and GitHub App connector**: one transaction or one signed request per operation;
  no two operations share a state that their order could break.
* **Artifact reproduction**: what recomputing from committed predictions gives is a fact that
  `Verification` chooses.
* **Capture shims**, **planner and static assessment**, **evaluation harness**, **clients**,
  **validity wedge**: instrumentation of another interpreter, prompting, offline experiments,
  pollers and a pure projection.

Every hazard found while reading, at its line and with the properties that would catch it, is
in `PROJECT.json` under `hazards`.

## 2. Modules

| Module | Models |
|---|---|
| `Limiter` | class `Limiter`: one action per operation (one critical section of its lock), the calendar, the loss of the process |
| `JobTable` | `JOBS`, the job dicts, the SQLite rows; eviction, `_set`, `_persist`, reload |
| `VerifyServer` | composes the two: handler and job threads as program counters |
| `ScanAdmission` | abstract: the jobs that hold a slot and who asked for each; what admission promises |
| `Supervisor` | `run_isolated`, its drain thread, and the child |
| `IsolatedCalls` | abstract: one worker per call, callbacks inside the call, one answer that fits the worker's end |
| `Verdict` | what one verdict is decided from, and the decision |
| `RunLadder` | the deep block of `verify_repo`: attempts, relink, fetch, acquire, GPU, fold |
| `Verification` | composes the two: hold, diff, committed predictions, overlays |
| `Experience` | approaches, fixes, and the stores a session reads and writes |
| `Orchestrate` | `execute` and `orchestrate`: one session after another |
| `MakeRunnable` | abstract: a session makes at most `Ceiling` runs and stops at the first success |
| `Sandbox` | one call of `run_e2b`, with its clock |
| `RunRepo` | `_run_repo`: plan, sandbox or host, healing, repair, caches |
| `Ledger` | `LocalLedger` under the thread pool |
| `Ratio`, `Columns` | exact fractions with NaN; columns of them |
| `Rates`, `Rankings`, `Partitions`, `Trials`, `Retrieval`, `Returns`, `Forecasts`, `Finance` | the kernels of `recipes/numeric.py`, by subject |
| `Recipes` | the packs of `recipes/recipes_legacy.py`: tags, conventions, kernel |
| `TextMetrics`, `Catalog` | the second implementation: `core/textmetrics.py`, `core/catalog.py` |
| `Conventions` | names, aliases and convention variants |
| `Oracle` | `recompute_any`, the adapter's binding, the convention search, the cross-check |
| `OracleLaws` | what tied answers have to satisfy |
| `FiniteFacts` | lemmas on smallest subsets, maxima, minima and sums of finite sets |
| `MC...` | instances for TLC |
| `VerifyServerProofs`, `SupervisorProofs`, `VerificationProofs`, `OrchestrateProofs`, `RunRepoProofs`, `LedgerProofs`, `KernelProofs` | the theorems (section 5) |

**Limiter.** The class never reads a key of a window that is over, so only the current window's
counter is kept, and a window that passes resets it. Seconds are whole units. `Unmetered` is
the operator's tier. The reservation made by `admit_scan` is one step with its checks: both are
under the lock.

**JobTable.** Time stamps are only compared, so they are kept as orders (`born`, `older`). Of a
job the model keeps status, stage class, whether a progress line is set, whether the closing log
line is there, and the cost its result reports. A dict outlives its table entry, as in the code.

**VerifyServer.** `pc[j]` is the line the thread of request j has reached; a step is one
critical section with the thread-local code around it. The gates of `verify` between the rate
limit and `admit_scan` (a local path on the hosted service, tier features, installation proof)
read no shared state, so any request may fail one. `run_isolated` is one step here, with the
outcomes and the late drain event that `Supervisor` shows possible. `IsolatedCalls` is the
promise in between: events begin only while the call is inside, the one in hand may end after
it, and the answer is final, which is what one step with at most one late event (`drain[j]`)
assumes. Requests carry unique ids (`uuid4().hex[:12]`): two alike are not modelled.

**Supervisor.** One action per step of `run_isolated`, with the poll loop as two (exit, then
limits) because the child may move between them. `holder` is a process that inherited the pipe:
of the child's group (killed with it) or of a session of its own (not). `Wedged` is the case the
five-second join is for. The second pipe (stderr) behaves as the first and feeds diagnostics
only. An abort (SIGABRT) counts as a sign of memory, as in `_exit_error`. `Stage`, `Worker` and
`Answer` map its state to that of `IsolatedCalls`.

**Verdict.** Numbers are elements of an arbitrary set and are compared only through
`tolerance.close` and `tolerance.claim_close`; these are two arbitrary relations, not assumed
reflexive, symmetric or transitive, so no property depends on how they round. Binding,
recompute, conventions, certified enclosure, validity, formula fuzzing and the prediction
interval enter as the facts they yield (`Evidence`), and `Counted` / `Oracle` / `Decide` follow the
code's order. Parameters of `diff_claim` that the pipeline never passes (`shadow`,
`seed_injected`) are left out.

**RunLadder.** `run` is the result kept so far with the manifest that travels with it; `tree` is
what the checkout really holds that is not the repository's own, which the program does not
record. An attempt may edit, substitute or fetch (`Supplies`, as `resolve_data_path` and
`FETCH_DATA` do), and its manifest tells `Recorded` of that: all of it through the orchestrator,
edits only through the local repair loop.

**Verification.** One action per stage of `verify_repo` after the run. Claims are known by
identity; the facts about them are drawn from the parameter `Facts` when they are diffed.
`Depth` is adaptive k. The order leakage, baseline, red team, cap is the code's. The advisory
anomaly overlay changes no verdict and is left out; so are receipt, summary and counts.

**Experience and Orchestrate.** An approach is an entry point with the fixes it carries (a
package, an environment variable), so equal approaches have equal `approach_key`s. What a run
does is a free choice of success, capture and fault, and two runs of one approach may differ.
The ranking is any of `Rankings`; a revision is proposed by a source of `Revisers` and passes
the code's `_safe_delta`, tried and step-budget tests. `stores` are the JSON files a later session
reads. `runs` and `learned` are history variables. Tool registration and prompts are data.

**Sandbox and RunRepo.** `clock` counts seconds since the call began; a command takes a chosen
time up to its timeout, and what reaches the end of the machine's life is cut (`Expire`). A run
may take less than a second: t whole seconds and a fraction. `fetched` is what the program
counts and `auto` what really came from the network; `tries` is the history of look-ups.
`RunRepo` extends the module and calls it: a heal retry is a new machine. On the host, the
interpreter is the shared one or the repository's venv. Snapshots (off by default), Modal, conda
and GPU admission are left out.

**Ledger.** Steps are the reads and writes of shared state in `append` and `_save`. A hash is
what it is the hash of.

**Kernels.** Values are exact fractions; what is degenerate, or fails, is `NaN`, as in the code.
Rounding is left out, and so are kernels through logarithms, exponentials, fractional powers,
root searches and distribution functions (their value is `NaN`, which constrains nothing). A
kernel that ends in a square root stands as its signed square ("squared" in its comment), and
a test that ends in a tail probability as its statistic. Labels and columns of order statistics
are integers or strings; other columns hold fractions.

**Oracle.** A behaviour takes one capture of `Cases`, recomputes each of its claims in the order
of `recompute_any` (catalog, recipe, banked formula, a formula in `Validated`), and searches the
conventions where the repository printed another number. Formulas stay banked for the next
repository with the same claims. `reconcile`, the cross-check by a second implementation, is
called by tests and not by the pipeline: the properties use it.
Which implementation a name reaches is a parameter (`Metric`, `Recipe`, `Tags`), so the search
and the fall-back can be read without the kernels.

## 3. Runs

At most two minutes each with two workers. "Violation" runs check what a comment says and the
code does not do.

| Run | Shows | Bounds |
|---|---|---|
| `MCVerifyServer_service` | `SlotAccounting`, `ParallelVerifiesBounded`, `EachRunBilledOnce`, `FinalRowComplete`, the service implements `ScanAdmission`, and with fair threads `SlotEventuallyFree`, `EveryRequestSettles` | two requests of one metered tenant who may change between two tiers, rate limit two, GPU armed, a budget of two seconds, costs 0 and 2, one calendar window |
| `MCVerifyServer_eviction` | `ActiveNeverEvicted`, `EvictsOldestFinished` | three jobs of the operator, table of two, stage events, thread start may fail |
| `MCVerifyServer_restart` | `NoGhostRunning`, `PersistedVerdictSurvives` | two jobs, table of one, one restart, failing writes, late progress events |
| `MCSupervisor_concurrency` | `GateAccounting`, `ChildrenBounded`, `DiagnosisKept`, and with fairness `CallReturns` | two calls, one permit, a pipe of one event, failing spawns |
| `MCSupervisor_isolation` | `TruthfulOutcome`, `TreeKilled`, the call implements `IsolatedCalls` | one call, a pipe of two, both kinds of inheritor, slow callbacks |
| `MCVerification_verdicts` | `ConfirmedIsEarned`, `RefutedIsEarned`, `HeldNeverVerified`, `LeakyNeverVerified`, `ModifiedNeverAffirmed`, `OverlaysOnlyWithdraw` | two claims, one held; k = 2; three values; every retry |
| `MCOrchestrate_orchestrate` | `RunsPerApproach`, `LearnedFromSuccess`, `ForeignInputsCap`, `FuzzIsTheWinners`, the loop implements `MakeRunnable`, and with fairness `SessionEnds` | two sessions over the same stores, two entry points (one the user's), one package, three steps, two approaches, every source of a revision, a synthesized driver |
| `MCRunRepo_runtime` | `SoughtOnce`, `FetchedIsFlagged`, `SandboxReleased`, `RerunWithinLife`, and with fairness `ScanEnds` | two scans of one tree, sandbox and host, two packages of which one is needed, one file and one tool, k = 2, a life of five seconds, a floor of two |
| `MCOracle_oracle` | `TablesAgree`, `RankingsAgree`, `TestsAgree`, `ColumnsAgree`, `CatalogAgrees` | columns of up to three rows |
| `MCVerification_lost_cap` | violation of `ForeignNeverConfirmed` | two claims, edits only |
| `MCLedger_ledger` | violation of `UntamperedChainIntact` | two threads, three appends |
| `MCSupervisor_wedged` | violation of `WedgedPipeReturns`, with fairness | one call, a pipe of one, a leftover process of the child's group |

**Why the bounds suffice.** *Slots*: two requests are enough for a race on one counter; the two
tiers give the case where the decision and the release see different limits; a budget equal to
the cost of one run makes the second request meet it exactly when the first was billed.
*Eviction* needs one job more than the table holds. *Restart*: one, since a second starts from
the same state as the first (only rows survive). *Supervisor*: two calls contend for one permit;
a pipe of one event makes the child block, two let an error queue behind a log line.
*Verification*: claims do not interact except through the top K, so two with one held show each
role; values 1, 2, 3 with "close" meaning neighbours make closeness non-transitive, so a claim
may differ from the produced number while both are close to the recompute. The facts are those
of a clean confirmation and every single departure from it, with the pairs that interact
(unstable runs with each zone; a wrong number on a leaky or weak split; committed predictions
for claims the run did and did not capture). *Orchestrate*: two sessions are needed to act on
what one stored; the second ranking holds an approach that the first may be revised into, which
is where thrashing would come from; three steps leave room for a run, its revision, and a run
that the budget refuses. *Runtime*: a life of five and a floor of two (one more than copying
back takes), with an install step of none or three and runs of up to three, make a re-run fit,
fit with nothing but the floor left (after a slow setup and a first run of under a second), and
not fit; one missing file and one missing tool over three rounds make a second look-up possible;
two scans let the second use the plan and the hints of the first. *Oracle*: three rows hold both
classes with a tie, every 2x2 table of weight three, and groups of one and two; level-and-rank
procedures differ from two p-values on. The theorems below lift the bounds for most safety
properties.

Deadlock is not checked: a service without requests, a call that has returned, and a pipeline,
session, scan or oracle that is done all stop.

**Fairness.** `VerifyServer`: weak fairness of the handler after the rate limit and of the job
thread, each an operating-system thread that blocks only on short locks; the run's own step is
fair because its child is watched (`CallReturns` in `Supervisor`, which needs that no other
process keeps the pipe: with one, the `wedged` run shows, the job's thread may wait for as long
as that process lives). Requests, windows and restarts are never obliged to happen.
`Supervisor`: weak fairness of the supervising thread, of the drain thread and of the clock; the
child and whatever it leaves behind are obliged to nothing. `Orchestrate` and `RunRepo`: weak
fairness of the next step, since a session or a scan is one thread whose external calls all have
a timeout. `SlotEventuallyFree` and `EveryRequestSettles` hold with `SpawnMayFail = FALSE`,
`CallReturns` with no process that inherits the pipe; observation 2 and the `wedged` run below
say what happens otherwise.

## 4. What the code does not do

Runs with a counterexample:

* `lost_cap`. Each attempt's manifest covers only that attempt. A path that a failed attempt
  rewrote, or a file it substituted, stays in the checkout and out of the manifest of the
  attempt that then succeeds, so `_apply_agent_modified_cap` does not fire and the claim is
  CONFIRMED. The relink between the attempts is folded in; `ModifiedNeverAffirmed` shows that
  part is sound, and `ForeignInputsCap` that one session of the orchestrator is.
* `ledger`. Two attestation requests on the thread pool read the hash of the same last entry:
  the chain then fails its check though nobody tampered with it. Only the in-process list is
  needed; that the file may also be left unreadable (two writers) shows in the same module.
* `wedged`. A child that dies by itself (memory, CPU limit, a fault) leaves its group alive:
  `_kill_tree` is called only for a limit of the watchdog or a child not yet dead. A pip or git
  the child had started without capturing its output (`pipeline.py:621`, `runner/build.py:980`)
  then has the write end of its pipe. The five-second join of the drain thread gives up, and
  `_reap` closes the same pipe (`runner/supervisor.py:446`), which waits for the lock the drain
  thread reads under. The comment at lines 265-266 says "bounded join so a wedged pipe can't hang
  the supervisor"; the call, its permit and the job's slot are held until that process ends.

Observed while reading or proving, not listed as runs.

The service:

1. `run_job` bills `job["run"]["cost"]`, which only the success path sets: a killed or raised
   run is billed nothing, although `server.py:512` says otherwise. `EachRunBilledOnce` is about
   runs that returned: neither meter (sandbox, GPU) exceeds their sum, and both equal it until a
   window passes. A run with several attempts is billed the cost of the last one only.
2. If `Thread.start` raises (`server.py:615`), the slot stays reserved and the job queued for
   the life of the process.
3. A child that ends by SIGABRT (a failed native assertion, a corrupted heap) is reported as
   "likely out of memory" (`runner/supervisor.py:404`), which need not be so. `TruthfulOutcome`
   promises no more than the code looks at: memory is blamed on the cap, on the child's own word,
   or on a SIGKILL or SIGABRT that ended the child.
4. `core/limits.py:174` caps the operator's parallel verifies at two; `admit_scan`'s unmetered
   branch (line 280) never compares. `ParallelVerifiesBounded` says so by exempting it.
5. Nothing clears the progress line of a finished job, although `server.py:361` says so.
   `JobStore.prune` has no caller. A client may read "done" before the row is written
   (`server.py:344`), and a crash in between turns the job into an interrupted one.
6. Below 750 MB of container the memory floor of a child (`runner/supervisor.py:86`) leaves
   less than the reserve.
7. A ledger file that does not parse is replaced by an empty chain, which verifies
   (`attest/tlog.py:46`).

The pipeline:

8. A file fetched by `resolve_missing_data` between attempts (`pipeline.py:1086`) sets no
   `data_auto_resolved`, so a mismatch on it is REFUTED; the repair loop's `FETCH_DATA`
   (`pipeline.py:632`) sets none either. The comment at `pipeline.py:954` says data that Calma
   fetched "must NEVER false-REFUTE"; the model does this too (`RetryFetched`), and
   `RefutedIsEarned` is about the flag only. The sandbox's own fetches set it
   (`FetchedIsFlagged`).
9. `core/verdict.py:99` says the stochastic test guarantees that the distribution branch is
   reached; with a degenerate recompute the claim skips the point comparison and ends
   NON-DETERMINISTIC. It is never confirmed that way (`ConfirmedIsEarned`).
10. A run that yields no number for a claim does not count against its determinism: three runs
    giving v, nothing, v confirm it. `Reproduced` states exactly this weaker promise.
11. The plan cached after healing (`pipeline.py:575`) is without what healing added, though the
    comment above says it is the plan that captured (`FinishE2B`). A heal retry asks for
    neither acquisition nor data fetch (`pipeline.py:561`).
12. A re-run cut by Calma's own limit leaves its return code in the metadata, so `ran_ok` is
    false although the first run completed (`runner/effector.py:57`).
13. `repair_loop` runs the failing entry point once more before its first action.

The make-runnable loop:

14. A session that wins with the synthesized driver caches it as the known-good approach of the
    tree (`orchestrate.py:689`), which line 629 puts first in the next session: but line 626 has
    by then removed the driver's file, so that run can only fail. No verdict is affected, since
    no driver of an earlier session is ever in the checkout (`NoStaleDriver`, proved).
15. Failures of the last fix of a candidate are not journaled (`orchestrate.py:480`). `record`
    on a known signature keeps the old counts. A cached approach with learned packages is
    dropped when the user names the entry point. `run_e2b` ignores `approach.env`.
16. `best_effort` is replaced only by a run of the same approach object, and a revision makes a
    new object: of all runs only a retry after placed data can replace it.
17. Concurrent children rewrite one JSON store through one `.tmp` name (`cache.py:42`): updates
    are lost, which costs a retry and no verdict. `Experience` takes sessions one by one.

The oracle (differences of the two implementations that no comment rules out):

18. With true positives zero and errors present `f1` of the recipes is NaN where `jaccard`,
    `threat_score` and `macro_f1`, and the catalog's `f1`, are 0.
19. The integer gate of the Fisher test (`recipes/numeric.py:1867`) admits tables heavier by one
    unit than the observed one: [[1,0],[0,2]] gives p = 1 instead of 1/3.
20. `roc_auc` and `brier` sort labels as text: of {2, 10} or {-2, -1} the positive class is the
    smaller. The positive class of `brier` is the last that occurs (`core/catalog.py:288`): on a
    column of negatives every row is scored as a positive, where line 270 and the recipe score
    the distance to y = 1[label == positive]. `CatalogAgrees` exempts one class. `equalized_odds_difference` and `_ratio` treat an empty group asymmetrically
    (`numeric.py:3330`). `irr` returns one root of an ambiguous series where its docstring says
    NaN (`numeric.py:1205`).
21. Catalog names shadow recipes of another meaning: `map` reaches the average precision of one
    list, `precision_at_k` divides by the list's length instead of k, `sharpe` has one period a
    year where the recipe has 252 (`CatalogAgrees` is checked with the periods named), `ndcg@10` loses its k, ROUGE takes the first of a list of
    reference tokens, and MRR over ranks divides by all of them.
22. The adapter's aliases `var`, `ndcg`, `average_precision` and `median_ae` name no registered
    recipe, its alias for the information ratio is not reachable, one captured column may fill
    both tags of `rmse`, and `periods_per_year` becomes the bare convention of any recipe.
    `_conv_q` reads "q=1" as 0.01.
23. The search over correlation types returns its first match although
    `core/conventions.py:118` says "confirm only if exactly one type reproduces", and the docstring
    at `core/catalog.py:546` the same: 0 for x = 0, 1, 3 and y = 1, 3, 1 is Spearman's and
    Kendall's. `CatalogAgrees` states the weaker promise: a rescued number is given by a second
    implementation, and one that exactly one convention gives is answered. Of a number that
    several give it asks nothing.

## 5. Proofs

All assume only the named `ASSUME`s on the constants. In each module the inductive invariant
is the conjunction of named parts, one lemma or step per action shows that it is kept, and the
theorems follow by temporal logic. TLC checks these invariants too, on the instances above.

**VerifyServerProofs.** `TypeCorrect`; then `IInv`, which adds to the properties: who may call
(`KnownCallers`), at which points a slot is held (`SlotFlow`), that among any slot holders of a
tenant one covers them all (`HoldersCovered`: the one admitted last, found whatever subset is
left after the others release), and which statuses a job and its row may have at each point
(`StatusFlow`, `RowFlow`). `SlotAccounting` is not inductive alone, because the clamp in
`release_slot` would hide a release without a holder: `SlotFlow` excludes it. From `IInv`:
`SlotsAccounted`, `ParallelBounded`, `ActiveKept`, `NoGhosts`, `VerdictSurvives`, and
`AdmissionImplemented`: initial states map to initial states of `ScanAdmission` and every step
to a step or a stutter. `LastWriteComplete` adds `RowComplete`: the closing line is in the dict
before the last write, and a late event leaves status, cost and that line alone.

`BilledOnce` needs that one billing adds one term to a sum over a set. The library defines the
sum by a fold in the order CHOOSE gives, and the provers cannot apply its induction theorems.
`FiniteFacts` derives instead, from the least subset of a finite set for which a fact fails,
that the fold's recursive function exists and is unique (`FoldExists`, `FoldUnique`), that any
one element may be taken out of a sum first (`SumTakeOut`), and that terms which do not change
leave it alone (`SumSame`). With that each of the two meters follows its sum step by step: a
thread in "bill" is not in `Billed` yet and one in "bill gpu" not in `GpuBilled`, every other step
keeps both sets and both counters (`MetersKept`) until a window passes, the cost in a dict does not
change once its run has returned, and a restart empties sums and meters. `EvictionSound` needs that `older`, the order of the stamps, is a strict
total order of the jobs that have one (`StampsOrder`): how many finished jobs are dropped then
determines which, and no job that is kept was updated before one of them.

**SupervisorProofs.** `IInv` = types, `GateAccounting`, where a child can be at each point of
its call (`ChildFlow`) and what each reported cause rests on (`Causes`: for a report of memory,
the cap, the child's word, or a SIGKILL or SIGABRT). From it: `GateAccounted`, `BoundedChildren`
(live children inject into calls past the gate), `OutcomeTrue`, `TreeGone`. `DiagnosisReaches`
follows one call's report (`Told`): it is true, stays in the pipe until it is read, and a reader
that has ended, or was waited for, has read all of it. `LateEventsEnd` shows that nobody reads a
pipe that is not open (`ReaderStopped`): once a call has returned, the event in hand is the
last. `IsolationImplemented` is the refinement of `IsolatedCalls`. `StepShown` says, action by
action, what a step shows the job of a call (nothing, or one of seven changes) and
`ShownImplements` that each of the seven is the action of the promise. It rests on the
invariants above and `Accompanied`: callbacks come from a child that was started, and a call is
classified before it ends. That so many calls and no more are inside comes from
`GateAccounting`; that a child is dead before its call returns, from `ChildFlow`.

**VerificationProofs.** First lemmas on the decision: its range, that a confirmation by
`diff_claim` is `Reproduced`, that the value compared to is the default recompute or a
recognised convention's, what a refutation rests on. Then two relations: `Withdraws`, between
the verdicts before and after any overlay, and `Earned`, between a claim's facts and its verdict,
which `Withdraws` preserves. `Accounted` ties the relink's edits to the manifest after the fold.
From the inductive `Inv`: `Confirmations`, `Refutations`, `HeldClaims`, `LeakyClaims`,
`ModifiedCheckouts`, and the action property `Withdrawals`, for arbitrary tolerances, facts,
numbers of claims and runs, and with or without a deep run (the TLC run has `Deep = TRUE`).

**OrchestrateProofs.** The invariant adds to the properties where a session can be with what in
its hands (`Flow`), that a pending fix is carried by the approach that runs next (`Carried`),
and that an approach not in `tried` has not run since its data was looked for (`RunsCounted`):
without the last, `RunsPerApproach` is not inductive, since a resolved approach leaves `tried`.
From it: `ApproachesDoNotThrash`, `StoresLearnFromSuccess`, `ForeignInputsAreCapped`,
`FuzzOfTheWinner`, `DriversAreFresh`, and `LoopImplementsPromise`, the refinement of
`MakeRunnable` with the steps spent as its attempts. `QueueAssumption` states what the provers
cannot derive, since they know nothing of `SelectSeq`: that a session's queue is a sequence of
approaches. TLC evaluates it for the rankings of the run. That a best fix exists (the smallest in the store's
order) rests on `FiniteFacts!SmallestSubset`, by well-founded strict inclusion.
`SessionsAreBounded` is the half of `SessionEnds` that a prover without ENABLED can reach: the
measure `Work` (two for each run left in the budget, one for each candidate, and the stages up to
the end) is at most `2 * StepCap + MaxApproaches + 4` and every step of a session lowers it,
whatever the runs return and the revisers propose. A revision replaces a candidate by another and
a placed file makes one run again, but both have spent a run of the budget by then.

**RunRepoProofs.** `IInv` = types, what was looked for is in `seen` (`Tried`), what came from the
network is counted and the count decides the flag (`Counted`), which runs have been made where
(`Staged`), that a machine not up during a call has come to the end of its life (`Alive`), and
that calls are made only by scans in a sandbox (`Placed`).
`NothingIsSoughtTwice`, `FetchedFilesAreFlagged`, `MachinesAreReleased` follow; `RerunsEndInTime`
needs the arithmetic of the gate (`Fits`, `Limit`): earlier runs may have taken no time, so a
re-run that fits has the floor left and possibly nothing more; its limit is what is left without
the floor, but one second at least (`max(1, ...)` in the code), and that second and copying the
capture back still fit in the floor (`Pull < Floor`, the one assumption on the environment). `ScansAreBounded` is to `ScanEnds` what `SessionsAreBounded` is to
`SessionEnds`: a call of `run_e2b` goes down a measure of its stages, the rounds of its
acquisition and the runs not made (`CallWork`), which stays below `Attempt`; a heal starts a
machine again and pays for it with a retry, that is with one `Attempt`.

**LedgerProofs.** `TamperEvident`: entries are told apart by their hash (no two have the same
one: the hash is the entry in the model), so intact chains that agree on the last hash agree,
link by link, on every entry and on their length. The argument is on the first place, counted
from the end, where they differ. `OneWriterChained` has the hypothesis the code does not
establish, that all of `Workers` are one: then what a thread has read of the chain is still
current when it appends (`ThreadCurrent`), and the chain stays intact and numbered through
appends, saves and restarts. With two threads the `ledger` run refutes it; the theorem shows
that a lock around `append` is all that is missing.

**KernelProofs.** What the kernels compute, for every input rather than for the lists of a run.
`Ratio` is exact arithmetic in lowest terms with NaN; that it is arithmetic is proved first:
Euclid's recursion has exactly one solution (`GcdUnfolds`), it divides and scales
(`GcdDivides`, `GcdScales`), so a fraction does not depend on the numerator and denominator
it was built from (`OverScales`, `OverEqual`), the operations are those of the rationals
(`OverPlus`, `OverTimes`, `OverBy`), and `AtMost`'s order of fractions is total and transitive
(`AnyTwo`, `Transitive`). `RatesAgree` then states of every table of counts the identities
between kernels that were written independently. Both sides have to be defined: that one is NaN
where the other is a number is observation 18. `CorrectionsNested` rests on `SortedColumn` (the
sorted column of p-values is ordered and has as many entries below a bound as the unsorted one)
and on each procedure's bound on the k-th smallest p-value being at most the next one's
(`Bounds`). For Benjamini-Yekutieli that is because the harmonic sum is at least one
(`HarmonicSum`): the recursive function of a column's partial sums exists (`SumsExist`), and no
first partial sum falls below one. The hypotheses are those of the procedures: p-values that are
numbers, and a level that is not negative.

`RejectionsNested` carries this to the oracle: `Spec => []TestsAgree`. `Oracle` takes the recipes
as a constant operator, so the theorem assumes that they are those of the registry (`Registered`:
`Recipe` is `Value` and `Tags` is `required_tags` of `Recipes`, as in the runs, and no formula
has an empty name) and that a call that claims a correction brings p-values that are numbers
and a level that is none or not negative (`TestCases`); nothing is assumed of what else is
claimed, produced or banked. The proof follows the code's path: the names are neither in the
catalog nor a network's (`CorrectionNames`), the adapter binds the one tag (`CorrectionRecipe`), the
registry's packs lead to the kernels (`CorrectionKernels`), and the two parsers of a level,
`float(convention)` and `alpha=...`, agree where both accept it (`OneLevel`) and leave one side of
every comparison undefined where they do not (`NestedRecipes`). The inductive invariant
`OracleInv` says that every answer for a correction is its recipe's or undefined
(`CorrectionAnswer`).

**Only model-checked.** Liveness (`SlotEventuallyFree`, `EveryRequestSettles`, `CallReturns`,
`SessionEnds`, `ScanEnds`) is out of the prover's reach; the bounds on sessions and scans above
are its safety half. `TablesAgree`, `RankingsAgree`, `ColumnsAgree` and `CatalogAgrees` are
checked for every column of the bounds; of their conjuncts, those of `RatesAgree` are also proved
of the kernels. The others tie folds and sorts over columns of arbitrary length to each other,
which needs induction over data, most of them through the catalog's sums over classes as well.

## 6. Not modelled, and why

Beside the components of section 1: warm snapshots (off by default; a resumed machine skips
install and fetch and loses their flags, and two processes may resume one), concurrent writes of
the JSON stores (observation 17), the stores of synthesized formulas and their generation by a
model, conda, Modal and GPU admission (same contract as the sandbox), the sizing of the gate and
of the memory cap (computed once), the read endpoints and badges (no state of their own),
signing and canonical JSON (data), and kernels that need real arithmetic (section 2).
