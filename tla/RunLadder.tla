------------------------------ MODULE RunLadder ------------------------------
(***************************************************************************)
(* The deep block of verify_repo (spike/pipeline.py): up to five attempts  *)
(* at running one checked-out repository.  While none has run, the first   *)
(* is followed by a retry with a committed file put where the code reads   *)
(* it, a retry with a file found on the network, a retry that acquires the *)
(* data in its sandbox, and a run on a GPU.                                *)
(*                                                                         *)
(* An attempt may itself supply inputs or rewrite paths: the orchestrator  *)
(* through resolve_data_path, the repair loop through FETCH_DATA.  `tree`  *)
(* remembers what of the checkout is not the repository's own.  The        *)
(* program has no such memory: it has the manifest of the attempt whose    *)
(* result it keeps.                                                        *)
(* Definitions named ..._Mutant are faulty variants of those they precede. *)
(***************************************************************************)
EXTENDS Naturals

\* What may become of the checkout: a source or a notebook is edited, another
\* file takes the place of the one asked for, a file comes from the network.
Foreign == {"edited", "substituted", "fetched"}

CONSTANTS
  Supplies,     \* what an attempt may do to the checkout: a subset of Foreign
  Recorded,     \* what its manifest tells of that: all of it when the
                \*   orchestrator runs, edits only when the repair loop does
  FetchData,    \* opts.fetch_data
  AcquireData,  \* opts.acquire_data
  AllowGpu      \* opts.allow_gpu

ASSUME LadderAssumption ==
  /\ Supplies \subseteq Foreign
  /\ Recorded \subseteq Foreign
  /\ FetchData \in BOOLEAN
  /\ AcquireData \in BOOLEAN
  /\ AllowGpu \in BOOLEAN

VARIABLES
  step,          \* where the ladder is
  tree,          \* SUBSET Foreign: what the checkout holds that is not its own
  run,           \* Run: the result kept so far
  miss,          \* BOOLEAN: the first failure names a missing data file
  dataModified   \* _data_modified: the relink's edits and substitutions

ladderVars == <<step, tree, run, miss, dataModified>>

Steps == {"first", "relink", "relinked", "fetch", "fetched", "acquire", "gpu",
          "fold", "ran"}

\* ran_ok, whether there are runs to read at all, data_auto_resolved, the kind
\* of the failure, and repair_manifest.source_modified.
Failures == {"none", "missing-data", "needs-gpu", "errored", "other"}
Run == [ok : BOOLEAN, captured : BOOLEAN, auto : BOOLEAN,
        failure : Failures, modified : SUBSET Foreign]
NoRun == [ok |-> FALSE, captured |-> FALSE, auto |-> FALSE,
          failure |-> "other", modified |-> {}]

LadderTypeOK ==
  /\ step \in Steps
  /\ tree \in SUBSET Foreign
  /\ run \in Run
  /\ miss \in BOOLEAN
  /\ dataModified \in SUBSET Foreign

LadderInit ==
  /\ step = "first"
  /\ tree = {}
  /\ run = NoRun
  /\ miss = FALSE
  /\ dataModified = {}

Retried == ~run.ok
Goto(s) == step' = s
Skip(s) == Goto(s) /\ UNCHANGED <<tree, run, miss, dataModified>>

----------------------------------------------------------------------------
\* _run_repo: what it does to the checkout, and the result that takes the
\* place of the one before.  Its manifest compares the checkout before and
\* after this call.  Data fetched inside a sandbox is flagged, and gone with it.
Attempt(fetching) ==
  \E did \in SUBSET Supplies, f \in Failures, c \in BOOLEAN, a \in {FALSE, fetching} :
    /\ f = "none" => c
    /\ tree' = tree \cup did
    /\ run' = [ok |-> f = "none", captured |-> c, auto |-> a, failure |-> f,
               modified |-> did \cap Recorded]

First ==
  /\ step = "first"
  /\ Attempt(FALSE)
  /\ miss' \in {FALSE, ~run'.ok}
  /\ Goto("relink")
  /\ UNCHANGED dataModified

\* make_data_available: a committed file is placed where the code reads it, as
\* it is, under another name, or with the path in the code rewritten.
Relink ==
  /\ step = "relink"
  /\ Retried /\ miss
  /\ \E mod \in SUBSET {"edited", "substituted"} :
       /\ tree' = tree \cup mod
       /\ dataModified' = dataModified \cup mod
  /\ Goto("relinked")
  /\ UNCHANGED <<run, miss>>

NoRelink == step = "relink" /\ Skip("fetch")

RetryRelinked ==
  /\ step = "relinked"
  /\ Attempt(FALSE)
  /\ Goto("fetch")
  /\ UNCHANGED <<miss, dataModified>>

\* resolve_missing_data: a search of the network finds the file.
Fetch ==
  /\ step = "fetch"
  /\ Retried /\ FetchData /\ miss
  /\ tree' = tree \cup {"fetched"}
  /\ Goto("fetched")
  /\ UNCHANGED <<run, miss, dataModified>>

NoFetch == step = "fetch" /\ Skip("acquire")

RetryFetched ==
  /\ step = "fetched"
  /\ Attempt(FALSE)
  /\ Goto("acquire")
  /\ UNCHANGED <<miss, dataModified>>

\* The repository's own acquisition scripts (opts.acquire_data) or canonical
\* sources (opts.fetch_data), inside the sandbox of the attempt.  Either may
\* bring files from the network: the scripts' missing inputs are looked up too.
Acquire ==
  /\ step = "acquire"
  /\ Retried /\ (AcquireData \/ FetchData) /\ run.failure = "missing-data"
  /\ Attempt(TRUE)
  /\ Goto("gpu")
  /\ UNCHANGED <<miss, dataModified>>

NoAcquire == step = "acquire" /\ Skip("gpu")

\* run_modal, kept when it has runs to show.  It has no manifest.  "errored" is
\* a failure on which a repository that reaches for CUDA is retried on a GPU.
Gpu ==
  /\ step = "gpu"
  /\ Retried /\ AllowGpu /\ run.failure \in {"needs-gpu", "errored"}
  /\ \E f \in Failures :
       run' = [ok |-> f = "none", captured |-> TRUE, auto |-> FALSE,
               failure |-> f, modified |-> {}]
  /\ Goto("fold")
  /\ UNCHANGED <<tree, miss, dataModified>>

NoGpu == step = "gpu" /\ Skip("fold")

\* The relink's own edits are left out of the manifest.
Fold_Mutant == step = "fold" /\ Skip("ran")

Fold ==
  /\ step = "fold"
  /\ run' = [run EXCEPT !.modified = @ \cup dataModified]
  /\ Goto("ran")
  /\ UNCHANGED <<tree, miss, dataModified>>

Climb ==
  \/ First \/ Relink \/ NoRelink \/ RetryRelinked \/ Fetch \/ NoFetch
  \/ RetryFetched \/ Acquire \/ NoAcquire \/ Gpu \/ NoGpu \/ Fold
============================================================================
