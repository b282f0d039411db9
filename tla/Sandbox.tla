------------------------------ MODULE Sandbox -------------------------------
(***************************************************************************)
(* One call of run_e2b (spike/runner/e2b_runner.py): boot one microVM,     *)
(* install, complete the repository's inputs, run the entry point K times  *)
(* in it, release it.  Warm snapshots, off unless the operator asks for    *)
(* them, are left out.                                                     *)
(*                                                                         *)
(* Time is the integer `clock`, seconds since the call began; a command    *)
(* takes a chosen time and the machine is gone at the end of its life.     *)
(* Definitions named ..._Mutant are faulty variants of those they precede. *)
(***************************************************************************)
EXTENDS Integers, Sequences, FiniteSetsExt

CONSTANTS
  Deps,         \* distributions
  Needs,        \* those the entry point imports
  Files, Bins,  \* inputs and tools an acquisition step may name as missing
  K,            \* runs asked for
  InstTimeout, RunTimeout, Slack, Cap,  \* what the machine's life is sized from
  Floor,        \* _ADAPTIVE_K_FLOOR_S
  Pull,         \* bound: time to copy a capture file back
  Python,       \* whether an install may ask for another interpreter
  Rounds        \* resolve-and-retry rounds of an acquisition

ASSUME SandboxAssumption ==
  /\ IsFiniteSet(Deps) /\ Needs \subseteq Deps
  /\ IsFiniteSet(Files) /\ IsFiniteSet(Bins) /\ Files \cap Bins = {}
  /\ K \in Nat \ {0} /\ Rounds \in Nat
  /\ {InstTimeout, RunTimeout, Slack, Cap} \subseteq Nat \ {0}
  /\ Pull \in Nat /\ Floor \in Nat \ {0} /\ Pull < Floor
  /\ Python \in BOOLEAN

Items == Files \cup Bins

\* effector.size_sandbox_life
Life == LET whole == InstTimeout + K * RunTimeout + Slack
        IN  IF whole <= Cap THEN whole ELSE Cap

\* What the caller asks for.
Call == [pip : SUBSET Deps, strict : BOOLEAN, acquire : BOOLEAN, fetch : BOOLEAN]

\* What a run left behind; rc is whether the return code was 0.
Meta == [rc : BOOLEAN, killed : BOOLEAN, missing : SUBSET Deps, seconds : Nat]

VARIABLES
  stage,    \* where the call is
  call,     \* its arguments
  sbx,      \* the machine: "none", "up", "gone"
  clock,    \* time since the call began
  has,      \* distributions installed
  ladder,   \* the rung of the install's repair ladder
  named,    \* what the failing acquisition steps report missing
  seen,     \* resolved and tried_bin
  round,    \* resolve-and-retry rounds done
  fetched,  \* data_fetched
  runs,     \* computations captured, run by run
  meta,     \* what the runs returned
  capped,   \* adaptive_k_capped
  result,   \* the value returned
  tries,    \* history: times an item was looked for
  auto      \* history: files put in the machine from the network

progress == <<clock, has, ladder>>
acquisition == <<named, seen, round, tries>>
outcome == <<runs, meta, capped>>
sandbox == <<stage, call, sbx, progress, acquisition, fetched, auto, outcome, result>>

Result == [ok : BOOLEAN, captured : BOOLEAN, missing : SUBSET Deps, flagged : BOOLEAN]
NoResult == [ok |-> FALSE, captured |-> FALSE, missing |-> {}, flagged |-> FALSE]

SandboxTypeOK ==
  /\ stage \in {"idle", "boot", "install", "fetch", "acquire", "resolve", "run", "close", "end"}
  /\ call \in Call
  /\ sbx \in {"none", "up", "gone"}
  /\ clock \in 0..Life
  /\ has \subseteq Deps
  /\ ladder \in {"asked", "bumped"}
  /\ named \subseteq Items /\ seen \subseteq Items /\ round \in 0..Rounds
  /\ fetched \in Nat
  /\ runs \in Seq(BOOLEAN) /\ meta \in Seq(Meta)
  /\ Len(runs) = Len(meta) /\ Len(meta) <= K
  /\ capped \in BOOLEAN
  /\ result \in Result
  /\ tries \in [Items -> Nat] /\ auto \subseteq Files

NoCall == [pip |-> {}, strict |-> TRUE, acquire |-> FALSE, fetch |-> FALSE]

SandboxInit ==
  /\ stage = "idle" /\ call = NoCall /\ sbx = "none" /\ result = NoResult
  /\ clock = 0 /\ has = {} /\ ladder = "asked"
  /\ named = {} /\ seen = {} /\ round = 0 /\ tries = [i \in Items |-> 0]
  /\ fetched = 0 /\ auto = {}
  /\ runs = <<>> /\ meta = <<>> /\ capped = FALSE

\* A new call: everything it keeps starts anew.
Begun(s, c) ==
  /\ stage' = s /\ call' = c /\ sbx' = "none" /\ result' = NoResult
  /\ clock' = 0 /\ has' = {} /\ ladder' = "asked"
  /\ named' = {} /\ seen' = {} /\ round' = 0 /\ tries' = [i \in Items |-> 0]
  /\ fetched' = 0 /\ auto' = {}
  /\ runs' = <<>> /\ meta' = <<>> /\ capped' = FALSE

----------------------------------------------------------------------------
(* Setting the machine up.  A step that raises ends the call: the machine  *)
(* is killed and every run is reported as failed.                          *)

\* The machine of a failed setup is left running.
Release_Mutant == IF stage = "run" /\ sbx = "up" THEN "gone" ELSE sbx
Release == IF sbx = "up" THEN "gone" ELSE sbx

SetupError ==
  /\ stage' = "end" /\ sbx' = Release /\ result' = NoResult
  /\ UNCHANGED <<call, progress, acquisition, fetched, auto, outcome>>

Boot ==
  /\ stage = "boot"
  /\ \/ /\ sbx' = "up" /\ stage' = "install"
        /\ UNCHANGED <<call, progress, acquisition, fetched, auto, outcome, result>>
     \/ SetupError

\* After the install: data sources, then acquisition, then the runs.
AfterInstall ==
  stage' = CASE call.fetch -> "fetch" [] call.acquire /\ ~call.fetch -> "acquire"
             [] OTHER -> "run"

\* A strict list is installed whole; of a tolerant one, what fails is skipped.
Installs(strict) == IF strict THEN {call.pip} ELSE SUBSET call.pip

Install ==
  /\ stage = "install"
  /\ \E got \in Installs(call.strict), t \in {0, InstTimeout} :
       clock + t < Life /\ has' = has \cup got /\ clock' = clock + t
  /\ AfterInstall
  /\ UNCHANGED <<call, sbx, ladder, acquisition, fetched, auto, outcome, result>>

\* A dependency needs an interpreter newer than the one provisioned: provision
\* it, once, and retry the same list.
BumpPython ==
  /\ stage = "install" /\ Python /\ ladder = "asked" /\ call.pip # {}
  /\ ladder' = "bumped" /\ has' = {}
  /\ UNCHANGED <<stage, call, sbx, clock, acquisition, fetched, auto, outcome, result>>

\* Neither helped: the versions are relaxed and the list installed tolerantly,
\* unless it had no pins, or that raises too.
RelaxPins ==
  /\ stage = "install" /\ call.pip # {} /\ (call.strict \/ Python)
  /\ \/ /\ \E got \in Installs(FALSE) : has' = has \cup got
        /\ AfterInstall
        /\ UNCHANGED <<call, sbx, clock, ladder, acquisition, fetched, auto, outcome, result>>
     \/ SetupError

\* _fetch_data_sources: the planned inputs, each found or not.
FetchSources ==
  /\ stage = "fetch"
  /\ \E got \in SUBSET Files :
       /\ auto' = auto \cup got
       /\ fetched' = fetched + Cardinality(got)
  /\ stage' = IF call.acquire THEN "acquire" ELSE "run"
  /\ UNCHANGED <<call, sbx, progress, acquisition, outcome, result>>

----------------------------------------------------------------------------
(* _run_acquire: run the repository's own steps; what the failing ones say *)
(* is missing is looked for, each item once, and they are run again.       *)

\* The steps, or those that failed, run: all succeed, or some fail and name items.
\* What the loop kept ends with it.
Over == /\ stage' = "run"
        /\ named' = {} /\ seen' = {} /\ round' = 0 /\ tries' = [i \in Items |-> 0]

Acquire ==
  /\ stage = "acquire"
  /\ \/ Over
     \/ /\ stage' = "resolve" /\ named' \in SUBSET Items
        /\ UNCHANGED <<seen, round, tries>>
  /\ UNCHANGED <<call, sbx, progress, fetched, auto, outcome, result>>

\* Only what was found is remembered.
Attempted_Mutant(new, got) == seen \cup got
Attempted(new, got) == seen \cup new

\* The files found count as fetched; tools do not.
Found_Mutant(got) == IF round = 0 THEN Cardinality(got \cap Files) ELSE 0
Found(got) == Cardinality(got \cap Files)

Resolve ==
  /\ stage = "resolve" /\ round < Rounds
  /\ LET new == named \ seen IN
       /\ new # {}
       /\ \E got \in SUBSET new :
            /\ auto' = auto \cup (got \cap Files)
            /\ fetched' = fetched + Found(got)
            /\ \/ Over
               \/ /\ got # {}
                  /\ round' = round + 1
                  /\ tries' = [i \in Items |-> IF i \in new THEN tries[i] + 1 ELSE tries[i]]
                  /\ seen' = Attempted(new, got)
                  /\ stage' = "resolve" /\ named' \in SUBSET Items
  /\ UNCHANGED <<call, sbx, progress, outcome, result>>

\* Nothing new is reported, or the rounds are used up.
ResolvedEnough ==
  /\ stage = "resolve" /\ (named \subseteq seen \/ round = Rounds)
  /\ Over
  /\ UNCHANGED <<call, sbx, progress, fetched, auto, outcome, result>>

\* What else may raise before the runs.
SetupFails == stage \in {"fetch", "acquire"} /\ SetupError

\* The machine's life ends during the setup; the steps left fail, and those
\* that may not fail raise.
Expire ==
  /\ stage \in {"install", "fetch", "acquire", "resolve"}
  /\ clock' = Life /\ sbx' = "gone"
  /\ Over
  /\ UNCHANGED <<call, has, ladder, fetched, auto, outcome, result>>

----------------------------------------------------------------------------
(* The runs.  A re-run starts only when the slowest run so far, with a     *)
(* margin, fits what is left of the machine's life, and is cut before it.  *)

Remaining == Life - clock
Slowest == IF meta = <<>> THEN 0 ELSE Max({meta[i].seconds : i \in DOMAIN meta})
Fits == Remaining * 100 >= Slowest * 115 + Floor * 100

\* A re-run is given the whole run timeout.
Limit_Mutant == RunTimeout
Limit ==
  IF meta = <<>> THEN RunTimeout
  ELSE Max({1, Min({RunTimeout, Remaining - Floor})})

\* Not even the margin is left: the runs done are used.
SkipRerun ==
  /\ stage = "run" /\ meta # <<>> /\ ~Fits
  /\ capped' = TRUE /\ stage' = "close"
  /\ UNCHANGED <<call, sbx, progress, acquisition, fetched, auto, runs, meta, result>>

\* What the entry point may do in s seconds with what is installed: nothing
\* useful when the machine went away, and nothing but fail on a missing import.
Outcomes(s, alive) ==
  {m \in [rc : BOOLEAN, killed : BOOLEAN, missing : SUBSET Needs, seconds : {s}] :
     /\ m.rc => alive /\ Needs \subseteq has /\ ~m.killed
     /\ m.missing \subseteq Needs \ has /\ Cardinality(m.missing) <= 1
     /\ m.missing # {} => alive /\ ~m.killed /\ ~m.rc}

\* A re-run cut by the timeout is no sample of the run's results.
Sample(m, wrote) == wrote /\ ~(meta # <<>> /\ m.killed)

Ran(m, wrote) ==
  /\ meta' = Append(meta, m)
  /\ runs' = Append(runs, Sample(m, wrote))
  /\ capped' = (capped \/ (meta # <<>> /\ m.killed))
  /\ stage' = IF Len(meta') = K THEN "close" ELSE "run"
  /\ UNCHANGED <<call, has, ladder, acquisition, fetched, auto, result>>

\* A run of t whole seconds and a fraction; the timeout kills it at the limit.
Run ==
  /\ stage = "run" /\ (meta = <<>> \/ Fits)
  /\ \E t \in 0..Limit, pull \in 0..Pull :
       LET alive == sbx = "up" /\ clock + t + pull <= Life
           s == IF alive THEN t + pull ELSE Life - clock
       IN  /\ clock' = clock + s
           /\ sbx' = IF alive THEN "up" ELSE "gone"
           /\ \E m \in Outcomes(s, alive), wrote \in BOOLEAN :
                /\ m.killed => t = Limit \/ ~alive
                /\ wrote => alive
                /\ Ran(m, wrote)

\* The artifacts are read back, the machine is killed, the result shaped.
Close ==
  /\ stage = "close"
  /\ stage' = "end" /\ sbx' = "gone"
  /\ result' = [ok |-> \A i \in DOMAIN meta : meta[i].rc,
                captured |-> runs[1],
                missing |-> UNION {meta[i].missing : i \in DOMAIN meta},
                flagged |-> fetched > 0]
  /\ UNCHANGED <<call, progress, acquisition, fetched, auto, outcome>>

Session ==
  \/ Boot \/ Install \/ BumpPython \/ RelaxPins \/ FetchSources
  \/ Acquire \/ Resolve \/ ResolvedEnough \/ SetupFails \/ Expire
  \/ SkipRerun \/ Run \/ Close

----------------------------------------------------------------------------
(* Properties of one call *)

\* No re-run is still going when the machine's life ends, whatever the setup
\* and the earlier runs took (e2b_runner.py:820-832).
RerunWithinLife ==
  [][meta # <<>> /\ meta' # meta /\ meta' # <<>> => sbx' = "up"]_sandbox

\* An item that could not be found is not looked for again in a later round
\* (e2b_runner.py:342-369).
SoughtOnce == \A i \in Items : tries[i] <= 1

\* A result obtained with a file that came from the network says so, by which
\* a mismatch is kept from being called a refutation (e2b_runner.py:972).
FetchedIsFlagged == stage = "end" /\ meta # <<>> /\ auto # {} => result.flagged

\* However the call ends, no machine is left running.
SandboxReleased == stage = "end" => sbx # "up"
=============================================================================
