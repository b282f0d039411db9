---------------------------- MODULE Orchestrate -----------------------------
(***************************************************************************)
(* The make-runnable loop (spike/orchestrator/orchestrate.py): execute and *)
(* orchestrate, with the run_approach that the pipeline gives them.        *)
(*                                                                         *)
(* A session verifies one checkout: rank the candidates, run them in order *)
(* under a budget, observe each failure, supply missing data, revise, and  *)
(* return one result; as a last resort, run a synthesized driver.  What a  *)
(* run does is a free choice, two runs of one approach may differ.         *)
(* Sessions share the experience stores, and a checkout may be reused.     *)
(* Definitions named ..._Mutant are faulty variants of those they precede. *)
(***************************************************************************)
EXTENDS Experience

CONSTANTS
  Rankings,       \* what rank_approaches may return: sequences of approaches
  UserEntries,    \* approaches of a user-specified entry point
  StepCap,        \* Budget.step_cap
  MaxApproaches,  \* Budget.max_approaches
  Revisers,       \* sources of a revision beside the heuristic: "xpu", "hints", "llm"
  Synthesize,     \* whether a last-resort driver may be asked for
  Sessions        \* bound: sessions

ASSUME OrchestrateAssumption ==
  /\ Rankings \subseteq Seq(Approach)
  /\ UserEntries \subseteq Approach
  /\ StepCap \in Nat \ {0} /\ MaxApproaches \in Nat \ {0}
  /\ Revisers \subseteq {"xpu", "hints", "llm"}
  /\ Synthesize \in BOOLEAN
  /\ Sessions \in Nat

VARIABLES
  at,        \* where the session is
  session,   \* sessions begun
  queue,     \* candidates not done with, the current one first
  rev,       \* revisions of the current candidate: with their number, the object
  tried,     \* approach keys not to run again
  resolved,  \* keys whose missing data was looked for
  pending,   \* the fix applied last and the failure it was for, or None
  steps,     \* Budget._steps
  best,      \* best_effort, or None
  result,    \* the run under observation; at the end, what is returned
  swapped,   \* _data_modified is not empty
  holder,    \* the run whose fuzz emit the pipeline holds
  hints, xpu, journal, known,  \* the stores
  driver,    \* session whose driver and predictions are in the checkout, 0 for none
  runs,      \* history: keys run in this session, with the data they had
  learned    \* history: fixes banked in this session

stores == <<hints, xpu, journal, known>>
loop == <<queue, rev, tried, resolved, pending, steps, best>>
history == <<runs, learned>>
vars == <<at, session, loop, result, swapped, holder, stores, driver, history>>

\* A run: what it was a run of (synthesized ones have no candidate's approach),
\* its place in the order of runs, and source_modified.
Result == [of : Approach \cup {None}, nth : Nat, ok : BOOLEAN, captured : BOOLEAN,
           fault : Faults, rev : Nat, capped : BOOLEAN]
Nothing == [of |-> None, nth |-> 0, ok |-> FALSE, captured |-> FALSE,
            fault |-> "errored", rev |-> 0, capped |-> FALSE]
Success(r) == r.ok /\ r.captured

TypeOK ==
  /\ at \in {"idle", "loop", "observe", "fold", "settle", "raised"}
  /\ session \in 0..Sessions
  /\ queue \in Seq(Approach)
  /\ rev \in Nat /\ steps \in 0..StepCap /\ holder \in Nat
  /\ tried \subseteq Approach /\ resolved \subseteq Approach
  /\ pending \in [sig : Faults, fix : Fixes] \cup {None}
  /\ best \in Result \cup {None} /\ result \in Result
  /\ swapped \in BOOLEAN /\ driver \in 0..Sessions
  /\ hints \in [Sigs -> Fixes \cup {None}]
  /\ xpu \in [Sigs -> Unit \cup {None}]
  /\ journal \in [Sigs -> [Fixes -> [s : Nat, f : Nat]]]
  /\ known \in Approach \cup {None}
  /\ runs \in [Approach -> Nat]
  /\ learned \subseteq [sig : Faults, fix : Fixes]

NoLoop ==
  /\ queue = <<>> /\ rev = 0 /\ tried = {} /\ resolved = {} /\ pending = None
  /\ steps = 0 /\ best = None
Init ==
  /\ at = "idle" /\ session = 0 /\ NoLoop
  /\ result = Nothing /\ swapped = FALSE /\ holder = 0
  /\ hints = [g \in Sigs |-> None] /\ xpu = NoUnits
  /\ journal = EmptyJournal /\ known = None /\ driver = 0
  /\ runs = [a \in Approach |-> 0] /\ learned = {}

Current == Head(queue)

----------------------------------------------------------------------------
(* orchestrate, before the loop: the reserved files go, then the cached    *)
(* approach is put ahead of the ranking and the user's entry ahead of both.*)

\* The reserved files of an earlier session stay.
Purge_Mutant == driver
Purge == 0

Queue(ranking, hit, user) ==
  LET cached == IF hit = None THEN ranking ELSE AheadByKey(hit, ranking)
      all == IF user = None THEN cached ELSE AheadByEntry(user, cached)
  IN  SubSeq(all, 1, IF Len(all) < MaxApproaches THEN Len(all) ELSE MaxApproaches)

\* The list has nothing but approaches in it: SelectSeq only leaves some out, of
\* which the provers know nothing.
ASSUME QueueAssumption ==
  \A ranking \in Rankings, hit \in Approach \cup {None}, user \in UserEntries \cup {None} :
    Queue(ranking, hit, user) \in Seq(Approach)

Begin ==
  /\ at = "idle" /\ session < Sessions
  /\ \E ranking \in Rankings, user \in UserEntries \cup {None} :
       queue' = Queue(ranking, known, user)
  /\ session' = session + 1
  /\ driver' = Purge
  /\ at' = "loop"
  /\ rev' = 0 /\ tried' = {} /\ resolved' = {} /\ pending' = None
  /\ steps' = 0 /\ best' = None
  /\ result' = Nothing /\ swapped' = FALSE /\ holder' = 0
  /\ runs' = [a \in Approach |-> 0] /\ learned' = {}
  /\ UNCHANGED stores

----------------------------------------------------------------------------
(* execute *)

\* _finish: the first run that did not succeed, or nothing at all.
Finish ==
  /\ result' = IF best = None THEN Nothing ELSE best
  /\ at' = "fold"

\* The inner loop is continued where it should be left.
Rest_Mutant == queue
Rest == Tail(queue)
NextCandidate ==
  /\ queue' = Rest /\ rev' = 0 /\ pending' = None
  /\ at' = "loop"

\* stop_reason: the step ceiling; the token ceiling and the deadline are not
\* set by the pipeline.
OverBudget_Mutant == steps > StepCap
OverBudget == steps >= StepCap

Stop ==
  /\ at = "loop" /\ queue # <<>> /\ OverBudget
  /\ Finish
  /\ UNCHANGED <<session, loop, swapped, holder, stores, driver, history>>

Exhausted ==
  /\ at = "loop" /\ queue = <<>>
  /\ Finish
  /\ UNCHANGED <<session, loop, swapped, holder, stores, driver, history>>

Oscillate ==
  /\ at = "loop" /\ queue # <<>> /\ ~OverBudget
  /\ Current \in tried
  /\ NextCandidate
  /\ UNCHANGED <<session, tried, resolved, steps, best, result, swapped, holder,
                 stores, driver, history>>

\* A driver that is not in the checkout does not run.
Possible(r) ==
  /\ Success(r) => r.fault = "errored"
  /\ r.of = Driver /\ driver = 0 => ~r.ok /\ ~r.captured /\ r.fault = "errored"

\* A fix that was applied and has a signature to be remembered under.
Counts(p) == p # None /\ p.sig \in Sigs

\* A win banks the pending fix in every store there is.
BankPending ==
  /\ hints' = [hints EXCEPT ![pending.sig] = pending.fix]
  /\ xpu' = Recorded(xpu, pending.sig, pending.fix)
  /\ journal' = Journaled(journal, pending.sig, pending.fix, TRUE)
  /\ learned' = learned \cup {pending}

\* A fix is banked when it was run, whatever came of it.
Bank_Mutant(r) ==
  IF Counts(pending) THEN BankPending ELSE UNCHANGED <<hints, xpu, journal, learned>>
Bank(r) ==
  IF Success(r) /\ Counts(pending)
  THEN BankPending ELSE UNCHANGED <<hints, xpu, journal, learned>>

\* fuzz_holder.update, by each run.
Held_Mutant(n) == IF holder = 0 THEN n ELSE holder
Held(n) == n

\* best_effort: the first failure, unless the same object ran better since.
Best(r) ==
  IF best = None THEN r
  ELSE IF r.ok /\ ~best.ok /\ best.of = r.of /\ best.rev = r.rev THEN r ELSE best

\* An approach is tried before its run; what the run raises is a failed run.
Run ==
  /\ at = "loop" /\ queue # <<>> /\ ~OverBudget
  /\ Current \notin tried
  /\ \E ok \in BOOLEAN, captured \in BOOLEAN, fault \in Faults :
       LET r == [of |-> Current, nth |-> steps + 1, ok |-> ok, captured |-> captured,
                 fault |-> fault, rev |-> rev, capped |-> FALSE]
       IN  /\ Possible(r)
           /\ result' = r
           /\ Bank(r)
           /\ IF Success(r) THEN at' = "fold" /\ best' = best
                            ELSE at' = "observe" /\ best' = Best(r)
  /\ tried' = tried \cup {Current}
  /\ steps' = steps + 1
  /\ holder' = Held(steps + 1)
  /\ runs' = [runs EXCEPT ![Current] = @ + 1]
  /\ UNCHANGED <<session, queue, rev, resolved, pending, swapped, known, driver>>

\* observe: missing data is looked for once for each approach; a missing file
\* or a GPU otherwise ends the session with the run that met it.
Remediable_Mutant == result.fault = "missing-data"
Remediable == result.fault = "missing-data" /\ Current \notin resolved
Environmental == result.fault \in {"missing-data", "needs-gpu"}

\* resolve_data places the file: a committed one of that name, or else another,
\* a fetched one or with a rewritten path, which the manifest lists.
Remediate ==
  /\ at = "observe" /\ Remediable
  /\ resolved' = resolved \cup {Current}
  /\ \/ /\ tried' = tried \ {Current}
        /\ swapped' \in {swapped, TRUE}
        /\ at' = "loop"
     \/ /\ at' = "fold"
        /\ UNCHANGED <<tried, swapped>>
  /\ UNCHANGED <<session, queue, rev, pending, steps, best, result, holder,
                 stores, driver, history>>

Surface ==
  /\ at = "observe" /\ Environmental /\ ~Remediable
  /\ at' = "fold"
  /\ UNCHANGED <<session, loop, result, swapped, holder, stores, driver, history>>

----------------------------------------------------------------------------
(* make_revise: the experience store, the hints, the missing module, and a *)
(* model asked last, each only when the ones before had no answer.         *)

FromXpu ==
  IF "xpu" \in Revisers
  THEN {IF u = None THEN None ELSE WithFix(Current, u.fix) : u \in Retrieved(xpu, result.fault)}
  ELSE {None}
FromHints ==
  IF "hints" \in Revisers /\ result.fault \in Sigs /\ hints[result.fault] # None
  THEN WithFix(Current, hints[result.fault]) ELSE None
FromHeuristic == IF result.fault \in Deps THEN WithFix(Current, result.fault) ELSE None

\* The model may name a package, a variable or both.
FromModel ==
  {None} \cup
  (IF "llm" \in Revisers
   THEN {[Current EXCEPT !.has = @ \cup more] :
           more \in {m \in SUBSET (Fixes \ Current.has) :
                       m # {} /\ Cardinality(m \cap Deps) <= 1 /\ Cardinality(m \cap Vars) <= 1}}
   ELSE {})

Revisions ==
  UNION {IF a # None THEN {a}
         ELSE IF FromHints # None THEN {FromHints}
         ELSE IF FromHeuristic # None THEN {FromHeuristic}
         ELSE FromModel : a \in FromXpu}

GiveUp(a) == IF a = None THEN TRUE ELSE ~SafeDelta(Current, a) \/ a \in tried

\* The fix before was followed by this failure: a loss.
Lose == journal' = IF Counts(pending)
                   THEN Journaled(journal, pending.sig, pending.fix, FALSE) ELSE journal

Revise ==
  /\ at = "observe" /\ ~Environmental
  /\ \E a \in Revisions :
       IF GiveUp(a)
       THEN NextCandidate /\ UNCHANGED journal
       ELSE /\ queue' = <<a>> \o Tail(queue) /\ rev' = rev + 1
            /\ Lose
            /\ pending' = [sig |-> result.fault, fix |-> FixDelta(Current, a)]
            /\ at' = "loop"
  /\ UNCHANGED <<session, tried, resolved, steps, best, result, swapped, holder,
                 hints, xpu, known, driver, runs, learned>>

----------------------------------------------------------------------------
(* orchestrate, after the loop *)

\* A last resort within the budget, unless the repository commits predictions
\* of its own or the planner declines.  It is not charged.
SynthesizedRun ==
  /\ at = "fold" /\ Synthesize /\ ~result.captured /\ ~OverBudget
  /\ driver' = session
  /\ \E ok \in BOOLEAN, captured \in BOOLEAN :
       LET syn == [of |-> Driver, nth |-> steps + 1, ok |-> ok, captured |-> captured,
                   fault |-> "errored", rev |-> 0, capped |-> TRUE]
       IN  result' = IF captured \/ ok THEN syn ELSE result
  /\ holder' = Held(steps + 1)
  /\ at' = "settle"
  /\ UNCHANGED <<session, loop, swapped, stores, history>>

\* run_approach is not guarded here as it is in the loop.
SynthesizedRunRaises ==
  /\ at = "fold" /\ Synthesize /\ ~result.captured /\ ~OverBudget
  /\ driver' = session
  /\ at' = "raised"
  /\ UNCHANGED <<session, loop, result, swapped, holder, stores, history>>

NoSynthesis ==
  /\ at = "fold"
  /\ at' = "settle"
  /\ UNCHANGED <<session, loop, result, swapped, holder, stores, driver, history>>

\* The data the resolver placed caps the verdict, and so does a driver found in
\* the checkout by the pipeline's snapshots; what ran is remembered.
Settle_Mutant ==
  /\ at = "settle"
  /\ result' = [result EXCEPT !.capped = @ \/ swapped]
  /\ known' = IF result.ok THEN result.of ELSE known
  /\ at' = "idle"
  /\ UNCHANGED <<session, loop, swapped, holder, hints, xpu, journal, driver, history>>

Settle ==
  /\ at = "settle"
  /\ result' = [result EXCEPT !.capped = @ \/ swapped \/ driver = session]
  /\ known' = IF result.ok THEN result.of ELSE known
  /\ at' = "idle"
  /\ UNCHANGED <<session, loop, swapped, holder, hints, xpu, journal, driver, history>>

\* Between sessions, the offline pass over the journal.
Distill ==
  /\ at = "idle"
  /\ xpu' = Distilled(journal, xpu)
  /\ UNCHANGED <<at, session, loop, result, swapped, holder, hints, journal, known,
                 driver, history>>

Step == \/ Stop \/ Exhausted \/ Oscillate \/ Run \/ Remediate \/ Surface \/ Revise
        \/ SynthesizedRun \/ SynthesizedRunRaises \/ NoSynthesis \/ Settle
Next == Begin \/ Step \/ Distill

Spec == Init /\ [][Next]_vars
\* execute and orchestrate are one thread of control with bounded calls.
FairSpec == Spec /\ WF_vars(Step)

----------------------------------------------------------------------------
(* Properties *)

\* An approach runs once, and once more when data was placed for it: neither
\* two candidates that come to the same nor a revision thrashes.
RunsPerApproach ==
  \A a \in Approach : runs[a] <= IF a \in resolved THEN 2 ELSE 1

\* A fix enters the stores only with the success of a run that carries it.
LearnedFromSuccess ==
  learned # {} => Success(result) /\ \A l \in learned : l.fix \in result.of.has

\* Whatever placed data of another origin in the checkout or wrote a driver
\* there, the result handed to the verdict is capped: also when the run that is
\* returned is not the one that did it, and when the driver's run was dropped.
ForeignInputsCap ==
  at = "idle" /\ session > 0 /\ (swapped \/ driver = session) => result.capped

\* Predictions of a synthesized driver are of this session: none is left from
\* an earlier one on the same checkout.
NoStaleDriver == driver \in {0, session}

\* The fuzz emit the pipeline keeps is the one of the run that is returned when
\* that run succeeded, whatever ran before it.
FuzzIsTheWinners == at # "loop" /\ Success(result) => holder = result.nth

\* Every session ends: with a result, or with what the synthesized run raised.
SessionEnds == at = "loop" ~> at \in {"idle", "raised"}

\* What is promised: at most StepCap runs, the synthesized one among them
\* though nothing charges it, and no run after a success.
Spent == IF driver = session /\ session > 0 THEN 1 ELSE 0
Promise == INSTANCE MakeRunnable WITH
  Ceiling <- StepCap,
  open <- at # "idle",
  attempts <- steps + Spent,
  won <- Success(result)
ImplementsMakeRunnable == Promise!Spec

=============================================================================
