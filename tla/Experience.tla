----------------------------- MODULE Experience -----------------------------
(***************************************************************************)
(* What the make-runnable loop decides with, and what it remembers from    *)
(* one repository to the next: run approaches (spike/orchestrator/types,   *)
(* orchestrate), the approach cache, the hint store and the run journal    *)
(* (cache.py), the experience store (xpu.py) and the offline pass that     *)
(* feeds the journal back into it (distill.py).                            *)
(*                                                                         *)
(* An approach is an entry point and the set of fixes it carries, each a   *)
(* package to install or a variable to set; its notes and confidence are   *)
(* left out, so two approaches with one approach_key are equal here.       *)
(***************************************************************************)
EXTENDS Integers, FiniteSets, Sequences

CONSTANTS
  Entries,   \* entry points of the repository
  Deps,      \* packages a failure may ask for
  Vars       \* environment variables a fix may set, each to its one value

ASSUME ExperienceAssumption ==
  /\ "calma_eval.py" \notin Entries /\ IsFiniteSet(Entries)
  /\ IsFiniteSet(Deps) /\ IsFiniteSet(Vars)
  /\ Deps \cap Vars = {}
  /\ (Deps \cup Vars) \cap {"missing-data", "needs-gpu", "too-heavy", "errored"} = {}

Fixes == Deps \cup Vars

\* The driver that is synthesized when nothing captured a number, written into
\* the checkout under a reserved name.
Driver == [entry |-> "calma_eval.py", has |-> {}]
Approach == [entry : Entries \cup {"calma_eval.py"}, has : SUBSET Fixes]

\* No value: the None of the program.
None == [none |-> TRUE]

\* What classify_failure and error_signature make of the stderr of a failure: a
\* missing module is named by the package that provides it, "errored" has no
\* signature and is learnt from never.
Faults == Deps \cup {"missing-data", "needs-gpu", "too-heavy", "errored"}
Sigs == Faults \ {"errored"}

----------------------------------------------------------------------------
(* Approaches *)

\* _with_dep, _with_env: an added fix, or None when it is there already.
WithFix(a, f) == IF f \in a.has THEN None ELSE [a EXCEPT !.has = @ \cup {f}]

\* _safe_delta: the same entry, and no fix lost.
SafeDelta(old, new) == old.entry = new.entry /\ old.has \subseteq new.has

\* _fix_delta: the one fix that a revision is remembered by, a package before a
\* variable.
FixDelta(old, new) ==
  LET added == new.has \ old.has
  IN  CHOOSE f \in added : added \cap Deps # {} => f \in Deps

\* A candidate that goes first takes the place of its equals further down.
AheadByKey(a, queue) == <<a>> \o SelectSeq(queue, LAMBDA b : b # a)
AheadByEntry(a, queue) == <<a>> \o SelectSeq(queue, LAMBDA b : b.entry # a.entry)

----------------------------------------------------------------------------
(* The experience store: at most one unit for a signature *)

Unit == [fix : Fixes, s : Nat, f : Nat]
NoUnits == [g \in Sigs |-> None]

\* success_rate() >= _DEMOTE_FLOOR (0.34), 1.0 for a unit without a trial.
Live(u) == u # None /\ (u.s + u.f = 0 \/ 100 * u.s >= 34 * (u.s + u.f))

\* _retrieve: the exact signature, else whatever symptom is close enough, if
\* any; the embedding and its cosine are not modelled.
Retrieved(units, g) ==
  IF g \in Sigs /\ Live(units[g]) THEN {units[g]}
  ELSE {units[h] : h \in {h \in Sigs : Live(units[h])}} \cup {None}

\* LocalXPU.record: a known signature changes its fix and keeps its counts.
Recorded(units, g, fix) ==
  [units EXCEPT ![g] = IF @ = None THEN [fix |-> fix, s |-> 0, f |-> 0]
                       ELSE [@ EXCEPT !.fix = fix]]

----------------------------------------------------------------------------
(* The run journal, as the number of wins and losses of each fix for each  *)
(* signature: nothing reads the order of its lines.  Its ring of 20000     *)
(* lines is not reached here.                                              *)

EmptyJournal == [g \in Sigs |-> [f \in Fixes |-> [s |-> 0, f |-> 0]]]
Counted(t, won) == IF won THEN [s |-> t.s + 1, f |-> t.f] ELSE [s |-> t.s, f |-> t.f + 1]
Journaled(journal, g, fix, won) == [journal EXCEPT ![g][fix] = Counted(@, won)]

Tried(journal, g) == {f \in Fixes : journal[g][f].s + journal[g][f].f > 0}

\* The fix with the most net successes, wins deciding a tie.
Better(x, y) == x.s - x.f > y.s - y.f \/ (x.s - x.f = y.s - y.f /\ x.s >= y.s)
BestFix(journal, g) ==
  CHOOSE f \in Tried(journal, g) :
    \A h \in Tried(journal, g) : Better(journal[g][f], journal[g][h])

\* distill: a fix that works across runs is absorbed with its counts; one that
\* does not is dropped from the pass, and a unit of the store stays as it was.
Works(t) == t.s > t.f /\ 100 * t.s >= 34 * (t.s + t.f)
Distilled(journal, units) ==
  [g \in Sigs |->
     IF Tried(journal, g) = {} THEN units[g]
     ELSE LET f == BestFix(journal, g) t == journal[g][f]
          IN  IF Works(t) THEN [fix |-> f, s |-> t.s, f |-> t.f] ELSE units[g]]
============================================================================
