------------------------- MODULE OrchestrateProofs --------------------------
(***************************************************************************)
(* Proofs about Orchestrate: its types, how often an approach runs, what   *)
(* the stores learn, what caps a result, and that the loop implements      *)
(* MakeRunnable.                                                           *)
(***************************************************************************)
EXTENDS Orchestrate, FiniteFacts

USE ExperienceAssumption, OrchestrateAssumption

\* Where the loop stands: a candidate is under way while one is observed, it
\* was tried, nothing has succeeded yet, and no driver was written.
Flow ==
  /\ at \in {"loop", "observe"} => ~Success(result) /\ learned = {} /\ driver = 0
  /\ at = "observe" => queue # <<>> /\ Current \in tried
  /\ at = "fold" => driver = 0
  /\ at \in {"loop", "observe"} /\ best # None => ~Success(best)
  /\ session = 0 => at = "idle" /\ driver = 0

\* The pending fix is one the current candidate carries.
Carried ==
  at \in {"loop", "observe"} /\ pending # None => queue # <<>> /\ pending.fix \in Current.has

\* The runs of an approach, by the ways it came to be run again.
RunsCounted ==
  \A a \in Approach :
    runs[a] <= (IF a \in resolved THEN 1 ELSE 0) + (IF a \in tried THEN 1 ELSE 0)

IInv == /\ TypeOK /\ Flow /\ Carried /\ RunsCounted
        /\ LearnedFromSuccess /\ ForeignInputsCap /\ FuzzIsTheWinners

-----------------------------------------------------------------------------
(* The operators of Experience *)

\* None is no approach, no result and no pending fix.
LEMMA NoneIsNone ==
  /\ None \notin Approach
  /\ \A p \in [sig : Faults, fix : Fixes] : p # None
  /\ \A u \in Unit : u # None
  /\ None \notin Result
<1>1. DOMAIN None = {"none"}
  BY DEF None
<1>2. \A a \in Approach : DOMAIN a = {"entry", "has"}
  BY DEF Approach
<1>3. \A p \in [sig : Faults, fix : Fixes] : DOMAIN p = {"sig", "fix"}
  OBVIOUS
<1>4. \A u \in Unit : DOMAIN u = {"fix", "s", "f"}
  BY DEF Unit
<1>5. \A r \in Result : DOMAIN r = {"of", "nth", "ok", "captured", "fault", "rev", "capped"}
  BY DEF Result
<1> QED
  BY <1>1, <1>2, <1>3, <1>4, <1>5

\* A revised approach is an approach, and one more fix is carried by it.
LEMMA WithFixType ==
  ASSUME NEW a \in Approach, NEW f \in Fixes
  PROVE  WithFix(a, f) \in Approach \cup {None}
  BY DEF WithFix, Approach

\* A fix that is remembered was added by the revision.
LEMMA FixDeltaAdded ==
  ASSUME NEW a \in Approach, NEW b \in Approach, SafeDelta(a, b), a # b
  PROVE  FixDelta(a, b) \in b.has /\ FixDelta(a, b) \in Fixes
<1> DEFINE added == b.has \ a.has
<1>1. added # {}
  <2>1. a.has # b.has
    BY DEF Approach, SafeDelta
  <2> QED
    BY <2>1 DEF SafeDelta
<1>2. \E f \in added : added \cap Deps # {} => f \in Deps
  BY <1>1
<1>3. FixDelta(a, b) \in added
  BY <1>2 DEF FixDelta
<1> QED
  BY <1>3 DEF Approach, Fixes

\* The stores keep their types when a fix is recorded, won or lost.
LEMMA RecordedType ==
  ASSUME NEW units \in [Sigs -> Unit \cup {None}], NEW g \in Sigs, NEW f \in Fixes
  PROVE  Recorded(units, g, f) \in [Sigs -> Unit \cup {None}]
  BY NoneIsNone DEF Recorded, Unit

LEMMA JournaledType ==
  ASSUME NEW j \in [Sigs -> [Fixes -> [s : Nat, f : Nat]]], NEW g \in Sigs, NEW x \in Fixes,
         NEW won \in BOOLEAN
  PROVE  Journaled(j, g, x, won) \in [Sigs -> [Fixes -> [s : Nat, f : Nat]]]
<1>1. Counted(j[g][x], won) \in [s : Nat, f : Nat]
  BY DEF Counted
<1>2. Journaled(j, g, x, won) = [j EXCEPT ![g] = [j[g] EXCEPT ![x] = Counted(j[g][x], won)]]
  BY DEF Journaled
<1> QED
  BY <1>1, <1>2

\* Better is a total preorder of the counts.
LEMMA BetterOrder ==
  ASSUME NEW x \in [s : Nat, f : Nat], NEW y \in [s : Nat, f : Nat], NEW z \in [s : Nat, f : Nat]
  PROVE  /\ Better(x, x)
         /\ Better(x, y) \/ Better(y, x)
         /\ Better(x, y) /\ Better(y, z) => Better(x, z)
  BY DEF Better

\* Of the fixes tried for a signature there is a best one: that with the fewest
\* fixes better than it.
LEMMA BestFixExists ==
  ASSUME NEW j \in [Sigs -> [Fixes -> [s : Nat, f : Nat]]], NEW g \in Sigs, Tried(j, g) # {}
  PROVE  BestFix(j, g) \in Fixes
<1> DEFINE S == Tried(j, g)
           above == [x \in S |-> {h \in S : ~Better(j[g][x], j[g][h])}]
<1>1. S \subseteq Fixes /\ IsFiniteSet(S)
  <2>1. IsFiniteSet(Fixes)
    BY FS_Union DEF Fixes
  <2>2. S \subseteq Fixes
    BY DEF Tried
  <2> QED
    BY <2>1, <2>2, FS_Subset
<1>2. above \in [S -> SUBSET S]
  OBVIOUS
<1>3. \E x \in S : \A y \in S : ~(above[y] \subseteq above[x] /\ above[y] # above[x])
  <2>1. S # {} /\ IsFiniteSet(S)
    BY <1>1
  <2>2. \A f \in [S -> SUBSET S] :
          \E x \in S : \A y \in S : ~(f[y] \subseteq f[x] /\ f[y] # f[x])
    <3> HIDE DEF S
    <3> QED
      BY ONLY <2>1, SmallestSubset
  <2> QED
    BY ONLY <1>2, <2>2
<1>4. PICK x \in S : \A y \in S : ~(above[y] \subseteq above[x] /\ above[y] # above[x])
  BY <1>3
<1>5. ASSUME NEW h \in S, ~Better(j[g][x], j[g][h])
      PROVE  FALSE
  <2>0. j[g][x] \in [s : Nat, f : Nat] /\ j[g][h] \in [s : Nat, f : Nat]
    BY <1>1
  <2>1. \A y \in S : j[g][y] \in [s : Nat, f : Nat]
    BY <1>1
  <2>2. Better(j[g][h], j[g][h]) /\ Better(j[g][h], j[g][x])
    BY <1>5, <2>0, BetterOrder
  <2>3. \A y \in S : Better(j[g][x], j[g][y]) => Better(j[g][h], j[g][y])
    BY <2>0, <2>1, <2>2, BetterOrder
  <2>4. above[h] \subseteq above[x] /\ h \in above[x] /\ h \notin above[h]
    BY <1>5, <2>2, <2>3
  <2> QED
    BY <1>4, <2>4
<1>6. \E f \in S : \A h \in S : Better(j[g][f], j[g][h])
  BY <1>5
<1> QED
  BY <1>1, <1>6 DEF BestFix

LEMMA DistilledType ==
  ASSUME NEW j \in [Sigs -> [Fixes -> [s : Nat, f : Nat]]], NEW units \in [Sigs -> Unit \cup {None}]
  PROVE  Distilled(j, units) \in [Sigs -> Unit \cup {None}]
<1>1. ASSUME NEW g \in Sigs, Tried(j, g) # {}
      PROVE  [fix |-> BestFix(j, g), s |-> j[g][BestFix(j, g)].s, f |-> j[g][BestFix(j, g)].f] \in Unit
  BY <1>1, BestFixExists DEF Unit
<1>2. ASSUME NEW g \in Sigs
      PROVE  Distilled(j, units)[g] \in Unit \cup {None}
  BY <1>1, <1>2 DEF Distilled
<1>3. Distilled(j, units) = [g \in Sigs |-> Distilled(j, units)[g]]
  BY DEF Distilled
<1> QED
  BY <1>2, <1>3

LEMMA RetrievedType ==
  ASSUME NEW units \in [Sigs -> Unit \cup {None}], NEW g \in Faults, NEW u \in Retrieved(units, g)
  PROVE  u = None \/ u \in Unit
  BY DEF Retrieved, Live

\* What a session runs in place of the current candidate is an approach.
LEMMA RevisionsType ==
  ASSUME TypeOK, queue # <<>>, NEW a \in Revisions
  PROVE  a = None \/ a \in Approach
<1>1. Current \in Approach
  BY DEF TypeOK, Current
<1>2. result.fault \in Faults
  BY DEF TypeOK, Result
<1>3. \A x \in FromXpu : x = None \/ x \in Approach
  <2>1. \A u \in Retrieved(xpu, result.fault) : u = None \/ u \in Unit
    BY <1>2, RetrievedType DEF TypeOK
  <2>2. \A u \in Unit : WithFix(Current, u.fix) \in Approach \cup {None}
    BY <1>1, WithFixType DEF Unit
  <2> QED
    BY <2>1, <2>2 DEF FromXpu
<1>4. FromHints = None \/ FromHints \in Approach
  BY <1>1, <1>2, WithFixType DEF FromHints, TypeOK
<1>5. FromHeuristic = None \/ FromHeuristic \in Approach
  BY <1>1, WithFixType DEF FromHeuristic, Fixes
<1>6. \A x \in FromModel : x = None \/ x \in Approach
  <2>1. \A m \in SUBSET Fixes : [Current EXCEPT !.has = @ \cup m] \in Approach
    BY <1>1 DEF Approach
  <2> QED
    BY <2>1 DEF FromModel
<1> QED
  BY <1>3, <1>4, <1>5, <1>6 DEF Revisions

-----------------------------------------------------------------------------
(* Every step keeps the invariant *)

LEMMA BeginKeeps ==
  ASSUME IInv, Begin
  PROVE  IInv'
<1> USE DEF IInv, Begin
<1>1. queue' \in Seq(Approach)
  BY QueueAssumption DEF TypeOK
<1>2. Nothing \in Result /\ ~Success(Nothing)
  BY DEF Nothing, Result, Success, Faults
<1>3. TypeOK'
  <2>1. session' \in 0..Sessions /\ driver' \in 0..Sessions /\ steps' \in 0..StepCap
    BY DEF TypeOK, Purge
  <2>2. /\ hints' \in [Sigs -> Fixes \cup {None}]
        /\ xpu' \in [Sigs -> Unit \cup {None}]
        /\ journal' \in [Sigs -> [Fixes -> [s : Nat, f : Nat]]]
        /\ known' \in Approach \cup {None}
    BY DEF TypeOK, stores
  <2>3. runs' \in [Approach -> Nat]
    OBVIOUS
  <2>4. /\ at' = "loop" /\ rev' = 0 /\ tried' = {} /\ resolved' = {} /\ pending' = None
        /\ best' = None /\ result' = Nothing /\ swapped' = FALSE /\ holder' = 0 /\ learned' = {}
    OBVIOUS
  <2> HIDE DEF IInv, Begin
  <2> QED
    BY <1>1, <1>2, <2>1, <2>2, <2>3, <2>4 DEF TypeOK
<1>4. /\ RunsCounted' /\ LearnedFromSuccess' /\ ForeignInputsCap' /\ FuzzIsTheWinners'
  BY DEF RunsCounted, LearnedFromSuccess, ForeignInputsCap, FuzzIsTheWinners
<1>5. Flow' /\ Carried'
  BY <1>2 DEF Flow, Carried, Purge, TypeOK, Success
<1> QED
  BY <1>3, <1>4, <1>5

LEMMA FinishKeeps ==
  ASSUME IInv, Stop \/ Exhausted
  PROVE  IInv'
<1> USE DEF IInv, Stop, Exhausted, Finish, loop, stores, history
<1>1. Nothing \in Result /\ ~Success(Nothing)
  BY DEF Nothing, Result, Success, Faults
<1>2. TypeOK' /\ ~Success(result)' /\ learned = {} /\ driver = 0
  BY <1>1 DEF TypeOK, Flow, Success
<1>3. Flow' /\ Carried'
  BY <1>2 DEF Flow, Carried, Current
<1>4. RunsCounted' /\ LearnedFromSuccess' /\ ForeignInputsCap' /\ FuzzIsTheWinners'
  BY <1>2 DEF RunsCounted, LearnedFromSuccess, ForeignInputsCap, FuzzIsTheWinners
<1> QED
  BY <1>2, <1>3, <1>4

LEMMA OscillateKeeps ==
  ASSUME IInv, Oscillate
  PROVE  IInv'
<1> USE DEF IInv, Oscillate, NextCandidate, Rest, stores, history
<1>1. TypeOK'
  BY DEF TypeOK
<1>2. Flow' /\ Carried' /\ RunsCounted' /\ LearnedFromSuccess' /\ ForeignInputsCap' /\ FuzzIsTheWinners'
  BY DEF Flow, Carried, Success, RunsCounted, LearnedFromSuccess, ForeignInputsCap, FuzzIsTheWinners
<1> QED
  BY <1>1, <1>2

\* A win banks the pending fix, which is typed as the stores are.
LEMMA BankTyped ==
  ASSUME TypeOK, NEW r \in Result, Bank(r)
  PROVE  /\ hints' \in [Sigs -> Fixes \cup {None}]
         /\ xpu' \in [Sigs -> Unit \cup {None}]
         /\ journal' \in [Sigs -> [Fixes -> [s : Nat, f : Nat]]]
         /\ learned' \subseteq [sig : Faults, fix : Fixes]
<1>1. CASE UNCHANGED <<hints, xpu, journal, learned>>
  BY <1>1 DEF TypeOK
<1>2. CASE Counts(pending) /\ BankPending
  <2>1. pending \in [sig : Faults, fix : Fixes] /\ pending.sig \in Sigs /\ pending.fix \in Fixes
    BY <1>2 DEF TypeOK, Counts
  <2>2. Recorded(xpu, pending.sig, pending.fix) \in [Sigs -> Unit \cup {None}]
    BY <2>1, RecordedType DEF TypeOK
  <2>3. Journaled(journal, pending.sig, pending.fix, TRUE) \in [Sigs -> [Fixes -> [s : Nat, f : Nat]]]
    BY <2>1, JournaledType DEF TypeOK
  <2> QED
    BY <1>2, <2>1, <2>2, <2>3 DEF BankPending, TypeOK
<1> QED
  BY <1>1, <1>2 DEF Bank

LEMMA RunKeeps ==
  ASSUME IInv, Run
  PROVE  IInv'
<1>1. PICK ok \in BOOLEAN, captured \in BOOLEAN, fault \in Faults :
        LET r == [of |-> Current, nth |-> steps + 1, ok |-> ok, captured |-> captured,
                  fault |-> fault, rev |-> rev, capped |-> FALSE]
        IN  /\ Possible(r)
            /\ result' = r
            /\ Bank(r)
            /\ IF Success(r) THEN at' = "fold" /\ best' = best
                             ELSE at' = "observe" /\ best' = Best(r)
  BY Zenon DEF Run
<1> USE DEF IInv
<1> DEFINE r == [of |-> Current, nth |-> steps + 1, ok |-> ok, captured |-> captured,
                 fault |-> fault, rev |-> rev, capped |-> FALSE]
<1>2. Current \in Approach /\ queue # <<>>
  BY DEF Run, TypeOK, Current
<1>3. r \in Result
  BY <1>2 DEF Result, TypeOK
<1>4. TypeOK'
  <2>1. steps + 1 \in 0..StepCap
    BY DEF Run, OverBudget, TypeOK
  <2>2. best' \in Result \cup {None}
    BY <1>1, <1>3 DEF Best, TypeOK
  <2>3. runs' \in [Approach -> Nat]
    BY <1>2 DEF Run, TypeOK
  <2>4. at' \in {"fold", "observe"} /\ result' = r /\ Bank(r)
    BY <1>1
  <2>5. /\ hints' \in [Sigs -> Fixes \cup {None}]
        /\ xpu' \in [Sigs -> Unit \cup {None}]
        /\ journal' \in [Sigs -> [Fixes -> [s : Nat, f : Nat]]]
        /\ learned' \subseteq [sig : Faults, fix : Fixes]
    BY <1>3, <2>4, BankTyped
  <2>6. /\ steps' = steps + 1 /\ tried' = tried \cup {Current} /\ holder' = steps + 1
        /\ UNCHANGED <<session, queue, rev, resolved, pending, swapped, known, driver>>
    BY DEF Run, Held
  <2> HIDE DEF IInv, r
  <2>7. TypeOK
    BY DEF IInv
  <2> QED
    BY <1>2, <1>3, <2>1, <2>2, <2>3, <2>4, <2>5, <2>6, <2>7 DEF TypeOK
<1>5. learned' = {} \/ (Success(r) /\ pending # None /\ learned' = {pending})
  BY <1>1 DEF Bank, BankPending, Counts, Flow, Run
<1>6. LearnedFromSuccess'
  BY <1>1, <1>5 DEF LearnedFromSuccess, Carried, Run
<1>7. RunsCounted'
  <2>1. /\ RunsCounted /\ runs \in [Approach -> Nat] /\ Current \in Approach
        /\ Current \notin tried
    BY <1>2 DEF TypeOK, Run
  <2>2. /\ tried' = tried \cup {Current} /\ resolved' = resolved
        /\ runs' = [runs EXCEPT ![Current] = @ + 1]
    BY DEF Run
  <2> HIDE DEF IInv
  <2> SUFFICES ASSUME NEW a \in Approach
               PROVE  runs'[a] <= (IF a \in resolved' THEN 1 ELSE 0)
                                    + (IF a \in tried' THEN 1 ELSE 0)
    BY DEF RunsCounted
  <2>3. /\ runs[a] \in Nat
        /\ runs[a] <= (IF a \in resolved THEN 1 ELSE 0) + (IF a \in tried THEN 1 ELSE 0)
    BY <2>1 DEF RunsCounted
  <2>4. CASE a = Current
    BY <2>1, <2>2, <2>3, <2>4
  <2>5. CASE a # Current
    <3>1. runs'[a] = runs[a] /\ (a \in tried' <=> a \in tried)
      BY <2>1, <2>2, <2>5
    <3> QED
      BY <2>2, <2>3, <3>1
  <2> QED
    BY <2>4, <2>5
<1>8. Flow' /\ Carried'
  BY <1>1, <1>2, <1>5, NoneIsNone DEF Flow, Carried, Run, Best, Current, Success
<1>9. ForeignInputsCap' /\ FuzzIsTheWinners'
  BY <1>1 DEF ForeignInputsCap, FuzzIsTheWinners, Run, Held
<1> QED
  BY <1>4, <1>6, <1>7, <1>8, <1>9

LEMMA RemediateKeeps ==
  ASSUME IInv, Remediate
  PROVE  IInv'
<1>1. Current \in Approach /\ Current \notin resolved /\ Current \in tried /\ queue # <<>>
  BY DEF IInv, TypeOK, Flow, Remediate, Remediable, Current
<1>2. TypeOK'
  BY <1>1 DEF IInv, TypeOK, Remediate, stores, history
<1>3. Flow' /\ Carried'
  BY DEF IInv, Flow, Carried, Remediate, Current, Success, stores, history
<1>4. RunsCounted'
  <2>1. CASE tried' = tried
    BY <2>1 DEF IInv, TypeOK, RunsCounted, Remediate, stores, history
  <2>2. CASE tried' = tried \ {Current}
    BY <1>1, <2>2 DEF IInv, TypeOK, RunsCounted, Remediate, stores, history
  <2> QED
    BY <2>1, <2>2 DEF Remediate
<1>5. LearnedFromSuccess' /\ ForeignInputsCap' /\ FuzzIsTheWinners'
  BY DEF IInv, Flow, LearnedFromSuccess, ForeignInputsCap, FuzzIsTheWinners, Success, Remediate, stores, history
<1> QED
  BY <1>2, <1>3, <1>4, <1>5 DEF IInv

LEMMA SurfaceKeeps ==
  ASSUME IInv, Surface \/ NoSynthesis
  PROVE  IInv'
<1> USE DEF IInv, Surface, NoSynthesis, loop, stores, history
<1>1. TypeOK'
  BY DEF TypeOK
<1>2. Flow' /\ Carried' /\ RunsCounted' /\ LearnedFromSuccess' /\ ForeignInputsCap'
  BY DEF Flow, Carried, Success, RunsCounted, LearnedFromSuccess, ForeignInputsCap
<1>3. FuzzIsTheWinners'
  BY DEF Flow, FuzzIsTheWinners, Success
<1> QED
  BY <1>1, <1>2, <1>3

LEMMA ReviseKeeps ==
  ASSUME IInv, Revise
  PROVE  IInv'
<1>1. PICK a \in Revisions :
        IF GiveUp(a)
        THEN NextCandidate /\ UNCHANGED journal
        ELSE /\ queue' = <<a>> \o Tail(queue) /\ rev' = rev + 1
             /\ Lose
             /\ pending' = [sig |-> result.fault, fix |-> FixDelta(Current, a)]
             /\ at' = "loop"
  BY DEF Revise
<1>2. /\ UNCHANGED <<session, tried, resolved, steps, best, result, swapped, holder,
                     hints, xpu, known, driver, runs, learned>>
      /\ at = "observe" /\ at' = "loop"
  BY <1>1 DEF Revise, NextCandidate
<1>3. queue \in Seq(Approach) /\ queue # <<>> /\ Current \in Approach /\ Current \in tried
  BY <1>2 DEF IInv, TypeOK, Flow, Current
<1>4. /\ RunsCounted' /\ LearnedFromSuccess' /\ ForeignInputsCap' /\ FuzzIsTheWinners'
  BY <1>2 DEF IInv, RunsCounted, LearnedFromSuccess, ForeignInputsCap, FuzzIsTheWinners, Success
<1>5. Flow'
  BY <1>2 DEF IInv, Flow, Success
<1>6. CASE GiveUp(a)
  <2>1. queue' = Tail(queue) /\ rev' = 0 /\ pending' = None /\ journal' = journal
    BY <1>1, <1>6 DEF NextCandidate, Rest
  <2>2. TypeOK'
    BY <1>2, <1>3, <2>1 DEF IInv, TypeOK
  <2> QED
    BY <1>4, <1>5, <2>1, <2>2 DEF IInv, Carried
<1>7. CASE ~GiveUp(a)
  <2>1. a \in Approach /\ SafeDelta(Current, a) /\ a # Current
    BY <1>3, <1>7, RevisionsType DEF IInv, GiveUp
  <2>2. FixDelta(Current, a) \in a.has /\ FixDelta(Current, a) \in Fixes
    BY <1>3, <2>1, FixDeltaAdded
  <2>3. /\ queue' = <<a>> \o Tail(queue) /\ rev' = rev + 1 /\ Lose
        /\ pending' = [sig |-> result.fault, fix |-> FixDelta(Current, a)]
    BY <1>1, <1>7
  <2>4. queue' \in Seq(Approach) /\ queue' # <<>> /\ Head(queue') = a
    BY <1>3, <2>1, <2>3
  <2>5. pending' \in [sig : Faults, fix : Fixes]
    BY <2>2, <2>3 DEF IInv, TypeOK, Result
  <2>6. journal' \in [Sigs -> [Fixes -> [s : Nat, f : Nat]]]
    <3>1. CASE Counts(pending)
      BY <2>3, <3>1, JournaledType DEF IInv, TypeOK, Counts, Lose
    <3>2. CASE ~Counts(pending)
      BY <2>3, <3>2 DEF IInv, TypeOK, Lose
    <3> QED
      BY <3>1, <3>2
  <2>7. TypeOK'
    BY <1>2, <2>3, <2>4, <2>5, <2>6 DEF IInv, TypeOK
  <2>8. Carried'
    BY <2>2, <2>3, <2>4 DEF Carried, Current
  <2> QED
    BY <1>4, <1>5, <2>7, <2>8 DEF IInv
<1> QED
  BY <1>6, <1>7

LEMMA SynthesizedRunKeeps ==
  ASSUME IInv, SynthesizedRun
  PROVE  IInv'
<1>1. PICK ok \in BOOLEAN, captured \in BOOLEAN :
        result' = IF captured \/ ok
                  THEN [of |-> Driver, nth |-> steps + 1, ok |-> ok, captured |-> captured,
                        fault |-> "errored", rev |-> 0, capped |-> TRUE]
                  ELSE result
  BY DEF SynthesizedRun
<1>2. /\ at = "fold" /\ at' = "settle" /\ driver' = session /\ holder' = steps + 1
      /\ ~result.captured
      /\ UNCHANGED <<session, loop, swapped, stores, history>>
  BY DEF SynthesizedRun, Held
<1>3. Driver \in Approach /\ "errored" \in Faults
  BY DEF Driver, Approach, Faults
<1>4. result' \in Result
  BY <1>1, <1>3 DEF IInv, TypeOK, Result
<1>5. TypeOK'
  BY <1>2, <1>4 DEF IInv, TypeOK, loop, stores, history
<1>6. Flow' /\ Carried' /\ RunsCounted' /\ ForeignInputsCap'
  BY <1>2 DEF IInv, Flow, Carried, RunsCounted, ForeignInputsCap, loop, history
<1>7. LearnedFromSuccess'
  BY <1>2 DEF IInv, LearnedFromSuccess, Success, history
<1>8. FuzzIsTheWinners'
  BY <1>1, <1>2 DEF IInv, TypeOK, FuzzIsTheWinners, Success
<1> QED
  BY <1>5, <1>6, <1>7, <1>8 DEF IInv

LEMMA SynthesizedRunRaisesKeeps ==
  ASSUME IInv, SynthesizedRunRaises
  PROVE  IInv'
<1> USE DEF IInv, SynthesizedRunRaises, loop, stores, history
<1>1. TypeOK'
  BY DEF TypeOK
<1>2. Flow' /\ Carried' /\ RunsCounted' /\ LearnedFromSuccess' /\ ForeignInputsCap' /\ FuzzIsTheWinners'
  BY DEF Flow, Carried, Success, RunsCounted, LearnedFromSuccess, ForeignInputsCap, FuzzIsTheWinners
<1> QED
  BY <1>1, <1>2

LEMMA SettleKeeps ==
  ASSUME IInv, Settle
  PROVE  IInv'
<1>1. /\ at = "settle" /\ at' = "idle"
      /\ result' = [result EXCEPT !.capped = @ \/ swapped \/ driver = session]
      /\ known' = IF result.ok THEN result.of ELSE known
      /\ UNCHANGED <<session, loop, swapped, holder, hints, xpu, journal, driver, history>>
  BY DEF Settle
<1>2. /\ result' \in Result /\ Success(result') = Success(result)
      /\ result'.of = result.of /\ result'.nth = result.nth
      /\ result'.capped = (result.capped \/ swapped \/ driver = session)
  BY <1>1, Zenon DEF IInv, TypeOK, Result, Success
<1>3. known' \in Approach \cup {None}
  BY <1>1 DEF IInv, TypeOK, Result
<1>4. TypeOK'
  BY <1>1, <1>2, <1>3 DEF IInv, TypeOK, loop, history
<1>5. Flow' /\ Carried' /\ RunsCounted'
  BY <1>1 DEF IInv, Flow, Carried, RunsCounted, loop, history
<1>6. LearnedFromSuccess' /\ ForeignInputsCap' /\ FuzzIsTheWinners'
  BY <1>1, <1>2 DEF IInv, LearnedFromSuccess, ForeignInputsCap, FuzzIsTheWinners, Success, history
<1> QED
  BY <1>4, <1>5, <1>6 DEF IInv

LEMMA DistillKeeps ==
  ASSUME IInv, Distill
  PROVE  IInv'
<1>1. xpu' \in [Sigs -> Unit \cup {None}]
  BY DistilledType DEF IInv, TypeOK, Distill
<1>2. TypeOK'
  BY <1>1 DEF IInv, TypeOK, Distill, loop, history
<1>3. Flow' /\ Carried' /\ RunsCounted' /\ LearnedFromSuccess' /\ ForeignInputsCap' /\ FuzzIsTheWinners'
  BY DEF IInv, Flow, Carried, Success, RunsCounted, LearnedFromSuccess, ForeignInputsCap,
         FuzzIsTheWinners, Distill, loop, history
<1> QED
  BY <1>2, <1>3 DEF IInv

LEMMA InitKeeps ==
  ASSUME Init
  PROVE  IInv
<1>1. Nothing \in Result /\ ~Success(Nothing)
  BY DEF Nothing, Result, Success, Faults
<1>2. EmptyJournal \in [Sigs -> [Fixes -> [s : Nat, f : Nat]]]
  BY DEF EmptyJournal
<1>3. TypeOK
  <2>1. hints \in [Sigs -> Fixes \cup {None}] /\ xpu \in [Sigs -> Unit \cup {None}]
    BY DEF Init, NoUnits
  <2>2. queue \in Seq(Approach) /\ runs \in [Approach -> Nat]
    BY DEF Init, NoLoop
  <2>3. session \in 0..Sessions /\ driver \in 0..Sessions /\ steps \in 0..StepCap
    BY DEF Init, NoLoop
  <2> QED
    BY <1>1, <1>2, <2>1, <2>2, <2>3 DEF Init, TypeOK, NoLoop
<1>4. Flow /\ Carried /\ RunsCounted /\ LearnedFromSuccess /\ ForeignInputsCap /\ FuzzIsTheWinners
  BY <1>1 DEF Init, NoLoop, Flow, Carried, RunsCounted, LearnedFromSuccess, ForeignInputsCap,
              FuzzIsTheWinners
<1> QED
  BY <1>3, <1>4 DEF IInv

LEMMA StutterKeeps ==
  ASSUME IInv, UNCHANGED vars
  PROVE  IInv'
  BY DEF IInv, vars, loop, stores, history, TypeOK, Flow, Carried, RunsCounted, LearnedFromSuccess,
         ForeignInputsCap, FuzzIsTheWinners, Success, Current

LEMMA Inductive == Spec => []IInv
<1>1. Init => IInv
  BY InitKeeps
<1>2. IInv /\ [Next]_vars => IInv'
  BY BeginKeeps, FinishKeeps, OscillateKeeps, RunKeeps, RemediateKeeps, SurfaceKeeps, ReviseKeeps,
     SynthesizedRunKeeps, SynthesizedRunRaisesKeeps, SettleKeeps, DistillKeeps, StutterKeeps
  DEF Next, Step
<1> QED
  BY <1>1, <1>2, PTL DEF Spec

-----------------------------------------------------------------------------
(* What follows *)

\* Every variable of the loop and of the stores keeps its type, whatever the
\* rankings, the fixes and the outcomes of the runs.
THEOREM TypeCorrect == Spec => []TypeOK
  BY Inductive, PTL DEF IInv

\* No approach runs more than once, or twice when data was placed for it: the
\* runs of an approach are told apart by the two sets that admit them, tried and
\* resolved, and each of them is entered once.
THEOREM ApproachesDoNotThrash == Spec => []RunsPerApproach
<1>1. IInv => RunsPerApproach
  <2> SUFFICES ASSUME IInv, NEW a \in Approach
               PROVE  runs[a] <= IF a \in resolved THEN 2 ELSE 1
    BY DEF RunsPerApproach
  <2>1. runs[a] \in Nat
    BY DEF IInv, TypeOK
  <2>2. runs[a] <= (IF a \in resolved THEN 1 ELSE 0) + (IF a \in tried THEN 1 ELSE 0)
    BY DEF IInv, RunsCounted
  <2>3. CASE a \in resolved
    BY <2>1, <2>2, <2>3
  <2>4. CASE a \notin resolved
    BY <2>1, <2>2, <2>4
  <2> QED
    BY <2>3, <2>4
<1> QED
  BY <1>1, Inductive, PTL

\* What the stores learn was carried by a run that succeeded: the pending fix is
\* always one the current candidate has.
THEOREM StoresLearnFromSuccess == Spec => []LearnedFromSuccess
  BY Inductive, PTL DEF IInv

\* No result is handed to the verdict uncapped when data of another origin or a
\* driver is in the checkout.
THEOREM ForeignInputsAreCapped == Spec => []ForeignInputsCap
  BY Inductive, PTL DEF IInv

\* The fuzz emit that is kept belongs to the run that won.
THEOREM FuzzOfTheWinner == Spec => []FuzzIsTheWinners
  BY Inductive, PTL DEF IInv

\* A driver in the checkout was written by this session.
THEOREM DriversAreFresh == Spec => []NoStaleDriver
<1>1. Init => NoStaleDriver
  BY DEF Init, NoStaleDriver
<1>2. NoStaleDriver /\ [Next]_vars => NoStaleDriver'
  <2> SUFFICES ASSUME NoStaleDriver, [Next]_vars PROVE NoStaleDriver'
    OBVIOUS
  <2>1. CASE Begin
    BY <2>1 DEF Begin, Purge, NoStaleDriver
  <2>2. CASE SynthesizedRun \/ SynthesizedRunRaises
    BY <2>2 DEF SynthesizedRun, SynthesizedRunRaises, NoStaleDriver
  <2>3. CASE UNCHANGED <<driver, session>>
    BY <2>3 DEF NoStaleDriver
  <2> QED
    BY <2>1, <2>2, <2>3
    DEF Next, Step, Stop, Exhausted, Oscillate, Run, Remediate, Surface, Revise, NoSynthesis,
        Settle, Distill, vars
<1> QED
  BY <1>1, <1>2, PTL DEF Spec

\* A run is an attempt of the promise, and every other step of a session leaves
\* what the promise speaks about: before the last resort no driver is written, so
\* that its run is the one that is not counted in steps.
LEMMA StepRefines ==
  ASSUME IInv, IInv', [Next]_vars
  PROVE  [Promise!Next]_(Promise!vars)
<1> DEFINE Same == UNCHANGED Promise!vars
<1>1. Success(result) \in BOOLEAN /\ Success(result') \in BOOLEAN
  BY DEF IInv, TypeOK, Result, Success
<1>2. steps \in Nat /\ steps' \in Nat /\ StepCap \in Nat /\ session \in Nat
  BY DEF IInv, TypeOK
<1>3. CASE Begin
  <2>1. at = "idle" /\ at' = "loop" /\ steps' = 0 /\ driver' = 0 /\ session' # 0 /\ result' = Nothing
    BY <1>2, <1>3 DEF Begin, Purge
  <2>2. ~Success(result')
    BY <2>1 DEF Nothing, Success
  <2> QED
    BY <2>1, <2>2 DEF Promise!Next, Promise!Begin, Spent
<1>4. CASE Stop \/ Exhausted
  <2>1. at = "loop" /\ at' = "fold" /\ UNCHANGED <<steps, driver, session>>
    BY <1>4 DEF Stop, Exhausted, Finish, loop
  <2>2. ~Success(result) /\ ~Success(result')
    BY <1>4, <2>1 DEF IInv, Flow, Stop, Exhausted, Finish, Nothing, Success
  <2> QED
    BY <1>1, <2>1, <2>2 DEF Promise!vars, Spent
<1>5. CASE Oscillate \/ Remediate \/ Surface \/ Revise \/ NoSynthesis \/ Distill
  <2>1. UNCHANGED <<steps, driver, session, result>> /\ (at = "idle" <=> at' = "idle")
    BY <1>5 DEF Oscillate, Remediate, Surface, Revise, NoSynthesis, Distill, NextCandidate, loop, stores, history
  <2> QED
    BY <2>1 DEF Promise!vars, Spent
<1>6. CASE Run
  <2>1. /\ at = "loop" /\ at' # "idle" /\ steps' = steps + 1 /\ steps < StepCap
        /\ UNCHANGED <<driver, session>>
    BY <1>2, <1>6 DEF Run, OverBudget
  <2>2. driver = 0 /\ ~Success(result)
    BY <2>1 DEF IInv, Flow
  <2>3. Spent = 0 /\ Spent' = 0
    BY <1>2, <2>1, <2>2 DEF Spent
  <2> QED
    BY <1>1, <1>2, <2>1, <2>2, <2>3 DEF Promise!Next, Promise!Attempt
<1>7. CASE SynthesizedRun \/ SynthesizedRunRaises
  <2>1. /\ at = "fold" /\ at' # "idle" /\ steps' = steps /\ steps < StepCap
        /\ driver' = session /\ session' = session /\ ~result.captured
    BY <1>2, <1>7 DEF SynthesizedRun, SynthesizedRunRaises, OverBudget, loop
  <2>2. driver = 0 /\ session # 0 /\ ~Success(result)
    BY <2>1 DEF IInv, Flow, Success
  <2>3. Spent = 0 /\ Spent' = 1
    BY <1>2, <2>1, <2>2 DEF Spent
  <2> QED
    BY <1>1, <1>2, <2>1, <2>2, <2>3 DEF Promise!Next, Promise!Attempt
<1>8. CASE Settle
  <2>1. at = "settle" /\ at' = "idle" /\ UNCHANGED <<steps, driver, session>>
    BY <1>8 DEF Settle, loop
  <2>2. Success(result') = Success(result)
    BY <1>8 DEF IInv, TypeOK, Result, Success, Settle
  <2> QED
    BY <2>1, <2>2 DEF Promise!Next, Promise!End, Spent
<1>9. CASE UNCHANGED vars
  BY <1>9 DEF vars, loop, Promise!vars, Spent
<1> QED
  BY <1>3, <1>4, <1>5, <1>6, <1>7, <1>8, <1>9 DEF Next, Step

\* The loop keeps what it promises: at most StepCap runs in a session, with that
\* of the synthesized driver, and none after one that succeeded.
THEOREM LoopImplementsPromise == Spec => ImplementsMakeRunnable
<1>1. Init => Promise!Init
  BY DEF Init, NoLoop, Promise!Init, Spent, Nothing, Success
<1>2. IInv /\ IInv' /\ [Next]_vars => [Promise!Next]_(Promise!vars)
  BY StepRefines
<1> QED
  BY <1>1, <1>2, Inductive, PTL DEF Spec, ImplementsMakeRunnable, Promise!Spec

-----------------------------------------------------------------------------
(* A session is bounded *)

\* What is left of a session: two steps for each run of the budget, one for each
\* candidate, and the stages up to its end.
Left == CASE at = "observe" -> 4 [] at = "loop" -> 3 [] at = "fold" -> 2
          [] at = "settle" -> 1 [] OTHER -> 0
Work == 2 * (StepCap - steps) + Len(queue) + Left

\* No more candidates are queued than the budget admits.
QueueBounded == Len(queue) <= MaxApproaches

LEMMA StepShrinks ==
  ASSUME IInv, IInv', Step
  PROVE  Work' < Work /\ Len(queue') <= Len(queue)
<1>1. /\ steps \in 0..StepCap /\ steps' \in 0..StepCap /\ StepCap \in Nat
      /\ queue \in Seq(Approach) /\ queue' \in Seq(Approach)
  BY DEF IInv, TypeOK
<1>2. Len(queue) \in Nat /\ Len(queue') \in Nat
  BY <1>1
<1>3. CASE Stop \/ Exhausted \/ Surface \/ SynthesizedRun \/ SynthesizedRunRaises \/ NoSynthesis \/ Settle
  <2>1. UNCHANGED <<steps, queue>>
    BY <1>3 DEF Stop, Exhausted, Surface, SynthesizedRun, SynthesizedRunRaises, NoSynthesis, Settle, loop
  <2>2. Left' < Left
    BY <1>3 DEF Stop, Exhausted, Surface, SynthesizedRun, SynthesizedRunRaises, NoSynthesis, Settle,
                Finish, Left
  <2> QED
    BY <1>1, <1>2, <2>1, <2>2 DEF Work, Left
<1>4. CASE Oscillate
  <2>1. at = "loop" /\ at' = "loop" /\ queue' = Tail(queue) /\ queue # <<>> /\ steps' = steps
    BY <1>4 DEF Oscillate, NextCandidate, Rest
  <2>2. Len(queue') = Len(queue) - 1
    BY <1>1, <2>1
  <2> QED
    BY <1>1, <1>2, <2>1, <2>2 DEF Work, Left
<1>5. CASE Run
  <2>1. at = "loop" /\ at' \in {"fold", "observe"} /\ queue' = queue /\ steps' = steps + 1
    <3>1. at' \in {"fold", "observe"}
      BY <1>5, Zenon DEF Run
    <3> QED
      BY <1>5, <3>1 DEF Run
  <2>2. Left = 3 /\ Left' <= 4 /\ Left' \in Nat
    BY <2>1 DEF Left
  <2>3. 2 * (StepCap - steps') = 2 * (StepCap - steps) - 2
    BY <1>1, <2>1
  <2> QED
    BY <1>1, <1>2, <2>1, <2>2, <2>3 DEF Work
<1>6. CASE Remediate
  <2>1. at = "observe" /\ at' \in {"loop", "fold"} /\ UNCHANGED <<queue, steps>>
    BY <1>6 DEF Remediate
  <2> QED
    BY <1>1, <1>2, <2>1 DEF Work, Left
<1>7. CASE Revise
  <2>1. at = "observe" /\ at' = "loop" /\ steps' = steps /\ queue # <<>>
    BY <1>7 DEF Revise, NextCandidate, IInv, Flow
  <2>2. PICK a \in Revisions : queue' = Tail(queue) \/ queue' = <<a>> \o Tail(queue)
    BY <1>7 DEF Revise, NextCandidate, Rest
  <2>3. Len(queue') <= Len(queue)
    BY <1>1, <2>1, <2>2
  <2> QED
    BY <1>1, <1>2, <2>1, <2>3 DEF Work, Left
<1> QED
  BY <1>3, <1>4, <1>5, <1>6, <1>7 DEF Step

LEMMA QueuesBounded == Spec => []QueueBounded
<1>1. Init => QueueBounded
  BY DEF Init, NoLoop, QueueBounded
<1>2. ASSUME IInv, IInv', QueueBounded, [Next]_vars
      PROVE  QueueBounded'
  <2>1. Len(queue) \in Nat /\ Len(queue') \in Nat /\ MaxApproaches \in Nat
    BY <1>2 DEF IInv, TypeOK
  <2>2. CASE Begin
    <3>1. PICK ranking \in Rankings, user \in UserEntries \cup {None} :
            queue' = Queue(ranking, known, user)
      BY <2>2 DEF Begin
    <3> QED
      BY <2>1, <3>1 DEF Queue, QueueBounded
  <2>3. CASE Step
    BY <1>2, <2>1, <2>3, StepShrinks DEF QueueBounded
  <2>4. CASE Distill \/ UNCHANGED vars
    BY <1>2, <2>4 DEF Distill, loop, vars, QueueBounded
  <2> QED
    BY <1>2, <2>2, <2>3, <2>4 DEF Next
<1> QED
  BY <1>1, <1>2, Inductive, PTL DEF Spec

\* A session is bounded, whatever its runs and its revisions do: each of its
\* steps leaves less to be done, and what there is to be done is never more than
\* twice the step budget, the candidates and four.  This is the part of
\* SessionEnds that needs no fairness: with it, a session that does not end is one
\* that is not scheduled, or that has no step to take (orchestrate.py, execute).
THEOREM SessionsAreBounded ==
  Spec => /\ [](Work \in 0..(2 * StepCap + MaxApproaches + 4))
          /\ [][Step => Work' < Work]_vars
<1>1. IInv /\ QueueBounded => Work \in 0..(2 * StepCap + MaxApproaches + 4)
  <2> SUFFICES ASSUME IInv, QueueBounded PROVE Work \in 0..(2 * StepCap + MaxApproaches + 4)
    OBVIOUS
  <2>1. steps \in 0..StepCap /\ Len(queue) \in 0..MaxApproaches /\ Left \in 0..4
    BY DEF IInv, TypeOK, QueueBounded, Left
  <2> QED
    BY <2>1 DEF Work
<1>2. IInv /\ IInv' /\ [Next]_vars => [Step => Work' < Work]_vars
  BY StepShrinks
<1> QED
  BY <1>1, <1>2, Inductive, QueuesBounded, PTL DEF Spec

=============================================================================
