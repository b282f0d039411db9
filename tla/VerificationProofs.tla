-------------------------- MODULE VerificationProofs --------------------------
(***************************************************************************)
(* Proofs about Verification: what a verdict rests on, for every set of    *)
(* claims and facts, every pair of tolerances and all options.             *)
(*                                                                         *)
(* The lemmas on the decision come first.  Two relations then carry the    *)
(* induction: Withdraws, which every overlay respects, and Accounted, which *)
(* ties the relink's edits to the manifest of the result that is kept.     *)
(***************************************************************************)
EXTENDS Verification, TLAPS

----------------------------------------------------------------------------
(* The decision *)

\* DiffClaim gives one of the seven verdicts of a judged claim.
LEMMA DiffClaimType ==
  ASSUME NEW e, NEW p
  PROVE  DiffClaim(e, p) \in Verdicts \ {"DISCOVERED"}
<1>1. Decide(e, p) \in Verdicts \ {"DISCOVERED"}
  BY DEF Decide, Verdicts
<1> QED
  BY <1>1 DEF DiffClaim, Verdicts

\* The value a produced number is compared to is the default recompute or that
\* of a recognised convention.
LEMMA OracleIsRecognised ==
  ASSUME NEW e
  PROVE  Oracle(e) \in {e.recompute} \cup e.conventions
<1> DEFINE rescue == {x \in e.conventions : Agrees(e, x)}
<1>1. CASE e.recompute = NoValue \/ Agrees(e, e.recompute) \/ rescue = {}
  BY <1>1 DEF Oracle
<1>2. CASE ~(e.recompute = NoValue \/ Agrees(e, e.recompute) \/ rescue = {})
  <2>1. Oracle(e) = CHOOSE x \in rescue : TRUE
    BY <1>2 DEF Oracle
  <2>2. (CHOOSE x \in rescue : TRUE) \in rescue
    BY <1>2
  <2> QED
    BY <2>1, <2>2
<1> QED
  BY <1>1, <1>2

\* What the last line of the decision that confirms has established by then.
LEMMA DecidedConfirmed ==
  ASSUME NEW e, NEW p, Decide(e, p) = "CONFIRMED"
  PROVE  /\ Bound(e) /\ Produced(e) # NoValue
         /\ ClaimHolds(e)
         /\ Trusted(e) /\ Agrees(e, Recomputed(e))
         /\ ~e.invalid
         /\ Tested(e) => Stable(e)
         /\ Tested(e) \/ p
BY DEF Decide, Stochastic, Power

\* A hard confirmation by the runs is one they reproduced.
LEMMA ConfirmedReproduced ==
  ASSUME NEW e \in Evidence, DiffClaim(e, proven) = "CONFIRMED"
  PROVE  Reproduced(e)
<1>1. Decide(e, proven) = "CONFIRMED" /\ ~Heuristic(e)
  BY DEF DiffClaim, AFFIRMATIVE
<1> DEFINE r == e.results
<1>2. /\ e.status = "bound" /\ ~e.static
      /\ r # <<>> /\ r[1] # NoValue /\ Produced(e) = r[1]
  BY <1>1, DecidedConfirmed DEF Heuristic, Bound, Produced
<1>3. r \in Seq(Values \cup {NoValue}) /\ 1 \in DOMAIN r
  <2>1. r \in Seq(Values \cup {NoValue})
    BY DEF Evidence
  <2>2. ASSUME NEW S, NEW s \in Seq(S), s # <<>> PROVE 1 \in DOMAIN s
    BY <2>2
  <2> QED
    BY <1>2, <2>1, <2>2
<1>4. 1 \in Counted(e)
  BY <1>2, <1>3 DEF Counted
<1>5. ASSUME NEW i \in 2..Len(r), r[i] # NoValue PROVE <<r[1], r[i]>> \in Close
  <2>1. i \in Counted(e) /\ 1 < i
    BY <1>3, <1>5 DEF Counted
  <2>2. Stable(e)
    BY <1>1, <1>4, <2>1, DecidedConfirmed DEF Tested
  <2>3. \A l \in Counted(e) : 1 <= l
    BY <1>3 DEF Counted
  <2> QED
    BY <1>4, <2>1, <2>2, <2>3 DEF Stable
<1>6. proven \/ \E i \in 2..Len(r) : r[i] # NoValue
  <2>1. Tested(e) \/ proven
    BY <1>1, DecidedConfirmed
  <2>2. Tested(e) => \E i \in 2..Len(r) : r[i] # NoValue
    BY <1>3 DEF Tested, Counted
  <2> QED
    BY <2>1, <2>2
<1>7. \E x \in {e.recompute} \cup e.conventions : <<r[1], x>> \in Close
  <2>1. Recomputed(e) = Oracle(e)
    BY <1>1, DecidedConfirmed DEF Trusted, Recomputed
  <2> QED
    BY <1>1, <1>2, <2>1, DecidedConfirmed, OracleIsRecognised DEF Agrees
<1>8. ~e.invalid /\ e.known /\ <<e.claimed, r[1]>> \in ClaimClose
  BY <1>1, <1>2, DecidedConfirmed DEF Trusted, ClaimHolds
<1> QED
  BY <1>2, <1>5, <1>6, <1>7, <1>8 DEF Reproduced

\* A refutation by the runs has the produced number, or their spread, against
\* the claim.
LEMMA RefutedByRuns ==
  ASSUME NEW e, NEW p, DiffClaim(e, p) = "REFUTED"
  PROVE  \/ <<e.claimed, Produced(e)>> \notin ClaimClose
         \/ Power(e) /\ e.zone = "outside"
<1>1. Decide(e, p) = "REFUTED"
  BY DEF DiffClaim
<1> QED
  BY <1>1 DEF Decide, ClaimHolds

----------------------------------------------------------------------------
(* One claim *)

\* What a verdict of a claim with the facts f rests on.
Earned(f, v) ==
  /\ v = "CONFIRMED" => IF Silent(f.evidence)
                        THEN <<f.evidence.claimed, f.artifact>> \in ClaimClose
                        ELSE Reproduced(f.evidence)
  /\ v = "REFUTED" => IF Silent(f.evidence)
                      THEN /\ f.artifact # NoValue
                           /\ <<f.evidence.claimed, f.artifact>> \notin ClaimClose
                      ELSE /\ ~run.auto
                           /\ \/ <<f.evidence.claimed, Produced(f.evidence)>> \notin ClaimClose
                              \/ Power(f.evidence) /\ f.evidence.zone = "outside"

LEMMA RunVerdictEarned ==
  ASSUME NEW f \in FactRecord
  PROVE  LET v == RunVerdict(f.evidence)
         IN /\ v \in Verdicts
            /\ v = "DISCOVERED" <=> Silent(f.evidence)
            /\ v = "CONFIRMED" => Reproduced(f.evidence)
            /\ v = "REFUTED" =>
                 /\ ~run.auto
                 /\ \/ <<f.evidence.claimed, Produced(f.evidence)>> \notin ClaimClose
                    \/ Power(f.evidence) /\ f.evidence.zone = "outside"
<1> DEFINE e == f.evidence
           d == DiffClaim(e, proven)
<1>1. e \in Evidence
  BY DEF FactRecord
<1>2. d \in Verdicts \ {"DISCOVERED"}
  BY DiffClaimType
<1>3. d = "CONFIRMED" => Reproduced(e)
  BY <1>1, ConfirmedReproduced
<1>4. d = "REFUTED" => \/ <<e.claimed, Produced(e)>> \notin ClaimClose
                       \/ Power(e) /\ e.zone = "outside"
  BY RefutedByRuns
<1>5. /\ Silent(e) => RunVerdict(e) = "DISCOVERED"
      /\ ~Silent(e) => RunVerdict(e) = IF run.auto /\ d = "REFUTED" THEN "INCONCLUSIVE" ELSE d
  BY DEF RunVerdict, Silent
<1> HIDE DEF d, e
<1> QED
  BY <1>2, <1>3, <1>4, <1>5 DEF Verdicts, e

LEMMA JudgeEarned ==
  ASSUME NEW f \in FactRecord
  PROVE  Judge(f) \in Verdicts /\ Earned(f, Judge(f))
<1> DEFINE v == RunVerdict(f.evidence)
<1>1. /\ v \in Verdicts
      /\ v = "DISCOVERED" <=> Silent(f.evidence)
      /\ v = "CONFIRMED" => Reproduced(f.evidence)
      /\ v = "REFUTED" =>
           /\ ~run.auto
           /\ \/ <<f.evidence.claimed, Produced(f.evidence)>> \notin ClaimClose
              \/ Power(f.evidence) /\ f.evidence.zone = "outside"
  BY RunVerdictEarned
<1> HIDE DEF v
<1>2. CASE v = "DISCOVERED" /\ f.artifact # NoValue
  <2>1. Judge(f) = ArtifactVerdict(f)
    BY <1>2 DEF Judge, v
  <2> QED
    BY <1>1, <1>2, <2>1 DEF ArtifactVerdict, Earned, Verdicts
<1>3. CASE ~(v = "DISCOVERED" /\ f.artifact # NoValue)
  <2>1. Judge(f) = v
    BY <1>3 DEF Judge, v
  <2> QED
    BY <1>1, <1>3, <2>1 DEF Earned
<1> QED
  BY <1>2, <1>3

----------------------------------------------------------------------------
(* The ladder *)

\* What the fold owes the cap: the relink's edits are in the manifest of the
\* result that is kept, and without a deep run there is nothing to account for.
Accounted ==
  /\ step = "ran" => dataModified \subseteq run.modified
  /\ ~Deep => run.modified = {} /\ dataModified = {} /\ ~run.captured

\* A step of the ladder keeps its variables in their sets and its accounts.
LEMMA AttemptType ==
  ASSUME LadderTypeOK, NEW fetching \in BOOLEAN, Attempt(fetching)
  PROVE  run' \in Run /\ tree' \in SUBSET Foreign
<1>1. PICK did \in SUBSET Supplies, f \in Failures, c \in BOOLEAN, a \in {FALSE, fetching} :
        /\ tree' = tree \cup did
        /\ run' = [ok |-> f = "none", captured |-> c, auto |-> a, failure |-> f,
                   modified |-> did \cap Recorded]
  BY ZenonT(30) DEF Attempt
<1>2. did \subseteq Foreign /\ did \cap Recorded \in SUBSET Foreign
  BY LadderAssumption
<1>3. (f = "none") \in BOOLEAN /\ a \in BOOLEAN
  OBVIOUS
<1>4. run' \in Run
  BY <1>1, <1>2, <1>3 DEF Run
<1> QED
  BY <1>1, <1>2, <1>4 DEF LadderTypeOK

LEMMA ClimbType ==
  ASSUME LadderTypeOK, Deep, Accounted, Climb
  PROVE  LadderTypeOK' /\ Accounted'
<1> USE DEF LadderTypeOK, Accounted, Steps, Goto
<1>1. CASE First
  <2>1. run' \in Run /\ tree' \in SUBSET Foreign
    BY <1>1, AttemptType DEF First
  <2>2. miss' \in BOOLEAN
    BY <1>1 DEF First
  <2> QED
    BY <1>1, <2>1, <2>2 DEF First
<1>2. CASE Relink
  BY <1>2 DEF Relink, Foreign
<1>3. CASE RetryRelinked
  BY <1>3, AttemptType DEF RetryRelinked
<1>4. CASE Fetch
  BY <1>4 DEF Fetch, Foreign
<1>5. CASE RetryFetched
  BY <1>5, AttemptType DEF RetryFetched
<1>6. CASE Acquire
  BY <1>6, AttemptType, LadderAssumption DEF Acquire
<1>7. CASE Gpu
  <2>1. run' \in Run
    BY <1>7 DEF Gpu, Run
  <2> QED
    BY <1>7, <2>1 DEF Gpu
<1>8. CASE NoRelink \/ NoFetch \/ NoAcquire \/ NoGpu
  BY <1>8 DEF NoRelink, NoFetch, NoAcquire, NoGpu, Skip
<1>9. CASE Fold
  <2>1. /\ run' = [run EXCEPT !.modified = @ \cup dataModified]
        /\ dataModified' = dataModified /\ step' = "ran"
        /\ tree' = tree /\ miss' = miss
    BY <1>9 DEF Fold
  <2>2. run' \in Run /\ run'.modified = run.modified \cup dataModified
    BY <2>1 DEF Run
  <2> QED
    BY <2>1, <2>2
<1> QED
  BY <1>1, <1>2, <1>3, <1>4, <1>5, <1>6, <1>7, <1>8, <1>9 DEF Climb

----------------------------------------------------------------------------
(* The overlays *)

\* An overlay keeps a verdict, invalidates what is not a refutation, or puts
\* something weaker in the place of an affirmation.
Withdraws(old, new) ==
  \/ new = old
  \/ old # "REFUTED" /\ new = "INVALIDATED"
  \/ old \in AFFIRMATIVE /\ new \in {"INVALIDATED", "INCONCLUSIVE", "REPRODUCED-ONLY"}

Overlays == Leakage \/ Baseline \/ Redteam \/ Cap

LEMMA OverlaysWithdraw ==
  ASSUME TypeOK, Overlays
  PROVE  /\ UNCHANGED <<ladderVars, proven, held, fact>>
         /\ phase \in Judged /\ phase' \in Judged /\ phase' # "leakage"
         /\ rec' \in [Claims -> Verdicts]
         /\ \A c \in Claims : Withdraws(rec[c], rec'[c])
<1> USE DEF TypeOK, Judged, Phases
<1>1. CASE Leakage
  BY <1>1 DEF Leakage, Overlay, Withdraws, Verdicts
<1>2. CASE Baseline
  BY <1>2 DEF Baseline, Overlay, Withdraws, Verdicts
<1>3. CASE Redteam
  <2>1. ASSUME NEW c \in Claims PROVE fact[c].charge \in {"none", "INCONCLUSIVE", "INVALIDATED"}
    BY <1>3, VerificationAssumption DEF Redteam, Overlay, FactRecord
  <2>2. ASSUME NEW v \in AFFIRMATIVE, NEW p \in {"none", "INCONCLUSIVE", "INVALIDATED"}
        PROVE  Monotone(v, p) \in {v, "INCONCLUSIVE", "INVALIDATED"}
    BY <2>2 DEF Monotone
  <2> QED
    BY <1>3, <2>1, <2>2 DEF Redteam, Overlay, Withdraws, Verdicts, AFFIRMATIVE
<1>4. CASE Cap
  BY <1>4 DEF Cap, Overlay, Withdraws, Verdicts, AFFIRMATIVE
<1> QED
  BY <1>1, <1>2, <1>3, <1>4 DEF Overlays

\* What a verdict rests on is still there when it is kept, and an invalidation
\* or a weaker verdict rests on nothing.
LEMMA WithdrawnEarned ==
  ASSUME NEW f, NEW old, NEW new, Earned(f, old), Withdraws(old, new)
  PROVE  Earned(f, new)
BY DEF Earned, Withdraws

----------------------------------------------------------------------------
(* The induction *)

Unjudged == [c \in Claims |-> "DISCOVERED"]

EarnedInv ==
  IF phase \in Judged THEN \A c \in Claims : Earned(fact[c], rec[c]) ELSE rec = Unjudged
LeakyInv ==
  phase \in Judged \ {"leakage"} =>
    \A c \in Claims : fact[c].leaky => rec[c] \in {"INVALIDATED", "REFUTED"}
AccountedInv ==
  /\ Accounted
  /\ phase # "run" /\ Deep => step = "ran"

Inv ==
  /\ TypeOK
  /\ EarnedInv
  /\ HeldNeverVerified
  /\ LeakyInv
  /\ AccountedInv
  /\ ModifiedNeverAffirmed

LEMMA InitInv == Init => Inv
<1> SUFFICES ASSUME Init PROVE Inv
  OBVIOUS
<1> USE DEF Init, LadderInit
<1>1. TypeOK
  <2>1. run \in Run
    BY DEF NoRun, Run, Failures
  <2> QED
    BY <2>1, VerificationAssumption DEF TypeOK, LadderTypeOK, Steps, Phases, Judged, Verdicts
<1>2. AccountedInv
  BY DEF AccountedInv, Accounted, NoRun
<1> QED
  BY <1>1, <1>2 DEF Inv, EarnedInv, Judged, Unjudged, HeldNeverVerified, LeakyInv,
                    ModifiedNeverAffirmed

\* Before the diff nothing is affirmed or refuted: what holds of a claim without
\* a verdict holds whatever the ladder and the top K do.
LEMMA RunRepoInv == Inv /\ RunRepo => Inv'
<1> SUFFICES ASSUME Inv, RunRepo PROVE Inv'
  OBVIOUS
<1>1. phase = "run" /\ Deep /\ Climb /\ UNCHANGED claimVars
  BY DEF RunRepo
<1>2. LadderTypeOK' /\ Accounted'
  BY <1>1, ClimbType DEF Inv, TypeOK, AccountedInv
<1>3. rec' = Unjudged /\ phase' = "run"
  BY <1>1 DEF Inv, EarnedInv, Judged, claimVars
<1>4. TypeOK'
  BY <1>1, <1>2, <1>3 DEF Inv, TypeOK, claimVars, Judged
<1>5. HeldNeverVerified'
  BY <1>3, <1>4 DEF HeldNeverVerified, Unjudged, TypeOK
<1> QED
  BY <1>2, <1>3, <1>4, <1>5 DEF Inv, EarnedInv, LeakyInv, AccountedInv,
                                ModifiedNeverAffirmed, Judged, Unjudged

LEMMA HoldInv == Inv /\ Hold => Inv'
<1> SUFFICES ASSUME Inv, Hold PROVE Inv'
  OBVIOUS
<1>1. /\ phase = "run" /\ phase' = "diff" /\ held' \in SUBSET Claims
      /\ Deep => step = "ran"
      /\ UNCHANGED <<ladderVars, proven, fact, rec>>
  BY DEF Hold
<1>2. rec' = Unjudged
  BY <1>1 DEF Inv, EarnedInv, Judged
<1>3. TypeOK'
  BY <1>1 DEF Inv, TypeOK, LadderTypeOK, ladderVars, Judged, Phases
<1>4. AccountedInv'
  BY <1>1 DEF Inv, AccountedInv, Accounted, ladderVars
<1>5. HeldNeverVerified'
  BY <1>1, <1>2 DEF HeldNeverVerified, Unjudged
<1> QED
  BY <1>1, <1>2, <1>3, <1>4, <1>5 DEF Inv, EarnedInv, LeakyInv, ModifiedNeverAffirmed,
                                      Judged, Unjudged

LEMMA DiffInv == Inv /\ Diff => Inv'
<1> SUFFICES ASSUME Inv, Diff PROVE Inv'
  OBVIOUS
<1>1. /\ phase = "diff" /\ phase' = "leakage"
      /\ fact' \in [Claims -> Facts]
      /\ rec' = [c \in Claims |-> IF c \in held THEN "DISCOVERED" ELSE Judge(fact'[c])]
      /\ UNCHANGED <<ladderVars, proven, held>>
  BY DEF Diff
<1>2. ASSUME NEW c \in Claims
      PROVE  Judge(fact'[c]) \in Verdicts /\ Earned(fact'[c], Judge(fact'[c]))
  BY <1>1, JudgeEarned, VerificationAssumption
<1>3. TypeOK'
  <2>1. rec' \in [Claims -> Verdicts]
    BY <1>1, <1>2 DEF Verdicts
  <2> QED
    BY <1>1, <2>1 DEF Inv, TypeOK, LadderTypeOK, ladderVars, Judged, Phases
<1>4. EarnedInv'
  <2>1. ASSUME NEW c \in Claims PROVE Earned(fact'[c], rec'[c])
    BY <1>1, <1>2 DEF Earned
  <2>2. ASSUME NEW c \in Claims PROVE Earned(fact[c], rec[c])'
    BY <1>1, <2>1 DEF Earned, Silent, Reproduced, ladderVars
  <2> QED
    BY <1>1, <2>2 DEF EarnedInv, Judged, Phases
<1>5. HeldNeverVerified'
  BY <1>1 DEF Inv, TypeOK, HeldNeverVerified
<1> QED
  BY <1>1, <1>3, <1>4, <1>5 DEF Inv, LeakyInv, AccountedInv, Accounted, ladderVars,
                                ModifiedNeverAffirmed

LEMMA OverlayInv == Inv /\ Overlays => Inv'
<1> SUFFICES ASSUME Inv, Overlays PROVE Inv'
  OBVIOUS
<1>1. /\ UNCHANGED <<ladderVars, proven, held, fact>>
      /\ phase \in Judged /\ phase' \in Judged /\ phase' # "leakage"
      /\ rec' \in [Claims -> Verdicts]
      /\ \A c \in Claims : Withdraws(rec[c], rec'[c])
  BY OverlaysWithdraw DEF Inv
<1>2. TypeOK'
  BY <1>1 DEF Inv, TypeOK, LadderTypeOK, ladderVars, Judged
<1>3. EarnedInv'
  <2>1. ASSUME NEW c \in Claims PROVE Earned(fact[c], rec'[c])
    BY <1>1, WithdrawnEarned DEF Inv, EarnedInv
  <2>2. ASSUME NEW c \in Claims PROVE Earned(fact[c], rec[c])'
    BY <1>1, <2>1 DEF Earned, Silent, Reproduced, ladderVars
  <2> QED
    BY <1>1, <2>2 DEF EarnedInv
<1>4. HeldNeverVerified'
  BY <1>1 DEF Inv, TypeOK, HeldNeverVerified, Withdraws, AFFIRMATIVE
<1>5. LeakyInv'
  <2>1. CASE phase = "leakage"
    BY <1>1, <2>1 DEF Inv, TypeOK, LeakyInv, Overlays, Leakage, Overlay, Baseline, Redteam, Cap
  <2>2. CASE phase # "leakage"
    BY <1>1, <2>2 DEF Inv, LeakyInv, Withdraws, AFFIRMATIVE
  <2> QED
    BY <2>1, <2>2
<1>6. AccountedInv'
  BY <1>1 DEF Inv, AccountedInv, Accounted, ladderVars, Judged
<1>7. ModifiedNeverAffirmed'
  <2>1. SUFFICES ASSUME phase' = "done", (dataModified # {} \/ run.modified # {}),
                        NEW c \in Claims
                 PROVE  rec'[c] \notin AFFIRMATIVE
    BY <1>1 DEF ModifiedNeverAffirmed, ladderVars
  <2>2. Cap
    BY <2>1 DEF Overlays, Leakage, Baseline, Redteam, Overlay
  <2>3. Deep /\ run.modified # {}
    BY <1>1, <2>1, VerificationAssumption DEF Inv, AccountedInv, Accounted, Judged
  <2> QED
    BY <1>1, <2>2, <2>3 DEF Cap, Overlay, AFFIRMATIVE
<1> QED
  BY <1>2, <1>3, <1>4, <1>5, <1>6, <1>7 DEF Inv

LEMMA NextInv == Inv /\ [Next]_vars => Inv'
<1> SUFFICES ASSUME Inv, [Next]_vars PROVE Inv'
  OBVIOUS
<1>1. CASE RunRepo
  BY <1>1, RunRepoInv
<1>2. CASE Hold
  BY <1>2, HoldInv
<1>3. CASE Diff
  BY <1>3, DiffInv
<1>4. CASE Leakage \/ Baseline \/ Redteam \/ Cap
  BY <1>4, OverlayInv DEF Overlays
<1>5. CASE UNCHANGED vars
  BY <1>5, ZenonT(30) DEF vars, ladderVars, claimVars, Inv, TypeOK, LadderTypeOK, EarnedInv, Earned,
              Silent, Reproduced, HeldNeverVerified, LeakyInv, AccountedInv, Accounted,
              ModifiedNeverAffirmed
<1> QED
  BY <1>1, <1>2, <1>3, <1>4, <1>5 DEF Next

THEOREM Invariance == Spec => []Inv
BY InitInv, NextInv, PTL DEF Spec

----------------------------------------------------------------------------
(* The theorems *)

\* Every variable of the pipeline stays in its set: no overlay writes anything
\* but a verdict.
THEOREM TypeCorrect == Spec => []TypeOK
BY Invariance, PTL DEF Inv

\* "~0 false-confirm": whatever the facts, the tolerances and the options, a hard
\* confirmation is that of the committed predictions or one the runs reproduced
\* against a recognised oracle.
THEOREM Confirmations == Spec => []ConfirmedIsEarned
<1>1. Inv => ConfirmedIsEarned
  BY DEF Inv, EarnedInv, Unjudged, ConfirmedIsEarned, Earned
<1> QED
  BY <1>1, Invariance, PTL

\* A refutation names another number, and never one from data that is known to
\* have been fetched.
THEOREM Refutations == Spec => []RefutedIsEarned
<1>1. Inv => RefutedIsEarned
  BY DEF Inv, EarnedInv, Unjudged, RefutedIsEarned, Earned
<1> QED
  BY <1>1, Invariance, PTL

\* A claim beyond the tier's top K stays without a verdict on its number.
THEOREM HeldClaims == Spec => []HeldNeverVerified
BY Invariance, PTL DEF Inv

\* The end of a claim on a leaky split is never an affirmation, whatever
\* overlays follow the one that invalidates it.
THEOREM LeakyClaims == Spec => []LeakyNeverVerified
<1>1. Inv => LeakyNeverVerified
  BY DEF Inv, LeakyInv, LeakyNeverVerified, Judged, Phases
<1> QED
  BY <1>1, Invariance, PTL

\* What the relink put in the place of the repository's own data withholds every
\* affirmation at the end, whichever attempts came after it.
THEOREM ModifiedCheckouts == Spec => []ModifiedNeverAffirmed
BY Invariance, PTL DEF Inv

\* The overlays only withdraw: none affirms, none refutes and none lifts a
\* refutation.
THEOREM Withdrawals == Spec => OverlaysOnlyWithdraw
<1>1. ASSUME Inv, [Next]_vars, phase # "run" /\ phase # "diff", NEW c \in Claims
      PROVE  /\ rec'[c] \in AFFIRMATIVE => rec'[c] = rec[c]
             /\ (rec'[c] = "REFUTED") <=> (rec[c] = "REFUTED")
  <2>1. CASE Overlays
    BY <1>1, <2>1, OverlaysWithdraw DEF Inv, Withdraws, AFFIRMATIVE
  <2>2. CASE UNCHANGED vars
    BY <2>2 DEF vars, claimVars
  <2>3. ~(RunRepo \/ Hold \/ Diff)
    BY <1>1 DEF RunRepo, Hold, Diff
  <2> QED
    BY <1>1, <2>1, <2>2, <2>3 DEF Next, Overlays
<1>2. Inv /\ [Next]_vars => [phase # "run" /\ phase # "diff" => \A c \in Claims :
       /\ rec'[c] \in AFFIRMATIVE => rec'[c] = rec[c]
       /\ (rec'[c] = "REFUTED") <=> (rec[c] = "REFUTED")]_vars
  BY <1>1
<1> QED
  BY <1>2, Invariance, PTL DEF Spec, OverlaysOnlyWithdraw
============================================================================
