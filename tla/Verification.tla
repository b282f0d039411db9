---------------------------- MODULE Verification ----------------------------
(***************************************************************************)
(* verify_repo (spike/pipeline.py) after the run: the claims of the tier's *)
(* top K are judged against what the ladder of RunLadder captured, or      *)
(* against committed predictions, and the overlays that may only withdraw  *)
(* a verdict are laid over the records, one after the other.               *)
(*                                                                         *)
(* A claim is known here by its identity; the pipeline knows it by an id   *)
(* it assumes to be unique.  The facts about the claims are drawn when     *)
(* they are diffed, from a set that is a parameter.                        *)
(* Definitions named ..._Mutant are faulty variants of those they precede. *)
(***************************************************************************)
EXTENDS RunLadder, Verdict

CONSTANTS
  Claims,  \* the discovered claims
  Facts,   \* what may be true of a claim: a subset of FactRecord
  Deep,    \* opts.deep
  TopK,    \* opts.top_k; 0: no cap
  K        \* opts.k: runs per attempt

\*   evidence   what the runs show of it
\*   artifact   what the committed predictions it binds to give, if any
\*   leaky      it is about a dataset whose split leaks
\*   weak       it is no better than a trivial baseline
\*   charge     what the red-team screen of its call proposes
FactRecord ==
  [evidence : Evidence,
   artifact : Values \cup {NoValue},
   leaky : BOOLEAN,
   weak : BOOLEAN,
   charge : {"none", "INCONCLUSIVE", "INVALIDATED"}]

ASSUME VerificationAssumption ==
  /\ IsFiniteSet(Claims)
  /\ Facts \subseteq FactRecord
  /\ Deep \in BOOLEAN
  /\ TopK \in Nat
  /\ K \in Nat \ {0}

VARIABLES
  phase,   \* where verify_repo is, once the ladder is done
  proven,  \* static_det: the sources are deterministic by construction
  held,    \* claims beyond the tier's top K
  fact,    \* [Claims -> Facts] what the diff and the overlays read
  rec      \* [Claims -> Verdicts] the verdicts of the records

claimVars == <<phase, proven, held, fact, rec>>
vars == <<ladderVars, claimVars>>

Phases == {"run", "diff", "leakage", "baseline", "redteam", "cap", "done"}
Judged == Phases \ {"run", "diff"}

TypeOK ==
  /\ LadderTypeOK
  /\ phase \in Phases
  /\ proven \in BOOLEAN
  /\ held \in SUBSET Claims
  /\ phase \in Judged => fact \in [Claims -> Facts]
  /\ rec \in [Claims -> Verdicts]

NoFact == [c \in {} |-> {}]

Init ==
  /\ LadderInit
  /\ phase = "run"
  /\ proven \in {FALSE, Deep}
  /\ held = {}
  /\ fact = NoFact
  /\ rec = [c \in Claims |-> "DISCOVERED"]

\* One more step of the ladder.
RunRepo == phase = "run" /\ Deep /\ Climb /\ UNCHANGED claimVars

----------------------------------------------------------------------------
(* Judging *)

\* The claims beyond the K most salient are not deep-verified.
Hold ==
  /\ phase = "run"
  /\ Deep => step = "ran"
  /\ \E H \in SUBSET Claims :
       /\ IF Deep /\ TopK > 0 /\ Cardinality(Claims) > TopK
          THEN Cardinality(Claims \ H) = TopK ELSE H = {}
       /\ held' = H
  /\ phase' = "diff"
  /\ UNCHANGED <<ladderVars, proven, fact, rec>>

\* _artifact_verify
ArtifactVerdict(f) ==
  IF <<f.evidence.claimed, f.artifact>> \in ClaimClose THEN "CONFIRMED" ELSE "REFUTED"

\* A mismatch on data Calma fetched refutes all the same.
RunVerdict_Mutant(e) ==
  IF ~Deep \/ ~run.captured \/ e.status = "uncaptured" THEN "DISCOVERED"
  ELSE DiffClaim(e, proven)

\* _diff_claims
RunVerdict(e) ==
  IF ~Deep \/ ~run.captured \/ e.status = "uncaptured" THEN "DISCOVERED"
  ELSE IF run.auto /\ DiffClaim(e, proven) = "REFUTED" THEN "INCONCLUSIVE"
  ELSE DiffClaim(e, proven)

\* The committed predictions speak for a claim the run did not recompute.
Judge(f) ==
  IF RunVerdict(f.evidence) = "DISCOVERED" /\ f.artifact # NoValue
  THEN ArtifactVerdict(f) ELSE RunVerdict(f.evidence)

\* Adaptive k: one run suffices when determinism is proven.
Depth == IF proven THEN 1 ELSE K

\* Every claim is judged, held or not.
Diff_Mutant ==
  /\ phase = "diff"
  /\ fact' \in [Claims -> {f \in Facts : Len(f.evidence.results) \in 1..Depth}]
  /\ rec' = [c \in Claims |-> Judge(fact'[c])]
  /\ phase' = "leakage"
  /\ UNCHANGED <<ladderVars, proven, held>>

Diff ==
  /\ phase = "diff"
  /\ fact' \in [Claims -> {f \in Facts : Len(f.evidence.results) \in 1..Depth}]
  /\ rec' = [c \in Claims |-> IF c \in held THEN "DISCOVERED" ELSE Judge(fact'[c])]
  /\ phase' = "leakage"
  /\ UNCHANGED <<ladderVars, proven, held>>

----------------------------------------------------------------------------
(* Overlays *)

\* One overlay: the verdict of every record is written again, as verdict gives.
Overlay(from, to, verdict) ==
  /\ phase = from
  /\ rec' = verdict
  /\ phase' = to
  /\ UNCHANGED <<ladderVars, proven, held, fact>>

\* Every verdict on a leaky split is overruled, a refutation included.
Leakage_Mutant == Overlay("leakage", "baseline",
  [c \in Claims |-> IF fact[c].leaky THEN "INVALIDATED" ELSE rec[c]])

\* _apply_leakage_overlay
Leakage == Overlay("leakage", "baseline",
  [c \in Claims |-> IF fact[c].leaky /\ rec[c] # "REFUTED"
                    THEN "INVALIDATED" ELSE rec[c]])

\* _apply_baseline_overlay
Baseline == Overlay("baseline", "redteam",
  [c \in Claims |-> IF fact[c].weak /\ rec[c] \notin {"REFUTED", "INVALIDATED"}
                    THEN "INVALIDATED" ELSE rec[c]])

\* The screen's answer is taken as the verdict, whatever the verdict was.
Redteam_Mutant == Overlay("redteam", "cap",
  [c \in Claims |-> IF /\ Deep /\ run.captured
                       /\ rec[c] \in AFFIRMATIVE
                       /\ fact[c].evidence.status = "bound"
                    THEN fact[c].charge ELSE rec[c]])

\* A claim the screen clears gets the verdict of its run back.
Redteam_Clears_Mutant == Overlay("redteam", "cap",
  [c \in Claims |-> IF /\ Deep /\ run.captured
                       /\ fact[c].evidence.status = "bound"
                       /\ fact[c].charge = "none"
                    THEN RunVerdict(fact[c].evidence) ELSE rec[c]])

\* _apply_redteam_gate: the call of an affirmed claim is screened again.
Redteam == Overlay("redteam", "cap",
  [c \in Claims |-> IF /\ Deep /\ run.captured
                       /\ rec[c] \in AFFIRMATIVE
                       /\ fact[c].evidence.status = "bound"
                    THEN Monotone(rec[c], fact[c].charge) ELSE rec[c]])

\* _apply_agent_modified_cap
Cap == Overlay("cap", "done",
  [c \in Claims |-> IF Deep /\ run.modified # {} /\ rec[c] \in AFFIRMATIVE
                    THEN "REPRODUCED-ONLY" ELSE rec[c]])

Next == RunRepo \/ Hold \/ Diff \/ Leakage \/ Baseline \/ Redteam \/ Cap

Spec == Init /\ [][Next]_vars

----------------------------------------------------------------------------
(* Safety *)

\* The run had nothing to say of the claim: its verdict, if any, is that of
\* the committed predictions.
Silent(e) == ~Deep \/ ~run.captured \/ e.status = "uncaptured"

\* A hard confirmation has a cause in the data.  From a run: the call was bound
\* unambiguously and by more than a name, the claim is what it produced, a
\* trusted recompute or recognised convention gives the same, nothing
\* invalidates it, and every other run that yielded a number yielded that one,
\* of which there is one unless determinism is proven ("~0 false-confirm is the
\* entire franchise", verdict.py).
Reproduced(e) ==
  /\ e.status = "bound" /\ ~e.static /\ ~e.invalid /\ e.known
  /\ <<e.claimed, e.results[1]>> \in ClaimClose
  /\ \E x \in {e.recompute} \cup e.conventions : <<e.results[1], x>> \in Close
  /\ \A i \in 2..Len(e.results) :
       e.results[i] # NoValue => <<e.results[1], e.results[i]>> \in Close
  /\ proven \/ \E i \in 2..Len(e.results) : e.results[i] # NoValue
ConfirmedIsEarned ==
  \A c \in Claims : rec[c] = "CONFIRMED" =>
    LET e == fact[c].evidence
    IN IF Silent(e) THEN <<e.claimed, fact[c].artifact>> \in ClaimClose
       ELSE Reproduced(e)

\* A refutation has one too: the committed predictions give another number, or
\* the code produced another one, on data its result does not flag as fetched,
\* or the claim lies outside the distribution of runs that agree with the
\* recompute.  The flag is all the verdict sees: a file the host fetched
\* between two attempts (RetryFetched) is in the checkout without it.
RefutedIsEarned ==
  \A c \in Claims : rec[c] = "REFUTED" =>
    LET e == fact[c].evidence
    IN IF Silent(e) THEN /\ fact[c].artifact # NoValue
                         /\ <<e.claimed, fact[c].artifact>> \notin ClaimClose
       ELSE /\ ~run.auto
            /\ \/ <<e.claimed, Produced(e)>> \notin ClaimClose
               \/ Power(e) /\ e.zone = "outside"

\* A claim the tier does not deep-verify is never given a verdict of its own.
HeldNeverVerified ==
  \A c \in held : rec[c] \in {"DISCOVERED", "INVALIDATED"}

\* However many overlays follow, a claim on a leaky split ends as not correct.
LeakyNeverVerified ==
  phase = "done" => \A c \in Claims :
    fact[c].leaky => rec[c] \in {"INVALIDATED", "REFUTED"}

\* Whatever attempts follow it, a relink that rewrote a path or put one file in
\* the place of another withholds every affirmation, and so does an edit of
\* the attempt that was kept.
ModifiedNeverAffirmed ==
  phase = "done" /\ (dataModified # {} \/ run.modified # {}) =>
    \A c \in Claims : rec[c] \notin AFFIRMATIVE

\* Once the claims are diffed no overlay affirms or refutes anything: it keeps
\* a verdict or withdraws it, and a refutation it keeps.
OverlaysOnlyWithdraw ==
  [][phase # "run" /\ phase # "diff" => \A c \in Claims :
       /\ rec'[c] \in AFFIRMATIVE => rec'[c] = rec[c]
       /\ (rec'[c] = "REFUTED") <=> (rec[c] = "REFUTED")]_vars

----------------------------------------------------------------------------
(* What comments of the code say of it and the code does not do *)

\* orchestrate: data the resolver substituted or rewrote is folded into the
\* result "so the REPRODUCED-ONLY cap always fires".
ForeignNeverConfirmed ==
  phase = "done" /\ tree \cap {"edited", "substituted"} # {} =>
    \A c \in Claims : rec[c] = "CONFIRMED" => Silent(fact[c].evidence)
============================================================================
