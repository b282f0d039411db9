------------------------------- MODULE Verdict -------------------------------
(***************************************************************************)
(* The verdict on one claim (spike/core/verdict.py and diff_claim of       *)
(* spike/core/diff.py): what the producer claimed, what its code produced  *)
(* in each run and what an independent recompute of the same inputs gives, *)
(* judged with the state of the binding, of determinism and of validity.   *)
(*                                                                         *)
(* Numbers are members of Values and are only ever compared, through the   *)
(* two tolerances of spike/core/tolerance.py, which are relations here:    *)
(* <<p, x>> \in Close for close(p, x), and <<c, p>> \in ClaimClose for     *)
(* claim_close(c, p).  Nothing is assumed of either, not even symmetry.    *)
(* Definitions named ..._Mutant are faulty variants of those they precede. *)
(***************************************************************************)
EXTENDS Naturals, FiniteSets, Sequences

CONSTANTS
  Values,      \* numbers, as far as the tolerances tell them apart
  NoValue,     \* no finite number
  Close,       \* tolerance.close
  ClaimClose,  \* tolerance.claim_close
  KMin         \* runs a prediction interval needs (interval.predict_interval)

ASSUME VerdictAssumption ==
  /\ NoValue \notin Values
  /\ Close \subseteq Values \X Values
  /\ ClaimClose \subseteq Values \X Values
  /\ KMin \in Nat

Verdicts == {"CONFIRMED", "CONFIRMED-STOCHASTIC", "REFUTED", "INVALIDATED",
             "REPRODUCED-ONLY", "NON-DETERMINISTIC", "INCONCLUSIVE", "DISCOVERED"}
AFFIRMATIVE == {"CONFIRMED", "CONFIRMED-STOCHASTIC"}

----------------------------------------------------------------------------
(* Downgrades *)

Strength == [v \in Verdicts |->
  CASE v = "CONFIRMED" -> 100
    [] v = "CONFIRMED-STOCHASTIC" -> 90
    [] v = "REFUTED" -> 55
    [] v = "INVALIDATED" -> 50
    [] v = "NON-DETERMINISTIC" -> 40
    [] v = "REPRODUCED-ONLY" -> 30
    [] v = "INCONCLUSIVE" -> 20
    [] v = "DISCOVERED" -> 10]

\* monotone: the weaker of the two; "none" is the absence of a charge.
Monotone(old, proposed) ==
  IF proposed # "none" /\ Strength[proposed] < Strength[old] THEN proposed ELSE old

----------------------------------------------------------------------------
(* What a verdict is decided from *)

\* What the runs of the repository show of one claim.
\*   claimed      the reported number
\*   status       how run 1's captured calls bind to it (_bound_call)
\*   static       the call was found by the name of its function only
\*   results      per run, the finite result of the call bound in it
\*   size         the finite result of a call bound by the size convention
\*   known        the metric has a trusted recompute, which gives
\*   recompute      this value; NoValue when it is degenerate
\*   conventions  the values recognised conventions of the metric give
\*   straddles    the enclosure of the recompute crosses the tolerance
\*   invalid      a validity or formula check invalidates the number
\*   wide, zone   the runs' prediction interval is too wide to mean anything,
\*                  and where the claim lies
Evidence ==
  [claimed : Values,
   status : {"uncaptured", "out of range", "ambiguous", "bound_heuristic", "bound"},
   static : BOOLEAN,
   results : Seq(Values \cup {NoValue}),
   size : Values \cup {NoValue},
   known : BOOLEAN,
   recompute : Values \cup {NoValue},
   conventions : SUBSET Values,
   straddles : BOOLEAN,
   invalid : BOOLEAN,
   wide : BOOLEAN,
   zone : {"inside", "edge", "outside"}]

\* Only a call bound without a heuristic counts as the result of its run.
Bound(e) == e.status \in {"bound", "bound_heuristic"}
Produced(e) ==
  IF e.status = "bound_heuristic" THEN e.size
  ELSE IF e.results = <<>> THEN NoValue ELSE e.results[1]
Heuristic(e) == e.status = "bound_heuristic" \/ e.static

\* The runs whose value counts towards determinism.
Counted(e) == {i \in DOMAIN e.results :
                 /\ e.results[i] # NoValue
                 /\ i = 1 => e.status = "bound"}
Tested(e) == \E i, j \in Counted(e) : i < j
Stable(e) == \A i, j \in Counted(e) :
  (i < j /\ \A l \in Counted(e) : i <= l) => <<e.results[i], e.results[j]>> \in Close

\* The value the produced one is compared to: the default recompute or, where
\* that disagrees, a recognised convention that agrees.  An enclosure that
\* crosses the tolerance makes it degenerate.
Agrees(e, x) == <<Produced(e), x>> \in Close
Oracle(e) ==
  LET rescue == {x \in e.conventions : Agrees(e, x)}
  IN IF e.recompute = NoValue \/ Agrees(e, e.recompute) \/ rescue = {}
     THEN e.recompute
     ELSE CHOOSE x \in rescue : TRUE
Recomputed(e) ==
  IF Agrees(e, Oracle(e)) /\ e.straddles THEN NoValue ELSE Oracle(e)

Trusted(e) == e.known /\ Recomputed(e) # NoValue

\* Runs that differ, and are enough to judge the claim by their spread.
Power(e) == Tested(e) /\ ~Stable(e) /\ Cardinality(Counted(e)) >= KMin /\ ~e.wide
Stochastic(e) == e.known /\ Power(e)

----------------------------------------------------------------------------
(* The decision *)

ClaimHolds(e) == <<e.claimed, Produced(e)>> \in ClaimClose

\* Instability only withholds a confirmation from a single run.
Decide_Mutant(e, proven) ==
  IF ~Bound(e) \/ Produced(e) = NoValue          THEN "INCONCLUSIVE"
  ELSE IF ~ClaimHolds(e)                         THEN "REFUTED"
  ELSE IF Trusted(e) /\ ~Agrees(e, Recomputed(e)) THEN "INVALIDATED"
  ELSE IF e.invalid                              THEN "INVALIDATED"
  ELSE IF Trusted(e) /\ (Tested(e) \/ proven)    THEN "CONFIRMED"
  ELSE "REPRODUCED-ONLY"

\* decide: the first line that applies.
Decide(e, proven) ==
  IF ~Bound(e) \/ Produced(e) = NoValue          THEN "INCONCLUSIVE"
  ELSE IF ~Stochastic(e) /\ ~ClaimHolds(e)       THEN "REFUTED"
  ELSE IF Trusted(e) /\ ~Agrees(e, Recomputed(e)) THEN "INVALIDATED"
  ELSE IF e.invalid                              THEN "INVALIDATED"
  ELSE IF Tested(e) /\ ~Stable(e)
    THEN IF ~Trusted(e) \/ ~Power(e) THEN "NON-DETERMINISTIC"
         ELSE IF e.zone = "inside"   THEN "CONFIRMED-STOCHASTIC"
         ELSE IF e.zone = "outside"  THEN "REFUTED"
         ELSE "INCONCLUSIVE"
  ELSE IF Trusted(e) /\ (Tested(e) \/ proven)    THEN "CONFIRMED"
  ELSE "REPRODUCED-ONLY"

\* diff_claim: a call bound by a name or a size may refute, never confirm.
DiffClaim(e, proven) ==
  LET v == Decide(e, proven)
  IN IF Heuristic(e) /\ v \in AFFIRMATIVE THEN "INCONCLUSIVE" ELSE v
============================================================================
