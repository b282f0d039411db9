---------------------------- MODULE MCVerification ----------------------------
(***************************************************************************)
(* Verification on claims whose facts are those of a clean confirmation,   *)
(* or differ from it in one respect, or in two that interact.              *)
(***************************************************************************)
EXTENDS Verification, TLC

CONSTANTS c1, c2

MCValues == 1..3
MCClose == {x \in MCValues \X MCValues : x[1] <= x[2] + 1 /\ x[2] <= x[1] + 1}
MCClaimClose == {x \in MCValues \X MCValues : x[1] = x[2]}

Clean == [claimed |-> 1, status |-> "bound", static |-> FALSE, results |-> <<1, 1>>,
          size |-> NoValue, known |-> TRUE, recompute |-> 2, conventions |-> {},
          straddles |-> FALSE, invalid |-> FALSE, wide |-> FALSE, zone |-> "inside"]
Spread == [Clean EXCEPT !.results = <<1, 3>>]

Shown ==
  {[Clean EXCEPT !.results = r] : r \in {<<1, 1>>, <<1>>, <<3, 3>>, <<1, NoValue>>, <<NoValue, 1>>}}
  \cup {[Clean EXCEPT !.status = s, !.size = 1] :
         s \in {"uncaptured", "out of range", "ambiguous", "bound_heuristic"}}
  \cup {[Clean EXCEPT !.recompute = 3, !.conventions = s] : s \in {{}, {1}}}
  \cup {[Clean EXCEPT !.static = TRUE], [Clean EXCEPT !.invalid = TRUE],
        [Clean EXCEPT !.straddles = TRUE], [Clean EXCEPT !.known = FALSE],
        [Clean EXCEPT !.recompute = NoValue]}
  \cup {[Spread EXCEPT !.zone = z] : z \in {"inside", "edge", "outside"}}
  \cup {[Spread EXCEPT !.wide = TRUE], [Spread EXCEPT !.known = FALSE]}

Plain(e) == [evidence |-> e, artifact |-> NoValue, leaky |-> FALSE, weak |-> FALSE,
             charge |-> "none"]
Absent == [Clean EXCEPT !.status = "uncaptured"]
Wrong == [Clean EXCEPT !.results = <<3, 3>>]

MCFacts ==
  {Plain(e) : e \in Shown}
  \cup {[Plain(e) EXCEPT !.artifact = a] : e \in {Absent, Clean}, a \in {1, 3}}
  \cup {[Plain(e) EXCEPT !.leaky = TRUE] : e \in {Clean, Wrong}}
  \cup {[Plain(e) EXCEPT !.weak = TRUE] : e \in {Clean, Wrong}}
  \cup {[Plain(Clean) EXCEPT !.charge = v] : v \in {"INCONCLUSIVE", "INVALIDATED"}}

MCClaims == {c1, c2}
Symmetry == Permutations(MCClaims)
============================================================================
