----------------------------- MODULE MCRunRepo ------------------------------
(* Bounded instances of RunRepo. *)
EXTENDS RunRepo

CONSTANTS d1, d2, f1, b1

Two == {d1, d2}
One == {d1}
Given == {{d1}, {d2}}
Inputs == {f1}
Tools == {b1}
Both == {"e2b", "local"}
Remote == {"e2b"}
NoDeps == {}
=============================================================================
