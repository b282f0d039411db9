---------------------------- MODULE MakeRunnable ----------------------------
(***************************************************************************)
(* What the make-runnable loop promises (the docstrings of execute and     *)
(* orchestrate): a session runs the repository at most Ceiling times, the  *)
(* first run that succeeds is the last one and is the result, and a result *)
(* that did not succeed is returned only when no run did.                  *)
(***************************************************************************)
EXTENDS Naturals

CONSTANT Ceiling   \* runs of one session

VARIABLES open,      \* a session is under way
          attempts,  \* runs of the session so far
          won        \* a run of the session succeeded

vars == <<open, attempts, won>>

Init == open = FALSE /\ attempts = 0 /\ won = FALSE

Begin == ~open /\ open' = TRUE /\ attempts' = 0 /\ won' = FALSE

Attempt ==
  /\ open /\ ~won /\ attempts < Ceiling
  /\ attempts' = attempts + 1
  /\ won' \in BOOLEAN
  /\ UNCHANGED open

\* A session ends with its result, which is a success if there was one.
End == open /\ open' = FALSE /\ UNCHANGED <<attempts, won>>

Next == Begin \/ Attempt \/ End
Spec == Init /\ [][Next]_vars
============================================================================
