---------------------------- MODULE IsolatedCalls ----------------------------
(***************************************************************************)
(* What run_isolated promises the job that calls it, without the child     *)
(* process, the pipe, the watchdog and the drain thread that implement it. *)
(* So many calls and no more are at work at once; each has one worker, who *)
(* works only inside the call and ends before it; callbacks on the job     *)
(* begin only inside the call, one at a time; and the call comes back once *)
(* with an answer that fits how its worker ended and never changes.        *)
(* Supervisor implements it; VerifyServer takes it for one step.           *)
(***************************************************************************)
EXTENDS Integers, FiniteSets

CONSTANTS
  Runs,    \* calls
  Slots,   \* calls at work at once
  Answers  \* what a call may return or raise

VARIABLES
  stage,   \* [Runs -> {"out", "waiting", "inside", "back"}]
  worker,  \* [Runs -> {"none", "alive", "finished", "failed"}]
  busy,    \* [Runs -> BOOLEAN] a callback on the job is running
  answer   \* [Runs -> Answers \cup {"none"}] what the caller has

vars == <<stage, worker, busy, answer>>

Init ==
  /\ stage = [r \in Runs |-> "out"]
  /\ worker = [r \in Runs |-> "none"]
  /\ busy = [r \in Runs |-> FALSE]
  /\ answer = [r \in Runs |-> "none"]

Inside == {r \in Runs : stage[r] = "inside"}

Call(r) ==
  /\ stage[r] = "out"
  /\ stage' = [stage EXCEPT ![r] = "waiting"]
  /\ UNCHANGED <<worker, busy, answer>>

Enter(r) ==
  /\ stage[r] = "waiting"
  /\ Cardinality(Inside) < Slots
  /\ stage' = [stage EXCEPT ![r] = "inside"]
  /\ UNCHANGED <<worker, busy, answer>>

\* There is at most one worker to a call.
Start(r) ==
  /\ stage[r] = "inside"
  /\ worker[r] = "none"
  /\ worker' = [worker EXCEPT ![r] = "alive"]
  /\ UNCHANGED <<stage, busy, answer>>

Stop(r) ==
  /\ stage[r] = "inside"
  /\ worker[r] = "alive"
  /\ \E end \in {"finished", "failed"} : worker' = [worker EXCEPT ![r] = end]
  /\ UNCHANGED <<stage, busy, answer>>

\* Callbacks come from a worker, while its call is inside ...
BeginEvent(r) ==
  /\ stage[r] = "inside"
  /\ worker[r] # "none"
  /\ ~busy[r]
  /\ busy' = [busy EXCEPT ![r] = TRUE]
  /\ UNCHANGED <<stage, worker, answer>>

\* ... but the last one may outlast it.
EndEvent(r) ==
  /\ busy[r]
  /\ busy' = [busy EXCEPT ![r] = FALSE]
  /\ UNCHANGED <<stage, worker, answer>>

\* A result comes from a worker who finished, the CPU limit hit one who did
\* not, and without a worker there is nothing but an error.
Fits(a, end) ==
  /\ a = "ok" => end = "finished"
  /\ a = "cpu" => end = "failed"
  /\ end = "none" => a = "error"

Return(r) ==
  /\ stage[r] = "inside"
  /\ worker[r] # "alive"
  /\ \E a \in Answers : /\ Fits(a, worker[r])
                        /\ answer' = [answer EXCEPT ![r] = a]
  /\ stage' = [stage EXCEPT ![r] = "back"]
  /\ UNCHANGED <<worker, busy>>

Next == \E r \in Runs :
  \/ Call(r) \/ Enter(r) \/ Start(r) \/ Stop(r)
  \/ BeginEvent(r) \/ EndEvent(r) \/ Return(r)

Spec == Init /\ [][Next]_vars
==============================================================================
