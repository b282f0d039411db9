----------------------------- MODULE Supervisor -----------------------------
(***************************************************************************)
(* Process isolation (spike/runner/supervisor.py, run_isolated) and the    *)
(* child it watches (spike/runner/isolated_verify.py).                     *)
(*                                                                         *)
(* Each r in Runs is one call of run_isolated on a thread of the API.  It  *)
(* passes a gate, spawns a child, polls it, classifies how it ended and    *)
(* reaps it, while a drain thread replays the events the child writes to   *)
(* its pipe.  The child works, reports, may leave a process that inherited *)
(* the pipe, and ends in one of the ways the operating system allows.  The *)
(* stderr pipe and its thread behave as the event pipe does and feed only  *)
(* the diagnostics; they are not modelled.                                 *)
(* Definitions named ..._Mutant are faulty variants of those they precede. *)
(***************************************************************************)
EXTENDS Naturals, FiniteSets, Sequences

CONSTANTS
  Runs,          \* calls of run_isolated
  Slots,         \* permits of _GATE
  PipeRoom,      \* bound: events the pipe holds; a full pipe blocks the child
  Inheritors,    \* what a child may leave behind with its pipe: a subset of
                 \*   {"group", "session"}, a process of its group or not
  SlowCallback,  \* whether replaying events may outlast the 5 s join
  PopenMayFail   \* whether the child may fail to start

ASSUME SupervisorAssumption ==
  /\ IsFiniteSet(Runs)
  /\ Slots \in Nat \ {0}
  /\ PipeRoom \in Nat \ {0}
  /\ Inheritors \subseteq {"group", "session"}
  /\ SlowCallback \in BOOLEAN
  /\ PopenMayFail \in BOOLEAN

VARIABLES
  call,     \* [Runs -> Points] where run_isolated is
  permits,  \* free permits of _GATE
  child,    \* [Runs -> Lives] the child process
  rc,       \* [Runs -> Codes] how it exited
  holder,   \* [Runs -> {"none", "group", "session"}] who else has the pipe
  file,     \* [Runs -> Files] the result file
  pipe,     \* [Runs -> Seq(Events)] events written and not yet read
  reader,   \* [Runs -> {"off", "reading", "calling", "ended"}] the drain thread
  seen,     \* [Runs -> {"none", "memory", "error"}] state["error"]
  over,     \* [Runs -> BOOLEAN] resident memory is above the cap
  expired,  \* [Runs -> BOOLEAN] the wall-clock deadline has passed
  why,      \* [Runs -> {"none", "memory", "timeout"}] what _supervise returned
  outcome   \* [Runs -> Outcomes] what the call returned or raised

parent == <<call, permits, why, outcome>>
process == <<child, rc, holder, over>>
channel == <<pipe, reader, seen>>
vars == <<parent, process, channel, file, expired>>

Gated == {"spawn", "poll", "limits", "kill", "join", "classify", "close", "release"}
Points == {"idle", "gate", "returned"} \cup Gated
Lives == {"none", "working", "stored", "exited"}
Codes == {"none", "0", "3", "4", "other", "SIGXCPU", "SIGKILL", "SIGABRT", "SIGSEGV"}
Files == {"none", "empty", "complete", "oversized"}
Events == {"log", "done", "memory", "error"}
Outcomes == {"none", "ok", "memory", "timeout", "cpu", "crashed", "error"}

TypeOK ==
  /\ call \in [Runs -> Points]
  /\ permits \in 0..Slots
  /\ child \in [Runs -> Lives]
  /\ rc \in [Runs -> Codes]
  /\ holder \in [Runs -> {"none", "group", "session"}]
  /\ file \in [Runs -> Files]
  /\ pipe \in [Runs -> Seq(Events)]
  /\ reader \in [Runs -> {"off", "reading", "calling", "ended"}]
  /\ seen \in [Runs -> {"none", "memory", "error"}]
  /\ over \in [Runs -> BOOLEAN]
  /\ expired \in [Runs -> BOOLEAN]
  /\ why \in [Runs -> {"none", "memory", "timeout"}]
  /\ outcome \in [Runs -> Outcomes]

Init ==
  /\ call = [r \in Runs |-> "idle"]
  /\ permits = Slots
  /\ child = [r \in Runs |-> "none"]
  /\ rc = [r \in Runs |-> "none"]
  /\ holder = [r \in Runs |-> "none"]
  /\ file = [r \in Runs |-> "none"]
  /\ pipe = [r \in Runs |-> <<>>]
  /\ reader = [r \in Runs |-> "off"]
  /\ seen = [r \in Runs |-> "none"]
  /\ over = [r \in Runs |-> FALSE]
  /\ expired = [r \in Runs |-> FALSE]
  /\ why = [r \in Runs |-> "none"]
  /\ outcome = [r \in Runs |-> "none"]

At(r, p) == call[r] = p
Goto(r, p) == call' = [call EXCEPT ![r] = p]
Alive(r) == child[r] \in {"working", "stored"}

----------------------------------------------------------------------------
(* run_isolated, on the thread of the job *)

Call(r) ==
  /\ At(r, "idle")
  /\ file' = [file EXCEPT ![r] = "empty"]
  /\ Goto(r, "gate")
  /\ UNCHANGED <<permits, why, outcome, process, channel, expired>>

\* acquire() with a timeout, whose answer is not looked at.
Acquire_Mutant(r) ==
  /\ At(r, "gate")
  /\ permits' = IF permits > 0 THEN permits - 1 ELSE permits
  /\ Goto(r, "spawn")
  /\ UNCHANGED <<why, outcome, process, channel, file, expired>>

Acquire(r) ==
  /\ At(r, "gate")
  /\ permits > 0
  /\ permits' = permits - 1
  /\ Goto(r, "spawn")
  /\ UNCHANGED <<why, outcome, process, channel, file, expired>>

Spawn(r) ==
  /\ At(r, "spawn")
  /\ child' = [child EXCEPT ![r] = "working"]
  /\ reader' = [reader EXCEPT ![r] = "reading"]
  /\ Goto(r, "poll")
  /\ UNCHANGED <<permits, why, outcome, rc, holder, over, pipe, seen, file, expired>>

\* Popen raises OSError, which the `finally` lets through.
SpawnFails_Mutant(r) ==
  /\ PopenMayFail
  /\ At(r, "spawn")
  /\ outcome' = [outcome EXCEPT ![r] = "error"]
  /\ Goto(r, "returned")
  /\ UNCHANGED <<permits, why, process, channel, file, expired>>

SpawnFails(r) ==
  /\ PopenMayFail
  /\ At(r, "spawn")
  /\ outcome' = [outcome EXCEPT ![r] = "error"]
  /\ Goto(r, "release")
  /\ UNCHANGED <<permits, why, process, channel, file, expired>>

\* One turn of _supervise: has the child exited?
Poll(r) ==
  /\ At(r, "poll")
  /\ Goto(r, IF Alive(r) THEN "limits" ELSE "join")
  /\ UNCHANGED <<permits, why, outcome, process, channel, file, expired>>

\* ... is it over its memory, or past its deadline?  A child that has exited
\* since shows no resident memory; the clock does not ask.
Limits_Mutant(r) ==
  /\ At(r, "limits")
  /\ LET reason == IF over[r] /\ Alive(r) THEN "memory" ELSE "none"
     IN /\ why' = [why EXCEPT ![r] = reason]
        /\ Goto(r, IF reason = "none" THEN "poll" ELSE "kill")
  /\ UNCHANGED <<permits, outcome, process, channel, file, expired>>

Limits(r) ==
  /\ At(r, "limits")
  /\ LET reason == IF over[r] /\ Alive(r) THEN "memory"
                   ELSE IF expired[r] THEN "timeout" ELSE "none"
     IN /\ why' = [why EXCEPT ![r] = reason]
        /\ Goto(r, IF reason = "none" THEN "poll" ELSE "kill")
  /\ UNCHANGED <<permits, outcome, process, channel, file, expired>>

\* Only the child is killed (the fallback of _kill_tree).
Kill_Mutant(r) ==
  /\ At(r, "kill")
  /\ child' = [child EXCEPT ![r] = "exited"]
  /\ rc' = [rc EXCEPT ![r] = IF Alive(r) THEN "SIGKILL" ELSE @]
  /\ Goto(r, "join")
  /\ UNCHANGED <<permits, why, outcome, holder, over, channel, file, expired>>

\* _kill_tree: SIGKILL to the group of the child, which is not reaped yet.
Kill(r) ==
  /\ At(r, "kill")
  /\ child' = [child EXCEPT ![r] = "exited"]
  /\ rc' = [rc EXCEPT ![r] = IF Alive(r) THEN "SIGKILL" ELSE @]
  /\ holder' = [holder EXCEPT ![r] = IF @ = "group" THEN "none" ELSE @]
  /\ Goto(r, "join")
  /\ UNCHANGED <<permits, why, outcome, over, channel, file, expired>>

\* A drain thread blocked on a pipe that nobody writes to and somebody holds.
Wedged(r) == reader[r] = "reading" /\ pipe[r] = <<>> /\ holder[r] # "none"

\* The result is read as soon as the child is gone.
Join_Mutant(r) ==
  /\ At(r, "join")
  /\ Goto(r, "classify")
  /\ UNCHANGED <<permits, why, outcome, process, channel, file, expired>>

\* t_out.join(timeout=5): to the end of the stream, or for five seconds.
Join(r) ==
  /\ At(r, "join")
  /\ reader[r] = "ended" \/ Wedged(r) \/ SlowCallback
  /\ Goto(r, "classify")
  /\ UNCHANGED <<permits, why, outcome, process, channel, file, expired>>

\* _exit_error: an abort is taken for a want of memory, as a SIGKILL is.
ExitKind(code) ==
  CASE code = "SIGXCPU" -> "cpu"
    [] code \in {"SIGKILL", "SIGABRT"} -> "memory"
    [] code = "SIGSEGV" -> "crashed"
    [] OTHER            -> "error"

\* The exit code is not looked at.
Verdict_Mutant(r) ==
  IF why[r] # "none" THEN why[r]
  ELSE IF seen[r] # "none" THEN seen[r]
  ELSE IF file[r] = "oversized" THEN "error"
  ELSE IF file[r] = "complete" THEN "ok" ELSE "crashed"

Verdict(r) ==
  IF why[r] # "none" THEN why[r]
  ELSE IF seen[r] # "none" THEN seen[r]
  ELSE IF rc[r] # "0" THEN ExitKind(rc[r])
  ELSE IF file[r] = "oversized" THEN "error"
  ELSE IF file[r] = "complete" THEN "ok" ELSE "crashed"

Classify(r) ==
  /\ At(r, "classify")
  /\ outcome' = [outcome EXCEPT ![r] = Verdict(r)]
  /\ Goto(r, "close")
  /\ UNCHANGED <<permits, why, process, channel, file, expired>>

\* The pipes are left to the garbage collector.
Close_Mutant(r) ==
  /\ At(r, "close")
  /\ Goto(r, "release")
  /\ UNCHANGED <<permits, why, outcome, process, channel, file, expired>>

\* _reap: the child is gone by now; its pipes are closed.  A stream cannot be
\* closed while a thread is blocked reading it.  What was not read is lost.
Close(r) ==
  /\ At(r, "close")
  /\ reader[r] # "reading"
  /\ pipe' = [pipe EXCEPT ![r] = <<>>]
  /\ Goto(r, "release")
  /\ UNCHANGED <<permits, why, outcome, process, reader, seen, file, expired>>

\* A bare semaphore released by the reaper as well as by the `finally`.
Release_Mutant(r) ==
  /\ At(r, "release")
  /\ file' = [file EXCEPT ![r] = "none"]
  /\ permits' = permits + 2
  /\ Goto(r, "returned")
  /\ UNCHANGED <<why, outcome, process, channel, expired>>

\* os.remove(result_path) and _GATE.release()
Release(r) ==
  /\ At(r, "release")
  /\ file' = [file EXCEPT ![r] = "none"]
  /\ permits' = permits + 1
  /\ Goto(r, "returned")
  /\ UNCHANGED <<why, outcome, process, channel, expired>>

----------------------------------------------------------------------------
(* _drain_events, on a thread of its own *)

\* Is the parent's end of the pipe still open?
Open(r) == call[r] \in Gated \ {"spawn", "release"}

\* One line of the stream: an error is kept, an update or a log line replayed.
Receive(r) ==
  /\ reader[r] = "reading"
  /\ pipe[r] # <<>>
  /\ LET e == Head(pipe[r])
     IN /\ seen' = [seen EXCEPT ![r] = IF e \in {"memory", "error"} THEN e ELSE @]
        /\ reader' = [reader EXCEPT ![r] = IF e = "log" THEN "calling" ELSE @]
  /\ pipe' = [pipe EXCEPT ![r] = Tail(@)]
  /\ UNCHANGED <<parent, process, file, expired>>

\* The callback returns; reading a closed stream ends the thread.
Deliver(r) ==
  /\ reader[r] = "calling"
  /\ reader' = [reader EXCEPT ![r] = IF Open(r) THEN "reading" ELSE "ended"]
  /\ UNCHANGED <<parent, process, pipe, seen, file, expired>>

EndOfStream(r) ==
  /\ reader[r] = "reading"
  /\ pipe[r] = <<>>
  /\ ~Alive(r)
  /\ holder[r] = "none"
  /\ reader' = [reader EXCEPT ![r] = "ended"]
  /\ UNCHANGED <<parent, process, pipe, seen, file, expired>>

----------------------------------------------------------------------------
(* isolated_verify.main, in the child *)

Emit(r, e) ==
  /\ Len(pipe[r]) < PipeRoom
  /\ pipe' = [pipe EXCEPT ![r] = Append(@, e)]
Exit(r, code) ==
  /\ child' = [child EXCEPT ![r] = "exited"]
  /\ rc' = [rc EXCEPT ![r] = code]

ChildLogs(r) ==
  /\ child[r] = "working"
  /\ Emit(r, "log")
  /\ UNCHANGED <<parent, process, reader, seen, file, expired>>

\* verify_repo returned: the result file is written.
ChildStores(r) ==
  /\ child[r] = "working"
  /\ \E f \in {"complete", "oversized"} : file' = [file EXCEPT ![r] = f]
  /\ child' = [child EXCEPT ![r] = "stored"]
  /\ UNCHANGED <<parent, rc, holder, over, channel, expired>>

ChildDone(r) ==
  /\ child[r] = "stored"
  /\ Emit(r, "done")
  /\ Exit(r, "0")
  /\ UNCHANGED <<parent, holder, over, reader, seen, file, expired>>

\* MemoryError, any other exception of verify_repo, or a request that cannot be
\* read or a result that cannot be written (exit codes 2 and 5).
ChildFails(r) ==
  /\ child[r] = "working"
  /\ \/ Emit(r, "memory") /\ Exit(r, "4")
     \/ Emit(r, "error") /\ Exit(r, "3")
     \/ Emit(r, "error") /\ Exit(r, "other")
  /\ UNCHANGED <<parent, holder, over, reader, seen, file, expired>>

\* A signal (RLIMIT_CPU, the container's OOM killer, a native crash or failed
\* assertion), or an exit of the interpreter that reports nothing.
ChildDies(r) ==
  /\ Alive(r)
  /\ \E c \in {"other", "SIGXCPU", "SIGKILL", "SIGABRT", "SIGSEGV"} : Exit(r, c)
  /\ UNCHANGED <<parent, holder, over, channel, file, expired>>

ChildForks(r) ==
  /\ Alive(r)
  /\ holder[r] = "none"
  /\ \E h \in Inheritors : holder' = [holder EXCEPT ![r] = h]
  /\ UNCHANGED <<parent, child, rc, over, channel, file, expired>>

ChildGrows(r) ==
  /\ Alive(r)
  /\ ~over[r]
  /\ over' = [over EXCEPT ![r] = TRUE]
  /\ UNCHANGED <<parent, child, rc, holder, channel, file, expired>>

HolderExits(r) ==
  /\ holder[r] # "none"
  /\ holder' = [holder EXCEPT ![r] = "none"]
  /\ UNCHANGED <<parent, child, rc, over, channel, file, expired>>

DeadlinePasses(r) ==
  /\ call[r] \in {"poll", "limits"}
  /\ ~expired[r]
  /\ expired' = [expired EXCEPT ![r] = TRUE]
  /\ UNCHANGED <<parent, process, channel, file>>

----------------------------------------------------------------------------

\* What the thread of a call does once it has been made.
Supervise(r) ==
  \/ Acquire(r) \/ Spawn(r) \/ SpawnFails(r) \/ Poll(r) \/ Limits(r) \/ Kill(r)
  \/ Join(r) \/ Classify(r) \/ Close(r) \/ Release(r)
Drain(r) == Receive(r) \/ Deliver(r) \/ EndOfStream(r)
Child(r) ==
  \/ ChildLogs(r) \/ ChildStores(r) \/ ChildDone(r) \/ ChildFails(r)
  \/ ChildDies(r) \/ ChildForks(r) \/ ChildGrows(r)

Next == \E r \in Runs :
  \/ Call(r) \/ Supervise(r) \/ Drain(r) \/ Child(r)
  \/ HolderExits(r) \/ DeadlinePasses(r)

Spec == Init /\ [][Next]_vars

----------------------------------------------------------------------------
(* Safety *)

\* The free permits and the calls past the gate are together its size: every
\* way out of run_isolated, a Popen that raises included, returns its permit.
GateAccounting ==
  permits + Cardinality({r \in Runs : call[r] \in Gated}) = Slots

\* So many children and no more run at once: a permit is only returned when
\* the child it was taken for is dead ("N legit jobs can't co-OOM the box").
ChildrenBounded == Cardinality({r \in Runs : Alive(r)}) <= Slots

\* A call returns a result only if its child ran to its end and wrote all of
\* it.  It blames the clock or the processor only when they were exceeded, and
\* the memory only when the child was seen above its cap, said so itself, or
\* ended by a signal an exhausted machine sends: by a SIGKILL that is not the
\* watchdog's for the deadline, or by an abort, which need not be of memory.
TruthfulOutcome ==
  \A r \in Runs :
    /\ outcome[r] = "ok" => /\ rc[r] = "0"
                            /\ call[r] # "returned" => file[r] = "complete"
    /\ outcome[r] = "timeout" => expired[r]
    /\ outcome[r] = "memory" => \/ why[r] = "memory" /\ over[r]
                                \/ why[r] = "none" /\ rc[r] \in {"4", "SIGKILL", "SIGABRT"}
    /\ outcome[r] = "cpu" => rc[r] = "SIGXCPU"

\* The child's own account of why it failed reaches the caller, however the
\* drain thread is scheduled, unless the watchdog acted or the join ran out.
DiagnosisKept ==
  \A r \in Runs :
    ~SlowCallback /\ outcome[r] # "none" /\ why[r] = "none" =>
      /\ rc[r] = "4" => outcome[r] = "memory"
      /\ rc[r] = "3" => outcome[r] = "error"

\* A child killed for its budget takes its group with it: no process of the
\* group is left with the pipe when the call goes on.
TreeKilled ==
  \A r \in Runs :
    why[r] # "none" /\ call[r] \notin {"limits", "kill"} =>
      ~Alive(r) /\ holder[r] # "group"

\* No callback on the job begins once run_isolated has returned: a drain
\* thread that outlived the join has at most the one event it is delivering.
OneLateEvent ==
  [][\A r \in Runs : call[r] = "returned" /\ reader'[r] # reader[r] =>
       reader'[r] = "ended"]_vars

\* What the job that called sees of a call: where it stands, how its child is,
\* whether a callback is running, and its answer once it is back.
Stage(r) ==
  CASE call[r] = "idle" -> "out"
    [] call[r] = "gate" -> "waiting"
    [] call[r] = "returned" -> "back"
    [] OTHER -> "inside"
Worker(r) ==
  CASE child[r] = "none" -> "none"
    [] Alive(r) -> "alive"
    [] child[r] = "exited" /\ rc[r] = "0" -> "finished"
    [] OTHER -> "failed"
Answer(r) == IF call[r] = "returned" THEN outcome[r] ELSE "none"

ISO == INSTANCE IsolatedCalls WITH
  Answers <- Outcomes \ {"none"},
  stage <- [r \in Runs |-> Stage(r)],
  worker <- [r \in Runs |-> Worker(r)],
  busy <- [r \in Runs |-> reader[r] = "calling"],
  answer <- [r \in Runs |-> Answer(r)]

\* The gate, the child, its pipe, the watchdog and the drain thread implement
\* the promise of run_isolated: whatever races inside, no child outlives its
\* call or exceeds the permits, no callback begins after the return, and the
\* answer fits how the child ended.
ImplementsIsolatedCalls == ISO!Spec

----------------------------------------------------------------------------
(* Liveness *)

\* The operating system schedules the threads and time passes.  A child, or a
\* process it left behind, need do nothing.
Fairness == \A r \in Runs :
  /\ WF_vars(Supervise(r))
  /\ WF_vars(Drain(r))
  /\ WF_vars(DeadlinePasses(r))
FairSpec == Spec /\ Fairness

\* A call that is made returns, however its child ends or is ended, and when it
\* could not be started: it leaves the gate to the next, and the thread of its
\* job comes to its `finally`.  Only without Inheritors: see WedgedPipeReturns.
CallReturns == \A r \in Runs : call[r] = "gate" ~> call[r] = "returned"

----------------------------------------------------------------------------
(* What a comment of the code says of it and the code does not do *)

\* "bounded join so a wedged pipe can't hang the supervisor": the call returns
\* once its child is gone, whoever still has the pipe.  The close after the
\* join has no bound: it waits for the drain thread, which waits for the holder.
WedgedPipeReturns == \A r \in Runs : call[r] = "join" ~> call[r] = "returned"
============================================================================
