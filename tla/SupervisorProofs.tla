-------------------------- MODULE SupervisorProofs --------------------------
(***************************************************************************)
(* Proofs about Supervisor: its types, the gate and the children behind    *)
(* it, and the truth of what a call reports.                               *)
(***************************************************************************)
EXTENDS Supervisor, FiniteSetTheorems, TLAPS

After == {"join", "classify", "close", "release", "returned"}

\* Where a call stands with its child.  A child is alive only while its call
\* polls it; what the watchdog decided and what the call reports come after.
ChildFlow ==
  \A r \in Runs :
    /\ Alive(r) => call[r] \in {"poll", "limits", "kill"}
    /\ Alive(r) => rc[r] = "none"
    /\ call[r] \in {"idle", "gate", "spawn"} => child[r] = "none" /\ rc[r] = "none"
    /\ outcome[r] # "none" => call[r] \in {"close", "release", "returned"}
    /\ why[r] # "none" => call[r] \in {"kill"} \cup After
    /\ call[r] = "kill" => why[r] # "none"

\* Why a call says what it says: the reason of the watchdog, and a report of
\* exhausted memory, in the pipe or read from it, have their cause.
Causes ==
  \A r \in Runs :
    /\ why[r] = "memory" => over[r]
    /\ why[r] = "timeout" => expired[r]
    /\ seen[r] = "memory" => rc[r] = "4"
    /\ \A i \in 1..Len(pipe[r]) : pipe[r][i] = "memory" => rc[r] = "4"

IInv == /\ TypeOK /\ GateAccounting /\ ChildFlow /\ Causes
        /\ TruthfulOutcome /\ TreeKilled

-----------------------------------------------------------------------------

\* The supervisor at boot is well typed.
LEMMA InitTyped == Init => TypeOK
  BY SupervisorAssumption DEF Init, TypeOK, Points, Gated, Lives, Codes, Files,
                              Events, Outcomes

\* A verdict is one of the outcomes of a call.
LEMMA VerdictType ==
  ASSUME TypeOK, NEW r \in Runs
  PROVE  Verdict(r) \in Outcomes
  BY DEF TypeOK, Verdict, ExitKind, Outcomes, Codes

\* An emitted event extends the pipe of its run by one element of Events.
LEMMA EmitType ==
  ASSUME pipe \in [Runs -> Seq(Events)], NEW r \in Runs, NEW e \in Events, Emit(r, e)
  PROVE  /\ pipe' \in [Runs -> Seq(Events)]
         /\ pipe'[r] = Append(pipe[r], e)
         /\ \A q \in Runs \ {r} : pipe'[q] = pipe[q]
  BY DEF Emit

\* The actions of the thread that supervises a call keep the types.
LEMMA SuperviseTyped ==
  ASSUME TypeOK, NEW r \in Runs, Call(r) \/ Supervise(r), permits < Slots \/ ~Release(r)
  PROVE  TypeOK'
<1> USE SupervisorAssumption DEF TypeOK, Goto, At, Points, Gated, Lives, Codes,
        Files, Outcomes, parent, process, channel
<1>1. CASE Call(r) \/ Acquire(r) \/ Spawn(r) \/ SpawnFails(r)
  <2>1. CASE Call(r)
    BY <2>1 DEF Call
  <2>2. CASE Acquire(r)
    BY <2>2 DEF Acquire
  <2>3. CASE Spawn(r)
    BY <2>3 DEF Spawn
  <2>4. CASE SpawnFails(r)
    BY <2>4 DEF SpawnFails
  <2> QED BY <1>1, <2>1, <2>2, <2>3, <2>4
<1>2. CASE Poll(r) \/ Limits(r)
  <2>1. CASE Poll(r)
    BY <2>1 DEF Poll
  <2>2. CASE Limits(r)
    BY <2>2 DEF Limits
  <2> QED BY <1>2, <2>1, <2>2
<1>3. CASE Kill(r)
  BY <1>3 DEF Kill
<1>4. CASE Join(r)
  BY <1>4 DEF Join
<1>5. CASE Classify(r)
  BY <1>5, VerdictType DEF Classify
<1>6. CASE Close(r)
  <2>1. <<>> \in Seq(Events)
    OBVIOUS
  <2> QED BY <1>6, <2>1 DEF Close
<1>7. CASE Release(r)
  BY <1>7 DEF Release
<1> QED BY <1>1, <1>2, <1>3, <1>4, <1>5, <1>6, <1>7 DEF Supervise

\* So do those of the drain thread, the child and the world around them.
LEMMA OtherTyped ==
  ASSUME TypeOK, NEW r \in Runs,
         Drain(r) \/ Child(r) \/ HolderExits(r) \/ DeadlinePasses(r)
  PROVE  TypeOK'
<1> USE SupervisorAssumption DEF TypeOK, Points, Gated, Lives, Codes, Files,
        Outcomes, parent, process, channel
<1>1. CASE Receive(r)
  <2>1. pipe[r] \in Seq(Events) /\ pipe[r] # <<>>
    BY <1>1 DEF Receive
  <2>2. Tail(pipe[r]) \in Seq(Events) /\ Head(pipe[r]) \in Events
    BY <2>1
  <2> QED BY <1>1, <2>2 DEF Receive, Events
<1>2. CASE Deliver(r) \/ EndOfStream(r)
  <2>1. CASE Deliver(r)
    BY <2>1 DEF Deliver
  <2>2. CASE EndOfStream(r)
    BY <2>2 DEF EndOfStream
  <2> QED BY <1>2, <2>1, <2>2
<1>3. CASE ChildLogs(r) \/ ChildDone(r) \/ ChildFails(r)
  <2>1. pipe' \in [Runs -> Seq(Events)]
    BY <1>3, EmitType DEF ChildLogs, ChildDone, ChildFails, Events
  <2>2. CASE ChildLogs(r)
    BY <2>1, <2>2 DEF ChildLogs
  <2>3. CASE ChildDone(r)
    BY <2>1, <2>3 DEF ChildDone, Exit
  <2>4. CASE ChildFails(r)
    <3>1. PICK c \in {"3", "4", "other"} : Exit(r, c)
      BY <2>4 DEF ChildFails
    <3> QED BY <2>1, <2>4, <3>1 DEF ChildFails, Exit
  <2> QED BY <1>3, <2>2, <2>3, <2>4
<1>4. CASE ChildStores(r) \/ ChildDies(r)
  <2>1. CASE ChildStores(r)
    BY <2>1 DEF ChildStores
  <2>2. CASE ChildDies(r)
    BY <2>2 DEF ChildDies, Exit
  <2> QED BY <1>4, <2>1, <2>2
<1>5. CASE ChildForks(r) \/ ChildGrows(r) \/ HolderExits(r) \/ DeadlinePasses(r)
  <2>1. CASE ChildForks(r)
    BY <2>1 DEF ChildForks
  <2>2. CASE ChildGrows(r)
    BY <2>2 DEF ChildGrows
  <2>3. CASE HolderExits(r)
    BY <2>3 DEF HolderExits
  <2>4. CASE DeadlinePasses(r)
    BY <2>4 DEF DeadlinePasses
  <2> QED BY <1>5, <2>1, <2>2, <2>3, <2>4
<1> QED BY <1>1, <1>2, <1>3, <1>4, <1>5 DEF Drain, Child

-----------------------------------------------------------------------------
(* The gate *)

Inside == {r \in Runs : call[r] \in Gated}

\* The calls past the gate are finitely many, and each counts.
LEMMA InsideFinite ==
  /\ IsFiniteSet(Inside)
  /\ Cardinality(Inside) \in Nat
  /\ \A r \in Inside : /\ Cardinality(Inside) >= 1
                       /\ Cardinality(Inside \ {r}) = Cardinality(Inside) - 1
  /\ \A r \in Runs \ Inside : Cardinality(Inside \cup {r}) = Cardinality(Inside) + 1
<1>1. IsFiniteSet(Runs) /\ Inside \subseteq Runs
  BY SupervisorAssumption DEF Inside
<1>2. IsFiniteSet(Inside)
  BY <1>1, FS_Subset
<1>3. Cardinality(Inside) \in Nat
  BY <1>2, FS_CardinalityType
<1>4. ASSUME NEW r \in Inside
      PROVE  /\ Cardinality(Inside) >= 1
             /\ Cardinality(Inside \ {r}) = Cardinality(Inside) - 1
  <2>1. IsFiniteSet(Inside \ {r}) /\ Cardinality(Inside \ {r}) = Cardinality(Inside) - 1
    BY <1>2, FS_RemoveElement
  <2>2. Cardinality(Inside \ {r}) \in Nat
    BY <2>1, FS_CardinalityType
  <2> QED BY <1>3, <2>1, <2>2
<1>5. ASSUME NEW r \in Runs \ Inside
      PROVE  Cardinality(Inside \cup {r}) = Cardinality(Inside) + 1
  BY <1>2, FS_AddElement
<1> QED BY <1>2, <1>3, <1>4, <1>5

\* A permit is taken exactly when a call enters and given back exactly when it
\* leaves: no other step moves a call through the gate.
LEMMA StepGate ==
  ASSUME TypeOK, NEW r \in Runs,
         \/ Call(r) \/ Supervise(r) \/ Drain(r) \/ Child(r)
         \/ HolderExits(r) \/ DeadlinePasses(r)
  PROVE  \/ permits' = permits /\ Inside' = Inside
         \/ /\ permits > 0 /\ permits' = permits - 1
            /\ r \in Runs \ Inside /\ Inside' = Inside \cup {r}
         \/ /\ permits' = permits + 1
            /\ r \in Inside /\ Inside' = Inside \ {r}
<1> USE DEF Inside, Gated, At, Goto, parent
<1>c. call \in [Runs -> Points]
  BY DEF TypeOK
<1>1. CASE Drain(r) \/ Child(r) \/ HolderExits(r) \/ DeadlinePasses(r)
  BY <1>1 DEF Drain, Child, Receive, Deliver, EndOfStream, ChildLogs, ChildStores,
     ChildDone, ChildFails, ChildDies, ChildForks, ChildGrows, HolderExits,
     DeadlinePasses
<1>2. CASE Acquire(r)
  BY <1>2, <1>c DEF Acquire
<1>3. CASE Release(r)
  BY <1>3, <1>c DEF Release
<1>4. CASE Call(r)
  BY <1>4, <1>c DEF Call
<1>5. CASE Spawn(r) \/ SpawnFails(r)
  BY <1>5, <1>c DEF Spawn, SpawnFails
<1>6. CASE Poll(r) \/ Limits(r)
  BY <1>6, <1>c DEF Poll, Limits
<1>7. CASE Kill(r) \/ Join(r)
  BY <1>7, <1>c DEF Kill, Join
<1>8. CASE Classify(r) \/ Close(r)
  BY <1>8, <1>c DEF Classify, Close
<1> QED BY <1>1, <1>2, <1>3, <1>4, <1>5, <1>6, <1>7, <1>8 DEF Supervise

\* Every step keeps the types and the accounting of the gate.
LEMMA StepTypedAndGated ==
  ASSUME TypeOK, GateAccounting, [Next]_vars
  PROVE  TypeOK' /\ GateAccounting'
<1>g. permits \in Nat /\ Slots \in Nat /\ permits + Cardinality(Inside) = Slots
  BY SupervisorAssumption DEF TypeOK, GateAccounting, Inside
<1>1. CASE UNCHANGED vars
  BY <1>1 DEF vars, parent, process, channel, TypeOK, GateAccounting
<1>2. ASSUME NEW r \in Runs,
             \/ Call(r) \/ Supervise(r) \/ Drain(r) \/ Child(r)
             \/ HolderExits(r) \/ DeadlinePasses(r)
      PROVE  TypeOK' /\ GateAccounting'
  <2>1. permits < Slots \/ ~Release(r)
    <3>1. Release(r) => r \in Inside
      BY DEF Release, At, Inside, Gated
    <3>2. Cardinality(Inside) \in Nat /\ (r \in Inside => Cardinality(Inside) >= 1)
      BY InsideFinite
    <3> QED BY <1>g, <3>1, <3>2
  <2>2. TypeOK'
    BY <1>2, <2>1, SuperviseTyped, OtherTyped
  <2>3. permits' + Cardinality(Inside') = Slots
    BY <1>g, <1>2, StepGate, InsideFinite
  <2> QED BY <2>2, <2>3 DEF GateAccounting, Inside
<1> QED BY <1>1, <1>2 DEF Next

-----------------------------------------------------------------------------
(* A call, its child and its report *)

\* What ChildFlow, Causes, TruthfulOutcome and TreeKilled say of one call.
RunOK(r) ==
  /\ Alive(r) => call[r] \in {"poll", "limits", "kill"} /\ rc[r] = "none"
  /\ call[r] \in {"idle", "gate", "spawn"} => child[r] = "none" /\ rc[r] = "none"
  /\ outcome[r] # "none" => call[r] \in {"close", "release", "returned"}
  /\ why[r] # "none" => call[r] \in {"kill"} \cup After
  /\ call[r] = "kill" => why[r] # "none"
  /\ why[r] = "memory" => over[r]
  /\ why[r] = "timeout" => expired[r]
  /\ seen[r] = "memory" => rc[r] = "4"
  /\ \A i \in 1..Len(pipe[r]) : pipe[r][i] = "memory" => rc[r] = "4"
  /\ outcome[r] = "ok" => rc[r] = "0" /\ (call[r] # "returned" => file[r] = "complete")
  /\ outcome[r] = "timeout" => expired[r]
  /\ outcome[r] = "memory" => \/ why[r] = "memory" /\ over[r]
                              \/ why[r] = "none" /\ rc[r] \in {"4", "SIGKILL", "SIGABRT"}
  /\ outcome[r] = "cpu" => rc[r] = "SIGXCPU"
  /\ why[r] # "none" /\ call[r] \notin {"limits", "kill"} =>
       ~Alive(r) /\ holder[r] # "group"

\* The invariants of the calls, one call at a time.
LEMMA RunOKOfAll ==
  (\A r \in Runs : RunOK(r)) <=> ChildFlow /\ Causes /\ TruthfulOutcome /\ TreeKilled
  BY DEF RunOK, ChildFlow, Causes, TruthfulOutcome, TreeKilled

\* What the types say of one call.
LEMMA RunTypes ==
  ASSUME TypeOK
  PROVE  /\ call \in [Runs -> Points] /\ child \in [Runs -> Lives]
         /\ rc \in [Runs -> Codes] /\ pipe \in [Runs -> Seq(Events)]
         /\ holder \in [Runs -> {"none", "group", "session"}]
         /\ reader \in [Runs -> {"off", "reading", "calling", "ended"}]
         /\ seen \in [Runs -> {"none", "memory", "error"}]
         /\ over \in [Runs -> BOOLEAN] /\ expired \in [Runs -> BOOLEAN]
         /\ why \in [Runs -> {"none", "memory", "timeout"}]
         /\ outcome \in [Runs -> Outcomes] /\ file \in [Runs -> Files]
  BY DEF TypeOK

\* What a call reports is true when it has been classified.
LEMMA VerdictTrue ==
  ASSUME TypeOK, NEW r \in Runs, RunOK(r), At(r, "classify")
  PROVE  /\ Verdict(r) = "ok" => rc[r] = "0" /\ file[r] = "complete"
         /\ Verdict(r) = "timeout" => expired[r]
         /\ Verdict(r) = "memory" =>
              \/ why[r] = "memory" /\ over[r]
              \/ why[r] = "none" /\ rc[r] \in {"4", "SIGKILL", "SIGABRT"}
         /\ Verdict(r) = "cpu" => rc[r] = "SIGXCPU"
  BY RunTypes DEF RunOK, Verdict, ExitKind, At

\* The thread of a call keeps what is said of that call ...
LEMMA SuperviseKeeps ==
  ASSUME TypeOK, NEW r \in Runs, RunOK(r), Call(r) \/ Supervise(r)
  PROVE  RunOK(r)'
<1> USE RunTypes DEF RunOK, At, Goto, After, Alive, parent, process, channel
<1>1. CASE Call(r)
  BY <1>1 DEF Call
<1>2. CASE Acquire(r)
  BY <1>2 DEF Acquire
<1>3. CASE Spawn(r)
  BY <1>3 DEF Spawn
<1>4. CASE SpawnFails(r)
  BY <1>4 DEF SpawnFails
<1>5. CASE Poll(r)
  BY <1>5 DEF Poll
<1>6. CASE Limits(r)
  BY <1>6 DEF Limits
<1>7. CASE Kill(r)
  BY <1>7 DEF Kill
<1>8. CASE Join(r)
  BY <1>8 DEF Join
<1>9. CASE Classify(r)
  BY <1>9, VerdictTrue, ZenonT(30) DEF Classify
<1>10. CASE Close(r)
  BY <1>10 DEF Close
<1>11. CASE Release(r)
  BY <1>11 DEF Release
<1> QED BY <1>1, <1>2, <1>3, <1>4, <1>5, <1>6, <1>7, <1>8, <1>9, <1>10, <1>11
        DEF Supervise

\* ... and so do its drain thread, its child and the world around them.
LEMMA OtherKeeps ==
  ASSUME TypeOK, NEW r \in Runs, RunOK(r),
         Drain(r) \/ Child(r) \/ HolderExits(r) \/ DeadlinePasses(r)
  PROVE  RunOK(r)'
<1> USE RunTypes DEF RunOK, After, Alive, parent, process, channel
<1>1. CASE Receive(r)
  <2>1. pipe[r] \in Seq(Events) /\ pipe[r] # <<>>
    BY <1>1 DEF Receive
  <2>2. /\ pipe'[r] = Tail(pipe[r])
        /\ seen'[r] = IF pipe[r][1] \in {"memory", "error"} THEN pipe[r][1] ELSE seen[r]
        /\ UNCHANGED <<call, why, outcome, child, rc, holder, over, expired, file>>
    BY <1>1 DEF Receive
  <2>3. \A i \in 1..Len(Tail(pipe[r])) :
          i + 1 \in 1..Len(pipe[r]) /\ Tail(pipe[r])[i] = pipe[r][i + 1]
    BY <2>1
  <2>4. 1 \in 1..Len(pipe[r])
    BY <2>1
  <2>5. seen'[r] = "memory" => rc'[r] = "4"
    BY <2>2, <2>4
  <2>6. \A i \in 1..Len(pipe'[r]) : pipe'[r][i] = "memory" => rc'[r] = "4"
    BY <2>2, <2>3
  <2> QED BY <2>2, <2>5, <2>6
<1>2. CASE Deliver(r) \/ EndOfStream(r)
  BY <1>2 DEF Deliver, EndOfStream
<1>3. ASSUME NEW e \in Events, Emit(r, e), ~(e = "memory") \/ rc'[r] = "4",
             rc[r] = "4" => rc'[r] = "4"
      PROVE  \A i \in 1..Len(pipe'[r]) : pipe'[r][i] = "memory" => rc'[r] = "4"
  <2>1. pipe[r] \in Seq(Events) /\ pipe'[r] = Append(pipe[r], e)
    BY <1>3, EmitType
  <2>2. \A i \in 1..Len(Append(pipe[r], e)) :
          \/ Append(pipe[r], e)[i] = e
          \/ i \in 1..Len(pipe[r]) /\ Append(pipe[r], e)[i] = pipe[r][i]
    BY <2>1
  <2> QED BY <1>3, <2>1, <2>2
<1>4. CASE ChildLogs(r)
  <2>1. Emit(r, "log") /\ "log" \in Events
    BY <1>4 DEF ChildLogs, Events
  <2>2. UNCHANGED <<call, why, outcome, child, rc, holder, over, seen, expired, file>>
    BY <1>4 DEF ChildLogs
  <2>3. \A i \in 1..Len(pipe'[r]) : pipe'[r][i] = "memory" => rc'[r] = "4"
    BY <1>3, <2>1, <2>2
  <2> QED BY <2>2, <2>3
<1>5. ASSUME NEW e \in {"done", "memory", "error"}, NEW c \in Codes,
             Alive(r), Emit(r, e), Exit(r, c), e = "memory" => c = "4",
             UNCHANGED <<parent, holder, over, reader, seen, file, expired>>
      PROVE  RunOK(r)'
  <2>1. child'[r] = "exited" /\ rc'[r] = c /\ rc[r] = "none"
    BY <1>5 DEF Exit
  <2>2. e \in Events
    BY <1>5 DEF Events
  <2>3. \A i \in 1..Len(pipe'[r]) : pipe'[r][i] = "memory" => rc'[r] = "4"
    BY <1>3, <1>5, <2>1, <2>2
  <2> QED BY <1>5, <2>1, <2>3
<1>6. CASE ChildDone(r)
  <2>1. Alive(r) /\ "0" \in Codes
    BY <1>6 DEF ChildDone, Codes
  <2> QED BY <1>5, <1>6, <2>1 DEF ChildDone
<1>7. CASE ChildFails(r)
  <2>1. Alive(r) /\ {"3", "4", "other"} \subseteq Codes
    BY <1>7 DEF ChildFails, Codes
  <2>2. CASE Emit(r, "memory") /\ Exit(r, "4")
    BY <1>5, <1>7, <2>1, <2>2 DEF ChildFails
  <2>3. CASE Emit(r, "error") /\ Exit(r, "3")
    BY <1>5, <1>7, <2>1, <2>3 DEF ChildFails
  <2>4. CASE Emit(r, "error") /\ Exit(r, "other")
    BY <1>5, <1>7, <2>1, <2>4 DEF ChildFails
  <2> QED BY <1>7, <2>2, <2>3, <2>4 DEF ChildFails
<1>8. CASE ChildStores(r)
  BY <1>8 DEF ChildStores
<1>9. CASE ChildDies(r)
  BY <1>9 DEF ChildDies, Exit
<1>10. CASE ChildForks(r)
  BY <1>10 DEF ChildForks
<1>11. CASE ChildGrows(r)
  BY <1>11 DEF ChildGrows
<1>12. CASE HolderExits(r)
  BY <1>12 DEF HolderExits
<1>13. CASE DeadlinePasses(r)
  BY <1>13 DEF DeadlinePasses
<1> QED BY <1>1, <1>2, <1>4, <1>6, <1>7, <1>8, <1>9, <1>10, <1>11, <1>12, <1>13
        DEF Drain, Child

\* A step for one call leaves every other call and its child alone.
LEMMA OthersAlone ==
  ASSUME TypeOK, NEW r \in Runs, NEW q \in Runs \ {r}, RunOK(q),
         \/ Call(r) \/ Supervise(r) \/ Drain(r) \/ Child(r)
         \/ HolderExits(r) \/ DeadlinePasses(r)
  PROVE  RunOK(q)'
<1> DEFINE Same == /\ call'[q] = call[q] /\ child'[q] = child[q] /\ rc'[q] = rc[q]
                   /\ holder'[q] = holder[q] /\ pipe'[q] = pipe[q]
                   /\ seen'[q] = seen[q] /\ over'[q] = over[q]
                   /\ expired'[q] = expired[q] /\ why'[q] = why[q]
                   /\ outcome'[q] = outcome[q] /\ file'[q] = file[q]
<1>0. Same => RunOK(q)'
  BY DEF RunOK, Alive
<1> USE RunTypes DEF Goto, Emit, Exit, parent, process, channel
<1>1. CASE Call(r) \/ Acquire(r)
  BY <1>0, <1>1 DEF Call, Acquire
<1>2. CASE Spawn(r) \/ SpawnFails(r)
  BY <1>0, <1>2 DEF Spawn, SpawnFails
<1>3. CASE Poll(r) \/ Limits(r)
  BY <1>0, <1>3 DEF Poll, Limits
<1>4. CASE Kill(r) \/ Join(r)
  BY <1>0, <1>4 DEF Kill, Join
<1>5. CASE Classify(r) \/ Close(r)
  BY <1>0, <1>5 DEF Classify, Close
<1>6. CASE Release(r) \/ Receive(r)
  BY <1>0, <1>6 DEF Release, Receive
<1>7. CASE Deliver(r) \/ EndOfStream(r)
  BY <1>0, <1>7 DEF Deliver, EndOfStream
<1>8. CASE ChildLogs(r) \/ ChildStores(r)
  BY <1>0, <1>8 DEF ChildLogs, ChildStores
<1>9. CASE ChildDone(r) \/ ChildDies(r)
  BY <1>0, <1>9 DEF ChildDone, ChildDies
<1>10. CASE ChildFails(r)
  BY <1>0, <1>10 DEF ChildFails
<1>11. CASE ChildForks(r) \/ ChildGrows(r)
  BY <1>0, <1>11 DEF ChildForks, ChildGrows
<1>12. CASE HolderExits(r) \/ DeadlinePasses(r)
  BY <1>0, <1>12 DEF HolderExits, DeadlinePasses
<1> QED BY <1>1, <1>2, <1>3, <1>4, <1>5, <1>6, <1>7, <1>8, <1>9, <1>10, <1>11, <1>12
        DEF Supervise, Drain, Child

-----------------------------------------------------------------------------
(* The theorems *)

\* The inductive invariant holds at boot.
LEMMA InitInvariant == Init => IInv
<1> SUFFICES ASSUME Init PROVE IInv
  OBVIOUS
<1>1. TypeOK
  BY InitTyped
<1>2. Inside = {} /\ Cardinality(Inside) = 0
  BY FS_EmptySet DEF Init, Inside, Gated
<1>3. GateAccounting
  BY <1>2, SupervisorAssumption DEF Init, Inside, GateAccounting
<1>4. \A r \in Runs : RunOK(r)
  BY DEF Init, RunOK, Alive
<1> QED BY <1>1, <1>3, <1>4, RunOKOfAll DEF IInv

\* Every step of a call, its child or the world preserves it.
LEMMA StepInvariant == IInv /\ [Next]_vars => IInv'
<1> SUFFICES ASSUME IInv, [Next]_vars PROVE IInv'
  OBVIOUS
<1>1. TypeOK' /\ GateAccounting'
  BY StepTypedAndGated DEF IInv
<1>2. \A q \in Runs : RunOK(q)
  BY RunOKOfAll DEF IInv
<1>3. ASSUME NEW q \in Runs PROVE RunOK(q)'
  <2>1. CASE UNCHANGED vars
    BY <1>2, <2>1 DEF vars, parent, process, channel, RunOK, Alive
  <2>2. ASSUME NEW r \in Runs,
               \/ Call(r) \/ Supervise(r) \/ Drain(r) \/ Child(r)
               \/ HolderExits(r) \/ DeadlinePasses(r)
        PROVE  RunOK(q)'
    <3>1. CASE q = r
      BY <1>2, <2>2, <3>1, SuperviseKeeps, OtherKeeps DEF IInv
    <3>2. CASE q # r
      BY <1>2, <2>2, <3>2, OthersAlone DEF IInv
    <3> QED BY <3>1, <3>2
  <2> QED BY <2>1, <2>2 DEF Next
<1>4. ChildFlow' /\ Causes' /\ TruthfulOutcome' /\ TreeKilled'
  BY <1>3 DEF RunOK, ChildFlow, Causes, TruthfulOutcome, TreeKilled
<1> QED BY <1>1, <1>4 DEF IInv

\* The inductive invariant: types, the gate, where a call stands with its
\* child, the causes of what it reports, and that the report is true.
THEOREM InvariantHolds == Spec => []IInv
  BY InitInvariant, StepInvariant, PTL DEF Spec

\* The variables of the supervisor keep their types.
THEOREM TypeCorrect == Spec => []TypeOK
<1>1. IInv => TypeOK
  BY DEF IInv
<1> QED BY <1>1, InvariantHolds, PTL

\* No call of run_isolated loses a permit of the gate or returns it twice.
THEOREM GateAccounted == Spec => []GateAccounting
<1>1. IInv => GateAccounting
  BY DEF IInv
<1> QED BY <1>1, InvariantHolds, PTL

\* Never more children than permits: a live child's call is inside the gate.
THEOREM BoundedChildren == Spec => []ChildrenBounded
<1>1. ASSUME IInv PROVE ChildrenBounded
  <2> DEFINE living == {r \in Runs : Alive(r)}
  <2>1. living \subseteq Inside
    BY <1>1 DEF IInv, ChildFlow, Inside, Gated
  <2>2. IsFiniteSet(Inside) /\ Cardinality(Inside) \in Nat
    BY InsideFinite
  <2>3. Cardinality(living) \in Nat /\ Cardinality(living) <= Cardinality(Inside)
    BY <2>1, <2>2, FS_Subset, FS_CardinalityType
  <2>4. permits \in Nat /\ permits + Cardinality(Inside) = Slots /\ Slots \in Nat
    BY <1>1, SupervisorAssumption DEF IInv, TypeOK, GateAccounting, Inside
  <2>5. Cardinality(living) <= Slots
    BY <2>2, <2>3, <2>4
  <2> QED BY <2>5 DEF ChildrenBounded
<1> QED BY <1>1, InvariantHolds, PTL

\* A result is the child's own complete one, and a failure is blamed on the
\* budget only when the budget was exceeded or the kernel killed the child.
THEOREM OutcomeTrue == Spec => []TruthfulOutcome
<1>1. IInv => TruthfulOutcome
  BY DEF IInv
<1> QED BY <1>1, InvariantHolds, PTL

\* A child killed for its budget leaves no process of its group behind.
THEOREM TreeGone == Spec => []TreeKilled
<1>1. IInv => TreeKilled
  BY DEF IInv
<1> QED BY <1>1, InvariantHolds, PTL

-----------------------------------------------------------------------------
(* What the child said of itself *)

Report == {"memory", "error"}
Before == {"poll", "limits", "kill", "join", "classify"}

\* A report is true, and one that was made is in the pipe until it is read; a
\* drain thread that ended, or was waited for, has read all there was.
Told(r) ==
  /\ seen[r] = "error" => rc[r] \in {"3", "other"}
  /\ \A i \in 1..Len(pipe[r]) : pipe[r][i] = "error" => rc[r] \in {"3", "other"}
  /\ rc[r] \in {"3", "4"} /\ call[r] \in Before =>
       seen[r] # "none" \/ \E i \in 1..Len(pipe[r]) : pipe[r][i] \in Report
  /\ reader[r] = "ended" /\ call[r] \in Before => pipe[r] = <<>> /\ ~Alive(r)
  /\ call[r] = "classify" /\ ~SlowCallback => pipe[r] = <<>>
  /\ ~SlowCallback /\ outcome[r] # "none" /\ why[r] = "none" =>
       /\ rc[r] = "4" => outcome[r] = "memory"
       /\ rc[r] = "3" => outcome[r] = "error"

\* Classified after the report was read, the call says what the child said.
LEMMA VerdictRepeats ==
  ASSUME TypeOK, NEW r \in Runs, RunOK(r), Told(r), At(r, "classify"),
         ~SlowCallback, why[r] = "none"
  PROVE  /\ rc[r] = "4" => Verdict(r) = "memory"
         /\ rc[r] = "3" => Verdict(r) = "error"
<1>1. ~ \E i \in 1..Len(pipe[r]) : pipe[r][i] \in Report
  <2>1. pipe[r] = <<>>
    BY DEF Told, At
  <2> QED
    BY <2>1
<1>2. rc[r] \in {"3", "4"} => seen[r] # "none"
  BY <1>1 DEF Told, At, Before
<1> QED
  BY <1>2, RunTypes DEF Told, RunOK, Verdict

\* The thread of a call loses no report ...
LEMMA SuperviseTells ==
  ASSUME TypeOK, NEW r \in Runs, RunOK(r), Told(r), Call(r) \/ Supervise(r)
  PROVE  Told(r)'
<1> USE RunTypes DEF Told, RunOK, At, Goto, Alive, Before, parent, process, channel
<1>1. CASE Call(r)
  BY <1>1 DEF Call
<1>2. CASE Acquire(r)
  BY <1>2 DEF Acquire
<1>3. CASE Spawn(r)
  BY <1>3 DEF Spawn
<1>4. CASE SpawnFails(r)
  BY <1>4 DEF SpawnFails
<1>5. CASE Poll(r)
  BY <1>5 DEF Poll
<1>6. CASE Limits(r)
  BY <1>6 DEF Limits
<1>7. CASE Kill(r)
  BY <1>7 DEF Kill
<1>8. CASE Join(r)
  BY <1>8 DEF Join, Wedged
<1>9. CASE Classify(r)
  BY <1>9, VerdictRepeats DEF Classify
<1>10. CASE Close(r)
  BY <1>10 DEF Close
<1>11. CASE Release(r)
  BY <1>11 DEF Release
<1> QED BY <1>1, <1>2, <1>3, <1>4, <1>5, <1>6, <1>7, <1>8, <1>9, <1>10, <1>11
        DEF Supervise

\* An event at the end of a pipe changes none before it.
LEMMA Emitted ==
  ASSUME TypeOK, NEW r \in Runs, NEW e \in Events, Emit(r, e)
  PROVE  /\ \A i \in 1..Len(pipe'[r]) :
              pipe'[r][i] = e \/ (i \in 1..Len(pipe[r]) /\ pipe'[r][i] = pipe[r][i])
         /\ \A i \in 1..Len(pipe[r]) : i \in 1..Len(pipe'[r]) /\ pipe'[r][i] = pipe[r][i]
         /\ \E i \in 1..Len(pipe'[r]) : pipe'[r][i] = e
<1>1. pipe[r] \in Seq(Events) /\ pipe'[r] = Append(pipe[r], e)
  BY EmitType DEF TypeOK
<1>2. Len(pipe'[r]) = Len(pipe[r]) + 1 /\ pipe'[r][Len(pipe[r]) + 1] = e
      /\ \A i \in 1..Len(pipe[r]) : pipe'[r][i] = pipe[r][i]
      /\ Len(pipe[r]) \in Nat
  BY <1>1
<1> QED
  BY <1>2

\* ... nor does its drain thread, its child or the world around them.
LEMMA OtherTells ==
  ASSUME TypeOK, NEW r \in Runs, RunOK(r), Told(r),
         Drain(r) \/ Child(r) \/ HolderExits(r) \/ DeadlinePasses(r)
  PROVE  Told(r)'
<1> USE RunTypes DEF Alive, Before, parent, process, channel
<1>1. CASE Receive(r)
  <2>1. pipe[r] \in Seq(Events) /\ pipe[r] # <<>>
    BY <1>1 DEF Receive
  <2>2. /\ pipe'[r] = Tail(pipe[r])
        /\ seen'[r] = IF pipe[r][1] \in {"memory", "error"} THEN pipe[r][1] ELSE seen[r]
        /\ reader'[r] # "ended"
        /\ UNCHANGED <<call, why, outcome, child, rc>>
    BY <1>1 DEF Receive
  <2>3. \A i \in 1..Len(Tail(pipe[r])) :
          i + 1 \in 1..Len(pipe[r]) /\ Tail(pipe[r])[i] = pipe[r][i + 1]
    BY <2>1
  <2>4. 1 \in 1..Len(pipe[r])
    BY <2>1
  <2>5. seen'[r] = "error" => rc'[r] \in {"3", "other"}
    BY <2>2, <2>4 DEF Told
  <2>6. \A i \in 1..Len(pipe'[r]) : pipe'[r][i] = "error" => rc'[r] \in {"3", "other"}
    BY <2>2, <2>3 DEF Told
  <2>7. rc'[r] \in {"3", "4"} /\ call'[r] \in Before =>
          seen'[r] # "none" \/ \E i \in 1..Len(pipe'[r]) : pipe'[r][i] \in Report
    <3>1. CASE pipe[r][1] \in Report
      BY <2>2, <3>1 DEF Report
    <3>2. CASE pipe[r][1] \notin Report
      <4>1. ASSUME NEW i \in 1..Len(pipe[r]), pipe[r][i] \in Report
            PROVE  i - 1 \in 1..Len(Tail(pipe[r])) /\ Tail(pipe[r])[i - 1] = pipe[r][i]
        BY <2>1, <3>2, <4>1
      <4>2. seen'[r] = seen[r]
        BY <2>2, <3>2 DEF Report
      <4> QED
        BY <2>2, <4>1, <4>2 DEF Told
    <3> QED
      BY <3>1, <3>2
  <2>8. call'[r] = "classify" /\ ~SlowCallback => FALSE
    BY <2>1, <2>2 DEF Told
  <2> QED
    BY <2>2, <2>5, <2>6, <2>7, <2>8 DEF Told
<1>2. CASE Deliver(r)
  BY <1>2 DEF Deliver, Open, Gated, Told
<1>3. CASE EndOfStream(r)
  BY <1>3 DEF EndOfStream, Told
<1>4. CASE ChildLogs(r)
  <2>1. Emit(r, "log") /\ "log" \in Events /\ Alive(r)
    BY <1>4 DEF ChildLogs, Events
  <2>2. /\ \A i \in 1..Len(pipe'[r]) :
             pipe'[r][i] = "log" \/ (i \in 1..Len(pipe[r]) /\ pipe'[r][i] = pipe[r][i])
        /\ rc[r] = "none" /\ call[r] \in {"poll", "limits", "kill"}
        /\ outcome[r] = "none"
    BY <2>1, Emitted DEF RunOK
  <2>3. UNCHANGED <<call, why, outcome, child, rc, reader, seen>>
    BY <1>4 DEF ChildLogs
  <2> QED
    BY <2>1, <2>2, <2>3 DEF Told
<1>5. ASSUME NEW e \in {"done", "memory", "error"}, NEW c \in Codes,
             Alive(r), Emit(r, e), Exit(r, c),
             <<e, c>> \in {<<"done", "0">>, <<"memory", "4">>, <<"error", "3">>, <<"error", "other">>},
             UNCHANGED <<parent, holder, over, reader, seen, file, expired>>
      PROVE  Told(r)'
  <2>1. /\ child'[r] = "exited" /\ rc'[r] = c /\ rc[r] = "none"
        /\ call[r] \in {"poll", "limits", "kill"} /\ outcome[r] = "none"
    BY <1>5 DEF Exit, RunOK
  <2>2. e \in Events
    BY <1>5 DEF Events
  <2>3. /\ \A i \in 1..Len(pipe'[r]) :
             pipe'[r][i] = e \/ (i \in 1..Len(pipe[r]) /\ pipe'[r][i] = pipe[r][i])
        /\ \E i \in 1..Len(pipe'[r]) : pipe'[r][i] = e
    BY <1>5, <2>2, Emitted
  <2>4. \A i \in 1..Len(pipe[r]) : pipe[r][i] # "error"
    BY <2>1 DEF Told
  <2>5. seen[r] # "error" /\ reader[r] # "ended"
    BY <1>5, <2>1 DEF Told
  <2>6. UNCHANGED <<call, why, outcome, reader, seen>>
    BY <1>5
  <2>7. e = "error" => c \in {"3", "other"}
    BY <1>5
  <2>8. c \in {"3", "4"} => e \in Report
    BY <1>5 DEF Report
  <2> QED
    BY <2>1, <2>3, <2>4, <2>5, <2>6, <2>7, <2>8 DEF Told
<1>6. CASE ChildDone(r)
  <2>1. Alive(r) /\ "0" \in Codes
    BY <1>6 DEF ChildDone, Codes
  <2> QED BY <1>5, <1>6, <2>1 DEF ChildDone
<1>7. CASE ChildFails(r)
  <2>1. Alive(r) /\ {"3", "4", "other"} \subseteq Codes
    BY <1>7 DEF ChildFails, Codes
  <2>2. CASE Emit(r, "memory") /\ Exit(r, "4")
    BY <1>5, <1>7, <2>1, <2>2 DEF ChildFails
  <2>3. CASE Emit(r, "error") /\ Exit(r, "3")
    BY <1>5, <1>7, <2>1, <2>3 DEF ChildFails
  <2>4. CASE Emit(r, "error") /\ Exit(r, "other")
    BY <1>5, <1>7, <2>1, <2>4 DEF ChildFails
  <2> QED BY <1>7, <2>2, <2>3, <2>4 DEF ChildFails
<1>8. CASE ChildStores(r)
  BY <1>8 DEF ChildStores, Told
<1>9. CASE ChildDies(r)
  <2>1. /\ Alive(r) /\ rc[r] = "none" /\ outcome[r] = "none"
        /\ call[r] \in {"poll", "limits", "kill"}
    BY <1>9 DEF ChildDies, RunOK
  <2>2. /\ child'[r] = "exited" /\ rc'[r] \in {"other", "SIGXCPU", "SIGKILL", "SIGABRT", "SIGSEGV"}
        /\ UNCHANGED <<call, why, outcome, pipe, reader, seen>>
    BY <1>9 DEF ChildDies, Exit
  <2> QED
    BY <2>1, <2>2 DEF Told
<1>10. CASE ChildForks(r)
  BY <1>10 DEF ChildForks, Told
<1>11. CASE ChildGrows(r)
  BY <1>11 DEF ChildGrows, Told
<1>12. CASE HolderExits(r)
  BY <1>12 DEF HolderExits, Told
<1>13. CASE DeadlinePasses(r)
  BY <1>13 DEF DeadlinePasses, Told
<1> QED BY <1>1, <1>2, <1>3, <1>4, <1>6, <1>7, <1>8, <1>9, <1>10, <1>11, <1>12, <1>13
        DEF Drain, Child

\* A step for one call says nothing of another.
LEMMA OthersUntold ==
  ASSUME TypeOK, NEW r \in Runs, NEW q \in Runs \ {r}, Told(q),
         \/ Call(r) \/ Supervise(r) \/ Drain(r) \/ Child(r)
         \/ HolderExits(r) \/ DeadlinePasses(r)
  PROVE  Told(q)'
<1> DEFINE Same == /\ call'[q] = call[q] /\ child'[q] = child[q] /\ rc'[q] = rc[q]
                   /\ pipe'[q] = pipe[q] /\ reader'[q] = reader[q]
                   /\ seen'[q] = seen[q] /\ why'[q] = why[q]
                   /\ outcome'[q] = outcome[q]
<1>0. Same => Told(q)'
  BY DEF Told, Alive
<1> USE RunTypes DEF Goto, Emit, Exit, parent, process, channel
<1>1. CASE Call(r) \/ Acquire(r)
  BY <1>0, <1>1 DEF Call, Acquire
<1>2. CASE Spawn(r) \/ SpawnFails(r)
  BY <1>0, <1>2 DEF Spawn, SpawnFails
<1>3. CASE Poll(r) \/ Limits(r)
  BY <1>0, <1>3 DEF Poll, Limits
<1>4. CASE Kill(r) \/ Join(r)
  BY <1>0, <1>4 DEF Kill, Join
<1>5. CASE Classify(r) \/ Close(r)
  BY <1>0, <1>5 DEF Classify, Close
<1>6. CASE Release(r) \/ Receive(r)
  BY <1>0, <1>6 DEF Release, Receive
<1>7. CASE Deliver(r) \/ EndOfStream(r)
  BY <1>0, <1>7 DEF Deliver, EndOfStream
<1>8. CASE ChildLogs(r) \/ ChildStores(r)
  BY <1>0, <1>8 DEF ChildLogs, ChildStores
<1>9. CASE ChildDone(r) \/ ChildDies(r)
  BY <1>0, <1>9 DEF ChildDone, ChildDies
<1>10. CASE ChildFails(r)
  BY <1>0, <1>10 DEF ChildFails
<1>11. CASE ChildForks(r) \/ ChildGrows(r)
  BY <1>0, <1>11 DEF ChildForks, ChildGrows
<1>12. CASE HolderExits(r) \/ DeadlinePasses(r)
  BY <1>0, <1>12 DEF HolderExits, DeadlinePasses
<1> QED BY <1>1, <1>2, <1>3, <1>4, <1>5, <1>6, <1>7, <1>8, <1>9, <1>10, <1>11, <1>12
        DEF Supervise, Drain, Child

\* The child's own account of why it failed reaches the caller: the drain
\* thread is waited for, and what it had not read would still be in the pipe.
THEOREM DiagnosisReaches == Spec => []DiagnosisKept
<1> DEFINE AllTold == \A q \in Runs : Told(q)
<1>1. Init => AllTold
  BY DEF Init, Told, Alive, Before
<1>2. ASSUME IInv, AllTold, [Next]_vars
      PROVE  AllTold'
  <2>1. TypeOK /\ \A q \in Runs : RunOK(q)
    BY <1>2, RunOKOfAll DEF IInv
  <2>2. ASSUME NEW q \in Runs PROVE Told(q)'
    <3>1. CASE UNCHANGED vars
      BY <1>2, <3>1 DEF vars, parent, process, channel, Told, Alive
    <3>2. ASSUME NEW r \in Runs,
                 \/ Call(r) \/ Supervise(r) \/ Drain(r) \/ Child(r)
                 \/ HolderExits(r) \/ DeadlinePasses(r)
          PROVE  Told(q)'
      <4>1. CASE q = r
        BY <1>2, <2>1, <3>2, <4>1, SuperviseTells, OtherTells
      <4>2. CASE q # r
        BY <1>2, <2>1, <3>2, <4>2, OthersUntold
      <4> QED BY <4>1, <4>2
    <3> QED BY <1>2, <3>1, <3>2 DEF Next
  <2> QED BY <2>2
<1>3. AllTold => DiagnosisKept
  BY DEF Told, DiagnosisKept
<1> HIDE DEF AllTold
<1> QED
  BY <1>1, <1>2, <1>3, InvariantHolds, PTL DEF Spec

-----------------------------------------------------------------------------
(* The end of the drain thread *)

\* Nobody reads a pipe that is not open: the close waits for the read.
ReaderStopped(r) ==
  call[r] \in {"idle", "gate", "spawn", "release", "returned"} => reader[r] # "reading"

\* A step of a call, its drain thread or its child.
Steps(r) ==
  \/ Call(r) \/ Supervise(r) \/ Drain(r) \/ Child(r)
  \/ HolderExits(r) \/ DeadlinePasses(r)

\* What a step of call r does to where it stands and to its reader.
LEMMA ReaderStops ==
  ASSUME TypeOK, NEW r \in Runs, ReaderStopped(r), Steps(r)
  PROVE  /\ ReaderStopped(r)'
         /\ call[r] = "returned" /\ reader'[r] # reader[r] => reader'[r] = "ended"
<1> USE RunTypes DEF ReaderStopped, At, Goto, parent, process, channel
<1>1. CASE Call(r) \/ Acquire(r) \/ Spawn(r) \/ SpawnFails(r)
  BY <1>1 DEF Call, Acquire, Spawn, SpawnFails
<1>2. CASE Poll(r) \/ Limits(r) \/ Kill(r) \/ Join(r)
  BY <1>2 DEF Poll, Limits, Kill, Join
<1>3. CASE Classify(r) \/ Close(r) \/ Release(r)
  BY <1>3 DEF Classify, Close, Release
<1>4. CASE Drain(r)
  BY <1>4 DEF Drain, Receive, Deliver, EndOfStream, Open, Gated
<1>5. CASE Child(r) \/ HolderExits(r) \/ DeadlinePasses(r)
  BY <1>5 DEF Child, ChildLogs, ChildStores, ChildDone, ChildFails, ChildDies,
              ChildForks, ChildGrows, HolderExits, DeadlinePasses
<1> QED
  BY <1>1, <1>2, <1>3, <1>4, <1>5 DEF Steps, Supervise

\* ... and to those of another: nothing.
LEMMA ReadersApart ==
  ASSUME TypeOK, NEW r \in Runs, NEW q \in Runs \ {r}, Steps(r)
  PROVE  call'[q] = call[q] /\ reader'[q] = reader[q]
<1> USE RunTypes DEF Goto, parent, process, channel
<1>1. CASE Call(r) \/ Acquire(r) \/ Spawn(r) \/ SpawnFails(r)
  BY <1>1 DEF Call, Acquire, Spawn, SpawnFails
<1>2. CASE Poll(r) \/ Limits(r) \/ Kill(r) \/ Join(r)
  BY <1>2 DEF Poll, Limits, Kill, Join
<1>3. CASE Classify(r) \/ Close(r) \/ Release(r)
  BY <1>3 DEF Classify, Close, Release
<1>4. CASE Drain(r)
  BY <1>4 DEF Drain, Receive, Deliver, EndOfStream
<1>5. CASE Child(r) \/ HolderExits(r) \/ DeadlinePasses(r)
  BY <1>5 DEF Child, ChildLogs, ChildStores, ChildDone, ChildFails, ChildDies,
              ChildForks, ChildGrows, HolderExits, DeadlinePasses
<1> QED
  BY <1>1, <1>2, <1>3, <1>4, <1>5 DEF Steps, Supervise

\* Once run_isolated has returned, its drain thread has at most the event it is
\* delivering, and then ends: what VerifyServer assumes of late events.
THEOREM LateEventsEnd == Spec => OneLateEvent
<1> DEFINE AllStopped == \A q \in Runs : ReaderStopped(q)
           Late == \A q \in Runs : call[q] = "returned" /\ reader'[q] # reader[q] =>
                     reader'[q] = "ended"
<1>1. Init => AllStopped
  BY DEF Init, ReaderStopped
<1>2. ASSUME TypeOK, AllStopped, [Next]_vars
      PROVE  AllStopped' /\ [Late]_vars
  <2>1. CASE UNCHANGED vars
    BY <1>2, <2>1 DEF vars, parent, channel, ReaderStopped
  <2>2. CASE Next
    <3>1. PICK r \in Runs : Steps(r)
      BY <2>2 DEF Next, Steps
    <3>2. ASSUME NEW q \in Runs
          PROVE  /\ ReaderStopped(q)'
                 /\ call[q] = "returned" /\ reader'[q] # reader[q] => reader'[q] = "ended"
      <4>1. CASE q = r
        BY <1>2, <3>1, <4>1, ReaderStops
      <4>2. CASE q # r
        BY <1>2, <3>1, <4>2, ReadersApart DEF ReaderStopped
      <4> QED BY <4>1, <4>2
    <3> QED BY <3>2
  <2> QED BY <1>2, <2>1, <2>2
<1> HIDE DEF AllStopped
<1>3. ASSUME TypeOK, AllStopped, [Next]_vars
      PROVE  [\A r \in Runs : call[r] = "returned" /\ reader'[r] # reader[r] =>
                reader'[r] = "ended"]_vars
  BY <1>2, <1>3
<1> HIDE DEF Late
<1> QED
  BY <1>1, <1>2, <1>3, TypeCorrect, PTL DEF Spec, OneLateEvent

-----------------------------------------------------------------------------
(* The promise of run_isolated *)

\* What a call has of its child and of an answer, beside RunOK: a child was
\* started before it is watched, a callback comes from a child, and a call is
\* classified before it ends.
Accompanied(r) ==
  /\ call[r] \in {"poll", "limits", "kill", "join", "classify"} => child[r] # "none"
  /\ child[r] = "none" => reader[r] = "off"
  /\ call[r] \in {"close", "release", "returned"} => outcome[r] # "none"
  /\ child[r] = "none" /\ outcome[r] # "none" => outcome[r] = "error"

\* Every step keeps it of the call it is a step of ...
LEMMA CompanyKept ==
  ASSUME TypeOK, NEW r \in Runs, RunOK(r), Accompanied(r), Steps(r)
  PROVE  Accompanied(r)'
<1> USE RunTypes DEF Accompanied, At, Goto, parent, process, channel
<1>1. CASE Call(r) \/ Acquire(r) \/ Spawn(r)
  BY <1>1 DEF Call, Acquire, Spawn, RunOK
<1>2. CASE SpawnFails(r) \/ Poll(r) \/ Limits(r)
  BY <1>2 DEF SpawnFails, Poll, Limits
<1>3. CASE Kill(r) \/ Join(r)
  BY <1>3 DEF Kill, Join
<1>4. CASE Classify(r)
  <2>1. Verdict(r) # "none"
    BY DEF Verdict, ExitKind
  <2> QED
    BY <1>4, <2>1 DEF Classify
<1>5. CASE Close(r) \/ Release(r)
  BY <1>5 DEF Close, Release
<1>6. CASE Drain(r)
  BY <1>6 DEF Drain, Receive, Deliver, EndOfStream
<1>7. CASE Child(r)
  BY <1>7 DEF Child, ChildLogs, ChildStores, ChildDone, ChildFails, ChildDies,
              ChildForks, ChildGrows, Exit, Alive
<1>8. CASE HolderExits(r) \/ DeadlinePasses(r)
  BY <1>8 DEF HolderExits, DeadlinePasses
<1> QED
  BY <1>1, <1>2, <1>3, <1>4, <1>5, <1>6, <1>7, <1>8 DEF Steps, Supervise

\* ... and shows the job nothing of another.
LEMMA OthersUnseen ==
  ASSUME TypeOK, NEW r \in Runs, NEW q \in Runs \ {r}, Steps(r)
  PROVE  /\ call'[q] = call[q] /\ reader'[q] = reader[q] /\ child'[q] = child[q]
         /\ rc'[q] = rc[q] /\ outcome'[q] = outcome[q]
<1> USE RunTypes DEF Goto, Exit, parent, process, channel
<1>1. CASE Call(r) \/ Acquire(r) \/ Spawn(r) \/ SpawnFails(r)
  BY <1>1 DEF Call, Acquire, Spawn, SpawnFails
<1>2. CASE Poll(r) \/ Limits(r) \/ Kill(r) \/ Join(r)
  BY <1>2 DEF Poll, Limits, Kill, Join
<1>3. CASE Classify(r) \/ Close(r) \/ Release(r)
  BY <1>3 DEF Classify, Close, Release
<1>4. CASE Drain(r)
  BY <1>4 DEF Drain, Receive, Deliver, EndOfStream
<1>5. CASE Child(r) \/ HolderExits(r) \/ DeadlinePasses(r)
  BY <1>5 DEF Child, ChildLogs, ChildStores, ChildDone, ChildFails, ChildDies,
              ChildForks, ChildGrows, HolderExits, DeadlinePasses
<1> QED
  BY <1>1, <1>2, <1>3, <1>4, <1>5 DEF Steps, Supervise

\* What a step of a call does to what the job sees of it: one step of the
\* promise, or nothing.
Shown(r) ==
  \/ /\ Stage(r)' = Stage(r) /\ Worker(r)' = Worker(r) /\ Answer(r)' = Answer(r)
     /\ (reader'[r] = "calling") = (reader[r] = "calling")
  \/ /\ Stage(r) = "out" /\ Stage(r)' = "waiting"
     /\ Worker(r)' = Worker(r) /\ Answer(r)' = Answer(r) /\ reader' = reader
  \/ /\ Stage(r) = "waiting" /\ Stage(r)' = "inside" /\ permits > 0
     /\ Worker(r)' = Worker(r) /\ Answer(r)' = Answer(r) /\ reader' = reader
  \/ /\ Stage(r) = "inside" /\ Stage(r)' = "inside" /\ Answer(r)' = Answer(r)
     /\ reader[r] # "calling" /\ reader'[r] # "calling"
     /\ Worker(r) = "none" /\ Worker(r)' = "alive"
  \/ /\ Stage(r) = "inside" /\ Stage(r)' = "inside" /\ Answer(r)' = Answer(r)
     /\ reader' = reader
     /\ Worker(r) = "alive" /\ Worker(r)' \in {"finished", "failed"}
  \/ /\ Stage(r) = "inside" /\ Worker(r) # "none"
     /\ reader[r] # "calling" /\ reader'[r] = "calling"
     /\ Stage(r)' = Stage(r) /\ Worker(r)' = Worker(r) /\ Answer(r)' = Answer(r)
  \/ /\ reader[r] = "calling" /\ reader'[r] # "calling"
     /\ Stage(r)' = Stage(r) /\ Worker(r)' = Worker(r) /\ Answer(r)' = Answer(r)
  \/ /\ Stage(r) = "inside" /\ Stage(r)' = "back"
     /\ Worker(r) # "alive" /\ Worker(r)' = Worker(r) /\ reader' = reader
     /\ Answer(r)' \in Outcomes \ {"none"}
     /\ Answer(r)' = "ok" => Worker(r) = "finished"
     /\ Answer(r)' = "cpu" => Worker(r) = "failed"
     /\ Worker(r) = "none" => Answer(r)' = "error"

LEMMA StepShown ==
  ASSUME TypeOK, NEW r \in Runs, RunOK(r), ReaderStopped(r), Accompanied(r), Steps(r)
  PROVE  Shown(r)
<1> USE RunTypes DEF Stage, Answer, At, Goto, parent, process, channel
<1>1. CASE Call(r)
  BY <1>1 DEF Call, Shown, Worker, Alive
<1>2. CASE Acquire(r)
  BY <1>2 DEF Acquire, Shown, Worker, Alive
<1>3. CASE Spawn(r)
  BY <1>3 DEF Spawn, Shown, Worker, Alive, RunOK, ReaderStopped, Accompanied
<1>4. CASE SpawnFails(r) \/ Poll(r) \/ Limits(r) \/ Join(r) \/ Classify(r) \/ Close(r)
  <2>1. Stage(r) = "inside" /\ Stage(r)' = "inside"
    BY <1>4 DEF SpawnFails, Poll, Limits, Join, Classify, Close
  <2>2. child' = child /\ rc' = rc /\ reader' = reader
    BY <1>4 DEF SpawnFails, Poll, Limits, Join, Classify, Close
  <2>3. Worker(r)' = Worker(r) /\ Answer(r)' = Answer(r)
    BY <2>1, <2>2 DEF Worker, Alive
  <2> QED
    BY <2>1, <2>2, <2>3 DEF Shown
<1>5. CASE Kill(r)
  BY <1>5 DEF Kill, Shown, Worker, Alive, RunOK, Accompanied, Lives
<1>6. CASE Release(r)
  BY <1>6 DEF Release, Shown, Worker, Alive, RunOK, Accompanied, Lives, Outcomes
<1>7. CASE Drain(r)
  <2>1. UNCHANGED <<call, outcome, child, rc>>
    BY <1>7 DEF Drain, Receive, Deliver, EndOfStream
  <2>2. Stage(r)' = Stage(r) /\ Worker(r)' = Worker(r) /\ Answer(r)' = Answer(r)
    BY <2>1 DEF Worker, Alive
  <2>3. CASE Receive(r)
    BY <2>2, <2>3 DEF Receive, Shown, ReaderStopped, Accompanied, Worker, Alive
  <2>4. CASE Deliver(r) \/ EndOfStream(r)
    BY <2>2, <2>4 DEF Deliver, EndOfStream, Shown
  <2> QED
    BY <1>7, <2>3, <2>4 DEF Drain
<1>8. CASE Child(r)
  <2>1. UNCHANGED <<call, outcome, reader>>
    BY <1>8 DEF Child, ChildLogs, ChildStores, ChildDone, ChildFails, ChildDies,
                ChildForks, ChildGrows
  <2>2. Alive(r) /\ Stage(r) = "inside" /\ Worker(r) = "alive"
    BY <1>8 DEF Child, ChildLogs, ChildStores, ChildDone, ChildFails, ChildDies,
                ChildForks, ChildGrows, Alive, RunOK, Worker
  <2>3. Worker(r)' \in {"alive", "finished", "failed"}
    BY <1>8 DEF Child, ChildLogs, ChildStores, ChildDone, ChildFails, ChildDies,
                ChildForks, ChildGrows, Exit, Alive, Worker
  <2> QED
    BY <2>1, <2>2, <2>3 DEF Shown
<1>9. CASE HolderExits(r) \/ DeadlinePasses(r)
  BY <1>9 DEF HolderExits, DeadlinePasses, Shown, Worker, Alive
<1> QED
  BY <1>1, <1>2, <1>3, <1>4, <1>5, <1>6, <1>7, <1>8, <1>9 DEF Steps, Supervise

\* A function over the calls changes in one entry, or not at all.
LEMMA OneEntry ==
  ASSUME NEW f, NEW g, NEW r \in Runs, f = [q \in Runs |-> f[q]], g = [q \in Runs |-> g[q]],
         \A q \in Runs \ {r} : g[q] = f[q]
  PROVE  g = [f EXCEPT ![r] = g[r]] /\ (g[r] = f[r] => g = f)
<1>1. g = [f EXCEPT ![r] = g[r]]
  OBVIOUS
<1>2. ASSUME g[r] = f[r] PROVE g = f
  <2>1. \A q \in Runs : g[q] = f[q]
    BY <1>2
  <2> QED
    BY <2>1
<1> QED
  BY <1>1, <1>2

\* What the job sees of a call is shown by a step of the promise.
LEMMA ShownImplements ==
  ASSUME TypeOK, GateAccounting, NEW r \in Runs, Shown(r), Steps(r)
  PROVE  [ISO!Next]_(ISO!vars)
<1> DEFINE stage == [q \in Runs |-> Stage(q)]
           worker == [q \in Runs |-> Worker(q)]
           busy == [q \in Runs |-> reader[q] = "calling"]
           answer == [q \in Runs |-> Answer(q)]
<1>1. \A q \in Runs \ {r} : /\ stage'[q] = stage[q] /\ worker'[q] = worker[q]
                            /\ busy'[q] = busy[q] /\ answer'[q] = answer[q]
  BY OthersUnseen DEF Stage, Worker, Answer, Alive
<1>2. /\ stage = [q \in Runs |-> stage[q]] /\ stage' = [q \in Runs |-> stage'[q]]
      /\ worker = [q \in Runs |-> worker[q]] /\ worker' = [q \in Runs |-> worker'[q]]
      /\ busy = [q \in Runs |-> busy[q]] /\ busy' = [q \in Runs |-> busy'[q]]
      /\ answer = [q \in Runs |-> answer[q]] /\ answer' = [q \in Runs |-> answer'[q]]
  OBVIOUS
<1>3. /\ stage[r] = Stage(r) /\ worker[r] = Worker(r)
      /\ busy[r] = (reader[r] = "calling") /\ answer[r] = Answer(r)
      /\ stage'[r] = Stage(r)' /\ worker'[r] = Worker(r)'
      /\ busy'[r] = (reader'[r] = "calling") /\ answer'[r] = Answer(r)'
  OBVIOUS
<1>4. permits > 0 => ISO!Cardinality(ISO!Inside) < Slots
  <2>1. ISO!Inside = Inside
    <3>1. \A q \in Runs : stage[q] = "inside" <=> call[q] \in Gated
      BY DEF TypeOK, Points, Gated, Stage
    <3> QED
      BY <3>1 DEF Inside, ISO!Inside
  <2>2. /\ permits \in Nat /\ Cardinality(Inside) \in Nat /\ Slots \in Nat
        /\ permits + Cardinality(Inside) = Slots
    BY SupervisorAssumption, InsideFinite DEF TypeOK, GateAccounting, Inside
  <2>3. permits > 0 => Cardinality(Inside) < Slots
    BY <2>2
  <2>4. \A S : ISO!Cardinality(S) = Cardinality(S)
    BY DEF ISO!Cardinality, Cardinality
  <2> QED
    BY <2>1, <2>3, <2>4
<1> USE DEF ISO!Next, ISO!Call, ISO!Enter, ISO!Start, ISO!Stop, ISO!BeginEvent,
            ISO!EndEvent, ISO!Return, ISO!Fits
<1> HIDE DEF stage, worker, busy, answer
<1>5. /\ stage' = [stage EXCEPT ![r] = stage'[r]] /\ (stage'[r] = stage[r] => stage' = stage)
      /\ worker' = [worker EXCEPT ![r] = worker'[r]] /\ (worker'[r] = worker[r] => worker' = worker)
  BY <1>1, <1>2, OneEntry
<1>6. /\ busy' = [busy EXCEPT ![r] = busy'[r]] /\ (busy'[r] = busy[r] => busy' = busy)
      /\ answer' = [answer EXCEPT ![r] = answer'[r]] /\ (answer'[r] = answer[r] => answer' = answer)
  BY <1>1, <1>2, OneEntry
<1>7. CASE /\ Stage(r)' = Stage(r) /\ Worker(r)' = Worker(r) /\ Answer(r)' = Answer(r)
           /\ (reader'[r] = "calling") = (reader[r] = "calling")
  <2>1. stage' = stage /\ worker' = worker /\ busy' = busy /\ answer' = answer
    BY <1>3, <1>5, <1>6, <1>7
  <2> QED
    BY <2>1 DEF ISO!vars, stage, worker, busy, answer
<1>8. CASE /\ Stage(r) = "out" /\ Stage(r)' = "waiting"
           /\ Worker(r)' = Worker(r) /\ Answer(r)' = Answer(r) /\ reader' = reader
  <2>1. /\ stage[r] = "out" /\ stage' = [stage EXCEPT ![r] = "waiting"]
        /\ worker' = worker /\ busy' = busy /\ answer' = answer
    BY <1>3, <1>5, <1>6, <1>8
  <2>2. ISO!Call(r)
    BY <2>1 DEF stage, worker, busy, answer
  <2> QED
    BY <2>2
<1>9. CASE /\ Stage(r) = "waiting" /\ Stage(r)' = "inside" /\ permits > 0
           /\ Worker(r)' = Worker(r) /\ Answer(r)' = Answer(r) /\ reader' = reader
  <2>1. /\ stage[r] = "waiting" /\ stage' = [stage EXCEPT ![r] = "inside"]
        /\ worker' = worker /\ busy' = busy /\ answer' = answer
    BY <1>3, <1>5, <1>6, <1>9
  <2>2. ISO!Enter(r)
    BY <1>4, <1>9, <2>1 DEF stage, worker, busy, answer
  <2> QED
    BY <2>2
<1>10. CASE /\ Stage(r) = "inside" /\ Stage(r)' = "inside" /\ Answer(r)' = Answer(r)
            /\ reader[r] # "calling" /\ reader'[r] # "calling"
            /\ Worker(r) = "none" /\ Worker(r)' = "alive"
  <2>1. /\ stage[r] = "inside" /\ worker[r] = "none"
        /\ worker' = [worker EXCEPT ![r] = "alive"]
        /\ stage' = stage /\ busy' = busy /\ answer' = answer
    BY <1>3, <1>5, <1>6, <1>10
  <2>2. ISO!Start(r)
    BY <2>1 DEF stage, worker, busy, answer
  <2> QED
    BY <2>2
<1>11. CASE /\ Stage(r) = "inside" /\ Stage(r)' = "inside" /\ Answer(r)' = Answer(r)
            /\ reader' = reader
            /\ Worker(r) = "alive" /\ Worker(r)' \in {"finished", "failed"}
  <2>1. /\ stage[r] = "inside" /\ worker[r] = "alive"
        /\ \E end \in {"finished", "failed"} : worker' = [worker EXCEPT ![r] = end]
        /\ stage' = stage /\ busy' = busy /\ answer' = answer
    BY <1>3, <1>5, <1>6, <1>11
  <2>2. ISO!Stop(r)
    BY <2>1 DEF stage, worker, busy, answer
  <2> QED
    BY <2>2
<1>12. CASE /\ Stage(r) = "inside" /\ Worker(r) # "none"
            /\ reader[r] # "calling" /\ reader'[r] = "calling"
            /\ Stage(r)' = Stage(r) /\ Worker(r)' = Worker(r) /\ Answer(r)' = Answer(r)
  <2>1. /\ stage[r] = "inside" /\ worker[r] # "none" /\ ~busy[r]
        /\ busy' = [busy EXCEPT ![r] = TRUE]
        /\ stage' = stage /\ worker' = worker /\ answer' = answer
    BY <1>3, <1>5, <1>6, <1>12
  <2>2. ISO!BeginEvent(r)
    BY <2>1 DEF stage, worker, busy, answer
  <2> QED
    BY <2>2
<1>13. CASE /\ reader[r] = "calling" /\ reader'[r] # "calling"
            /\ Stage(r)' = Stage(r) /\ Worker(r)' = Worker(r) /\ Answer(r)' = Answer(r)
  <2>1. /\ busy[r] /\ busy' = [busy EXCEPT ![r] = FALSE]
        /\ stage' = stage /\ worker' = worker /\ answer' = answer
    BY <1>3, <1>5, <1>6, <1>13
  <2>2. ISO!EndEvent(r)
    BY <2>1 DEF stage, worker, busy, answer
  <2> QED
    BY <2>2
<1>14. CASE /\ Stage(r) = "inside" /\ Stage(r)' = "back"
            /\ Worker(r) # "alive" /\ Worker(r)' = Worker(r) /\ reader' = reader
            /\ Answer(r)' \in Outcomes \ {"none"}
            /\ Answer(r)' = "ok" => Worker(r) = "finished"
            /\ Answer(r)' = "cpu" => Worker(r) = "failed"
            /\ Worker(r) = "none" => Answer(r)' = "error"
  <2>1. /\ stage[r] = "inside" /\ worker[r] # "alive"
        /\ stage' = [stage EXCEPT ![r] = "back"] /\ worker' = worker /\ busy' = busy
        /\ \E a \in Outcomes \ {"none"} :
             /\ ISO!Fits(a, worker[r])
             /\ answer' = [answer EXCEPT ![r] = a]
    BY <1>3, <1>5, <1>6, <1>14
  <2>2. ISO!Return(r)
    BY <2>1 DEF stage, worker, busy, answer
  <2> QED
    BY <2>2
<1> QED
  BY <1>7, <1>8, <1>9, <1>10, <1>11, <1>12, <1>13, <1>14 DEF Shown

\* The gate, the child, its pipe, the watchdog and the drain thread keep the
\* promise of run_isolated that VerifyServer relies on: initial states are
\* initial states of IsolatedCalls, and every step is a step of it or a stutter.
THEOREM IsolationImplemented == Spec => ImplementsIsolatedCalls
<1> DEFINE AllStopped == \A q \in Runs : ReaderStopped(q)
           AllAccompanied == \A q \in Runs : Accompanied(q)
<1>1. ASSUME Init PROVE AllStopped /\ AllAccompanied /\ ISO!Init
  <2>1. AllStopped /\ AllAccompanied
    BY <1>1 DEF Init, ReaderStopped, Accompanied
  <2>2. \A q \in Runs : /\ call[q] = "idle" /\ child[q] = "none"
                         /\ reader[q] = "off" /\ outcome[q] = "none"
    BY <1>1 DEF Init
  <2>3. \A q \in Runs : Stage(q) = "out" /\ Worker(q) = "none" /\ Answer(q) = "none"
    BY <2>2 DEF Stage, Worker, Answer, Alive
  <2>4. \A q \in Runs : (reader[q] = "calling") = FALSE
    BY <2>2
  <2> QED
    BY <2>1, <2>3, <2>4 DEF ISO!Init
<1>2. ASSUME IInv, AllStopped, AllAccompanied, [Next]_vars
      PROVE  AllStopped' /\ AllAccompanied' /\ [ISO!Next]_(ISO!vars)
  <2>1. CASE UNCHANGED vars
    <3>1. UNCHANGED <<call, child, rc, reader, outcome>>
      BY <2>1 DEF vars, parent, process, channel
    <3>2. AllStopped' /\ AllAccompanied'
      BY <1>2, <3>1 DEF ReaderStopped, Accompanied
    <3>3. UNCHANGED ISO!vars
      BY <3>1 DEF ISO!vars, Stage, Worker, Answer, Alive
    <3> QED
      BY <3>2, <3>3
  <2>2. CASE Next
    <3>1. PICK r \in Runs : Steps(r)
      BY <2>2 DEF Next, Steps
    <3>2. TypeOK /\ GateAccounting /\ \A q \in Runs : RunOK(q)
      BY <1>2, RunOKOfAll DEF IInv
    <3>3. ReaderStopped(r)' /\ Accompanied(r)'
      BY <1>2, <3>1, <3>2, ReaderStops, CompanyKept
    <3>4. ASSUME NEW q \in Runs \ {r} PROVE ReaderStopped(q)' /\ Accompanied(q)'
      BY <1>2, <3>1, <3>2, OthersUnseen DEF ReaderStopped, Accompanied
    <3>5. [ISO!Next]_(ISO!vars)
      BY <1>2, <3>1, <3>2, StepShown, ShownImplements
    <3> QED
      BY <3>3, <3>4, <3>5
  <2> QED
    BY <1>2, <2>1, <2>2
<1> HIDE DEF AllStopped, AllAccompanied
<1> QED
  BY <1>1, <1>2, InvariantHolds, PTL DEF Spec, ImplementsIsolatedCalls, ISO!Spec
=============================================================================
