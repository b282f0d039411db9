------------------------- MODULE VerifyServerProofs -------------------------
(* Proofs about VerifyServer, for every tenant, tier, job and bound. *)
EXTENDS VerifyServer, FiniteFacts

----------------------------------------------------------------------------
(* The inductive invariant: what the place of a job's thread says of the    *)
(* job's slot, of its dict, of its row and of its entry in the table.       *)

Before == {"idle", "refused", "gpu", "admit"}
Early == {"insert", "birth", "spawn", "stuck", "begin"}
Running == {"save begin", "clone", "run"}
Late == {"save end", "close log", "release", "bill", "bill gpu", "save final",
         "exited"}

\* Nobody but a known caller has a request.
KnownCallers == \A j \in Jobs : <<req[j].tenant, req[j].tier>> \in Callers

\* A slot is taken by the step that leaves "admit", by a request that stays
\* deep, and kept as a flag; only the threads that hold one come to release.
SlotFlow == \A j \in Jobs :
  /\ pc[j] \in Before => ~req[j].slot
  /\ pc[j] \in {"release", "bill", "bill gpu"} => req[j].slot
  /\ pc[j] \in Early \cup Running \cup Late => req[j].deep = req[j].slot

\* Among any slot holders of a tenant, the one admitted last covers them all:
\* it was admitted while they were fewer than its concurrency.
HoldersCovered == \A t \in Tenants : \A S \in SUBSET Holders(t) :
  S # {} => \E j \in S : Covers(j, S)

\* The status follows the thread.
StatusFlow == \A j \in Jobs :
  /\ pc[j] \in Before => /\ job[j].status = "none" /\ store[j].status = "none"
                         /\ j \notin JOBS
  /\ pc[j] = "insert" => j \notin JOBS
  /\ pc[j] = "stuck" => SpawnMayFail
  /\ pc[j] \in Early => job[j].status = "queued"
  /\ pc[j] \in Running => job[j].status = "running"
  /\ pc[j] \in Late => Finished(j)
  /\ drain[j] => pc[j] \in Late

\* A row is terminal only after the dict was, and then says what it says.
RowFlow == \A j \in Jobs :
  /\ store[j].status \in Terminal => pc[j] \in Late \cup {"dead"}
  /\ store[j].status \in Terminal /\ pc[j] \in Late =>
       job[j].status = store[j].status
  /\ pc[j] = "dead" /\ j \in JOBS =>
       /\ Finished(j)
       /\ store[j].status \in Terminal => job[j].status = store[j].status

IInv ==
  /\ TypeOK
  /\ KnownCallers
  /\ SlotFlow
  /\ SlotAccounting
  /\ HoldersCovered
  /\ StatusFlow
  /\ ActiveNeverEvicted
  /\ RowFlow

----------------------------------------------------------------------------
(* Types.  What the operations of the limiter and of the table preserve. *)

\* Every operation of Limiter keeps the counters natural numbers: release_slot
\* stops at zero.
LEMMA LimiterTypes ==
  ASSUME LimiterTypeOK,
         \/ \E t \in Tenants, tier \in Tiers :
              CheckApiRate(t, tier) \/ AdmitScan(t, tier)
         \/ \E t \in Tenants, n \in Nat :
              ReleaseSlot(t) \/ RecordSandbox(t, n) \/ RecordGpu(t, n)
         \/ MinutePasses \/ MidnightPasses \/ MonthPasses
         \/ LimiterForgets
         \/ UNCHANGED limiterVars
  PROVE  LimiterTypeOK'
<1> USE DEF LimiterTypeOK
<1>1. CASE \E t \in Tenants, tier \in Tiers : CheckApiRate(t, tier)
  BY <1>1 DEF CheckApiRate
<1>2. CASE \E t \in Tenants, tier \in Tiers : AdmitScan(t, tier)
  BY <1>2 DEF AdmitScan
<1>3. CASE \E t \in Tenants : ReleaseSlot(t)
  BY <1>3 DEF ReleaseSlot
<1>4. CASE \E t \in Tenants, n \in Nat : RecordSandbox(t, n) \/ RecordGpu(t, n)
  BY <1>4 DEF RecordSandbox, RecordGpu
<1>5. CASE MinutePasses \/ MidnightPasses \/ MonthPasses \/ LimiterForgets
  BY <1>5 DEF MinutePasses, MidnightPasses, MonthPasses, LimiterForgets
<1>6. CASE UNCHANGED limiterVars
  BY <1>6 DEF limiterVars
<1> QED BY <1>1, <1>2, <1>3, <1>4, <1>5, <1>6

\* Writing a record into the table, the file or a dict keeps them typed.
LEMMA JobTypes ==
  ASSUME JobTypeOK, NEW j \in Jobs,
         \/ CreateJob(j)
         \/ InsertJob(j)
         \/ \E new \in JobRecord : SetJob(j, new)
         \/ Persist(j)
         \/ LoadPersisted
         \/ UNCHANGED jobVars
  PROVE  JobTypeOK'
<1> USE DEF JobTypeOK
<1>n. NewJob \in JobRecord /\ NoJob \in JobRecord
  BY DEF NewJob, NoJob, JobRecord, Statuses, Stages
<1>1. CASE CreateJob(j)
  BY <1>1, <1>n DEF CreateJob, Touch
<1>2. CASE InsertJob(j)
  BY <1>2 DEF InsertJob
<1>3. CASE \E new \in JobRecord : SetJob(j, new)
  BY <1>3 DEF SetJob, Touch
<1>4. CASE Persist(j)
  BY <1>4 DEF Persist
<1>5. CASE LoadPersisted
  <2> DEFINE kept == LastOf({i \in Jobs : HasRow(i)}, MaxJobs, born)
  <2>1. kept \in SUBSET Jobs
    BY DEF LastOf
  <2>2. \A i \in Jobs : Reloaded(store[i]) \in JobRecord
    BY DEF Reloaded, JobRecord, Statuses, Stages
  <2>3. JOBS' = kept /\ older' \in StrictOrders(kept) /\ UNCHANGED <<store, born>>
    BY <1>5, ZenonT(30) DEF LoadPersisted
  <2>4. job' = [i \in Jobs |-> IF i \in kept THEN Reloaded(store[i]) ELSE NoJob]
    BY <1>5 DEF LoadPersisted
  <2>5. job' \in [Jobs -> JobRecord]
    BY <2>2, <2>4, <1>n
  <2>6. older' \in SUBSET (Jobs \X Jobs)
    BY <2>1, <2>3 DEF StrictOrders
  <2> QED BY <2>1, <2>3, <2>5, <2>6
<1>6. CASE UNCHANGED jobVars
  BY <1>6 DEF jobVars
<1> QED BY <1>1, <1>2, <1>3, <1>4, <1>5, <1>6

\* The records the steps of run_job write are job records.
LEMMA RecordTypes ==
  ASSUME NEW r \in JobRecord
  PROVE  /\ \A st \in Statuses, sg \in Stages : WithStatus(r, st, sg) \in JobRecord
         /\ \A e : WithEvent(r, e) \in JobRecord
         /\ \A c, g \in Nat : WithResult(r, c, g) \in JobRecord
         /\ [r EXCEPT !.closed = TRUE] \in JobRecord
  BY DEF WithStatus, WithEvent, WithResult, JobRecord, Statuses, Stages

\* The status each update of run_job leaves in the job dict.
LEMMA RecordStatuses ==
  ASSUME NEW r \in JobRecord
  PROVE  /\ \A st, sg : WithStatus(r, st, sg).status = st
         /\ \A e : WithEvent(r, e).status = r.status
         /\ \A c, g : WithResult(r, c, g).status = "done"
         /\ [r EXCEPT !.closed = TRUE].status = r.status
  BY DEF WithStatus, WithEvent, WithResult, JobRecord

\* The booted server is well typed.
LEMMA InitTyped == Init => TypeOK
<1> SUFFICES ASSUME Init PROVE TypeOK
  OBVIOUS
<1>1. LimiterTypeOK
  BY DEF Init, LimiterInit, LimiterTypeOK
<1>2. JobTypeOK
  BY DEF Init, JobInit, JobTypeOK, NoJob, JobRecord, Statuses, Stages
<1>3. req \in [Jobs -> Request]
  <2> DEFINE R == {[tenant |-> c[1], tier |-> c[2], deep |-> d,
                    armed |-> FALSE, slot |-> FALSE]
                     : c \in Callers, d \in BOOLEAN}
  <2>1. ASSUME NEW c \in Callers, NEW d \in BOOLEAN
        PROVE  [tenant |-> c[1], tier |-> c[2], deep |-> d,
                armed |-> FALSE, slot |-> FALSE] \in Request
    BY ServerAssumption DEF Request
  <2>2. R \subseteq Request
    BY <2>1
  <2>3. req \in [Jobs -> R]
    BY DEF Init
  <2> HIDE DEF R
  <2> QED BY <2>2, <2>3
<1> QED
  BY <1>1, <1>2, <1>3, ServerAssumption
  DEF Init, TypeOK, PCs, Handling, Working

\* A step of the handler, of the job's thread or of its drain keeps the types.
LEMMA JobStepTyped ==
  ASSUME TypeOK, NEW j \in Jobs, Handler(j) \/ JobThread(j) \/ Report(j)
  PROVE  TypeOK'
<1> USE DEF TypeOK
<1>j. job[j] \in JobRecord
  BY DEF JobTypeOK
<1>r. req[j] \in Request
  OBVIOUS
<1>c. Costs \subseteq Nat /\ 0 \in Costs
  BY JobAssumption
<1>1. CASE Submit(j)
  <2>1. LimiterTypeOK'
    BY <1>1, <1>r, LimiterTypes DEF Submit, Request
  <2>2. JobTypeOK'
    BY <1>1, JobTypes DEF Submit
  <2> QED BY <1>1, <2>1, <2>2 DEF Submit, Goto, PCs, Handling
<1>2. CASE ArmGpu(j)
  <2>1. LimiterTypeOK' /\ JobTypeOK'
    BY <1>2, LimiterTypes, JobTypes DEF ArmGpu
  <2>2. req' \in [Jobs -> Request]
    <3> DEFINE a == /\ GpuEnabled
                    /\ GpuBudget[req[j].tier] > 0
                    /\ GpuAdmitted(req[j].tenant, req[j].tier)
    <3>1. req' = [req EXCEPT ![j].armed = a]
      BY <1>2 DEF ArmGpu
    <3>2. a \in BOOLEAN
      OBVIOUS
    <3> HIDE DEF a
    <3> QED BY <3>1, <3>2 DEF Request
  <2> QED BY <1>2, <2>1, <2>2 DEF ArmGpu, Goto, PCs, Handling
<1>3. CASE Refuse(j)
  <2>1. LimiterTypeOK' /\ JobTypeOK'
    BY <1>3, LimiterTypes, JobTypes DEF Refuse
  <2> QED BY <1>3, <2>1 DEF Refuse, Goto, PCs, Handling
<1>4. CASE Admit(j)
  <2>1. LimiterTypeOK'
    BY <1>4, <1>r, LimiterTypes DEF Admit, Request
  <2>2. JobTypeOK'
    BY <1>4, JobTypes DEF Admit
  <2>3. req' \in [Jobs -> Request]
    BY <1>4, <1>r DEF Admit, Request
  <2> QED BY <1>4, <2>1, <2>2, <2>3 DEF Admit, Goto, PCs, Handling
<1>5. CASE Insert(j) \/ PersistBirth(j) \/ SaveBegin(j) \/ SaveEnd(j) \/ SaveFinal(j)
  <2>1. LimiterTypeOK' /\ JobTypeOK'
    BY <1>5, LimiterTypes, JobTypes
    DEF Insert, PersistBirth, SaveBegin, SaveEnd, SaveFinal
  <2> QED BY <1>5, <2>1 DEF Insert, PersistBirth, SaveBegin, SaveEnd,
                            SaveFinal, Goto, PCs, Handling, Working
<1>6. CASE Spawn(j) \/ Clone(j)
  <2>1. LimiterTypeOK' /\ JobTypeOK'
    BY <1>6, LimiterTypes, JobTypes DEF Spawn, Clone
  <2> QED BY <1>6, <2>1 DEF Spawn, Clone, Goto, PCs, Handling, Working
<1>7. CASE Begin(j) \/ CloneFails(j) \/ CloseLog(j)
  <2>1. \E new \in JobRecord : SetJob(j, new)
    BY <1>7, <1>j, RecordTypes DEF Begin, CloneFails, CloseLog, Statuses, Stages
  <2>2. LimiterTypeOK' /\ JobTypeOK'
    BY <1>7, <2>1, LimiterTypes, JobTypes DEF Begin, CloneFails, CloseLog
  <2> QED BY <1>7, <2>2 DEF Begin, CloneFails, CloseLog, Goto, PCs, Working
<1>8. CASE Report(j)
  <2>1. \E new \in JobRecord : SetJob(j, new)
    BY <1>8, <1>j, RecordTypes DEF Report, Stages
  <2>2. LimiterTypeOK' /\ JobTypeOK'
    BY <1>8, <2>1, LimiterTypes, JobTypes DEF Report
  <2> QED BY <1>8, <2>2 DEF Report
<1>9. CASE RunReturns(j)
  <2>1. PICK c \in Nat, g \in Nat :
          /\ SetJob(j, WithResult(job[j], c, g))
          /\ spent' = [spent EXCEPT ![j] = c]
    BY <1>9, <1>c DEF RunReturns, Usage, GpuUsage
  <2>2. \E new \in JobRecord : SetJob(j, new)
    BY <2>1, <1>j, RecordTypes
  <2>3. LimiterTypeOK' /\ JobTypeOK'
    BY <1>9, <2>2, LimiterTypes, JobTypes DEF RunReturns
  <2>4. drain' \in [Jobs -> BOOLEAN]
    BY <1>9, ServerAssumption DEF RunReturns, LeaveDrain
  <2> QED BY <1>9, <2>1, <2>3, <2>4 DEF RunReturns, Goto, PCs, Working
<1>10. CASE RunRaises(j)
  <2>1. PICK c \in Nat, s \in {"exceeded budget", "error"} :
          /\ SetJob(j, WithStatus(job[j], "error", s))
          /\ spent' = [spent EXCEPT ![j] = c]
    BY <1>10, <1>c DEF RunRaises, Usage
  <2>2. \E new \in JobRecord : SetJob(j, new)
    BY <2>1, <1>j, RecordTypes DEF Statuses, Stages
  <2>3. LimiterTypeOK' /\ JobTypeOK'
    BY <1>10, <2>2, LimiterTypes, JobTypes DEF RunRaises
  <2>4. drain' \in [Jobs -> BOOLEAN]
    BY <1>10, ServerAssumption DEF RunRaises, LeaveDrain
  <2> QED BY <1>10, <2>1, <2>3, <2>4 DEF RunRaises, Goto, PCs, Working
<1>11. CASE Release(j) \/ Bill(j) \/ BillGpu(j)
  <2>1. job[j].seconds \in Nat /\ job[j].gpuSeconds \in Nat
    BY <1>j DEF JobRecord
  <2>2. LimiterTypeOK' /\ JobTypeOK'
    BY <1>11, <1>r, <2>1, LimiterTypes, JobTypes DEF Release, Bill, BillGpu, Request
  <2> QED BY <1>11, <2>2 DEF Release, Bill, BillGpu, Goto, PCs, Working
<1> QED
  BY <1>1, <1>2, <1>3, <1>4, <1>5, <1>6, <1>7, <1>8, <1>9, <1>10, <1>11
  DEF Handler, JobThread

\* Every step of the server keeps the types.
LEMMA StepTyped ==
  ASSUME TypeOK, [Next]_vars
  PROVE  TypeOK'
<1>1. CASE \E j \in Jobs : Handler(j) \/ JobThread(j) \/ Report(j)
  BY <1>1, JobStepTyped
<1>2. CASE WindowPasses
  <2>1. LimiterTypeOK'
    BY <1>2, LimiterTypes DEF TypeOK, WindowPasses
  <2> QED BY <1>2, <2>1, ServerAssumption
          DEF TypeOK, WindowPasses, JobTypeOK, jobVars
<1>3. CASE Restart
  <2>1. LimiterTypeOK'
    BY <1>3, LimiterTypes DEF TypeOK, Restart
  <2>2. JobTypeOK'
    <3>1. CASE Jobs = {}
      BY <1>3, <3>1 DEF TypeOK, Restart, JobTypeOK, LoadPersisted, LastOf, StrictOrders
    <3>2. CASE Jobs # {}
      BY <1>3, <3>2, JobTypes DEF TypeOK, Restart
    <3> QED BY <3>1, <3>2
  <2> QED BY <1>3, <2>1, <2>2, ServerAssumption DEF TypeOK, Restart, PCs
<1>4. CASE UNCHANGED vars
  BY <1>4 DEF vars, limiterVars, jobVars, serverVars, TypeOK, LimiterTypeOK, JobTypeOK
<1> QED BY <1>1, <1>2, <1>3, <1>4 DEF Next

\* Every counter, dict, row and thread stays in its type.
THEOREM TypeCorrect == Spec => []TypeOK
<1>1. Init => TypeOK
  BY InitTyped
<1>2. TypeOK /\ [Next]_vars => TypeOK'
  BY StepTyped
<1> QED BY <1>1, <1>2, PTL DEF Spec

----------------------------------------------------------------------------
(* Slots.  Every step keeps the slots, takes one, returns one or loses them  *)
(* all; the counter follows.                                                 *)

SlotsKept ==
  /\ \A t \in Tenants : Holders(t)' = Holders(t)
  /\ inflight' = inflight

SlotTaken(j) ==
  /\ <<req[j].tenant, req[j].tier>> \in Callers
  /\ \A t \in Tenants : j \notin Holders(t)
  /\ \/ req[j].tier \in Unmetered
     \/ inflight[req[j].tenant] < Concurrency[req[j].tier]
  /\ \A t \in Tenants :
       Holders(t)' = IF t = req[j].tenant THEN Holders(t) \cup {j} ELSE Holders(t)
  /\ inflight' = [inflight EXCEPT ![req[j].tenant] = @ + 1]

SlotReturned(j) ==
  /\ j \in Holders(req[j].tenant)
  /\ \A t \in Tenants :
       Holders(t)' = IF t = req[j].tenant THEN Holders(t) \ {j} ELSE Holders(t)
  /\ inflight' = IF inflight[req[j].tenant] > 0
                 THEN [inflight EXCEPT ![req[j].tenant] = @ - 1] ELSE inflight

SlotsLost ==
  /\ \A t \in Tenants : Holders(t)' = {}
  /\ inflight' = [t \in Tenants |-> 0]

SlotStep ==
  \/ SlotsKept
  \/ \E j \in Jobs : SlotTaken(j) \/ SlotReturned(j)
  \/ SlotsLost

\* The steps that only move a thread within, or outside of, the places that
\* hold a slot.
LEMMA MoveKeepsSlots ==
  ASSUME TypeOK, NEW j \in Jobs, NEW p \in PCs,
         pc' = [pc EXCEPT ![j] = p],
         inflight' = inflight,
         \A i \in Jobs : req'[i].tenant = req[i].tenant /\ req'[i].slot = req[i].slot,
         req[j].slot => (pc[j] \in Unreleased <=> p \in Unreleased)
  PROVE  SlotsKept
<1>1. \A i \in Jobs : HoldsSlot(i)' <=> HoldsSlot(i)
  BY DEF HoldsSlot, TypeOK
<1> QED BY <1>1 DEF SlotsKept, Holders

\* A step of one request or its thread moves that job's slot in the way the
\* limiter's counter moves, and leaves the slots of the others alone.
LEMMA JobStepSlots ==
  ASSUME TypeOK, KnownCallers, SlotFlow,
         NEW j \in Jobs, Handler(j) \/ JobThread(j) \/ Report(j)
  PROVE  SlotStep
<1>r. req \in [Jobs -> Request] /\ req[j] \in Request /\ pc \in [Jobs -> PCs]
  BY DEF TypeOK
<1>1. CASE Submit(j) \/ Refuse(j)
  <2>1. ~req[j].slot /\ inflight' = inflight /\ req' = req
    BY <1>1 DEF Submit, Refuse, SlotFlow, Before, At, CheckApiRate, limiterVars
  <2>2. \E p \in PCs : pc' = [pc EXCEPT ![j] = p]
    BY <1>1 DEF Submit, Refuse, Goto, PCs, Handling
  <2> QED BY <2>1, <2>2, MoveKeepsSlots DEF SlotStep
<1>2. CASE ArmGpu(j)
  <2>1. ~req[j].slot /\ inflight' = inflight
    BY <1>2 DEF ArmGpu, SlotFlow, Before, At, limiterVars
  <2>2. \A i \in Jobs : req'[i].tenant = req[i].tenant /\ req'[i].slot = req[i].slot
    BY <1>2, <1>r DEF ArmGpu, Request
  <2>3. "admit" \in PCs /\ pc' = [pc EXCEPT ![j] = "admit"]
    BY <1>2 DEF ArmGpu, Goto, PCs, Handling
  <2> QED BY <2>1, <2>2, <2>3, MoveKeepsSlots DEF SlotStep
<1>3. CASE Admit(j)
  <2> DEFINE t == req[j].tenant
             d == IF req[j].deep THEN ScanDecision(t, req[j].tier) ELSE "daily"
  <2>1. ~req[j].slot /\ pc[j] = "admit"
    BY <1>3 DEF Admit, SlotFlow, Before, At
  <2>2. pc' = [pc EXCEPT ![j] = "insert"] /\ "insert" \in PCs
    BY <1>3 DEF Admit, Goto, PCs, Handling
  <2>3. req' = [req EXCEPT ![j].deep = (d = "ok"), ![j].slot = (d = "ok")]
    BY <1>3 DEF Admit
  <2>4. \A i \in Jobs : /\ req'[i].tenant = req[i].tenant
                        /\ i # j => req'[i].slot = req[i].slot
                        /\ req'[j].slot = (d = "ok")
    BY <2>3, <1>r DEF Request
  <2>5. CASE d # "ok"
    <3>1. inflight' = inflight
      BY <1>3, <2>5 DEF Admit, AdmitScan, limiterVars
    <3>2. \A i \in Jobs : req'[i].slot = req[i].slot
      BY <2>1, <2>4, <2>5, <1>r DEF Request
    <3> QED BY <2>1, <2>2, <2>4, <3>1, <3>2, MoveKeepsSlots DEF SlotStep
  <2>6. CASE d = "ok"
    <3>1. req[j].deep /\ ScanDecision(t, req[j].tier) = "ok"
      BY <2>6
    <3>2. inflight' = [inflight EXCEPT ![t] = @ + 1]
      BY <1>3, <3>1 DEF Admit, AdmitScan
    <3>3. req[j].tier \in Unmetered \/ inflight[t] < Concurrency[req[j].tier]
      <4>1. inflight[t] \in Nat /\ Concurrency[req[j].tier] \in Nat
        BY <1>r, TierAssumption DEF TypeOK, LimiterTypeOK, Request
      <4> QED BY <3>1, <4>1 DEF ScanDecision
    <3>4. \A i \in Jobs : i # j => (HoldsSlot(i)' <=> HoldsSlot(i))
      BY <2>2, <2>4, <1>r DEF HoldsSlot
    <3>5. ~HoldsSlot(j) /\ HoldsSlot(j)'
      BY <2>1, <2>2, <2>4, <2>6, <1>r DEF HoldsSlot, Unreleased
    <3>6. SlotTaken(j)
      BY <2>4, <3>2, <3>3, <3>4, <3>5, <1>r DEF SlotTaken, Holders, KnownCallers
    <3> QED BY <3>6 DEF SlotStep
  <2> QED BY <2>5, <2>6
<1>4. CASE Release(j)
  <2>1. req[j].slot /\ pc[j] = "release" /\ req' = req
    BY <1>4 DEF Release, SlotFlow, At
  <2>2. pc' = [pc EXCEPT ![j] = "bill"]
    BY <1>4 DEF Release, Goto
  <2>3. \A i \in Jobs : i # j => (HoldsSlot(i)' <=> HoldsSlot(i))
    BY <2>1, <2>2, <1>r DEF HoldsSlot
  <2>4. HoldsSlot(j) /\ ~HoldsSlot(j)'
    BY <2>1, <2>2, <1>r DEF HoldsSlot, Unreleased
  <2>5. SlotReturned(j)
    BY <1>4, <2>1, <2>3, <2>4 DEF SlotReturned, Holders, Release, ReleaseSlot
  <2> QED BY <2>5 DEF SlotStep
<1>5. CASE Report(j)
  BY <1>5 DEF Report, SlotStep, SlotsKept, Holders, HoldsSlot, limiterVars
<1>6. CASE \/ Insert(j) \/ PersistBirth(j) \/ Spawn(j) \/ Begin(j)
           \/ SaveBegin(j) \/ Clone(j) \/ CloneFails(j) \/ RunReturns(j)
           \/ RunRaises(j) \/ SaveEnd(j)
  <2>1. pc[j] \in Unreleased /\ inflight' = inflight /\ req' = req
    BY <1>6 DEF Insert, PersistBirth, Spawn, Begin, SaveBegin, Clone, CloneFails,
                RunReturns, RunRaises, SaveEnd, At, Unreleased, limiterVars
  <2>2. \E p \in PCs \cap Unreleased : pc' = [pc EXCEPT ![j] = p]
    BY <1>6 DEF Insert, PersistBirth, Spawn, Begin, SaveBegin, Clone, CloneFails,
                RunReturns, RunRaises, SaveEnd, Goto, Unreleased,
                PCs, Handling, Working
  <2> QED BY <2>1, <2>2, MoveKeepsSlots DEF SlotStep
<1>7. CASE CloseLog(j)
  <2>1. pc[j] \in Unreleased /\ inflight' = inflight /\ req' = req
    BY <1>7 DEF CloseLog, At, Unreleased, limiterVars
  <2>2. \E p \in PCs : /\ pc' = [pc EXCEPT ![j] = p]
                       /\ req[j].slot => p \in Unreleased
    BY <1>7 DEF CloseLog, Goto, Unreleased, PCs, Working
  <2> QED BY <2>1, <2>2, MoveKeepsSlots DEF SlotStep
<1>8. CASE Bill(j) \/ BillGpu(j) \/ SaveFinal(j)
  <2>1. pc[j] \notin Unreleased /\ inflight' = inflight /\ req' = req
    BY <1>8 DEF Bill, BillGpu, SaveFinal, RecordSandbox, RecordGpu,
                At, Unreleased, limiterVars
  <2>2. \E p \in PCs \ Unreleased : pc' = [pc EXCEPT ![j] = p]
    BY <1>8 DEF Bill, BillGpu, SaveFinal, Goto, Unreleased, PCs, Working
  <2> QED BY <2>1, <2>2, MoveKeepsSlots DEF SlotStep
<1> QED
  BY <1>1, <1>2, <1>3, <1>4, <1>5, <1>6, <1>7, <1>8 DEF Handler, JobThread

\* Every step keeps the counter equal to the number of slot holders.
LEMMA StepSlots ==
  ASSUME TypeOK, KnownCallers, SlotFlow, [Next]_vars
  PROVE  SlotStep
<1>1. CASE \E j \in Jobs : Handler(j) \/ JobThread(j) \/ Report(j)
  BY <1>1, JobStepSlots
<1>2. CASE WindowPasses
  BY <1>2 DEF WindowPasses, MinutePasses, MidnightPasses, MonthPasses,
              SlotStep, SlotsKept, Holders, HoldsSlot
<1>3. CASE Restart
  <2>1. \A j \in Jobs : ~HoldsSlot(j)'
    BY <1>3 DEF Restart, HoldsSlot, Unreleased
  <2> QED BY <1>3, <2>1 DEF Restart, LimiterForgets, SlotStep, SlotsLost, Holders
<1>4. CASE UNCHANGED vars
  BY <1>4 DEF vars, limiterVars, serverVars, SlotStep, SlotsKept, Holders, HoldsSlot
<1> QED BY <1>1, <1>2, <1>3, <1>4 DEF Next

\* The holders are finitely many: they are jobs.
LEMMA HoldersFinite ==
  ASSUME NEW t \in Tenants
  PROVE  IsFiniteSet(Holders(t)) /\ Cardinality(Holders(t)) \in Nat
<1>1. Holders(t) \in SUBSET Jobs
  BY DEF Holders
<1>2. IsFiniteSet(Holders(t))
  BY <1>1, JobAssumption, FS_Subset
<1> QED BY <1>2, FS_CardinalityType

\* The counter follows the slots.
LEMMA CounterFollows ==
  ASSUME TypeOK, SlotAccounting, SlotStep
  PROVE  SlotAccounting'
<1>f. \A t \in Tenants : IsFiniteSet(Holders(t)) /\ Cardinality(Holders(t)) \in Nat
  BY HoldersFinite
<1>i. inflight \in [Tenants -> Nat]
  BY DEF TypeOK, LimiterTypeOK
<1>1. CASE SlotsKept
  BY <1>1 DEF SlotsKept, SlotAccounting
<1>2. ASSUME NEW j \in Jobs, SlotTaken(j)
      PROVE  SlotAccounting'
  <2> DEFINE u == req[j].tenant
  <2>1. u \in Tenants
    BY DEF TypeOK, Request
  <2>2. Cardinality(Holders(u) \cup {j}) = Cardinality(Holders(u)) + 1
    BY <1>2, <1>f, <2>1, FS_AddElement DEF SlotTaken
  <2> QED BY <1>2, <1>f, <1>i, <2>1, <2>2 DEF SlotTaken, SlotAccounting
<1>3. ASSUME NEW j \in Jobs, SlotReturned(j)
      PROVE  SlotAccounting'
  <2> DEFINE u == req[j].tenant
  <2>1. u \in Tenants
    BY DEF TypeOK, Request
  <2>2. Cardinality(Holders(u) \ {j}) = Cardinality(Holders(u)) - 1
    BY <1>3, <1>f, <2>1, FS_RemoveElement DEF SlotReturned
  <2>3. Cardinality(Holders(u)) > 0
    <3>1. Holders(u) # {}
      BY <1>3 DEF SlotReturned
    <3> QED BY <3>1, <1>f, <2>1, FS_EmptySet
  <2>4. inflight[u] > 0
    BY <2>1, <2>3 DEF SlotAccounting
  <2>5. inflight' = [inflight EXCEPT ![u] = @ - 1]
    BY <1>3, <2>4 DEF SlotReturned
  <2> QED BY <1>3, <1>f, <1>i, <2>1, <2>2, <2>5 DEF SlotReturned, SlotAccounting
<1>4. CASE SlotsLost
  BY <1>4, FS_EmptySet DEF SlotsLost, SlotAccounting
<1> QED BY <1>1, <1>2, <1>3, <1>4 DEF SlotStep

\* A step never changes who asks for a job, nor on which tier.
CallersKept == \A i \in Jobs : /\ req'[i].tenant = req[i].tenant
                              /\ req'[i].tier = req[i].tier

LEMMA StepCallers ==
  ASSUME TypeOK, [Next]_vars
  PROVE  CallersKept
<1>r. req \in [Jobs -> Request]
  BY DEF TypeOK
<1>1. ASSUME NEW j \in Jobs, ArmGpu(j) PROVE CallersKept
  BY <1>1, <1>r DEF ArmGpu, CallersKept, Request
<1>2. ASSUME NEW j \in Jobs, Admit(j) PROVE CallersKept
  BY <1>2, <1>r DEF Admit, CallersKept, Request
<1>3. ASSUME NEW j \in Jobs,
             \/ Submit(j) \/ Refuse(j) \/ Insert(j) \/ PersistBirth(j) \/ Spawn(j)
             \/ Report(j) \/ JobThread(j)
      PROVE  CallersKept
  <2>1. req' = req
    BY <1>3 DEF Submit, Refuse, Insert, PersistBirth, Spawn, Report, JobThread,
                Begin, SaveBegin, Clone, CloneFails, RunReturns, RunRaises,
                SaveEnd, CloseLog, Release, Bill, BillGpu, SaveFinal
  <2> QED BY <2>1 DEF CallersKept
<1>4. CASE WindowPasses \/ Restart \/ UNCHANGED vars
  BY <1>4 DEF WindowPasses, Restart, vars, serverVars, CallersKept
<1> QED BY <1>1, <1>2, <1>3, <1>4 DEF Next, Handler

\* The holder admitted last covers the rest: a new holder covers every set it
\* joins, and the sets it does not join were covered before.
LEMMA CoverFollows ==
  ASSUME TypeOK, SlotAccounting, HoldersCovered, SlotStep, CallersKept
  PROVE  HoldersCovered'
<1> SUFFICES ASSUME NEW t \in Tenants, NEW S \in SUBSET (Holders(t)'), S # {}
             PROVE  \E j \in S : Covers(j, S)'
  BY DEF HoldersCovered
<1>1. CASE S \subseteq Holders(t)
  <2>1. PICK j \in S : Covers(j, S)
    BY <1>1 DEF HoldersCovered
  <2>2. j \in Jobs
    BY <1>1, <2>1 DEF Holders
  <2> QED BY <2>1, <2>2 DEF Covers, CallersKept
<1>2. ASSUME NEW j \in Jobs, SlotTaken(j), j \in S, t = req[j].tenant
      PROVE  Covers(j, S)'
  <2>1. IsFiniteSet(Holders(t)) /\ Cardinality(Holders(t)) \in Nat
    BY HoldersFinite
  <2>2. /\ IsFiniteSet(Holders(t) \cup {j})
        /\ Cardinality(Holders(t) \cup {j}) = Cardinality(Holders(t)) + 1
    BY <1>2, <2>1, FS_AddElement DEF SlotTaken
  <2>3. S \subseteq Holders(t) \cup {j}
    BY <1>2 DEF SlotTaken
  <2>4. /\ Cardinality(S) \in Nat
        /\ Cardinality(S) <= inflight[t] + 1
    BY <2>1, <2>2, <2>3, FS_Subset, FS_CardinalityType DEF SlotAccounting
  <2>5. Concurrency[req[j].tier] \in Nat /\ inflight[t] \in Nat
    BY TierAssumption DEF TypeOK, Request, LimiterTypeOK
  <2>6. req[j].tier \in Unmetered \/ inflight[t] + 1 <= Concurrency[req[j].tier]
    BY <1>2, <2>5 DEF SlotTaken
  <2>7. req[j].tier \in Unmetered \/ Cardinality(S) <= Concurrency[req[j].tier]
    BY <2>4, <2>5, <2>6
  <2> QED BY <2>7 DEF Covers, CallersKept
<1>3. \/ S \subseteq Holders(t)
      \/ \E j \in Jobs : SlotTaken(j) /\ j \in S /\ t = req[j].tenant
  BY DEF SlotStep, SlotsKept, SlotTaken, SlotReturned, SlotsLost
<1> QED BY <1>1, <1>2, <1>3

\* No step but the handler's own changes a request, and none its caller.
LEMMA StepFlow ==
  ASSUME TypeOK, KnownCallers, SlotFlow, [Next]_vars
  PROVE  KnownCallers' /\ SlotFlow'
<1>r. req \in [Jobs -> Request] /\ pc \in [Jobs -> PCs]
  BY DEF TypeOK
<1> USE DEF Before, Early, Running, Late
<1>1. ASSUME NEW j \in Jobs, ArmGpu(j)
      PROVE  KnownCallers' /\ SlotFlow'
  <2>1. pc[j] = "gpu" /\ pc' = [pc EXCEPT ![j] = "admit"]
    BY <1>1 DEF ArmGpu, At, Goto
  <2>2. \A i \in Jobs : /\ req'[i].tenant = req[i].tenant
                        /\ req'[i].tier = req[i].tier
                        /\ req'[i].slot = req[i].slot
                        /\ req'[i].deep = req[i].deep
    BY <1>1, <1>r DEF ArmGpu, Request
  <2> QED BY <2>1, <2>2, <1>r DEF KnownCallers, SlotFlow
<1>2. ASSUME NEW j \in Jobs, Admit(j)
      PROVE  KnownCallers' /\ SlotFlow'
  <2>1. pc' = [pc EXCEPT ![j] = "insert"]
    BY <1>2 DEF Admit, Goto
  <2>2. \A i \in Jobs : req'[i].tenant = req[i].tenant /\ req'[i].tier = req[i].tier
    BY <1>2, <1>r DEF Admit, Request
  <2>3. \A i \in Jobs \ {j} : req'[i] = req[i]
    BY <1>2, <1>r DEF Admit
  <2>4. req'[j].deep = req'[j].slot
    BY <1>2, <1>r DEF Admit, Request
  <2> QED BY <2>1, <2>2, <2>3, <2>4, <1>r DEF KnownCallers, SlotFlow
<1>3. ASSUME NEW j \in Jobs,
             \/ Submit(j) \/ Refuse(j) \/ Insert(j) \/ PersistBirth(j) \/ Spawn(j)
             \/ Report(j) \/ JobThread(j)
      PROVE  KnownCallers' /\ SlotFlow'
  <2>1. req' = req
    BY <1>3 DEF Submit, Refuse, Insert, PersistBirth, Spawn, Report, JobThread,
                Begin, SaveBegin, Clone, CloneFails, RunReturns, RunRaises,
                SaveEnd, CloseLog, Release, Bill, BillGpu, SaveFinal
  <2>2. CASE Submit(j) \/ Refuse(j)
    BY <2>1, <2>2, <1>r DEF Submit, Refuse, At, Goto, KnownCallers, SlotFlow
  <2>3. CASE Insert(j) \/ PersistBirth(j) \/ Spawn(j) \/ Report(j)
    BY <2>1, <2>3, <1>r
    DEF Insert, PersistBirth, Spawn, Report, At, Goto, KnownCallers, SlotFlow
  <2>4. CASE \/ Begin(j) \/ SaveBegin(j) \/ Clone(j) \/ CloneFails(j)
             \/ RunReturns(j) \/ RunRaises(j) \/ SaveEnd(j)
    BY <2>1, <2>4, <1>r
    DEF Begin, SaveBegin, Clone, CloneFails, RunReturns, RunRaises, SaveEnd,
        At, Goto, KnownCallers, SlotFlow
  <2>5. CASE CloseLog(j) \/ Release(j) \/ Bill(j) \/ BillGpu(j) \/ SaveFinal(j)
    BY <2>1, <2>5, <1>r
    DEF CloseLog, Release, Bill, BillGpu, SaveFinal, At, Goto, KnownCallers, SlotFlow
  <2> QED BY <1>3, <2>2, <2>3, <2>4, <2>5 DEF JobThread
<1>4. CASE WindowPasses \/ Restart
  <2>1. req' = req
    BY <1>4 DEF WindowPasses, Restart
  <2>2. \A j \in Jobs : pc'[j] = pc[j] \/ pc'[j] = "dead"
    BY <1>4 DEF WindowPasses, Restart
  <2>3. KnownCallers'
    BY <2>1 DEF KnownCallers
  <2>4. SlotFlow'
    BY <2>1, <2>2 DEF SlotFlow
  <2> QED
    BY <2>3, <2>4
<1>5. CASE UNCHANGED vars
  BY <1>5 DEF vars, serverVars, KnownCallers, SlotFlow
<1> QED BY <1>1, <1>2, <1>3, <1>4, <1>5 DEF Next, Handler

----------------------------------------------------------------------------
(* Status, row and entry of a job. *)

\* The status of a job dict at birth, and of a job that does not exist.
LEMMA NewAndNoJob == NewJob.status = "queued" /\ NoJob.status = "none"
  BY DEF NewJob, NoJob

\* A row is reloaded as it stands if it is terminal, as an error otherwise.
LEMMA ReloadedTerminal ==
  ASSUME NEW row \in JobRecord
  PROVE  /\ Reloaded(row).status \in Terminal
         /\ row.status \in Terminal => Reloaded(row) = row
  BY DEF Reloaded, JobRecord, Statuses, Terminal

\* What inserting j does to the table: j enters, and only finished jobs leave.
LEMMA InsertEvicts ==
  ASSUME NEW j \in Jobs, InsertJob(j)
  PROVE  /\ JOBS' \subseteq JOBS \cup {j}
         /\ \A i \in JOBS \cup {j} : ~Finished(i) => i \in JOBS'
  BY DEF InsertJob, Evicted, FirstOf

\* The three invariants, of one job.
JobFlow == StatusFlow /\ ActiveNeverEvicted /\ RowFlow

FlowOf(j) ==
  /\ pc[j] \in Before => /\ job[j].status = "none" /\ store[j].status = "none"
                         /\ j \notin JOBS
  /\ pc[j] = "insert" => j \notin JOBS
  /\ pc[j] = "stuck" => SpawnMayFail
  /\ pc[j] \in Early => job[j].status = "queued"
  /\ pc[j] \in Running => job[j].status = "running"
  /\ pc[j] \in Late => Finished(j)
  /\ drain[j] => pc[j] \in Late
  /\ pc[j] \in {"birth", "spawn"} \cup Working /\ ~Finished(j) => j \in JOBS
  /\ store[j].status \in Terminal => pc[j] \in Late \cup {"dead"}
  /\ store[j].status \in Terminal /\ pc[j] \in Late =>
       job[j].status = store[j].status
  /\ pc[j] = "dead" /\ j \in JOBS =>
       /\ Finished(j)
       /\ store[j].status \in Terminal => job[j].status = store[j].status

\* JobFlow, one job at a time.
LEMMA FlowOfAll == JobFlow <=> \A j \in Jobs : FlowOf(j)
  BY DEF JobFlow, FlowOf, StatusFlow, ActiveNeverEvicted, RowFlow

\* A job whose thread does not move keeps its invariant, even when it is
\* evicted, as long as it was finished.
LEMMA FlowKept ==
  ASSUME NEW i \in Jobs, FlowOf(i),
         pc'[i] = pc[i], job'[i] = job[i], store'[i] = store[i], drain'[i] = drain[i],
         i \in JOBS' => i \in JOBS,
         i \in JOBS /\ ~Finished(i) => i \in JOBS'
  PROVE  FlowOf(i)'
  BY DEF FlowOf, Finished

\* The typing facts the steps below rest on.
LEMMA TypeFacts ==
  ASSUME TypeOK
  PROVE  /\ pc \in [Jobs -> PCs] /\ job \in [Jobs -> JobRecord]
         /\ store \in [Jobs -> JobRecord] /\ drain \in [Jobs -> BOOLEAN]
         /\ JOBS \subseteq Jobs
  BY DEF TypeOK, JobTypeOK

\* What a step of the thread of j leaves alone.
OthersKept(j) ==
  /\ \A i \in Jobs \ {j} :
       /\ pc'[i] = pc[i] /\ job'[i] = job[i] /\ store'[i] = store[i]
       /\ drain'[i] = drain[i]
       /\ i \in JOBS' => i \in JOBS
       /\ i \in JOBS /\ ~Finished(i) => i \in JOBS'

\* A step of one job's threads touches another job only by evicting it from
\* the table once it has finished.
LEMMA JobStepKeepsOthers ==
  ASSUME TypeOK, NEW j \in Jobs, Handler(j) \/ JobThread(j) \/ Report(j)
  PROVE  OthersKept(j)
<1> USE TypeFacts DEF OthersKept, Goto
<1>1. CASE Submit(j) \/ ArmGpu(j) \/ Refuse(j) \/ Spawn(j) \/ Clone(j)
  BY <1>1 DEF Submit, ArmGpu, Refuse, Spawn, Clone, jobVars
<1>2. CASE Admit(j)
  BY <1>2 DEF Admit, CreateJob
<1>3. CASE Insert(j)
  <2>1. UNCHANGED <<job, store, drain>>
    BY <1>3 DEF Insert, InsertJob
  <2> QED BY <1>3, <2>1, InsertEvicts DEF Insert
<1>4. CASE PersistBirth(j) \/ SaveBegin(j) \/ SaveEnd(j) \/ SaveFinal(j)
  BY <1>4 DEF PersistBirth, SaveBegin, SaveEnd, SaveFinal, Persist
<1>5. CASE Begin(j) \/ CloneFails(j) \/ CloseLog(j) \/ Report(j)
  BY <1>5 DEF Begin, CloneFails, CloseLog, Report, SetJob
<1>6. CASE RunReturns(j) \/ RunRaises(j)
  BY <1>6 DEF RunReturns, RunRaises, SetJob, LeaveDrain
<1>7. CASE Release(j) \/ Bill(j) \/ BillGpu(j)
  BY <1>7 DEF Release, Bill, BillGpu, jobVars
<1> QED
  BY <1>1, <1>2, <1>3, <1>4, <1>5, <1>6, <1>7 DEF Handler, JobThread

\* What the steps of the thread of j make of its status.
LEMMA StatusWritten ==
  ASSUME TypeOK, NEW j \in Jobs
  PROVE  /\ Begin(j) => job'[j].status = "running"
         /\ CloneFails(j) \/ RunRaises(j) => job'[j].status = "error"
         /\ RunReturns(j) => job'[j].status = "done"
         /\ Report(j) \/ CloseLog(j) => job'[j].status = job[j].status
<1>j. job \in [Jobs -> JobRecord] /\ job[j] \in JobRecord
  BY TypeFacts
<1>s. ASSUME NEW new, SetJob(j, new) PROVE job'[j] = new
  BY <1>j, <1>s DEF SetJob
<1>1. \A st, sg : SetJob(j, WithStatus(job[j], st, sg)) => job'[j].status = st
  BY <1>j, <1>s, RecordStatuses
<1>2. \A c, g : SetJob(j, WithResult(job[j], c, g)) => job'[j].status = "done"
  BY <1>j, <1>s, RecordStatuses
<1>3. Begin(j) => job'[j].status = "running"
  BY <1>1 DEF Begin
<1>4. CloneFails(j) \/ RunRaises(j) => job'[j].status = "error"
  BY <1>1 DEF CloneFails, RunRaises
<1>5. RunReturns(j) => job'[j].status = "done"
  BY <1>2 DEF RunReturns
<1>6. Report(j) => job'[j].status = job[j].status
  BY <1>j, <1>s, RecordStatuses DEF Report
<1>7. CloseLog(j) => job'[j].status = job[j].status
  BY <1>j, <1>s, RecordStatuses DEF CloseLog
<1> QED BY <1>3, <1>4, <1>5, <1>6, <1>7

\* A step of a job's threads keeps its status, table entry and row in step.
LEMMA JobStepFlow ==
  ASSUME TypeOK, NEW j \in Jobs, FlowOf(j), Handler(j) \/ JobThread(j) \/ Report(j)
  PROVE  FlowOf(j)'
<1> USE TypeFacts DEF FlowOf, Finished, Terminal, Before, Early, Running, Late,
                      Working, At, Goto
<1>1. CASE Submit(j) \/ ArmGpu(j) \/ Refuse(j)
  BY <1>1 DEF Submit, ArmGpu, Refuse, jobVars
<1>2. CASE Admit(j)
  BY <1>2, NewAndNoJob DEF Admit, CreateJob
<1>3. CASE Insert(j)
  <2>1. UNCHANGED <<job, store, drain>>
    BY <1>3 DEF Insert, InsertJob
  <2>2. ~Finished(j) => j \in JOBS'
    BY <1>3, InsertEvicts DEF Insert
  <2> QED BY <1>3, <2>1, <2>2 DEF Insert
<1>4. CASE Spawn(j) \/ Clone(j)
  BY <1>4 DEF Spawn, Clone, jobVars
<1>5. CASE PersistBirth(j) \/ SaveBegin(j)
  BY <1>5 DEF PersistBirth, SaveBegin, Persist
<1>6. CASE SaveEnd(j) \/ SaveFinal(j)
  BY <1>6 DEF SaveEnd, SaveFinal, Persist
<1>7. CASE Begin(j)
  <2>1. job'[j].status = "running" /\ UNCHANGED <<JOBS, store, drain>>
    BY <1>7, StatusWritten DEF Begin, SetJob
  <2> QED BY <1>7, <2>1 DEF Begin
<1>8. CASE CloneFails(j)
  <2>1. job'[j].status = "error" /\ UNCHANGED <<JOBS, store, drain>>
    BY <1>8, StatusWritten DEF CloneFails, SetJob
  <2> QED BY <1>8, <2>1 DEF CloneFails
<1>9. CASE RunReturns(j)
  <2>1. job'[j].status = "done" /\ UNCHANGED <<JOBS, store>>
    BY <1>9, StatusWritten DEF RunReturns, SetJob
  <2> QED BY <1>9, <2>1 DEF RunReturns
<1>10. CASE RunRaises(j)
  <2>1. job'[j].status = "error" /\ UNCHANGED <<JOBS, store>>
    BY <1>10, StatusWritten DEF RunRaises, SetJob
  <2> QED BY <1>10, <2>1 DEF RunRaises
<1>11. CASE Report(j)
  <2>1. job'[j].status = job[j].status /\ UNCHANGED <<JOBS, store, pc>>
    BY <1>11, StatusWritten DEF Report, SetJob
  <2>2. ~drain'[j] /\ (pc[j] = "run" \/ drain[j])
    BY <1>11 DEF Report
  <2> QED BY <2>1, <2>2
<1>12. CASE CloseLog(j)
  <2>1. job'[j].status = job[j].status /\ UNCHANGED <<JOBS, store, drain>>
    BY <1>12, StatusWritten DEF CloseLog, SetJob
  <2> QED BY <1>12, <2>1 DEF CloseLog
<1>13. CASE Release(j) \/ Bill(j) \/ BillGpu(j)
  BY <1>13 DEF Release, Bill, BillGpu, jobVars
<1> QED
  BY <1>1, <1>2, <1>3, <1>4, <1>5, <1>6, <1>7, <1>8, <1>9, <1>10, <1>11, <1>12,
     <1>13 DEF Handler, JobThread

\* So does every step of the server.
LEMMA StepJobFlow ==
  ASSUME TypeOK, JobFlow, [Next]_vars
  PROVE  JobFlow'
<1>f. \A i \in Jobs : FlowOf(i)
  BY FlowOfAll
<1> SUFFICES ASSUME NEW i \in Jobs PROVE FlowOf(i)'
  BY DEF JobFlow, FlowOf, StatusFlow, ActiveNeverEvicted, RowFlow
<1>1. ASSUME NEW j \in Jobs, Handler(j) \/ JobThread(j) \/ Report(j)
      PROVE  FlowOf(i)'
  <2>1. CASE i = j
    BY <1>1, <1>f, <2>1, JobStepFlow
  <2>2. CASE i # j
    BY <1>1, <1>f, <2>2, JobStepKeepsOthers, FlowKept DEF OthersKept
  <2> QED BY <2>1, <2>2
<1>2. CASE WindowPasses \/ UNCHANGED vars
  BY <1>2, <1>f, FlowKept DEF WindowPasses, vars, serverVars, jobVars
<1>3. CASE Restart
  <2> DEFINE kept == LastOf({k \in Jobs : HasRow(k)}, MaxJobs, born)
  <2>1. /\ JOBS' = kept /\ store' = store
        /\ job' = [k \in Jobs |-> IF k \in kept THEN Reloaded(store[k]) ELSE NoJob]
    BY <1>3 DEF Restart, LoadPersisted
  <2>2. /\ pc'[i] = IF pc[i] \in {"idle", "refused"} THEN pc[i] ELSE "dead"
        /\ drain'[i] = FALSE
    BY <1>3 DEF Restart
  <2>3. i \in kept => store[i].status # "none"
    BY DEF LastOf, HasRow
  <2>4. store[i] \in JobRecord
    BY TypeFacts
  <2>5. CASE pc[i] \in {"idle", "refused"}
    <3>1. i \notin kept /\ job'[i].status = "none"
      BY <1>f, <2>1, <2>3, <2>5, NewAndNoJob DEF FlowOf, Before
    <3> QED BY <1>f, <2>1, <2>2, <2>5, <3>1
            DEF FlowOf, Before, Early, Running, Late, Working, Terminal, Finished
  <2>6. CASE pc[i] \notin {"idle", "refused"}
    BY <2>1, <2>2, <2>4, <2>6, ReloadedTerminal
    DEF FlowOf, Before, Early, Running, Late, Working, Finished
  <2> QED BY <2>5, <2>6
<1> QED BY <1>1, <1>2, <1>3 DEF Next

----------------------------------------------------------------------------
(* The invariant and what follows from it. *)

\* The inductive invariant holds at boot.
LEMMA InitInvariant == Init => IInv
<1> SUFFICES ASSUME Init PROVE IInv
  OBVIOUS
<1>1. TypeOK
  BY InitTyped
<1>2. pc = [j \in Jobs |-> "idle"] /\ JOBS = {} /\ drain = [j \in Jobs |-> FALSE]
  BY DEF Init, JobInit
<1>3. \A j \in Jobs : /\ <<req[j].tenant, req[j].tier>> \in Callers
                      /\ req[j].slot = FALSE
  <2> SUFFICES ASSUME NEW j \in Jobs
               PROVE  <<req[j].tenant, req[j].tier>> \in Callers /\ req[j].slot = FALSE
    OBVIOUS
  <2>1. PICK c \in Callers, d \in BOOLEAN :
          req[j] = [tenant |-> c[1], tier |-> c[2], deep |-> d,
                    armed |-> FALSE, slot |-> FALSE]
    BY DEF Init
  <2>2. c = <<c[1], c[2]>>
    BY <2>1, ServerAssumption
  <2> QED BY <2>1, <2>2
<1>4. KnownCallers /\ SlotFlow
  BY <1>2, <1>3 DEF KnownCallers, SlotFlow, Early, Running, Late
<1>5. SlotAccounting /\ HoldersCovered
  <2>1. \A t \in Tenants : Holders(t) = {} /\ inflight[t] = 0
    BY <1>3 DEF Holders, HoldsSlot, Init, LimiterInit
  <2> QED BY <2>1, FS_EmptySet DEF SlotAccounting, HoldersCovered
<1>6. \A j \in Jobs : job[j].status = "none" /\ store[j].status = "none"
  BY DEF Init, JobInit, NoJob
<1>7. \A j \in Jobs : FlowOf(j)
  BY <1>2, <1>6
  DEF FlowOf, Before, Early, Running, Late, Working, Terminal
<1> QED BY <1>1, <1>4, <1>5, <1>7, FlowOfAll DEF IInv, JobFlow

\* Every step of the server preserves the inductive invariant.
LEMMA StepInvariant == IInv /\ [Next]_vars => IInv'
<1> SUFFICES ASSUME IInv, [Next]_vars PROVE IInv'
  OBVIOUS
<1> USE DEF IInv, JobFlow
<1>1. TypeOK'
  BY StepTyped
<1>2. KnownCallers' /\ SlotFlow'
  BY StepFlow
<1>3. SlotAccounting' /\ HoldersCovered'
  BY StepSlots, StepCallers, CounterFollows, CoverFollows
<1>4. StatusFlow' /\ ActiveNeverEvicted' /\ RowFlow'
  BY StepJobFlow
<1> QED BY <1>1, <1>2, <1>3, <1>4

\* The inductive invariant: types, known callers, the flow of slots and their
\* accounting, the covered holders, and the flow of statuses, table and rows.
THEOREM InvariantHolds == Spec => []IInv
  BY InitInvariant, StepInvariant, PTL DEF Spec

\* The slot counter of a tenant is the number of its jobs that hold a slot
\* (limits.py admit_scan / release_slot, server.py verify / run_job).
THEOREM SlotsAccounted == Spec => []SlotAccounting
<1>1. IInv => SlotAccounting
  BY DEF IInv
<1> QED BY <1>1, InvariantHolds, PTL

\* The deep verifies a tenant has re-executing are within the concurrency of
\* the tier of one of them, or one is unmetered (limits.py admit_scan).
THEOREM ParallelBounded == Spec => []ParallelVerifiesBounded
<1>1. IInv => ParallelVerifiesBounded
  <2> SUFFICES ASSUME IInv, NEW t \in Tenants, Reexecuting(t) # {}
               PROVE  \E j \in Reexecuting(t) : Covers(j, Reexecuting(t))
    BY DEF ParallelVerifiesBounded
  <2>1. Reexecuting(t) \in SUBSET Holders(t)
    BY DEF IInv, SlotFlow, Reexecuting, Holders, HoldsSlot, Unreleased, Running
  <2> QED BY <2>1 DEF IInv, HoldersCovered
<1> QED BY <1>1, InvariantHolds, PTL

\* A job whose thread is at work is in the table (server.py _evict_jobs).
THEOREM ActiveKept == Spec => []ActiveNeverEvicted
<1>1. IInv => ActiveNeverEvicted
  BY DEF IInv
<1> QED BY <1>1, InvariantHolds, PTL

\* No job in the table is queued or running without a thread, before and after
\* any restart (jobstore.py load_all).
THEOREM NoGhosts == Spec => []NoGhostRunning
<1>1. IInv => NoGhostRunning
  <2> SUFFICES ASSUME IInv, NEW j \in JOBS, ~SpawnMayFail,
                      job[j].status \in {"queued", "running"}
               PROVE  pc[j] \in {"birth", "spawn"} \cup Working
    BY DEF NoGhostRunning
  <2>1. j \in Jobs /\ pc[j] \in PCs
    BY DEF IInv, TypeOK, JobTypeOK
  <2>2. ~Finished(j)
    BY DEF Finished, Terminal
  <2> QED
    BY <2>1, <2>2 DEF IInv, StatusFlow, RowFlow, PCs, Handling, Working,
                      Before, Early, Running, Late
<1> QED BY <1>1, InvariantHolds, PTL

\* A terminal row is never turned back, and whoever reads the job reads its
\* status (server.py _set, _persist; jobstore.py save, load_all).
THEOREM VerdictSurvives == Spec => PersistedVerdictSurvives
<1>1. ASSUME IInv, Next PROVE VerdictsKept
  <2> SUFFICES ASSUME NEW i \in Jobs, store[i].status \in Terminal
               PROVE  /\ store'[i].status = store[i].status
                      /\ i \in JOBS' => job'[i].status = store[i].status
    BY DEF VerdictsKept
  <2>t. TypeOK
    BY <1>1 DEF IInv
  <2>f. FlowOf(i)
    BY <1>1, FlowOfAll DEF IInv, JobFlow
  <2>p. pc[i] \in Late \cup {"dead"}
    BY <2>f DEF FlowOf
  <2>1. ASSUME NEW j \in Jobs \ {i}, Handler(j) \/ JobThread(j) \/ Report(j)
        PROVE  /\ store'[i].status = store[i].status
               /\ i \in JOBS' => job'[i].status = store[i].status
    <3>1. OthersKept(j)
      BY <2>1, <2>t, JobStepKeepsOthers
    <3>2. job'[i] = job[i] /\ store'[i] = store[i] /\ (i \in JOBS' => i \in JOBS)
      BY <2>1, <3>1 DEF OthersKept
    <3>3. i \in JOBS => job[i].status = store[i].status
      BY <2>f, <2>p DEF FlowOf
    <3> QED BY <3>2, <3>3
  <2>2. ASSUME Handler(i) \/ JobThread(i) \/ Report(i)
        PROVE  /\ store'[i].status = store[i].status
               /\ i \in JOBS' => job'[i].status = store[i].status
    <3>1. CASE Report(i)
      <4>1. pc[i] \in Late
        BY <2>f, <2>p, <3>1 DEF FlowOf, Report, At, Late
      <4> QED BY <2>f, <2>t, <3>1, <4>1, StatusWritten DEF FlowOf, Report, SetJob
    <3>2. CASE CloseLog(i)
      BY <2>f, <2>t, <3>2, StatusWritten DEF FlowOf, CloseLog, SetJob, At, Late
    <3>3. CASE SaveEnd(i) \/ SaveFinal(i)
      <4>1. pc[i] \in Late /\ job' = job
        BY <3>3 DEF SaveEnd, SaveFinal, Persist, At, Late
      <4>2. store'[i] = job[i] \/ store'[i] = store[i]
        BY <2>t, <3>3, TypeFacts DEF SaveEnd, SaveFinal, Persist
      <4> QED BY <2>f, <4>1, <4>2 DEF FlowOf
    <3>4. CASE Release(i) \/ Bill(i) \/ BillGpu(i)
      <4>1. pc[i] \in Late /\ job' = job /\ store' = store
        BY <3>4 DEF Release, Bill, BillGpu, jobVars, At, Late
      <4> QED BY <2>f, <4>1 DEF FlowOf
    <3>5. CASE \/ Handler(i) \/ Begin(i) \/ SaveBegin(i) \/ Clone(i)
               \/ CloneFails(i) \/ RunReturns(i) \/ RunRaises(i)
      BY <2>p, <3>5
      DEF Handler, Submit, ArmGpu, Refuse, Admit, Insert, PersistBirth, Spawn,
          Begin, SaveBegin, Clone, CloneFails, RunReturns, RunRaises, At, Late
    <3> QED BY <2>2, <3>1, <3>2, <3>3, <3>4, <3>5 DEF JobThread
  <2>3. CASE WindowPasses
    BY <2>f, <2>p, <2>3 DEF FlowOf, WindowPasses, jobVars
  <2>4. CASE Restart
    <3>1. store' = store /\ (i \in JOBS' => job'[i] = Reloaded(store[i]))
      BY <2>4 DEF Restart, LoadPersisted
    <3>2. store[i] \in JobRecord
      BY <2>t, TypeFacts
    <3> QED BY <3>1, <3>2, ReloadedTerminal
  <2> QED BY <1>1, <2>1, <2>2, <2>3, <2>4 DEF Next
<1>2. IInv /\ [Next]_vars => [VerdictsKept]_vars
  BY <1>1
<1> QED BY <1>2, InvariantHolds, PTL DEF Spec, PersistedVerdictSurvives

\* The counter of the limiter implements the set of the jobs that hold a slot:
\* the server's steps are Acquire, Release and Forget of ScanAdmission, or
\* leave the slots alone.
THEOREM AdmissionImplemented == Spec => ImplementsAdmission
<1>1. Init => ADM!Init
  <2> SUFFICES ASSUME Init PROVE ADM!Init
    OBVIOUS
  <2>1. KnownCallers
    BY InitInvariant DEF IInv
  <2>2. \A j \in Jobs : ~HoldsSlot(j)
    BY DEF Init, HoldsSlot, Unreleased
  <2>3. CallerOf \in [Jobs -> Callers]
    BY <2>1 DEF KnownCallers, CallerOf
  <2> QED BY <2>2, <2>3 DEF ADM!Init, Held
<1>2. ASSUME IInv, IInv', SlotStep, CallersKept
      PROVE  ADM!Next \/ UNCHANGED <<CallerOf, Held>>
  <2>1. CallerOf' = CallerOf
    BY <1>2 DEF CallersKept, CallerOf
  <2>2. \A i \in Jobs : req[i].tenant \in Tenants /\ req'[i].tenant \in Tenants
    BY <1>2 DEF IInv, TypeOK, Request
  <2>3. \A i \in Jobs : i \in Held <=> \E t \in Tenants : i \in Holders(t)
    BY <2>2 DEF Held, Holders
  <2>4. \A i \in Jobs : i \in Held' <=> \E t \in Tenants : i \in Holders(t)'
    BY <2>2 DEF Held, Holders
  <2>5. Held \subseteq Jobs /\ Held' \subseteq Jobs
    BY DEF Held
  <2>6. CASE SlotsKept
    <3>1. Held' = Held
      BY <2>3, <2>4, <2>5, <2>6 DEF SlotsKept
    <3> QED BY <2>1, <3>1
  <2>7. ASSUME NEW j \in Jobs, SlotTaken(j) PROVE ADM!Acquire(j)
    <3>1. CallerOf[j][1] = req[j].tenant /\ CallerOf[j][2] = req[j].tier
      BY DEF CallerOf
    <3>2. j \notin Held
      BY <2>3, <2>7 DEF SlotTaken
    <3>3. Held' = Held \cup {j}
      BY <2>2, <2>3, <2>4, <2>5, <2>7 DEF SlotTaken
    <3>4. ADM!HeldBy(req[j].tenant) = Holders(req[j].tenant)
      BY DEF ADM!HeldBy, Held, Holders, CallerOf
    <3>5. inflight[req[j].tenant] = Cardinality(Holders(req[j].tenant))
      BY <1>2, <2>2 DEF IInv, SlotAccounting
    <3>6. \A S : ADM!Cardinality(S) = Cardinality(S)
      BY DEF ADM!Cardinality, Cardinality
    <3> QED BY <2>7, <3>1, <3>2, <3>3, <3>4, <3>5, <3>6
            DEF SlotTaken, ADM!Acquire
  <2>8. ASSUME NEW j \in Jobs, SlotReturned(j) PROVE ADM!Release(j)
    <3>1. j \in Held
      BY <2>2, <2>3, <2>8 DEF SlotReturned
    <3>2. \A t \in Tenants : j \notin Holders(t)'
      <4> SUFFICES ASSUME NEW t \in Tenants PROVE j \notin Holders(t)'
        OBVIOUS
      <4>1. CASE t = req[j].tenant
        BY <2>8, <4>1 DEF SlotReturned
      <4>2. CASE t # req[j].tenant
        <5>1. j \notin Holders(t)
          BY <4>2 DEF Holders
        <5> QED BY <2>8, <4>2, <5>1 DEF SlotReturned
      <4> QED BY <4>1, <4>2
    <3>3. j \notin Held'
      BY <2>4, <3>2
    <3>4. \A i \in Jobs : i # j => (i \in Held' <=> i \in Held)
      BY <2>3, <2>4, <2>8 DEF SlotReturned
    <3>5. Held' = Held \ {j}
      BY <2>5, <3>3, <3>4
    <3> QED BY <3>1, <3>5 DEF ADM!Release
  <2>9. CASE SlotsLost
    <3>1. Held' = {}
      BY <2>4, <2>5, <2>9 DEF SlotsLost
    <3> QED BY <2>1, <3>1 DEF ADM!Next, ADM!Forget
  <2> QED BY <1>2, <2>1, <2>6, <2>7, <2>8, <2>9 DEF SlotStep, ADM!Next
<1>3. IInv /\ IInv' /\ [Next]_vars => [ADM!Next]_<<CallerOf, Held>>
  BY <1>2, StepSlots, StepCallers DEF IInv
<1> QED BY <1>1, <1>3, InvariantHolds, PTL DEF Spec, ImplementsAdmission, ADM!Spec

----------------------------------------------------------------------------
(* The last write *)

Closing == {"release", "bill", "bill gpu", "save final", "exited"}

\* The closing line is in the dict when the last write begins; after it, the
\* row has what the dict has, whatever a late event adds to the dict.
RowComplete(j) ==
  /\ pc[j] \in Closing => job[j].closed
  /\ pc[j] = "exited" /\ ~StoreMayFail =>
       /\ store[j].status = job[j].status /\ store[j].closed
       /\ store[j].seconds = job[j].seconds

\* A late event changes neither the outcome, nor the closing line, nor the cost.
LEMMA EventKeepsOutcome ==
  ASSUME TypeOK, NEW j \in Jobs, Report(j)
  PROVE  /\ job'[j].status = job[j].status /\ job'[j].closed = job[j].closed
         /\ job'[j].seconds = job[j].seconds /\ job'[j].gpuSeconds = job[j].gpuSeconds
         /\ UNCHANGED <<pc, store>>
<1>1. PICK e \in Events : SetJob(j, WithEvent(job[j], e))
  BY DEF Report
<1>2. job \in [Jobs -> JobRecord] /\ job[j] \in JobRecord
  BY TypeFacts
<1>3. job'[j] = WithEvent(job[j], e)
  BY <1>1, <1>2 DEF SetJob
<1>4. \A r \in JobRecord :
        /\ WithEvent(r, e).status = r.status /\ WithEvent(r, e).closed = r.closed
        /\ WithEvent(r, e).seconds = r.seconds /\ WithEvent(r, e).gpuSeconds = r.gpuSeconds
  BY DEF WithEvent, JobRecord
<1> QED
  BY <1>1, <1>2, <1>3, <1>4 DEF Report, SetJob

\* A step of a job's own threads.
LEMMA JobStepCompletes ==
  ASSUME TypeOK, NEW j \in Jobs, RowComplete(j), Handler(j) \/ JobThread(j) \/ Report(j)
  PROVE  RowComplete(j)'
<1> USE TypeFacts DEF RowComplete, Closing, At, Goto
<1>1. CASE Report(j)
  BY <1>1, EventKeepsOutcome
<1>2. CASE Handler(j)
  <2>1. pc'[j] \notin Closing
    BY <1>2 DEF Handler, Submit, ArmGpu, Refuse, Admit, Insert, PersistBirth, Spawn
  <2> QED
    BY <2>1
<1>3. CASE \/ Begin(j) \/ SaveBegin(j) \/ Clone(j) \/ CloneFails(j)
           \/ RunReturns(j) \/ RunRaises(j) \/ SaveEnd(j)
  <2>1. pc'[j] \notin Closing
    BY <1>3 DEF Begin, SaveBegin, Clone, CloneFails, RunReturns, RunRaises, SaveEnd
  <2> QED
    BY <2>1
<1>4. CASE CloseLog(j)
  <2>1. pc'[j] \in {"release", "save final"} /\ SetJob(j, [job[j] EXCEPT !.closed = TRUE])
    BY <1>4 DEF CloseLog
  <2>2. \A r \in JobRecord : [r EXCEPT !.closed = TRUE].closed = TRUE
    BY DEF JobRecord
  <2>3. job[j] \in JobRecord
    BY TypeFacts
  <2>4. job'[j] = [job[j] EXCEPT !.closed = TRUE]
    BY <2>1 DEF SetJob
  <2> QED
    BY <2>1, <2>2, <2>3, <2>4
<1>5. CASE Release(j) \/ Bill(j) \/ BillGpu(j)
  BY <1>5 DEF Release, Bill, BillGpu, jobVars
<1>6. CASE SaveFinal(j)
  <2>1. job' = job /\ pc'[j] = "exited" /\ job[j].closed
    BY <1>6 DEF SaveFinal, Persist
  <2>2. ~StoreMayFail => store'[j] = job[j]
    BY <1>6 DEF SaveFinal, Persist
  <2> QED
    BY <2>1, <2>2
<1> QED
  BY <1>1, <1>2, <1>3, <1>4, <1>5, <1>6 DEF JobThread

\* When a job's thread has ended, the row holds its outcome, its cost and its
\* closing line, although the row of the outcome was written before that line
\* (server.py run_job).
THEOREM LastWriteComplete == Spec => []FinalRowComplete
<1> DEFINE AllComplete == \A i \in Jobs : RowComplete(i)
<1>1. Init => AllComplete
  BY DEF Init, RowComplete, Closing
<1>2. ASSUME IInv, AllComplete, [Next]_vars
      PROVE  AllComplete'
  <2> SUFFICES ASSUME NEW i \in Jobs PROVE RowComplete(i)'
    OBVIOUS
  <2>t. TypeOK
    BY <1>2 DEF IInv
  <2>1. ASSUME NEW j \in Jobs, Handler(j) \/ JobThread(j) \/ Report(j)
        PROVE  RowComplete(i)'
    <3>1. CASE i = j
      BY <1>2, <2>t, <2>1, <3>1, JobStepCompletes
    <3>2. CASE i # j
      BY <1>2, <2>t, <2>1, <3>2, JobStepKeepsOthers DEF OthersKept, RowComplete
    <3> QED
      BY <3>1, <3>2
  <2>2. CASE WindowPasses \/ UNCHANGED vars
    BY <1>2, <2>2 DEF WindowPasses, vars, serverVars, jobVars, RowComplete
  <2>3. CASE Restart
    BY <2>3 DEF Restart, RowComplete, Closing
  <2> QED
    BY <1>2, <2>1, <2>2, <2>3 DEF Next
<1>3. ASSUME IInv, AllComplete
      PROVE  FinalRowComplete
  <2> SUFFICES ASSUME NEW j \in Jobs, pc[j] = "exited", ~StoreMayFail
               PROVE  /\ store[j].status = job[j].status /\ Finished(j)
                      /\ store[j].closed
                      /\ store[j].seconds = job[j].seconds
    BY DEF FinalRowComplete
  <2>1. Finished(j)
    BY <1>3 DEF IInv, StatusFlow, Late
  <2> QED
    BY <1>3, <2>1 DEF RowComplete
<1> HIDE DEF AllComplete
<1> QED
  BY <1>1, <1>2, <1>3, InvariantHolds, PTL DEF Spec

----------------------------------------------------------------------------
(* Metering *)

Seconds == [j \in Jobs |-> job[j].seconds]
GpuSeconds == [j \in Jobs |-> job[j].gpuSeconds]
SandboxPoints == {"bill gpu", "save final", "exited"}
GpuPoints == {"save final", "exited"}

\* Billing one more run adds its cost to a sum of costs, which is a number.
LEMMA CostsAdd ==
  ASSUME NEW f \in [Jobs -> Nat], NEW S \in SUBSET Jobs
  PROVE  /\ SumFunctionOnSet(f, S) \in Nat
         /\ \A j \in Jobs \ S : SumFunctionOnSet(f, S \cup {j}) = SumFunctionOnSet(f, S) + f[j]
<1>1. IsFiniteSet(S)
  BY JobAssumption, FS_Subset
<1>2. SumFunctionOnSet(f, S) \in Nat
  BY <1>1, SumType
<1>3. ASSUME NEW j \in Jobs \ S
      PROVE  SumFunctionOnSet(f, S \cup {j}) = SumFunctionOnSet(f, S) + f[j]
  <2> DEFINE B == S \cup {j}
  <2>1. IsFiniteSet(B) /\ (\A i \in B : f[i] \in Int) /\ j \in B /\ B \ {j} = S
    BY <1>1, FS_AddElement
  <2>2. f[j] \in Nat
    OBVIOUS
  <2> HIDE DEF B
  <2>3. SumFunctionOnSet(f, B) = f[j] + SumFunctionOnSet(f, B \ {j})
    BY <2>1, SumTakeOut
  <2>4. SumFunctionOnSet(f, B) = f[j] + SumFunctionOnSet(f, S)
    BY <2>1, <2>3
  <2> QED
    BY <1>2, <2>2, <2>4 DEF B
<1> QED
  BY <1>2, <1>3

\* The same costs of the same runs have the same sum.
LEMMA CostsStay ==
  ASSUME NEW f \in [Jobs -> Nat], NEW g \in [Jobs -> Nat], NEW S \in SUBSET Jobs,
         \A i \in S : f[i] = g[i]
  PROVE  SumFunctionOnSet(f, S) = SumFunctionOnSet(g, S)
<1>1. IsFiniteSet(S)
  BY JobAssumption, FS_Subset
<1> QED
  BY <1>1, SumSame

\* What a tenant's returned runs reported is a number.
LEMMA ReportedType ==
  ASSUME TypeOK, NEW t \in Tenants
  PROVE  /\ Reported(t) = SumFunctionOnSet(Seconds, Billed(t)) /\ Reported(t) \in Nat
         /\ GpuReported(t) = SumFunctionOnSet(GpuSeconds, GpuBilled(t)) /\ GpuReported(t) \in Nat
         /\ Seconds \in [Jobs -> Nat] /\ GpuSeconds \in [Jobs -> Nat]
         /\ Billed(t) \in SUBSET Jobs /\ GpuBilled(t) \in SUBSET Jobs
<1>1. /\ Reported(t) = SumFunctionOnSet(Seconds, Billed(t))
      /\ GpuReported(t) = SumFunctionOnSet(GpuSeconds, GpuBilled(t))
  BY DEF Reported, Seconds, GpuReported, GpuSeconds
<1>2. Billed(t) \in SUBSET Jobs /\ GpuBilled(t) \in SUBSET Jobs
  BY DEF Billed, GpuBilled, Settled
<1>3. Seconds \in [Jobs -> Nat] /\ GpuSeconds \in [Jobs -> Nat]
  BY TypeFacts DEF Seconds, GpuSeconds, JobRecord
<1> QED
  BY <1>1, <1>2, <1>3, CostsAdd

\* Of the steps of a job's threads only Bill and BillGpu add to a meter, each to
\* its own and a run to those billed there; no step changes what a billed run
\* reported.
LEMMA JobStepSettles ==
  ASSUME TypeOK, SlotFlow, NEW j \in Jobs, Handler(j) \/ JobThread(j) \/ Report(j),
         NEW P, \/ P = SandboxPoints /\ ~Bill(j)
                \/ P = GpuPoints /\ ~BillGpu(j)
  PROVE  \A t \in Tenants :
           /\ Settled(t, P)' = Settled(t, P)
           /\ \A i \in Settled(t, P) : /\ job'[i].seconds = job[i].seconds
                                       /\ job'[i].gpuSeconds = job[i].gpuSeconds
<1> DEFINE Counted(i) == req[i].slot /\ pc[i] \in P
           Kept(i) == /\ job'[i].seconds = job[i].seconds
                      /\ job'[i].gpuSeconds = job[i].gpuSeconds
<1>p. P = SandboxPoints \/ P = GpuPoints
  OBVIOUS
<1>1. /\ CallersKept
      /\ \A i \in Jobs \ {j} : req'[i] = req[i] /\ pc'[i] = pc[i] /\ job'[i] = job[i]
  <2>1. \A i \in Jobs \ {j} : req'[i] = req[i]
    <3>1. req' = req \/ ArmGpu(j) \/ Admit(j)
      BY DEF Handler, Submit, Refuse, Insert, PersistBirth, Spawn,
             JobThread, Begin, SaveBegin, Clone, CloneFails, RunReturns, RunRaises,
             SaveEnd, CloseLog, Release, Bill, BillGpu, SaveFinal, Report
    <3>2. req \in [Jobs -> Request]
      BY DEF TypeOK
    <3> QED
      BY <3>1, <3>2 DEF ArmGpu, Admit
  <2>2. [Next]_vars
    BY DEF Next
  <2> QED
    BY <2>1, <2>2, StepCallers, JobStepKeepsOthers DEF OthersKept
<1>2. (Counted(j)' <=> Counted(j)) /\ (Counted(j) => Kept(j))
  <2> USE TypeFacts DEF At, Goto, SandboxPoints, GpuPoints
  <2>1. CASE Report(j)
    BY <2>1, EventKeepsOutcome DEF Report
  <2>2. CASE \/ Handler(j) \/ Begin(j) \/ SaveBegin(j) \/ Clone(j) \/ CloneFails(j)
             \/ RunReturns(j) \/ RunRaises(j) \/ SaveEnd(j) \/ Release(j)
    <3>1. pc[j] \notin SandboxPoints /\ pc'[j] \notin SandboxPoints
      BY <2>2 DEF Handler, Submit, ArmGpu, Refuse, Admit, Insert, PersistBirth, Spawn,
                  Begin, SaveBegin, Clone, CloneFails, RunReturns, RunRaises,
                  SaveEnd, Release
    <3> QED
      BY <1>p, <3>1
  <2>3. CASE CloseLog(j)
    <3>1. pc[j] \notin SandboxPoints /\ req' = req
      BY <2>3 DEF CloseLog
    <3>2. pc'[j] \in SandboxPoints => ~req[j].slot
      BY <2>3 DEF CloseLog
    <3> QED
      BY <1>p, <3>1, <3>2
  <2>4. CASE SaveFinal(j)
    BY <1>p, <2>4 DEF SaveFinal, Persist, jobVars
  <2>5. CASE Bill(j)
    <3>1. /\ P = GpuPoints /\ pc[j] = "bill" /\ pc'[j] = "bill gpu"
          /\ req' = req /\ job' = job
      BY <2>5 DEF Bill, jobVars
    <3> QED
      BY <3>1
  <2>6. CASE BillGpu(j)
    <3>1. /\ P = SandboxPoints /\ pc[j] = "bill gpu" /\ pc'[j] = "save final"
          /\ req' = req /\ job' = job
      BY <2>6 DEF BillGpu, jobVars
    <3> QED
      BY <3>1
  <2> QED
    BY <2>1, <2>2, <2>3, <2>4, <2>5, <2>6 DEF JobThread
<1>3. \A i \in Jobs : (Counted(i)' <=> Counted(i)) /\ (Counted(i) => Kept(i))
  BY <1>1, <1>2
<1> HIDE DEF Kept
<1>4. ASSUME NEW t \in Tenants
      PROVE  Settled(t, P)' = Settled(t, P) /\ \A i \in Settled(t, P) : Kept(i)
  <2>1. \A i \in Jobs : i \in Settled(t, P) <=> req[i].tenant = t /\ Counted(i)
    BY DEF Settled
  <2>2. \A i \in Jobs : i \in Settled(t, P)' <=> req'[i].tenant = t /\ Counted(i)'
    BY DEF Settled
  <2>3. Settled(t, P) \subseteq Jobs /\ Settled(t, P)' \subseteq Jobs
    BY DEF Settled
  <2>4. \A i \in Jobs : req'[i].tenant = req[i].tenant
    BY <1>1 DEF CallersKept
  <2> HIDE DEF Counted
  <2> QED
    BY <1>3, <2>1, <2>2, <2>3, <2>4
<1> QED
  BY <1>4 DEF Kept

\* The meters themselves are written by their own steps only.
LEMMA MetersKept ==
  ASSUME NEW j \in Jobs, Handler(j) \/ JobThread(j) \/ Report(j)
  PROVE  /\ windows' = windows
         /\ ~Bill(j) => sandbox' = sandbox
         /\ ~BillGpu(j) => gpu' = gpu
<1> USE DEF limiterVars, CheckApiRate, AdmitScan, ReleaseSlot
<1>1. CASE Handler(j) \/ Report(j)
  BY <1>1 DEF Handler, Submit, ArmGpu, Refuse, Admit, Insert, PersistBirth, Spawn, Report
<1>2. CASE JobThread(j)
  BY <1>2 DEF JobThread, Begin, SaveBegin, Clone, CloneFails, RunReturns, RunRaises,
              SaveEnd, CloseLog, Release, Bill, BillGpu, SaveFinal, RecordSandbox, RecordGpu
<1> QED
  BY <1>1, <1>2

\* Bill adds what the run reported to the meter of its tenant, and the run to
\* those billed.
LEMMA BillMeters ==
  ASSUME TypeOK, SlotFlow, NEW j \in Jobs, Bill(j), NEW t \in Tenants
  PROVE  IF t = req[j].tenant
         THEN /\ sandbox'[t] = sandbox[t] + job[j].seconds
              /\ Reported(t)' = Reported(t) + job[j].seconds
         ELSE sandbox'[t] = sandbox[t] /\ Reported(t)' = Reported(t)
<1>1. req[j].slot /\ job' = job /\ req' = req /\ pc' = [pc EXCEPT ![j] = "bill gpu"]
  BY DEF Bill, At, Goto, SlotFlow, jobVars
<1>2. pc[j] = "bill" /\ pc \in [Jobs -> PCs] /\ sandbox \in [Tenants -> Nat]
  BY DEF Bill, At, TypeOK, LimiterTypeOK
<1>3. sandbox' = [sandbox EXCEPT ![req[j].tenant] = @ + job[j].seconds]
  BY DEF Bill, RecordSandbox
<1>4. Reported(t)' = SumFunctionOnSet(Seconds, Billed(t)')
  BY <1>1 DEF Reported, Seconds
<1>5. CASE t = req[j].tenant
  <2>1. Billed(t)' = Billed(t) \cup {j} /\ j \in Jobs \ Billed(t)
    BY <1>1, <1>2, <1>5 DEF Billed, Settled
  <2>2. Seconds[j] = job[j].seconds
    BY DEF Seconds
  <2>3. Reported(t)' = Reported(t) + job[j].seconds
    BY <1>4, <2>1, <2>2, ReportedType, CostsAdd
  <2> QED
    BY <1>2, <1>3, <1>5, <2>3
<1>6. CASE t # req[j].tenant
  <2>1. Billed(t)' = Billed(t)
    BY <1>1, <1>2, <1>6 DEF Billed, Settled
  <2> QED
    BY <1>2, <1>3, <1>4, <1>6, <2>1, ReportedType
<1> QED
  BY <1>5, <1>6

\* BillGpu does the same to the other meter.
LEMMA BillGpuMeters ==
  ASSUME TypeOK, SlotFlow, NEW j \in Jobs, BillGpu(j), NEW t \in Tenants
  PROVE  IF t = req[j].tenant
         THEN /\ gpu'[t] = gpu[t] + job[j].gpuSeconds
              /\ GpuReported(t)' = GpuReported(t) + job[j].gpuSeconds
         ELSE gpu'[t] = gpu[t] /\ GpuReported(t)' = GpuReported(t)
<1>1. req[j].slot /\ job' = job /\ req' = req /\ pc' = [pc EXCEPT ![j] = "save final"]
  BY DEF BillGpu, At, Goto, SlotFlow, jobVars
<1>2. pc[j] = "bill gpu" /\ pc \in [Jobs -> PCs] /\ gpu \in [Tenants -> Nat]
  BY DEF BillGpu, At, TypeOK, LimiterTypeOK
<1>3. gpu' = [gpu EXCEPT ![req[j].tenant] = @ + job[j].gpuSeconds]
  BY DEF BillGpu, RecordGpu
<1>4. GpuReported(t)' = SumFunctionOnSet(GpuSeconds, GpuBilled(t)')
  BY <1>1 DEF GpuReported, GpuSeconds
<1>5. CASE t = req[j].tenant
  <2>1. GpuBilled(t)' = GpuBilled(t) \cup {j} /\ j \in Jobs \ GpuBilled(t)
    BY <1>1, <1>2, <1>5 DEF GpuBilled, Settled
  <2>2. GpuSeconds[j] = job[j].gpuSeconds
    BY DEF GpuSeconds
  <2>3. GpuReported(t)' = GpuReported(t) + job[j].gpuSeconds
    BY <1>4, <2>1, <2>2, ReportedType, CostsAdd
  <2> QED
    BY <1>2, <1>3, <1>5, <2>3
<1>6. CASE t # req[j].tenant
  <2>1. GpuBilled(t)' = GpuBilled(t)
    BY <1>1, <1>2, <1>6 DEF GpuBilled, Settled
  <2> QED
    BY <1>2, <1>3, <1>4, <1>6, <2>1, ReportedType
<1> QED
  BY <1>5, <1>6

\* What is true of the two meters of a tenant.
Metered(t) ==
  /\ sandbox[t] <= Reported(t) /\ gpu[t] <= GpuReported(t)
  /\ windows = 0 => sandbox[t] = Reported(t) /\ gpu[t] = GpuReported(t)

\* A step of a job's threads moves a meter and its sum together.
LEMMA JobStepMeters ==
  ASSUME TypeOK, TypeOK', SlotFlow, NEW j \in Jobs, Handler(j) \/ JobThread(j) \/ Report(j),
         NEW t \in Tenants, Metered(t)
  PROVE  Metered(t)'
<1>1. /\ sandbox[t] \in Nat /\ Reported(t) \in Nat
      /\ gpu[t] \in Nat /\ GpuReported(t) \in Nat
      /\ job[j].seconds \in Nat /\ job[j].gpuSeconds \in Nat
  BY ReportedType, TypeFacts DEF TypeOK, LimiterTypeOK, JobRecord
<1>2. Seconds' \in [Jobs -> Nat] /\ GpuSeconds' \in [Jobs -> Nat]
  <2>1. job' \in [Jobs -> JobRecord]
    BY DEF TypeOK, JobTypeOK
  <2> QED
    BY <2>1 DEF Seconds, GpuSeconds, JobRecord
<1>3. ~Bill(j) => Reported(t)' = Reported(t)
  <2> HAVE ~Bill(j)
  <2>1. /\ Billed(t)' = Billed(t)
        /\ \A i \in Billed(t) : job'[i].seconds = job[i].seconds
    BY JobStepSettles DEF Billed, SandboxPoints
  <2>2. Reported(t)' = SumFunctionOnSet(Seconds', Billed(t))
    BY <2>1 DEF Reported, Seconds
  <2>3. \A i \in Billed(t) : Seconds[i] = Seconds'[i]
    BY <2>1, ReportedType DEF Seconds
  <2> QED
    BY <1>2, <2>2, <2>3, ReportedType, CostsStay
<1>4. ~BillGpu(j) => GpuReported(t)' = GpuReported(t)
  <2> HAVE ~BillGpu(j)
  <2>1. /\ GpuBilled(t)' = GpuBilled(t)
        /\ \A i \in GpuBilled(t) : job'[i].gpuSeconds = job[i].gpuSeconds
    BY JobStepSettles DEF GpuBilled, GpuPoints
  <2>2. GpuReported(t)' = SumFunctionOnSet(GpuSeconds', GpuBilled(t))
    BY <2>1 DEF GpuReported, GpuSeconds
  <2>3. \A i \in GpuBilled(t) : GpuSeconds[i] = GpuSeconds'[i]
    BY <2>1, ReportedType DEF GpuSeconds
  <2> QED
    BY <1>2, <2>2, <2>3, ReportedType, CostsStay
<1>5. \/ sandbox'[t] = sandbox[t] + job[j].seconds /\ Reported(t)' = Reported(t) + job[j].seconds
      \/ sandbox'[t] = sandbox[t] /\ Reported(t)' = Reported(t)
  BY <1>3, BillMeters, MetersKept
<1>6. \/ gpu'[t] = gpu[t] + job[j].gpuSeconds /\ GpuReported(t)' = GpuReported(t) + job[j].gpuSeconds
      \/ gpu'[t] = gpu[t] /\ GpuReported(t)' = GpuReported(t)
  BY <1>4, BillGpuMeters, MetersKept
<1>7. windows' = windows
  BY MetersKept
<1> QED
  BY <1>1, <1>5, <1>6, <1>7 DEF Metered

\* Within one process the meters of a tenant are never more than what its
\* returned runs reported, and are exactly that until a calendar window passes
\* (limits.py record_sandbox_seconds and record_gpu_seconds, server.py run_job).
THEOREM BilledOnce == Spec => []EachRunBilledOnce
<1> DEFINE AllMetered == \A t \in Tenants : Metered(t)
<1>0. AllMetered <=> EachRunBilledOnce
  BY DEF Metered, EachRunBilledOnce
<1>1. ASSUME Init PROVE AllMetered
  <2> SUFFICES ASSUME NEW t \in Tenants PROVE Metered(t)
    OBVIOUS
  <2>1. Billed(t) = {} /\ GpuBilled(t) = {}
    BY <1>1 DEF Init, Billed, GpuBilled, Settled
  <2>2. Reported(t) = 0 /\ GpuReported(t) = 0
    BY <2>1, SumUnfolds, FS_EmptySet DEF Reported, GpuReported
  <2>3. sandbox[t] = 0 /\ gpu[t] = 0
    BY <1>1 DEF Init, LimiterInit
  <2> QED
    BY <2>2, <2>3 DEF Metered
<1>2. ASSUME IInv, IInv', AllMetered, [Next]_vars
      PROVE  AllMetered'
  <2> SUFFICES ASSUME NEW t \in Tenants PROVE Metered(t)'
    OBVIOUS
  <2>t. TypeOK /\ TypeOK' /\ SlotFlow
    BY <1>2 DEF IInv
  <2>i. Metered(t)
    BY <1>2
  <2>n. /\ sandbox[t] \in Nat /\ gpu[t] \in Nat /\ windows \in Nat
        /\ Reported(t) \in Nat /\ GpuReported(t) \in Nat
    BY <2>t, ReportedType, ServerAssumption DEF TypeOK, LimiterTypeOK
  <2>1. ASSUME NEW j \in Jobs, Handler(j) \/ JobThread(j) \/ Report(j)
        PROVE  Metered(t)'
    BY <2>t, <2>i, <2>1, JobStepMeters
  <2>2. CASE WindowPasses
    <3>1. Reported(t)' = Reported(t) /\ GpuReported(t)' = GpuReported(t)
      BY <2>2 DEF WindowPasses, jobVars, Reported, Billed, GpuReported, GpuBilled, Settled
    <3>2. /\ sandbox'[t] = sandbox[t] \/ sandbox'[t] = 0
          /\ gpu'[t] = gpu[t] \/ gpu'[t] = 0
      BY <2>2 DEF WindowPasses, MinutePasses, MidnightPasses, MonthPasses
    <3>3. windows' # 0
      BY <2>2, <2>n DEF WindowPasses
    <3> QED
      BY <2>n, <2>i, <3>1, <3>2, <3>3 DEF Metered
  <2>3. CASE Restart
    <3>1. Billed(t)' = {} /\ GpuBilled(t)' = {}
      BY <2>3 DEF Restart, Billed, GpuBilled, Settled
    <3>2. Reported(t)' = 0 /\ GpuReported(t)' = 0
      BY <3>1, SumUnfolds, FS_EmptySet DEF Reported, GpuReported
    <3>3. sandbox'[t] = 0 /\ gpu'[t] = 0
      BY <2>3 DEF Restart, LimiterForgets
    <3> QED
      BY <3>2, <3>3 DEF Metered
  <2>4. CASE UNCHANGED vars
    <3>1. Reported(t)' = Reported(t) /\ GpuReported(t)' = GpuReported(t)
      BY <2>4 DEF vars, jobVars, serverVars, Reported, Billed, GpuReported, GpuBilled, Settled
    <3> QED
      BY <2>4, <2>i, <3>1 DEF vars, limiterVars, serverVars, Metered
  <2> QED
    BY <1>2, <2>1, <2>2, <2>3, <2>4 DEF Next
<1> HIDE DEF AllMetered
<1> QED
  BY <1>0, <1>1, <1>2, InvariantHolds, PTL DEF Spec

----------------------------------------------------------------------------
(* Eviction *)

\* The time stamps of the job dicts order the jobs there are.
StampsOrder ==
  /\ \A a, b \in Jobs : <<a, b>> \in older => Exists(a)
  /\ \A a \in Jobs : <<a, a>> \notin older
  /\ \A a, b, c \in Jobs : <<a, b>> \in older /\ <<b, c>> \in older => <<a, c>> \in older
  /\ \A a, b \in Jobs : Exists(a) /\ Exists(b) /\ a # b =>
       <<a, b>> \in older \/ <<b, a>> \in older

\* Stamping a job puts it last and leaves the order of the others.
LEMMA TouchKeepsOrder ==
  ASSUME TypeOK, StampsOrder, NEW j \in Jobs, Touch(j),
         \A i \in Jobs \ {j} : job'[i] = job[i]
  PROVE  StampsOrder'
<1>1. older \subseteq Jobs \X Jobs
  BY DEF TypeOK, JobTypeOK
<1>2. \A a, b \in Jobs :
        <<a, b>> \in older' <=> a # j /\ (<<a, b>> \in older \/ (b = j /\ Exists(a)))
  BY <1>1 DEF Touch
<1>3. \A i \in Jobs \ {j} : Exists(i)' <=> Exists(i)
  BY DEF Exists
<1>4. (\A a, b \in Jobs : <<a, b>> \in older => Exists(a))'
  BY <1>2, <1>3 DEF StampsOrder
<1>5. (\A a \in Jobs : <<a, a>> \notin older)'
  BY <1>2 DEF StampsOrder
<1>6. (\A a, b, c \in Jobs : <<a, b>> \in older /\ <<b, c>> \in older => <<a, c>> \in older)'
  BY <1>2 DEF StampsOrder
<1>7. (\A a, b \in Jobs : Exists(a) /\ Exists(b) /\ a # b =>
         <<a, b>> \in older \/ <<b, a>> \in older)'
  BY <1>2, <1>3 DEF StampsOrder
<1> QED
  BY <1>4, <1>5, <1>6, <1>7 DEF StampsOrder

\* A step of a job's threads stamps that job or changes no dict.
LEMMA JobStepStamps ==
  ASSUME TypeOK, NEW j \in Jobs, Handler(j) \/ JobThread(j) \/ Report(j)
  PROVE  Touch(j) \/ UNCHANGED <<job, older>>
<1>1. CASE \/ Submit(j) \/ ArmGpu(j) \/ Refuse(j) \/ Spawn(j) \/ Clone(j)
           \/ Release(j) \/ Bill(j) \/ BillGpu(j)
  BY <1>1 DEF Submit, ArmGpu, Refuse, Spawn, Clone, Release, Bill, BillGpu, jobVars
<1>2. CASE Insert(j)
  BY <1>2 DEF Insert, InsertJob
<1>3. CASE PersistBirth(j) \/ SaveBegin(j) \/ SaveEnd(j) \/ SaveFinal(j)
  BY <1>3 DEF PersistBirth, SaveBegin, SaveEnd, SaveFinal, Persist
<1>4. CASE Admit(j)
  BY <1>4 DEF Admit, CreateJob
<1>5. CASE \/ Begin(j) \/ CloneFails(j) \/ RunReturns(j) \/ RunRaises(j)
           \/ CloseLog(j) \/ Report(j)
  BY <1>5 DEF Begin, CloneFails, RunReturns, RunRaises, CloseLog, Report, SetJob
<1> QED
  BY <1>1, <1>2, <1>3, <1>4, <1>5 DEF Handler, JobThread

\* Every step keeps the order; a new process starts from one.
LEMMA StepStamps ==
  ASSUME TypeOK, StampsOrder, [Next]_vars
  PROVE  StampsOrder'
<1>1. ASSUME NEW j \in Jobs, Handler(j) \/ JobThread(j) \/ Report(j)
      PROVE  StampsOrder'
  <2>1. \A i \in Jobs \ {j} : job'[i] = job[i]
    BY <1>1, JobStepKeepsOthers DEF OthersKept
  <2>2. CASE Touch(j)
    BY <2>1, <2>2, TouchKeepsOrder
  <2>3. CASE UNCHANGED <<job, older>>
    BY <2>3 DEF StampsOrder, Exists
  <2> QED
    BY <1>1, <2>2, <2>3, JobStepStamps
<1>2. CASE WindowPasses \/ UNCHANGED vars
  BY <1>2 DEF WindowPasses, vars, jobVars, StampsOrder, Exists
<1>3. CASE Restart
  <2> DEFINE kept == LastOf({i \in Jobs : HasRow(i)}, MaxJobs, born)
  <2>1. /\ older' \in StrictOrders(kept)
        /\ job' = [i \in Jobs |-> IF i \in kept THEN Reloaded(store[i]) ELSE NoJob]
    BY <1>3 DEF Restart, LoadPersisted
  <2>2. \A i \in Jobs : Exists(i)' <=> i \in kept
    <3>1. \A i \in Jobs : store[i] \in JobRecord
      BY TypeFacts
    <3>2. \A i \in Jobs : Reloaded(store[i]).status # "none"
      BY <3>1, ReloadedTerminal DEF Terminal
    <3>3. NoJob.status = "none"
      BY NewAndNoJob
    <3> HIDE DEF kept
    <3> QED
      BY <2>1, <3>2, <3>3 DEF Exists
  <2>3. kept \subseteq Jobs
    BY DEF LastOf
  <2> HIDE DEF kept
  <2>4. /\ older' \subseteq kept \X kept
        /\ \A a \in kept : <<a, a>> \notin older'
        /\ \A a, b \in kept : a # b => (<<a, b>> \in older' <=> <<b, a>> \notin older')
        /\ \A a, b, c \in kept :
             <<a, b>> \in older' /\ <<b, c>> \in older' => <<a, c>> \in older'
    BY <2>1 DEF StrictOrders
  <2>5. \A a, b : <<a, b>> \in older' => a \in kept /\ b \in kept
    BY <2>4
  <2> QED
    BY <2>2, <2>3, <2>4, <2>5 DEF StampsOrder
<1> QED
  BY <1>1, <1>2, <1>3 DEF Next

\* Of finitely many jobs there are, an order takes the first n, or all of them.
LEMMA FirstOfEnough ==
  ASSUME NEW F, IsFiniteSet(F), NEW n \in Nat, NEW before,
         \A a \in F : <<a, a>> \notin before,
         \A a, b, c \in F : <<a, b>> \in before /\ <<b, c>> \in before => <<a, c>> \in before
  PROVE  FirstOf(F, n, before) = F \/ Cardinality(FirstOf(F, n, before)) >= n
<1> DEFINE E == FirstOf(F, n, before)
           G == F \ E
           below(x) == {r \in F : <<r, x>> \in before}
<1>1. E \subseteq F /\ IsFiniteSet(E) /\ IsFiniteSet(G) /\ Cardinality(E) \in Nat
  BY FS_Subset, FS_CardinalityType DEF FirstOf
<1> SUFFICES ASSUME G # {}, Cardinality(E) < n PROVE FALSE
  BY <1>1
<1>2. PICK m \in G : \A y \in G : <<y, m>> \notin before
  <2> DEFINE above == [x \in G |-> {r \in G : <<r, x>> \in before}]
  <2>1. above \in [G -> SUBSET G]
    OBVIOUS
  <2>2. \E x \in G : \A y \in G : ~(above[y] \subseteq above[x] /\ above[y] # above[x])
    <3> HIDE DEF above, G
    <3> QED
      BY <1>1, <2>1, SmallestSubset
  <2>3. PICK x \in G : \A y \in G : ~(above[y] \subseteq above[x] /\ above[y] # above[x])
    BY <2>2
  <2>4. ASSUME NEW y \in G, <<y, x>> \in before PROVE FALSE
    <3>1. above[y] \subseteq above[x]
      BY <2>4
    <3>2. y \in above[x] /\ y \notin above[y]
      BY <2>4
    <3> QED
      BY <2>3, <3>1, <3>2
  <2> QED
    BY <2>4
<1>3. below(m) \subseteq E
  BY <1>2
<1>4. Cardinality(below(m)) <= Cardinality(E)
  BY <1>1, <1>3, FS_Subset
<1>5. Cardinality(below(m)) \in Nat
  BY <1>1, <1>3, FS_Subset, FS_CardinalityType
<1>6. Cardinality(below(m)) < n
  BY <1>1, <1>4, <1>5
<1>7. m \in E
  BY <1>2, <1>6 DEF FirstOf
<1> QED
  BY <1>2, <1>7

\* What comes first comes before what does not.
LEMMA FirstOfFirst ==
  ASSUME NEW F, IsFiniteSet(F), NEW n \in Nat, NEW before,
         \A a, b, c \in F : <<a, b>> \in before /\ <<b, c>> \in before => <<a, c>> \in before,
         NEW i \in FirstOf(F, n, before), NEW k \in F \ FirstOf(F, n, before),
         <<i, k>> \in before \/ <<k, i>> \in before
  PROVE  <<i, k>> \in before
<1> DEFINE below(x) == {r \in F : <<r, x>> \in before}
<1> SUFFICES ASSUME <<k, i>> \in before PROVE FALSE
  OBVIOUS
<1>1. i \in F /\ Cardinality(below(i)) < n /\ ~(Cardinality(below(k)) < n)
  BY DEF FirstOf
<1>2. below(k) \subseteq below(i)
  BY <1>1
<1>3. IsFiniteSet(below(i)) /\ IsFiniteSet(below(k))
  BY FS_Subset
<1>4. Cardinality(below(k)) <= Cardinality(below(i))
  BY <1>2, <1>3, FS_Subset
<1>5. Cardinality(below(k)) \in Nat /\ Cardinality(below(i)) \in Nat
  BY <1>3, FS_CardinalityType
<1> HIDE DEF below
<1> QED
  BY <1>1, <1>4, <1>5

\* A new job puts the table back within its cap, or leaves nothing finished in
\* it, at the cost of the jobs that finished first (server.py _evict_jobs).
LEMMA InsertKeepsRecent ==
  ASSUME TypeOK, StampsOrder, NEW j \in Jobs, InsertJob(j)
  PROVE  /\ Cardinality(JOBS') <= MaxJobs \/ \A i \in JOBS' : ~Finished(i)
         /\ \A i \in JOBS \ JOBS', k \in JOBS' : Finished(k) => <<i, k>> \in older
<1> DEFINE t == JOBS \cup {j}
           F == {i \in t : Finished(i)}
           n == Cardinality(t) - MaxJobs
           E == FirstOf(F, n, older)
<1>1. t \subseteq Jobs /\ IsFiniteSet(t) /\ IsFiniteSet(F) /\ F \subseteq t /\ MaxJobs \in Nat
  <2>1. t \subseteq Jobs
    BY TypeFacts
  <2> QED
    BY <2>1, JobAssumption, FS_Subset
<1>2. JOBS' = IF Cardinality(t) <= MaxJobs THEN t ELSE t \ E
  BY DEF InsertJob, Evicted
<1>3. Cardinality(t) \in Nat
  BY <1>1, FS_CardinalityType
<1>4. CASE Cardinality(t) <= MaxJobs
  BY <1>2, <1>4
<1>5. CASE ~(Cardinality(t) <= MaxJobs)
  <2>1. n \in Nat
    BY <1>1, <1>3, <1>5
  <2>2. \A i \in F : i \in Jobs /\ Exists(i)
    BY <1>1 DEF Finished, Exists, Terminal
  <2>3. /\ \A a \in F : <<a, a>> \notin older
        /\ \A a, b, c \in F : <<a, b>> \in older /\ <<b, c>> \in older => <<a, c>> \in older
        /\ \A a, b \in F : a # b => <<a, b>> \in older \/ <<b, a>> \in older
    BY <2>2 DEF StampsOrder
  <2>4. E \subseteq F
    BY DEF FirstOf
  <2> HIDE DEF F, n
  <2>5. E = F \/ Cardinality(E) >= n
    BY <1>1, <2>1, <2>3, FirstOfEnough
  <2>6. \A i \in E, k \in F \ E : <<i, k>> \in older
    BY <1>1, <2>1, <2>3, <2>4, FirstOfFirst
  <2> HIDE DEF E
  <2>7. JOBS' = t \ E
    BY <1>2, <1>5
  <2>8. CASE E = F
    BY <2>7, <2>8 DEF F
  <2>9. CASE Cardinality(E) >= n
    <3>1. IsFiniteSet(E) /\ Cardinality(E) \in Nat /\ E \subseteq t
      BY <1>1, <2>4, FS_Subset, FS_CardinalityType
    <3>2. Cardinality(t \ E) = Cardinality(t) - Cardinality(t \cap E)
      BY <1>1, FS_Difference
    <3>3. t \cap E = E
      BY <3>1
    <3>4. Cardinality(JOBS') <= MaxJobs
      BY <1>1, <1>3, <2>7, <2>9, <3>1, <3>2, <3>3 DEF n
    <3>5. \A i \in JOBS \ JOBS', k \in JOBS' : Finished(k) => i \in E /\ k \in F \ E
      BY <2>7 DEF F
    <3> QED
      BY <2>6, <3>4, <3>5
  <2> QED
    BY <2>5, <2>8, <2>9
<1> QED
  BY <1>4, <1>5

\* A submission keeps the table within its cap by dropping finished jobs alone,
\* and of these none that was updated later than one it keeps (server.py
\* _evict_jobs), for every cap, number of jobs and order of the stages' stamps.
THEOREM EvictionSound == Spec => EvictsOldestFinished
<1> DEFINE Trimmed ==
      /\ Cardinality(JOBS') <= MaxJobs \/ \A i \in JOBS' : ~Finished(i)
      /\ \A i \in JOBS \ JOBS', k \in JOBS' : Finished(k) => <<i, k>> \in older
<1>1. Init => StampsOrder
  BY DEF Init, JobInit, NoJob, StampsOrder, Exists
<1>2. IInv /\ StampsOrder /\ [Next]_vars => StampsOrder'
  BY StepStamps DEF IInv
<1>3. ASSUME IInv, StampsOrder, [Next]_vars
      PROVE  [restarts' = restarts /\ JOBS' # JOBS => Trimmed]_vars
  <2> SUFFICES ASSUME Next, restarts' = restarts, JOBS' # JOBS PROVE Trimmed
    BY <1>3
  <2>1. ~Restart /\ ~WindowPasses
    BY <1>3 DEF Restart, WindowPasses, jobVars, IInv, TypeOK
  <2>2. PICK j \in Jobs : Handler(j) \/ JobThread(j) \/ Report(j)
    BY <2>1 DEF Next
  <2>3. InsertJob(j)
    BY <2>2
    DEF Handler, Submit, ArmGpu, Refuse, Admit, Insert, PersistBirth, Spawn,
        JobThread, Begin, SaveBegin, Clone, CloneFails, RunReturns, RunRaises,
        SaveEnd, CloseLog, Release, Bill, BillGpu, SaveFinal, Report,
        jobVars, CreateJob, SetJob, Persist
  <2> QED
    BY <1>3, <2>3, InsertKeepsRecent DEF IInv
<1> QED
  BY <1>1, <1>2, <1>3, InvariantHolds, PTL DEF Spec, EvictsOldestFinished
=============================================================================
