---------------------------- MODULE ScanAdmission ----------------------------
(***************************************************************************)
(* What admission promises the tenants of the service, without the         *)
(* counters that implement it: a deep verify holds a slot of its tenant,   *)
(* from the moment it is admitted to the moment it gives the slot back,    *)
(* and a metered job is admitted only while fewer slots of its tenant are  *)
(* held than the Concurrency of the tier it was asked for on.              *)
(* VerifyServer implements it.                                             *)
(***************************************************************************)
EXTENDS Integers, FiniteSets

CONSTANTS
  Jobs,
  Callers,     \* <<tenant, tier>> pairs
  Unmetered,   \* tiers admitted without a check
  Concurrency  \* [tiers -> Nat]

VARIABLES
  caller,  \* [Jobs -> Callers] who asks for each job
  holders  \* the jobs that hold a slot

Init ==
  /\ caller \in [Jobs -> Callers]
  /\ holders = {}

HeldBy(tenant) == {j \in holders : caller[j][1] = tenant}

Acquire(j) ==
  LET tenant == caller[j][1]
      tier == caller[j][2]
  IN /\ j \notin holders
     /\ tier \in Unmetered \/ Cardinality(HeldBy(tenant)) < Concurrency[tier]
     /\ holders' = holders \cup {j}

Release(j) ==
  /\ j \in holders
  /\ holders' = holders \ {j}

\* The process that held the slots is gone.
Forget == holders' = {}

Next ==
  /\ \/ \E j \in Jobs : Acquire(j) \/ Release(j)
     \/ Forget
  /\ caller' = caller

Spec == Init /\ [][Next]_<<caller, holders>>
============================================================================
