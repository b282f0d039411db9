------------------------------ MODULE Limiter ------------------------------
(***************************************************************************)
(* Admission control (spike/core/limits.py, class Limiter): the counters   *)
(* the backend keeps per tenant in one process and the decisions it takes  *)
(* from them.  Each operation of the class is one critical section of its  *)
(* single lock, hence one action here.                                     *)
(*                                                                         *)
(* The class keys its counters by calendar window (minute, UTC day, UTC    *)
(* month) and never reads a key of a window that is over, so the counter   *)
(* of the current window is the only one kept here and the passing of a    *)
(* window resets it.  Seconds are whole units.                             *)
(***************************************************************************)
EXTENDS Integers

CONSTANTS
  Tenants,        \* billing identities (a WorkOS user or org, or "owner")
  Tiers,          \* pricing tiers
  Unmetered,      \* the tiers that draw no counter down (the local operator)
  ApiRpm,         \* [Tiers -> Nat] requests per minute
  ScansPerDay,    \* [Tiers -> Nat] deep verifies per UTC day
  SandboxBudget,  \* [Tiers -> Nat] sandbox seconds per UTC month
  Concurrency,    \* [Tiers -> Nat] parallel deep verifies
  GpuBudget       \* [Tiers -> Nat] GPU seconds per UTC month; 0: no GPU

ASSUME TierAssumption ==
  /\ Unmetered \subseteq Tiers
  /\ ApiRpm \in [Tiers -> Nat]
  /\ ScansPerDay \in [Tiers -> Nat]
  /\ SandboxBudget \in [Tiers -> Nat]
  /\ Concurrency \in [Tiers -> Nat]
  /\ GpuBudget \in [Tiers -> Nat]

VARIABLES
  rate,      \* requests counted in the current minute
  scans,     \* deep verifies admitted today
  inflight,  \* live deep verifies (reserved slots)
  sandbox,   \* sandbox seconds billed this month
  gpu        \* GPU seconds billed this month

limiterVars == <<rate, scans, inflight, sandbox, gpu>>

LimiterTypeOK ==
  /\ rate \in [Tenants -> Nat]
  /\ scans \in [Tenants -> Nat]
  /\ inflight \in [Tenants -> Nat]
  /\ sandbox \in [Tenants -> Nat]
  /\ gpu \in [Tenants -> Nat]

LimiterInit ==
  /\ rate = [t \in Tenants |-> 0]
  /\ scans = [t \in Tenants |-> 0]
  /\ inflight = [t \in Tenants |-> 0]
  /\ sandbox = [t \in Tenants |-> 0]
  /\ gpu = [t \in Tenants |-> 0]

----------------------------------------------------------------------------
(* Decisions.  A definition named ..._Mutant is a faulty variant of the one  *)
(* that follows it, kept to show that the properties tell them apart.        *)

\* The request is counted first, then compared: the count includes it.
WithinRate(t, tier) ==
  tier \in Unmetered \/ rate[t] + 1 <= ApiRpm[tier]

\* Off by one: a tenant at its concurrency is let in once more.
ScanDecision_Mutant(t, tier) ==
  IF tier \in Unmetered                        THEN "ok"
  ELSE IF scans[t] >= ScansPerDay[tier]        THEN "daily"
  ELSE IF sandbox[t] >= SandboxBudget[tier]    THEN "sandbox"
  ELSE IF inflight[t] > Concurrency[tier]      THEN "concurrency"
  ELSE "ok"

\* admit_scan's checks in their order; only "ok" reserves anything.
ScanDecision(t, tier) ==
  IF tier \in Unmetered                        THEN "ok"
  ELSE IF scans[t] >= ScansPerDay[tier]        THEN "daily"
  ELSE IF sandbox[t] >= SandboxBudget[tier]    THEN "sandbox"
  ELSE IF inflight[t] >= Concurrency[tier]     THEN "concurrency"
  ELSE "ok"

\* admit_gpu reads the meter and reserves nothing.
GpuAdmitted(t, tier) ==
  \/ tier \in Unmetered
  \/ GpuBudget[tier] > 0 /\ gpu[t] < GpuBudget[tier]

----------------------------------------------------------------------------
(* Operations *)

CheckApiRate(t, tier) ==
  /\ rate' = IF tier \in Unmetered THEN rate
             ELSE [rate EXCEPT ![t] = @ + 1]
  /\ UNCHANGED <<scans, inflight, sandbox, gpu>>

\* Checks without reserving.
AdmitScan_Mutant(t, tier) ==
  LET ok == ScanDecision(t, tier) = "ok" IN
  /\ scans' = IF ok /\ tier \notin Unmetered
              THEN [scans EXCEPT ![t] = @ + 1] ELSE scans
  /\ UNCHANGED <<rate, inflight, sandbox, gpu>>

AdmitScan(t, tier) ==
  LET ok == ScanDecision(t, tier) = "ok" IN
  /\ scans' = IF ok /\ tier \notin Unmetered
              THEN [scans EXCEPT ![t] = @ + 1] ELSE scans
  /\ inflight' = IF ok THEN [inflight EXCEPT ![t] = @ + 1] ELSE inflight
  /\ UNCHANGED <<rate, sandbox, gpu>>

\* Gives two slots back.
ReleaseSlot_Twice_Mutant(t) ==
  /\ inflight' = IF inflight[t] > 0
                 THEN [inflight EXCEPT ![t] = @ - 2] ELSE inflight
  /\ UNCHANGED <<rate, scans, sandbox, gpu>>

\* Off by one in the floor: the last slot is never given back.
ReleaseSlot_Floor_Mutant(t) ==
  /\ inflight' = IF inflight[t] > 1
                 THEN [inflight EXCEPT ![t] = @ - 1] ELSE inflight
  /\ UNCHANGED <<rate, scans, sandbox, gpu>>

ReleaseSlot(t) ==
  /\ inflight' = IF inflight[t] > 0
                 THEN [inflight EXCEPT ![t] = @ - 1] ELSE inflight
  /\ UNCHANGED <<rate, scans, sandbox, gpu>>

\* Replaces the month's total by the last run's seconds.
RecordSandbox_Mutant(t, seconds) ==
  /\ sandbox' = [sandbox EXCEPT ![t] = seconds]
  /\ UNCHANGED <<rate, scans, inflight, gpu>>

RecordSandbox(t, seconds) ==
  /\ sandbox' = [sandbox EXCEPT ![t] = @ + seconds]
  /\ UNCHANGED <<rate, scans, inflight, gpu>>

RecordGpu(t, seconds) ==
  /\ gpu' = [gpu EXCEPT ![t] = @ + seconds]
  /\ UNCHANGED <<rate, scans, inflight, sandbox>>

----------------------------------------------------------------------------
(* The calendar, and the end of the process the counters live in *)

MinutePasses ==
  /\ rate' = [t \in Tenants |-> 0]
  /\ UNCHANGED <<scans, inflight, sandbox, gpu>>

MidnightPasses ==
  /\ rate' = [t \in Tenants |-> 0]
  /\ scans' = [t \in Tenants |-> 0]
  /\ UNCHANGED <<inflight, sandbox, gpu>>

MonthPasses ==
  /\ rate' = [t \in Tenants |-> 0]
  /\ scans' = [t \in Tenants |-> 0]
  /\ sandbox' = [t \in Tenants |-> 0]
  /\ gpu' = [t \in Tenants |-> 0]
  /\ UNCHANGED inflight

\* Nothing is persisted: a new process starts from empty counters.
LimiterForgets ==
  /\ rate' = [t \in Tenants |-> 0]
  /\ scans' = [t \in Tenants |-> 0]
  /\ inflight' = [t \in Tenants |-> 0]
  /\ sandbox' = [t \in Tenants |-> 0]
  /\ gpu' = [t \in Tenants |-> 0]
============================================================================
