------------------------------ MODULE RunRepo -------------------------------
(***************************************************************************)
(* Running one repository without the orchestrator (spike/pipeline.py,     *)
(* _run_repo): resolve a plan, run it in a sandbox or in an interpreter of *)
(* the host, add a module the run found missing and run again, remember    *)
(* the plan.  Several scans of the same tree share the caches.             *)
(* Definitions named ..._Mutant are faulty variants of those they precede. *)
(***************************************************************************)
EXTENDS Sandbox

CONSTANTS
  Runners,    \* "e2b", "local"
  HealTries,  \* retries that add a missing module
  RepairSteps,\* max_steps of the repair loop
  Base,       \* distributions of the shared interpreter
  Lists,      \* bound: lists a caller, a file, a model or the imports may give
  Scans       \* bound: scans of the tree

ASSUME RunRepoAssumption ==
  /\ Runners \subseteq {"e2b", "local"}
  /\ HealTries \in Nat /\ RepairSteps \in Nat /\ Scans \in Nat
  /\ Base \subseteq Deps /\ Lists \subseteq SUBSET Deps

VARIABLES
  at,       \* where the scan is
  scan,     \* scans begun
  pip,      \* the list to install, with what healing added
  held,     \* the plan as it was resolved: its list
  left,     \* retries, or repair steps, left
  added,    \* the module the current run was given, as a set
  python,   \* the interpreter of a local run: "base" or "venv"
  venv,     \* distributions in the repository's own interpreter
  bank,     \* the lists of the plans cached for the tree: none or one
  hints     \* modules the hint store has a fix for

plan == <<pip, held, left, added>>
interpreters == <<python, venv>>
caches == <<bank, hints>>
vars == <<at, scan, plan, interpreters, caches, sandbox>>

TypeOK ==
  /\ SandboxTypeOK
  /\ at \in {"idle", "e2b", "local", "ran", "heal", "repair", "done"}
  /\ scan \in 0..Scans
  /\ pip \subseteq Deps /\ held \subseteq Deps
  /\ left \in 0..(HealTries + RepairSteps)
  /\ added \subseteq Deps
  /\ python \in {"base", "venv"} /\ venv \subseteq Deps
  /\ bank \subseteq SUBSET Deps /\ hints \subseteq Deps

Init ==
  /\ SandboxInit
  /\ at = "idle" /\ scan = 0
  /\ pip = {} /\ held = {} /\ left = 0 /\ added = {}
  /\ python = "base" /\ venv = {}
  /\ bank = {} /\ hints = {}

----------------------------------------------------------------------------
(* In a sandbox *)

\* _resolve, called once the machine is up: a cached plan, unless the caller
\* named dependencies or an entry point; the caller's own list, or the one of
\* requirements.txt, to install whole; else what a model or the imports suggest.
Plans(explicit) ==
  IF bank # {} /\ ~explicit THEN bank \X {FALSE}
  ELSE Lists \X BOOLEAN

StartE2B ==
  /\ at = "idle" /\ scan < Scans /\ "e2b" \in Runners
  /\ at' = "e2b" /\ scan' = scan + 1
  /\ \E explicit \in BOOLEAN, acquire \in BOOLEAN, fetch \in BOOLEAN :
       \E p \in Plans(explicit) :
         /\ pip' = p[1] /\ held' = p[1]
         /\ Begun("boot", [pip |-> p[1], strict |-> p[2], acquire |-> acquire, fetch |-> fetch])
  /\ left' = HealTries /\ added' = {}
  /\ UNCHANGED <<interpreters, caches>>

SandboxStep ==
  /\ at = "e2b" /\ Session
  /\ UNCHANGED <<at, scan, plan, interpreters, caches>>

\* A retry does not use one up.
Retries_Mutant == left
Retries == left - 1

\* A module is missing: a new machine, without the acquisition, gets it as well.
Heal ==
  /\ at = "e2b" /\ stage = "end" /\ ~result.ok /\ left > 0
  /\ \E d \in result.missing :
       /\ pip' = pip \cup {d} /\ added' = {d}
       /\ Begun("boot", [pip |-> pip \cup {d}, strict |-> call.strict,
                 acquire |-> FALSE, fetch |-> FALSE])
  /\ left' = Retries
  /\ UNCHANGED <<at, scan, held, interpreters, caches>>

\* The result as returned: a module that made the difference becomes a hint, a
\* plan whose run ended well and captured something is cached.
Bankable == result.ok /\ result.captured

Hinted == IF result.ok THEN hints \cup added ELSE hints

FinishE2B ==
  /\ at = "e2b" /\ stage = "end"
  /\ result.ok \/ left = 0 \/ result.missing = {}
  /\ at' = "idle"
  /\ hints' = Hinted
  /\ bank' = IF Bankable THEN {held} ELSE bank
  /\ pip' = {} /\ held' = {} /\ left' = 0 /\ added' = {}
  /\ Begun("idle", NoCall)
  /\ UNCHANGED <<scan, interpreters>>

----------------------------------------------------------------------------
(* On the host *)

Installed == IF python = "base" THEN Base ELSE venv

\* run_local with the chosen interpreter.
LocalResults(installed) ==
  {r \in Result :
     /\ ~r.flagged
     /\ r.ok => Needs \subseteq installed /\ r.missing = {}
     /\ r.missing \subseteq Needs \ installed /\ Cardinality(r.missing) <= 1}

\* ensure_venv: without declared dependencies, the shared interpreter; with
\* some, one of the repository's own, built whole or raising.
StartLocal ==
  /\ at = "idle" /\ scan < Scans /\ "local" \in Runners
  /\ scan' = scan + 1
  /\ \E p \in Lists \cup {{}} :
       /\ pip' = p /\ held' = p
       /\ python' = IF p = {} THEN "base" ELSE "venv"
       /\ \/ venv' = p /\ at' = "local"
          \/ p # {} /\ venv' = {} /\ at' = "idle"
  /\ left' = 0 /\ added' = {}
  /\ UNCHANGED <<caches, sandbox>>

RunLocal ==
  /\ at = "local"
  /\ at' = "ran"
  /\ result' \in LocalResults(Installed)
  /\ UNCHANGED <<scan, plan, interpreters, caches, stage, call, sbx, progress,
                 acquisition, fetched, auto, outcome>>

\* A failed run is followed by the repair loop, when asked for, or by the
\* retries; both only in the repository's own interpreter.
MayInstall == python # "base"

Retry ==
  /\ at = "ran"
  /\ IF ~result.ok /\ MayInstall
     THEN \/ at' = "heal" /\ left' = HealTries /\ UNCHANGED result
          \/ /\ at' = "repair" /\ left' = RepairSteps
             /\ result' \in LocalResults(Installed)
     ELSE at' = "done" /\ left' = 0 /\ UNCHANGED result
  /\ UNCHANGED <<scan, pip, held, added, interpreters, caches, stage, call, sbx,
                 progress, acquisition, fetched, auto, outcome>>

\* pip install in the repository's own interpreter; it may fail unnoticed.
PipInstall(d) == venv' \in {venv, venv \cup {d}}

HealLocal ==
  /\ at = "heal" /\ ~result.ok /\ left > 0
  /\ \E d \in result.missing : PipInstall(d)
  /\ python' = python
  /\ result' \in LocalResults(Installed')
  /\ left' = left - 1
  /\ UNCHANGED <<at, scan, pip, held, added, caches, stage, call, sbx,
                 progress, acquisition, fetched, auto, outcome>>

\* repair_loop: after one more run as it was, one action of the environment at
\* a time (a module, a variable, an argument, an input) until the run succeeds,
\* the proposer gives up or an action does not apply.
Repair ==
  /\ at = "repair" /\ ~result.ok /\ left > 0
  /\ \/ \E d \in Deps : PipInstall(d)
     \/ UNCHANGED venv
  /\ python' = python
  /\ result' \in LocalResults(Installed')
  /\ left' = left - 1
  /\ UNCHANGED <<at, scan, pip, held, added, caches, stage, call, sbx,
                 progress, acquisition, fetched, auto, outcome>>

FinishLocal ==
  /\ \/ at = "heal" /\ (result.ok \/ left = 0 \/ result.missing = {})
     \/ at = "repair"
     \/ at = "done"
  /\ at' = "idle"
  /\ pip' = {} /\ held' = {} /\ left' = 0 /\ added' = {}
  /\ python' = "base" /\ venv' = {}
  /\ Begun("idle", NoCall)
  /\ UNCHANGED <<scan, caches>>

Next ==
  \/ StartE2B \/ SandboxStep \/ Heal \/ FinishE2B
  \/ StartLocal \/ RunLocal \/ Retry \/ HealLocal \/ Repair \/ FinishLocal

\* A scan is one thread of one process: it does not stop between two steps.
Spec == Init /\ [][Next]_vars /\ WF_vars(Next)

----------------------------------------------------------------------------
(* Properties *)

\* Every scan comes to a result, whatever the runs report missing and however
\* often: the retries and the repair steps are bounded (pipeline.py:552, 652).
ScanEnds == at # "idle" ~> at = "idle"
=============================================================================
