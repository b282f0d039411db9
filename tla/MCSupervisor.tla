---------------------------- MODULE MCSupervisor ----------------------------
(* Small instances of Supervisor for TLC. *)
EXTENDS Supervisor, TLC

CONSTANTS r1, r2

Symmetry == Permutations(Runs)
============================================================================
