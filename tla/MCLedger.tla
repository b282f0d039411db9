------------------------------ MODULE MCLedger ------------------------------
(* The ledger with two endpoint threads and three submissions.             *)
EXTENDS Ledger
=============================================================================
