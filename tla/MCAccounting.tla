---------------------------- MODULE MCAccounting -----------------------------
(* The accounting pipeline on small instances. *)
EXTENDS Accounting
=============================================================================
