----------------------------- MODULE MCTransaction -----------------------------
(***************************************************************************)
(* A small instance of Transaction for TLC.                                *)
(***************************************************************************)
EXTENDS Transaction
=============================================================================
