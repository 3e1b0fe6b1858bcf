----------------------------- MODULE MCAccounts -----------------------------
(***************************************************************************)
(* Instances of Accounts for TLC.                                          *)
(***************************************************************************)
EXTENDS Accounts

CONSTANT p1

OneHuman == [s \in Sessions |-> p1]
=============================================================================
