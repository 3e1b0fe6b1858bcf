-------------------------- MODULE MCServerJournal --------------------------
(***************************************************************************)
(* Instances of ServerJournal for TLC.                                     *)
(***************************************************************************)
EXTENDS ServerJournal
=============================================================================
