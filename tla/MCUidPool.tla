----------------------------- MODULE MCUidPool -----------------------------
(***************************************************************************)
(* Instances of UidPool for TLC.                                           *)
(***************************************************************************)
EXTENDS UidPool, TLC

Symmetry == Permutations(Agents)
=============================================================================
