-------------------------- MODULE MCEmergencyStop --------------------------
(***************************************************************************)
(* Instances of EmergencyStop for TLC.                                     *)
(***************************************************************************)
EXTENDS EmergencyStop, TLC

\* Sound where every program may fork, and no liveness is checked.
Symmetry == Permutations(Calls)
=============================================================================
