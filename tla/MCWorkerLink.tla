---------------------------- MODULE MCWorkerLink ----------------------------
(***************************************************************************)
(* Instances of WorkerLink for TLC.                                        *)
(***************************************************************************)
EXTENDS WorkerLink, TLC

CONSTANTS a1, a2, k1, k2

\* Two commands, of one agent or of two, or a command and the operator's kill.
SameAgentOf == k1 :> a1 @@ k2 :> a1
OtherAgentOf == k1 :> a1 @@ k2 :> a2
ExecKindOf == k1 :> "exec" @@ k2 :> "exec"
KillKindOf == k1 :> "exec" @@ k2 :> "kill"
MCSizeOf == k1 :> 0 @@ k2 :> 0
MCLimits == {[file |-> 1, payload |-> 1]}

Symmetry == Permutations(Conns)
=============================================================================
