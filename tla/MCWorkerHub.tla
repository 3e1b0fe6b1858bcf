---------------------------- MODULE MCWorkerHub ----------------------------
(***************************************************************************)
(* Instances of WorkerHub for TLC.                                         *)
(***************************************************************************)
EXTENDS WorkerHub, TLC

CONSTANTS a1, a2, k1, k2

\* Two calls of one agent: a write_file, and the exec that depends on it.
OneAgentOf == k1 :> a1 @@ k2 :> a1
OneKindOf == k1 :> "write" @@ k2 :> "exec"

\* A write_file for one agent, an operator's kill for another.
TwoAgentOf == k1 :> a1 @@ k2 :> a2
TwoKindOf == k1 :> "write" @@ k2 :> "kill"

MCSizeOf == k1 :> 2 @@ k2 :> 1

\* A worker every payload fits, and the choice of one that neither does.
LargeLimits == {[file |-> 2, payload |-> 4]}
AnyLimits == LargeLimits \cup {[file |-> 1, payload |-> 0]}

Symmetry == Permutations(Conns)
=============================================================================
