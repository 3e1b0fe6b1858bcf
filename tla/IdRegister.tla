----------------------------- MODULE IdRegister -----------------------------
(***************************************************************************)
(* What the user ids of a worker promise: a register that gives an agent   *)
(* an id nobody else has, in one step, and keeps it until the agent's      *)
(* directory is removed.  An agent runs as its id or not at all; a worker  *)
(* that dies forgets who was running and nothing else.                     *)
(***************************************************************************)
CONSTANTS
  Agents, Ids,
  Nobody      \* no id

VARIABLES
  id,         \* the id an agent has
  runsAs      \* the id its commands run as, while it has a sandbox

vars == <<id, runsAs>>

Init ==
  /\ id = [a \in Agents |-> Nobody]
  /\ runsAs = [a \in Agents |-> Nobody]

\* The agent gets an id of its own, and a sandbox with it or later.
Assign(a, u) ==
  /\ id[a] = Nobody
  /\ \A b \in Agents : id[b] # u
  /\ id' = [id EXCEPT ![a] = u]
  /\ runsAs' \in {runsAs, [runsAs EXCEPT ![a] = u]}

\* An agent that has an id gets its sandbox.
Run(a) ==
  /\ id[a] # Nobody
  /\ runsAs' = [runsAs EXCEPT ![a] = id[a]]
  /\ UNCHANGED id

\* The worker dies.
Stop ==
  /\ runsAs' = [a \in Agents |-> Nobody]
  /\ UNCHANGED id

\* The directory of an agent that is not running is removed.
Remove(a) ==
  /\ runsAs[a] = Nobody
  /\ id' = [id EXCEPT ![a] = Nobody]
  /\ UNCHANGED runsAs

Next ==
  \/ Stop
  \/ \E a \in Agents : Run(a) \/ Remove(a) \/ (\E u \in Ids : Assign(a, u))

Spec == Init /\ [][Next]_vars
=============================================================================
