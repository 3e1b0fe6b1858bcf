------------------------------- MODULE UidPool -------------------------------
(***************************************************************************)
(* The user ids of one worker, internal/sandbox: Manager.GetSandbox and    *)
(* the handing over of an agent's directory to an id of its own.  The      *)
(* owner of the directory is the register, so everything but the instances *)
(* survives the worker, whatever it was doing when it died.                *)
(*                                                                         *)
(* Under the directory there is a chain of entries: entry 1 is in the      *)
(* directory, entry 2 in entry 1, the last one is a file.  The worker has  *)
(* CAP_CHOWN and cannot descend into what others own and keep closed.      *)
(***************************************************************************)
EXTENDS Naturals, FiniteSets

CONSTANTS
  Agents,
  First, Count,  \* UIDRange
  Worker,        \* the worker's own user
  Formers,       \* users that workers before per-agent ids ran as
  Nobody,        \* the owner of what does not exist
  NoAgent,       \* GetSandbox is not running
  Depth          \* bound: the entries under an agent's directory

\* UIDRange.Validate, and users outside the range.
ASSUME PoolAssumption ==
  /\ First \in Nat /\ Count \in Nat /\ Depth \in Nat
  /\ First >= 1000 /\ First + Count <= 65536 /\ Count > 0
  /\ NoAgent \notin Agents
  /\ Nobody \notin Nat /\ Worker \notin Nat /\ Worker # Nobody
  /\ Nobody \notin Formers /\ Formers \cap (First .. First + Count - 1) = {}

VARIABLES
  owner,      \* the owner of an agent's directory
  private,    \* directories with mode 0700
  inner,      \* the owners of the entries under it
  closed,     \* entries only their owner can descend into
  instances,  \* m.instances
  uidOf,      \* the user id an instance runs its commands as
  busy,       \* the agent GetSandbox is creating the sandbox of
  at,         \* where assignUID is
  uid,        \* the id nextFreeUID picked
  left        \* the entries chownTree has yet to hand over, 1 to left

vars == <<owner, private, inner, closed, instances, uidOf, busy, at, uid, left>>
tree == <<owner, private, inner, closed>>
live == <<instances, uidOf>>

Ids == First .. First + Count - 1
Users == Ids \cup Formers \cup {Worker}
Entries == 1 .. Depth
\* What the worker cannot descend into when it walks the tree.
Barred(a) == {i \in closed[a] : inner[a][i] \notin {Worker, Nobody}}

TypeOK ==
  /\ owner \in [Agents -> Users \cup {Nobody}]
  /\ private \in SUBSET Agents
  /\ inner \in [Agents -> [Entries -> Users \cup {Nobody}]]
  /\ closed \in [Agents -> SUBSET Entries]
  /\ instances \in SUBSET Agents
  /\ uidOf \in [Agents -> Ids \cup {Nobody}]
  /\ busy \in Agents \cup {NoAgent}
  /\ at \in {"idle", "make", "own", "mode", "walk", "hand"}
  /\ uid \in Ids \cup {Nobody}
  /\ left \in 0 .. Depth

\* A fresh volume, or one from before per-agent ids.
Init ==
  /\ owner \in [Agents -> Formers \cup {Worker, Nobody}]
  /\ private \in SUBSET {a \in Agents : owner[a] # Nobody}
  /\ inner = [a \in Agents |-> [i \in Entries |-> owner[a]]]
  /\ closed \in [Agents -> SUBSET (Entries \ {Depth})]
  /\ \A a \in Agents : owner[a] = Nobody => closed[a] = {}
  /\ instances = {} /\ uidOf = [a \in Agents |-> Nobody]
  /\ busy = NoAgent /\ at = "idle" /\ uid = Nobody /\ left = 0

Leave == busy' = NoAgent /\ at' = "idle" /\ uid' = Nobody /\ left' = 0
-----------------------------------------------------------------------------
(***************************************************************************)
(* GetSandbox, under m.mu.                                                 *)
(***************************************************************************)

Open(a, u) ==
  /\ instances' = instances \cup {a}
  /\ uidOf' = [uidOf EXCEPT ![a] = u]

ReturnPicked(a) ==  \* mutant: an id of this life, whoever owns the directory
  /\ busy = NoAgent /\ a \notin instances
  /\ owner[a] \in Ids
  /\ \E u \in Ids : Open(a, u)
  /\ UNCHANGED <<tree, busy, at, uid, left>>

\* The directory already belongs to an id of the range.
Return(a) ==
  /\ busy = NoAgent /\ a \notin instances
  /\ owner[a] \in Ids
  /\ Open(a, owner[a])
  /\ UNCHANGED <<tree, busy, at, uid, left>>

TakenByInstances == {uidOf[a] : a \in instances}  \* mutant: who is here now
Taken == {owner[a] : a \in Agents}
Free == Ids \ Taken

\* nextFreeUID: the lowest one; with every id in use GetSandbox fails.
Pick(a) ==
  /\ busy = NoAgent /\ a \notin instances
  /\ owner[a] \notin Ids
  /\ busy' = a /\ at' = "make" /\ left' = 0
  /\ uid' \in Free /\ \A u \in Free : uid' <= u
  /\ UNCHANGED <<tree, live>>

\* Mkdir 0700, or the directory is there.
Make ==
  /\ at = "make" /\ at' = "own"
  /\ IF owner[busy] = Nobody
     THEN /\ owner' = [owner EXCEPT ![busy] = Worker]
          /\ private' = private \cup {busy}
     ELSE UNCHANGED <<owner, private>>
  /\ UNCHANGED <<inner, closed, live, busy, uid, left>>

\* adoptDir: ownership first, since chmod is for the owner.
Own ==
  /\ at = "own" /\ at' = "mode"
  /\ owner' = [owner EXCEPT ![busy] = Worker]
  /\ UNCHANGED <<private, inner, closed, live, busy, uid, left>>

Mode ==
  /\ at = "mode" /\ at' = "walk"
  /\ private' = private \cup {busy}
  /\ UNCHANGED <<owner, inner, closed, live, busy, uid, left>>

\* WalkDir lists the tree before anything in it changes hands.
Walk ==
  /\ at = "walk" /\ Barred(busy) = {}
  /\ at' = "hand" /\ left' = Depth
  /\ UNCHANGED <<tree, live, busy, uid>>

WalkFails ==
  /\ at = "walk" /\ Barred(busy) # {}
  /\ Leave
  /\ UNCHANGED <<tree, live>>

\* Deepest first.
HandEntry ==
  /\ at = "hand" /\ left > 0
  /\ inner' = [inner EXCEPT ![busy][left] = IF @ = Nobody THEN @ ELSE uid]
  /\ left' = left - 1
  /\ UNCHANGED <<owner, private, closed, live, busy, at, uid>>

HandDirectoryFirst ==  \* mutant: the directory, then what is in it
  /\ at = "hand" /\ left = Depth /\ owner[busy] # uid
  /\ owner' = [owner EXCEPT ![busy] = uid]
  /\ UNCHANGED <<private, inner, closed, live, busy, at, uid, left>>

\* The directory last: from here on it is the agent's.  The sandbox opens, or
\* newSandbox fails and the next call finds the directory as it should be.
HandDirectory ==
  /\ at = "hand" /\ left = 0
  /\ owner' = [owner EXCEPT ![busy] = uid]
  /\ Open(busy, uid) \/ UNCHANGED live
  /\ Leave
  /\ UNCHANGED <<private, inner, closed>>

\* A call to the system fails: what was done so far stays done.
Fail ==
  /\ at # "idle"
  /\ Leave
  /\ UNCHANGED <<tree, live>>
-----------------------------------------------------------------------------
(***************************************************************************)
(* What else happens to the volume.                                        *)
(***************************************************************************)

\* A command or a file operation of the agent, which runs as its id.
Create(a, i, shut) ==
  /\ a \in instances /\ inner[a][i] = Nobody
  /\ \A j \in Entries : j < i => inner[a][j] # Nobody
  /\ inner' = [inner EXCEPT ![a][i] = uidOf[a]]
  /\ closed' = [closed EXCEPT ![a] = IF shut /\ i < Depth THEN @ \cup {i} ELSE @]
  /\ UNCHANGED <<owner, private, live, busy, at, uid, left>>

\* The worker dies at any point; the next one starts with no instances.
Crash ==
  /\ instances' = {} /\ uidOf' = [a \in Agents |-> Nobody]
  /\ Leave
  /\ UNCHANGED tree

\* An operator removes the directory of an agent that is not running here.
Reap(a) ==
  /\ a \notin instances /\ a # busy /\ owner[a] # Nobody
  /\ owner' = [owner EXCEPT ![a] = Nobody]
  /\ private' = private \ {a}
  /\ inner' = [inner EXCEPT ![a] = [i \in Entries |-> Nobody]]
  /\ closed' = [closed EXCEPT ![a] = {}]
  /\ UNCHANGED <<live, busy, at, uid, left>>
-----------------------------------------------------------------------------
AssignUID ==
  Make \/ Own \/ Mode \/ Walk \/ WalkFails \/ HandEntry \/ HandDirectory \/ Fail

Next ==
  \/ AssignUID \/ Crash
  \/ \E a \in Agents :
       \/ Return(a) \/ Pick(a) \/ Reap(a)
       \/ \E i \in Entries, shut \in BOOLEAN : Create(a, i, shut)

Spec == Init /\ [][Next]_vars
-----------------------------------------------------------------------------
\* Two directories never belong to one id, though ids are looked for anew by
\* every worker and nothing is written down (uidpool_unix.go:173-199).
OneAgentPerId ==
  \A a, b \in Agents : owner[a] \in Ids /\ owner[a] = owner[b] => a = b

\* A directory that belongs to an id is finished: closed to the others, and
\* everything under it belongs to that id, although the worker may have died
\* at any step of an earlier attempt under another id (uidpool_unix.go:132).
HandedOverWhole ==
  \A a \in Agents :
    owner[a] \in Ids =>
      /\ a \in private
      /\ \A i \in Entries : inner[a][i] \in {owner[a], Nobody}

\* The commands of an agent run as the owner of its directory, so it lands
\* back on files it owns (uidpool_unix.go:67-69, manager.go:50-86).
RunsAsOwner == \A a \in instances : uidOf[a] = owner[a]

\* An agent keeps its id for as long as its directory stays, over any number
\* of workers (assignUID returns the owner it finds).
IdIsKept ==
  [][\A a \in Agents : owner[a] \in Ids => owner'[a] \in {owner[a], Nobody}]_vars

\* However many steps a handover takes, and wherever a worker dies in it, what
\* can be seen of the ids is a register that assigns each in one step, to one
\* agent, until its directory is removed; agents run as what it says
\* (uidpool_unix.go:60-199, manager.go:50-86).
HeldId == [a \in Agents |-> IF owner[a] \in Ids THEN owner[a] ELSE Nobody]
RunningAs == [a \in Agents |-> IF a \in instances THEN uidOf[a] ELSE Nobody]

Register == INSTANCE IdRegister WITH id <- HeldId, runsAs <- RunningAs

KeepsRegister == Register!Spec

\* uidpool_unix.go:203: "The ownership step is what makes the first start
\* against an existing volume work."  A directory closed by the user before, or
\* given away by a handover that did not end, is below the one taken over.
WalkReachesEverything == at = "walk" => Barred(busy) = {}

\* A volume on which no agent has a directory yet.
FreshSpec == Init /\ (\A a \in Agents : owner[a] = Nobody) /\ [][Next]_vars

\* What no agent was given has nothing in it, so a handover that is begun anew
\* finds nothing of an earlier attempt.
EmptyUntilGiven ==
  \A a \in Agents : owner[a] \notin Ids => \A i \in Entries : inner[a][i] = Nobody
-----------------------------------------------------------------------------
\* GetSandbox under way: the id it picked stays free, and what has been done to
\* the directory so far.
HandoverSound ==
  /\ at = "idle" <=> busy = NoAgent
  /\ at # "idle" =>
       /\ uid \in Free
       /\ busy \notin instances /\ owner[busy] \notin Ids
  /\ at \in {"mode", "walk", "hand"} => owner[busy] = Worker
  /\ at \in {"walk", "hand"} => busy \in private
  /\ at = "hand" =>
       \A i \in Entries : i > left => inner[busy][i] \in {uid, Nobody}

InstancesSound == \A a \in instances : uidOf[a] \in Ids

\* The inductive invariant.
PoolInv ==
  /\ TypeOK
  /\ OneAgentPerId /\ HandedOverWhole
  /\ RunsAsOwner /\ InstancesSound
  /\ HandoverSound
=============================================================================
