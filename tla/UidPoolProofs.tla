---------------------------- MODULE UidPoolProofs ----------------------------
(***************************************************************************)
(* PoolInv is an inductive invariant of UidPool, for any number of agents  *)
(* and ids and trees of any depth.                                         *)
(*                                                                         *)
(* What carries it is that GetSandbox runs under one lock: from Pick to    *)
(* HandDirectory no directory can get the id that was picked, so giving it *)
(* away last makes both OneAgentPerId and HandedOverWhole true at once.    *)
(***************************************************************************)
EXTENDS UidPool, TLAPS

\* The ids are numbers, so none of them is the worker, a former user or nobody.
LEMMA IdsApart == Ids \subseteq Nat /\ Worker \notin Ids /\ Nobody \notin Ids /\ Ids \cap Formers = {}
BY PoolAssumption DEF Ids

\* A volume is fresh or from before per-agent ids.
LEMMA PoolInvInit == Init => PoolInv
<1> SUFFICES ASSUME Init PROVE PoolInv
  OBVIOUS
<1> USE PoolAssumption, IdsApart DEF Init
<1>1. TypeOK
  BY DEF TypeOK, Users, Entries
<1>2. \A a \in Agents : owner[a] \notin Ids
  OBVIOUS
<1> QED
  BY <1>1, <1>2 DEF PoolInv, OneAgentPerId, HandedOverWhole, RunsAsOwner, InstancesSound,
     HandoverSound

\* The directory is found to belong to an id.
LEMMA ReturnInv == ASSUME PoolInv, NEW a \in Agents, Return(a) PROVE PoolInv'
<1> USE IdsApart, PoolAssumption DEF PoolInv, Return, Open, tree
<1>1. TypeOK'
  BY DEF TypeOK
<1>2. OneAgentPerId' /\ HandedOverWhole'
  BY DEF OneAgentPerId, HandedOverWhole
<1>3. RunsAsOwner' /\ InstancesSound'
  BY DEF RunsAsOwner, InstancesSound, TypeOK
<1>4. HandoverSound'
  BY DEF HandoverSound, Free, Taken
<1> QED
  BY <1>1, <1>2, <1>3, <1>4

\* The id that is picked is free, and the directory belongs to no id.
LEMMA PickInv == ASSUME PoolInv, NEW a \in Agents, Pick(a) PROVE PoolInv'
<1> USE IdsApart, PoolAssumption DEF PoolInv, Pick, tree, live
<1>1. TypeOK'
  BY DEF TypeOK, Free
<1>2. OneAgentPerId' /\ HandedOverWhole' /\ RunsAsOwner' /\ InstancesSound'
  BY DEF OneAgentPerId, HandedOverWhole, RunsAsOwner, InstancesSound
<1>3. HandoverSound'
  BY DEF HandoverSound, Free, Taken
<1> QED
  BY <1>1, <1>2, <1>3

\* Up to the hand over the directory is at most the worker's.
LEMMA MakeInv == ASSUME PoolInv, Make PROVE PoolInv'
<1> USE IdsApart, PoolAssumption DEF PoolInv, Make, live
<1>1. TypeOK'
  BY DEF TypeOK, Users, HandoverSound
<1>2. busy \in Agents /\ owner[busy] \notin Ids /\ owner'[busy] \notin Ids
      /\ \A a \in Agents : a # busy => owner'[a] = owner[a]
  BY DEF TypeOK, HandoverSound
<1>3. OneAgentPerId'
  BY <1>2 DEF OneAgentPerId
<1>4. HandedOverWhole'
  BY <1>2 DEF HandedOverWhole
<1>5. RunsAsOwner' /\ InstancesSound'
  BY <1>2 DEF RunsAsOwner, InstancesSound, HandoverSound, TypeOK
<1>6. HandoverSound'
  BY <1>2 DEF HandoverSound, Free, Taken
<1> QED
  BY <1>1, <1>3, <1>4, <1>5, <1>6

\* The directory changes hands, but not to an id.
LEMMA OwnInv == ASSUME PoolInv, Own PROVE PoolInv'
<1> USE IdsApart, PoolAssumption DEF PoolInv, Own, live
<1>1. TypeOK'
  BY DEF TypeOK, Users, HandoverSound
<1>2. busy \in Agents /\ owner'[busy] = Worker
      /\ \A a \in Agents : a # busy => owner'[a] = owner[a]
  BY DEF TypeOK, HandoverSound
<1>3. OneAgentPerId'
  BY <1>2 DEF OneAgentPerId
<1>4. HandedOverWhole'
  BY <1>2 DEF HandedOverWhole
<1>5. RunsAsOwner' /\ InstancesSound'
  BY <1>2 DEF RunsAsOwner, InstancesSound, HandoverSound, TypeOK
<1>6. HandoverSound'
  BY <1>2 DEF HandoverSound, Free, Taken
<1> QED
  BY <1>1, <1>3, <1>4, <1>5, <1>6

\* Closing a directory and listing it.
LEMMA ModeInv == ASSUME PoolInv, Mode \/ Walk PROVE PoolInv'
<1> USE IdsApart, PoolAssumption DEF PoolInv, Mode, Walk, tree, live
<1>1. TypeOK'
  BY DEF TypeOK, HandoverSound
<1>2. OneAgentPerId' /\ HandedOverWhole' /\ RunsAsOwner' /\ InstancesSound'
  BY DEF OneAgentPerId, HandedOverWhole, RunsAsOwner, InstancesSound
<1>3. HandoverSound'
  BY DEF HandoverSound, Free, Taken, Entries
<1> QED
  BY <1>1, <1>2, <1>3

\* An entry of a directory that is still the worker's gets the id.
LEMMA HandEntryInv == ASSUME PoolInv, HandEntry PROVE PoolInv'
<1> USE IdsApart, PoolAssumption DEF PoolInv, HandEntry, live
<1>1. busy \in Agents /\ uid \in Ids /\ owner[busy] \notin Ids /\ left \in Entries
  BY DEF TypeOK, HandoverSound, Free, Entries
<1>2. TypeOK'
  BY <1>1 DEF TypeOK, Users, Entries
<1>3. OneAgentPerId' /\ RunsAsOwner' /\ InstancesSound'
  BY DEF OneAgentPerId, RunsAsOwner, InstancesSound
<1>4. HandedOverWhole'
  BY <1>1 DEF HandedOverWhole, TypeOK
<1>5. HandoverSound'
  <2>1. \A i \in Entries : i > left' => inner'[busy][i] \in {uid, Nobody}
    BY <1>1 DEF HandoverSound, TypeOK, Entries
  <2> QED
    BY <2>1, <1>1 DEF HandoverSound, Free, Taken
<1> QED
  BY <1>2, <1>3, <1>4, <1>5

\* The directory gets the id last, and nobody else has it.
LEMMA HandDirectoryInv == ASSUME PoolInv, HandDirectory PROVE PoolInv'
<1> USE IdsApart, PoolAssumption DEF PoolInv, HandDirectory, Open, Leave, live
<1>1. /\ busy \in Agents /\ busy \in private /\ busy \notin instances
      /\ uid \in Ids /\ \A a \in Agents : owner[a] # uid
      /\ \A i \in Entries : inner[busy][i] \in {uid, Nobody}
  BY DEF TypeOK, HandoverSound, Free, Taken, Entries
<1>2. /\ owner'[busy] = uid
      /\ \A a \in Agents : a # busy => owner'[a] = owner[a]
  BY <1>1 DEF TypeOK
<1>3. TypeOK'
  BY <1>1 DEF TypeOK, Users
<1>4. OneAgentPerId'
  BY <1>1, <1>2 DEF OneAgentPerId
<1>5. HandedOverWhole'
  BY <1>1, <1>2 DEF HandedOverWhole
<1>6. RunsAsOwner' /\ InstancesSound'
  BY <1>1, <1>2 DEF RunsAsOwner, InstancesSound, TypeOK
<1>7. HandoverSound'
  BY DEF HandoverSound
<1> QED
  BY <1>3, <1>4, <1>5, <1>6, <1>7

\* GetSandbox fails, or the worker dies: the tree stays as it is.
LEMMA LeaveInv == ASSUME PoolInv, WalkFails \/ Fail \/ Crash PROVE PoolInv'
<1> USE IdsApart, PoolAssumption DEF PoolInv, WalkFails, Fail, Crash, Leave, tree, live
<1>1. TypeOK'
  BY DEF TypeOK
<1>2. OneAgentPerId' /\ HandedOverWhole'
  BY DEF OneAgentPerId, HandedOverWhole
<1>3. RunsAsOwner' /\ InstancesSound' /\ HandoverSound'
  BY DEF RunsAsOwner, InstancesSound, HandoverSound
<1> QED
  BY <1>1, <1>2, <1>3

\* What a command creates belongs to the owner of the directory.
LEMMA CreateInv ==
  ASSUME PoolInv, NEW a \in Agents, NEW i \in Entries, NEW shut \in BOOLEAN, Create(a, i, shut)
  PROVE  PoolInv'
<1> USE IdsApart, PoolAssumption DEF PoolInv, Create, live
<1>1. a # busy /\ uidOf[a] = owner[a] /\ uidOf[a] \in Ids
  BY DEF HandoverSound, RunsAsOwner, InstancesSound
<1>2. TypeOK'
  BY <1>1 DEF TypeOK, Users
<1>3. OneAgentPerId' /\ RunsAsOwner' /\ InstancesSound'
  BY DEF OneAgentPerId, RunsAsOwner, InstancesSound
<1>4. HandedOverWhole'
  BY <1>1 DEF HandedOverWhole, TypeOK
<1>5. HandoverSound'
  BY <1>1 DEF HandoverSound, TypeOK, Free, Taken
<1> QED
  BY <1>2, <1>3, <1>4, <1>5

\* A directory that is removed frees its id.
LEMMA ReapInv == ASSUME PoolInv, NEW a \in Agents, Reap(a) PROVE PoolInv'
<1> USE IdsApart, PoolAssumption DEF PoolInv, Reap, live
<1>1. /\ owner'[a] = Nobody
      /\ \A b \in Agents : b # a => owner'[b] = owner[b] /\ inner'[b] = inner[b]
  BY DEF TypeOK
<1>2. TypeOK'
  BY DEF TypeOK
<1>3. OneAgentPerId' /\ HandedOverWhole'
  BY <1>1 DEF OneAgentPerId, HandedOverWhole
<1>4. RunsAsOwner' /\ InstancesSound'
  BY <1>1 DEF RunsAsOwner, InstancesSound, TypeOK
<1>5. HandoverSound'
  BY <1>1 DEF HandoverSound, Free, Taken, TypeOK
<1> QED
  BY <1>2, <1>3, <1>4, <1>5

\* Every step of GetSandbox, of the agents and of the operator keeps PoolInv.
LEMMA PoolInvNext == PoolInv /\ [Next]_vars => PoolInv'
<1> SUFFICES ASSUME PoolInv, [Next]_vars PROVE PoolInv'
  OBVIOUS
<1>1. CASE AssignUID
  BY <1>1, MakeInv, OwnInv, ModeInv, HandEntryInv, HandDirectoryInv, LeaveInv DEF AssignUID
<1>2. CASE Crash
  BY <1>2, LeaveInv
<1>3. ASSUME NEW a \in Agents, Return(a) \/ Pick(a) \/ Reap(a) PROVE PoolInv'
  BY <1>3, ReturnInv, PickInv, ReapInv
<1>4. ASSUME NEW a \in Agents, NEW i \in Entries, NEW shut \in BOOLEAN, Create(a, i, shut)
      PROVE  PoolInv'
  BY <1>4, CreateInv
<1>5. CASE UNCHANGED vars
  BY <1>5 DEF vars, tree, live, PoolInv, TypeOK, OneAgentPerId, HandedOverWhole, RunsAsOwner,
     InstancesSound, HandoverSound, Free, Taken
<1> QED
  BY <1>1, <1>2, <1>3, <1>4, <1>5 DEF Next

\* The invariant of a worker's sandboxes over all its lives.
THEOREM PoolInvariant == Spec => []PoolInv
BY PoolInvInit, PoolInvNext, PTL DEF Spec
-----------------------------------------------------------------------------
\* Types (manager.go, uidpool_unix.go).
THEOREM PoolTypeCorrect == Spec => []TypeOK
<1>1. PoolInv => TypeOK
  BY DEF PoolInv
<1> QED
  BY <1>1, PoolInvariant, PTL

\* No id is given to two agents, however often workers restart
\* (uidpool_unix.go:173-199).
THEOREM IdsAreNotShared == Spec => []OneAgentPerId
<1>1. PoolInv => OneAgentPerId
  BY DEF PoolInv
<1> QED
  BY <1>1, PoolInvariant, PTL

\* A directory that belongs to an id was handed over to its last entry
\* (uidpool_unix.go:132-167).
THEOREM HandoverIsWhole == Spec => []HandedOverWhole
<1>1. PoolInv => HandedOverWhole
  BY DEF PoolInv
<1> QED
  BY <1>1, PoolInvariant, PTL

\* Commands run as the owner of their agent's directory (manager.go:50-86).
THEOREM CommandsRunAsOwner == Spec => []RunsAsOwner
<1>1. PoolInv => RunsAsOwner
  BY DEF PoolInv
<1> QED
  BY <1>1, PoolInvariant, PTL

\* An id is given up with the directory only (uidpool_unix.go:65-79).
THEOREM IdsAreKept == Spec => IdIsKept
<1> DEFINE Step == \A a \in Agents : owner[a] \in Ids => owner'[a] \in {owner[a], Nobody}
<1>1. PoolInv /\ [Next]_vars => [Step]_vars
  <2> SUFFICES ASSUME PoolInv, Next, NEW a \in Agents, owner[a] \in Ids
               PROVE  owner'[a] \in {owner[a], Nobody}
    BY DEF vars
  <2> USE DEF PoolInv, TypeOK
  <2>1. ASSUME AssignUID PROVE owner'[a] = owner[a]
    <3>1. CASE Make \/ Own \/ HandDirectory
      BY <3>1 DEF HandoverSound, Make, Own, HandDirectory
    <3> QED
      BY <2>1, <3>1 DEF AssignUID, Mode, Walk, WalkFails, HandEntry, Fail, tree
  <2>2. ASSUME NEW b \in Agents, Reap(b) PROVE owner'[a] \in {owner[a], Nobody}
    BY <2>2 DEF Reap
  <2> QED
    BY <2>1, <2>2 DEF Next, Crash, Return, Pick, Create, tree
<1> QED
  BY <1>1, PoolInvariant, PTL DEF Spec, IdIsKept

(* Handing a directory over is many steps, any of which may be the last of  *)
(* a worker's life, and yet one step of the register: HandDirectory, which  *)
(* comes when the id is still free.  All the others leave the register      *)
(* alone but for the sandboxes that open and the workers that die.          *)
THEOREM PoolKeepsRegister == Spec => KeepsRegister
<1>1. Init => Register!Init
  BY IdsApart DEF Init, Register!Init, HeldId, RunningAs
<1>2. PoolInv /\ [Next]_vars => [Register!Next]_(Register!vars)
  <2> SUFFICES ASSUME PoolInv, [Next]_vars
               PROVE  Register!Next \/ UNCHANGED Register!vars
    BY DEF Register!vars
  <2> USE IdsApart DEF PoolInv, HeldId, RunningAs, Register!vars
  <2>1. ASSUME owner' = owner, instances' = instances, uidOf' = uidOf
        PROVE  UNCHANGED Register!vars
    BY <2>1
  <2>2. CASE Make \/ Own
    <3>1. /\ \A a \in Agents : owner[a] \in Ids \/ owner'[a] \in Ids => owner'[a] = owner[a]
          /\ instances' = instances /\ uidOf' = uidOf
      BY <2>2 DEF Make, Own, live, TypeOK, HandoverSound
    <3> QED
      BY <3>1
  <2>3. CASE HandDirectory
    <3>1. /\ busy \in Agents /\ busy \notin instances /\ owner[busy] \notin Ids
          /\ uid \in Ids /\ \A a \in Agents : owner[a] # uid
      BY <2>3 DEF HandDirectory, HandoverSound, TypeOK, Free, Taken
    <3>2. HeldId' = [HeldId EXCEPT ![busy] = uid]
      BY <2>3, <3>1 DEF HandDirectory, TypeOK
    <3>3. RunningAs' \in {RunningAs, [RunningAs EXCEPT ![busy] = uid]}
      <4>1. CASE Open(busy, uid)
        BY <3>1, <4>1 DEF Open, TypeOK
      <4>2. CASE UNCHANGED live
        BY <4>2 DEF live
      <4> QED
        BY <2>3, <4>1, <4>2 DEF HandDirectory
    <3>4. HeldId[busy] = Nobody /\ \A b \in Agents : HeldId[b] # uid
      BY <3>1
    <3>5. Register!Assign(busy, uid)
      BY <3>2, <3>3, <3>4 DEF Register!Assign
    <3> HIDE DEF PoolInv, HeldId, RunningAs, Register!vars
    <3> QED
      BY <3>1, <3>5 DEF Register!Next
  <2>4. ASSUME NEW a \in Agents, Return(a) PROVE Register!Run(a)
    <3>1. /\ owner' = owner /\ owner[a] \in Ids
          /\ RunningAs' = [RunningAs EXCEPT ![a] = owner[a]]
      BY <2>4 DEF Return, Open, tree, TypeOK
    <3> QED
      BY <3>1 DEF Register!Run
  <2>5. ASSUME NEW a \in Agents, Reap(a) PROVE Register!Remove(a)
    <3>1. /\ a \notin instances /\ HeldId' = [HeldId EXCEPT ![a] = Nobody]
          /\ RunningAs' = RunningAs
      BY <2>5 DEF Reap, live, TypeOK
    <3> QED
      BY <3>1 DEF Register!Remove
  <2>6. CASE Crash
    BY <2>6 DEF Crash, tree, Register!Stop, Register!Next
  <2>7. CASE Mode \/ Walk \/ WalkFails \/ HandEntry \/ Fail
    BY <2>1, <2>7 DEF Mode, Walk, WalkFails, HandEntry, Fail, tree, live
  <2>8. ASSUME NEW a \in Agents, Pick(a) \/ (\E i \in Entries, shut \in BOOLEAN : Create(a, i, shut))
        PROVE  UNCHANGED Register!vars
    BY <2>1, <2>8 DEF Pick, Create, tree, live
  <2>9. CASE UNCHANGED vars
    BY <2>1, <2>9 DEF vars, tree, live
  <2> QED
    BY <2>2, <2>3, <2>4, <2>5, <2>6, <2>7, <2>8, <2>9 DEF Next, AssignUID, Register!Next
<1> QED
  BY <1>1, <1>2, PoolInvariant, PTL DEF Spec, KeepsRegister, Register!Spec

\* On a volume that starts empty no walk is ever barred: only a directory from
\* before per-agent ids can be (uidpool_unix.go:141-167, 203).
THEOREM FreshVolumeIsWalked == FreshSpec => []WalkReachesEverything
<1>1. Init /\ (\A a \in Agents : owner[a] = Nobody) => EmptyUntilGiven
  BY DEF Init, EmptyUntilGiven
<1>2. PoolInv /\ EmptyUntilGiven /\ [Next]_vars => EmptyUntilGiven'
  <2> SUFFICES ASSUME PoolInv, EmptyUntilGiven, [Next]_vars PROVE EmptyUntilGiven'
    OBVIOUS
  <2> USE IdsApart DEF PoolInv, TypeOK, EmptyUntilGiven
  <2>1. CASE Make \/ Own \/ HandDirectory
    BY <2>1 DEF Make, Own, HandDirectory, HandoverSound, Free
  <2>2. CASE HandEntry
    BY <2>2 DEF HandEntry, HandoverSound
  <2>3. ASSUME NEW a \in Agents, Reap(a) PROVE EmptyUntilGiven'
    BY <2>3 DEF Reap
  <2>4. ASSUME NEW a \in Agents, NEW i \in Entries, NEW shut \in BOOLEAN, Create(a, i, shut)
        PROVE  EmptyUntilGiven'
    BY <2>4 DEF Create, RunsAsOwner, InstancesSound
  <2>5. ASSUME owner' = owner, inner' = inner PROVE EmptyUntilGiven'
    BY <2>5
  <2> QED
    BY <2>1, <2>2, <2>3, <2>4, <2>5
    DEF Next, AssignUID, Mode, Walk, WalkFails, Fail, Crash, Return, Pick, tree, vars
<1>3. PoolInv /\ EmptyUntilGiven => WalkReachesEverything
  BY IdsApart DEF PoolInv, TypeOK, HandoverSound, EmptyUntilGiven, WalkReachesEverything, Barred, Entries
<1>4. FreshSpec => []PoolInv
  BY PoolInvariant, PTL DEF FreshSpec, Spec
<1> QED
  BY <1>1, <1>2, <1>3, <1>4, PTL DEF FreshSpec
=============================================================================
