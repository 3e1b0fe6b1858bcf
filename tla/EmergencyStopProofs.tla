------------------------ MODULE EmergencyStopProofs ------------------------
(***************************************************************************)
(* Proofs about EmergencyStop: what a completed stop leaves running, what  *)
(* the agent and the watchers are told of an execution, and what a kill    *)
(* leaves of its group, for any number of executions, of stops and of      *)
(* passes of the kill.                                                     *)
(***************************************************************************)
EXTENDS EmergencyStop, TLAPS

-----------------------------------------------------------------------------
(***************************************************************************)
(* The inductive invariant.                                                *)
(***************************************************************************)

\* An execution's slot agrees with the stage it is in.
StageInv ==
  \A k \in Calls :
    /\ "leader" \in live[k] => stage[k] \in Executing
    /\ k \in admitted => stage[k] = "idle"
    /\ stage[k] = "idle" => cause[k] = "none"
    /\ k \in killed \/ passes[k] > 0 => cause[k] # "none"
    /\ outcome[k] # "none" => stage[k] = "told" /\ (outcome[k] = "exited" => k \notin killed)

\* A call that a sweep answers for: it returned, was cancelled, is about to be
\* or has already waited for its program.
Seen(o, k) ==
  /\ k \notin admitted
  /\ \/ stage[k] = "idle" \/ cause[k] # "none" \/ k \in stopping[o]
     \/ stage[k] \in {"waited", "told"}

\* While the block that a sweep belongs to is in force, that sweep answers for
\* every call but the stragglers.
SweepInv ==
  \A o \in Stops :
    /\ press[o] # "sweeping" => stopping[o] = {}
    /\ active = o /\ press[o] \in {"sweeping", "swept"} =>
         \A k \in Calls \ stragglers[o] : Seen(o, k)

\* KillAll aims at what it has read and has announced.
AimInv ==
  /\ \A o \in Stops : aim[o] # NoCall =>
       aim[o] \in stopping[o] /\ (stage[aim[o]] = "idle" \/ aim[o] \in announced)
  /\ \A k \in Calls : cause[k] = "operator" => k \in announced

\* No process of an execution before it starts one; a forking child is in its
\* group.
ForkInv ==
  \A k \in Calls :
    /\ stage[k] \in {"begun", "making", "ready"} => live[k] = {} /\ forker[k] = "none"
    /\ forker[k] = "child" => k \notin escaped

\* The leader dies with the first pass.  From then on a member is alive only if a
\* child was born after each pass so far, and a fork is under way only if one was
\* born after each but the last, which may have caught that fork.
Converging(k) ==
  /\ k \notin killed => passes[k] < KillPasses
  /\ k \in killed => passes[k] = KillPasses \/ (live[k] \cap Group(k) = {} /\ forker[k] = "none")
  /\ passes[k] > 0 =>
       /\ "leader" \notin live[k]
       /\ live[k] \cap Group(k) # {} => 1..passes[k] \subseteq outrun[k]
       /\ forker[k] # "none" => 1..(passes[k] - 1) \subseteq outrun[k]

KillInv == \A k \in Calls : Converging(k)

IInv == TypeOK /\ StageInv /\ ForkInv /\ KillInv /\ SweepInv /\ AimInv
-----------------------------------------------------------------------------
LEMMA InitIInv == Init => IInv
BY ExecAssumption, StopAssumption
   DEF Init, ExecInit, IInv, TypeOK, ExecTypeOK, StageInv, ForkInv, KillInv, Converging, SweepInv, AimInv, Stages,
       PressStates

\* What neither the hook nor a process does leaves the groups as they are.
LEMMA KillFrame ==
  ASSUME KillInv, UNCHANGED <<hookVars, live, escaped, forker, outrun>>
  PROVE  KillInv'
BY DEF KillInv, Converging, Group, hookVars

\* The steps of the server: the check, the button, the release.
LEMMA ServerStep ==
  ASSUME IInv,
         \/ \E k \in Calls : Check(k) \/ Lose(k) \/ Reach(k)
         \/ \E o \in Stops : Record(o) \/ Sweep(o) \/ Swept(o) \/ KillFails(o) \/ Answered(o)
         \/ Release
  PROVE  IInv'
<1> USE StopAssumption, ExecAssumption
    DEF IInv, TypeOK, ExecTypeOK, StageInv, ForkInv, SweepInv, AimInv, Seen, execVars,
        venvVars, callVars, hookVars, procVars, PressStates, Stages, Executing
<1>1. ASSUME NEW k \in Calls, Check(k) PROVE IInv'
  BY <1>1, KillFrame DEF Check
<1>2. ASSUME NEW k \in Calls, Lose(k) PROVE IInv'
  BY <1>2, KillFrame DEF Lose
<1>3. ASSUME NEW k \in Calls, Reach(k) PROVE IInv'
  BY <1>3, KillFrame DEF Reach, Begin, Advance
<1>4. ASSUME NEW o \in Stops, Record(o) PROVE IInv'
  BY <1>4, KillFrame DEF Record
<1>5. ASSUME NEW o \in Stops, Sweep(o) PROVE IInv'
  BY <1>5, KillFrame DEF Sweep, ReadRunning, Tracked
<1>6. ASSUME NEW o \in Stops, Swept(o) PROVE IInv'
  BY <1>6, KillFrame DEF Swept
<1>7. ASSUME NEW o \in Stops, KillFails(o) PROVE IInv'
  BY <1>7, KillFrame DEF KillFails
<1>8. ASSUME NEW o \in Stops, Answered(o) PROVE IInv'
  BY <1>8, KillFrame DEF Answered
<1>9. CASE Release
  BY <1>9, KillFrame DEF Release
<1> QED
  BY <1>1, <1>2, <1>3, <1>4, <1>5, <1>6, <1>7, <1>8, <1>9

\* What the hook, the forks and the ends of processes leave of a group.
LEMMA KillStep ==
  ASSUME IInv, NEW k \in Calls,
         Pass(k) \/ Forked(k) \/ Escape(k) \/ \E p \in Processes : Fork(k, p) \/ Exit(k, p)
  PROVE  KillInv' /\ passes' \in [Calls -> 0..KillPasses]
<1> SUFFICES /\ Converging(k)' /\ passes' \in [Calls -> 0..KillPasses]
             /\ \A j \in Calls \ {k} : UNCHANGED <<passes[j], j \in killed, live[j], j \in escaped, forker[j], outrun[j]>>
  BY DEF IInv, KillInv, Converging, Group
<1> USE ExecAssumption DEF IInv, TypeOK, ExecTypeOK, StageInv, ForkInv, KillInv, Converging, Group, Processes
<1>1. CASE Pass(k)
  <2>1. /\ passes[k] \in 0..(KillPasses - 1)
        /\ passes' = [passes EXCEPT ![k] = passes[k] + 1]
    BY <1>1 DEF Pass, Signal
  <2>2. forker[k] # "none" => live[k] \cap Group(k) # {}
    BY <1>1 DEF Pass, Late
  <2>3. forker[k] # "none" => 1..passes[k] \subseteq outrun[k]
    BY <2>1, <2>2
  <2>4. live'[k] \cap Group(k)' = {} /\ "leader" \notin live'[k]
    BY <1>1 DEF Pass, Signal
  <2> QED
    BY <1>1, <2>1, <2>2, <2>3, <2>4 DEF Pass, Signal, HookOver
<1>2. CASE Born(k)
  BY <1>2 DEF Born, hookVars
<1>3. CASE ForkFails(k)
  BY <1>3 DEF ForkFails, hookVars
<1>4. CASE Escape(k)
  BY <1>4 DEF Escape, hookVars
<1>5. CASE \E p \in Processes : Fork(k, p)
  BY <1>5 DEF Fork, hookVars
<1>6. CASE \E p \in Processes : Exit(k, p)
  BY <1>6 DEF Exit, hookVars
<1> QED
  BY <1>1, <1>2, <1>3, <1>4, <1>5, <1>6 DEF Forked

\* An execution that returns has nothing to converge.
LEMMA LeaveStep ==
  ASSUME IInv, NEW k \in Calls, Leave(k), UNCHANGED <<live, escaped, forker>>
  PROVE  KillInv' /\ passes' \in [Calls -> 0..KillPasses]
BY ExecAssumption DEF IInv, TypeOK, ExecTypeOK, KillInv, Converging, Group, Leave

\* The program of an execution that is not cancelled yet.
LEMMA StartStep ==
  ASSUME IInv, NEW k \in Calls, Start(k)
  PROVE  KillInv'
BY ExecAssumption DEF IInv, TypeOK, ExecTypeOK, StageInv, KillInv, Converging, Group, Start, hookVars

\* The steps of an execution, its context and its processes.
LEMMA ExecutionStep ==
  ASSUME IInv, NEW k \in Calls, Execution(k), UNCHANGED stopVars
  PROVE  IInv'
<1> USE ExecAssumption, StopAssumption
    DEF IInv, TypeOK, ExecTypeOK, StageInv, ForkInv, SweepInv, AimInv, Seen, stopVars, venvVars, hookVars,
        procVars, Stages, Executing, Advance, Processes
<1>1. CASE MakeVenv(k) \/ VenvOver(k) \/ FindVenv(k) \/ Track(k) \/ Reap(k)
  <2>1. CASE MakeVenv(k)
    BY <2>1, KillFrame DEF MakeVenv
  <2>2. CASE VenvOver(k)
    BY <2>2, KillFrame DEF VenvOver
  <2>3. CASE FindVenv(k)
    BY <2>3, KillFrame DEF FindVenv
  <2>4. CASE Track(k)
    BY <2>4, KillFrame DEF Track
  <2>5. CASE Reap(k)
    BY <2>5, KillFrame DEF Reap
  <2> QED
    BY <1>1, <2>1, <2>2, <2>3, <2>4, <2>5
<1>2. CASE Start(k)
  <2>1. KillInv'
    BY <1>2, StartStep
  <2> QED
    BY <1>2, <2>1 DEF Start
<1>3. CASE Verdict(k)
  BY <1>3, KillFrame DEF Verdict, Sentence, Outcomes, Causes
<1>4. CASE Return(k) \/ Refuse(k)
  <2>1. Leave(k) /\ UNCHANGED <<venvVars, live, holding, escaped, forker, stopping, aim>>
    BY <1>4 DEF Return, Refuse
  <2>2. KillInv' /\ passes' \in [Calls -> 0..KillPasses]
    BY <2>1, LeaveStep
  <2>3. TypeOK'
    BY <2>1, <2>2 DEF Leave
  <2>4. ForkInv'
    BY <2>1 DEF Leave
  <2>5. StageInv'
    <3>1. "leader" \notin live[k]
      BY <1>4 DEF Return, Refuse
    <3> QED
      BY <2>1, <2>2, <3>1 DEF Leave
  <2>6. SweepInv' /\ AimInv'
    BY <2>1 DEF Leave
  <2> QED
    BY <2>2, <2>3, <2>4, <2>5, <2>6
<1>5. CASE Deadline(k) \/ Abandon(k)
  <2>1. PICK why \in {"deadline", "caller"} : cause' = [cause EXCEPT ![k] = why]
    BY <1>5 DEF Deadline, Abandon, EndContext
  <2>2. /\ stage[k] # "idle"
        /\ UNCHANGED <<venvVars, stage, hookVars, procVars, outcome, announced, stopping, aim>>
    BY <1>5 DEF Deadline, Abandon
  <2>3. KillInv'
    BY <2>2, KillFrame
  <2>4. TypeOK' /\ StageInv' /\ ForkInv'
    BY <2>1, <2>2 DEF Causes
  <2> QED
    BY <2>1, <2>2, <2>3, <2>4
<1>6. CASE Pass(k)
  <2>1. KillInv' /\ passes' \in [Calls -> 0..KillPasses]
    BY <1>6, KillStep
  <2> QED
    BY <1>6, <2>1 DEF Pass, Signal, HookOver
<1>7. CASE Forked(k)
  <2>1. KillInv'
    BY <1>7, KillStep
  <2>2. CASE Born(k)
    <3>1. passes[k] \in 0..KillPasses
      OBVIOUS
    <3> QED
      BY <2>1, <2>2, <3>1 DEF Born
  <2>3. CASE ForkFails(k)
    BY <2>1, <2>3 DEF ForkFails
  <2> QED
    BY <1>7, <2>2, <2>3 DEF Forked
<1>8. CASE Escape(k)
  BY <1>8, KillStep DEF Escape
<1>9. ASSUME NEW p \in Processes, Fork(k, p) PROVE IInv'
  <2>1. KillInv'
    BY <1>9, KillStep
  <2>2. p = "child" => k \notin escaped
    BY <1>9 DEF Fork, Group
  <2> QED
    BY <1>9, <2>1, <2>2 DEF Fork
<1>10. ASSUME NEW p \in Processes, CloseOutput(k, p) PROVE IInv'
  BY <1>10, KillFrame DEF CloseOutput
<1>11. ASSUME NEW p \in Processes, Exit(k, p) PROVE IInv'
  <2>1. KillInv'
    BY <1>11, KillStep
  <2> QED
    BY <1>11, <2>1 DEF Exit
<1> QED
  BY <1>1, <1>2, <1>3, <1>4, <1>5, <1>6, <1>7, <1>8, <1>9, <1>10, <1>11 DEF Execution, Moves

\* The processes of the creation touch no execution.
LEMMA CreationStep ==
  ASSUME IInv, Creation, UNCHANGED stopVars
  PROVE  IInv'
<1>1. UNCHANGED <<venv, callVars, announced, stopping, aim>>
  BY DEF Creation, CutCreation, CreationForks, CreationExits
<1>2. creation' \in SUBSET Processes
  BY DEF IInv, TypeOK, ExecTypeOK, Creation, CutCreation, CreationForks, CreationExits
<1>3. KillInv'
  BY <1>1, KillFrame DEF IInv, callVars, procVars
<1> QED
  BY <1>1, <1>2, <1>3
  DEF IInv, TypeOK, ExecTypeOK, StageInv, ForkInv, SweepInv, AimInv, Seen, stopVars, callVars, hookVars, procVars

\* The steps of a KillAll.
LEMMA StoppingStep ==
  ASSUME IInv, NEW o \in Stops, Stopping(o), UNCHANGED stopVars
  PROVE  IInv'
<1> USE ExecAssumption, StopAssumption
    DEF IInv, TypeOK, ExecTypeOK, StageInv, ForkInv, SweepInv, AimInv, Seen, stopVars, venvVars,
        callVars, hookVars, procVars, Stages, Executing
<1>1. ASSUME NEW k \in Calls, Announce(o, k) PROVE IInv'
  BY <1>1, KillFrame DEF Announce
<1>2. ASSUME NEW k \in Calls, CancelAimed(o, k) PROVE IInv'
  BY <1>2, KillFrame DEF CancelAimed, EndContext, Causes
<1> QED
  BY <1>1, <1>2 DEF Stopping

LEMMA StutterStep ==
  ASSUME IInv, UNCHANGED vars
  PROVE  IInv'
BY KillFrame
   DEF IInv, TypeOK, ExecTypeOK, StageInv, ForkInv, SweepInv, AimInv, Seen, vars, execVars,
   venvVars, callVars, hookVars, procVars

\* Every reachable state satisfies the inductive invariant.
LEMMA Invariance == Spec => []IInv
<1>1. IInv /\ [Next]_vars => IInv'
  <2> SUFFICES ASSUME IInv, [Next]_vars PROVE IInv'
    OBVIOUS
  <2>1. CASE UNCHANGED vars
    BY <2>1, StutterStep
  <2>2. CASE Next
    BY <2>2, ServerStep, ExecutionStep, CreationStep, StoppingStep DEF Next
  <2> QED
    BY <2>1, <2>2
<1> QED
  BY <1>1, InitIInv, PTL DEF Spec
-----------------------------------------------------------------------------
(***************************************************************************)
(* Theorems.                                                               *)
(***************************************************************************)

\* The variables of the sandbox and of the stop keep their types.
THEOREM TypeCorrect == Spec => []TypeOK
<1>1. IInv => TypeOK
  BY DEF IInv
<1> QED
  BY <1>1, Invariance, PTL

\* sandboxes.go records the block before it sweeps: however many executions and
\* stops there are, and whoever releases what in between, after the sweep of the
\* block in force only stragglers run uncancelled.
THEOREM OnlyStragglersSurvive == Spec => []OnlyStragglersRun
<1>1. IInv => OnlyStragglersRun
  BY DEF IInv, StageInv, SweepInv, Seen, Executing, OnlyStragglersRun
<1> QED
  BY <1>1, Invariance, PTL

\* KillAll announces what it cancels, and ExecCommand says of no execution whose
\* group was killed that it exited.
THEOREM ToldHonestly == Spec => []StopsAreToldHonestly
<1>1. IInv => StopsAreToldHonestly
  BY DEF IInv, TypeOK, ExecTypeOK, StageInv, AimInv, StopsAreToldHonestly
<1> QED
  BY <1>1, Invariance, PTL

\* However many passes the kill makes, and however its members fork: what is left
\* of a group after the hook was born after each of them (procgroup_unix.go:72-83,
\* sandbox.go:426-431).
THEOREM OnlyOutrunKillsLeaveAnyone == Spec => []KillsAreComplete
<1>1. IInv => KillsAreComplete
  <2> SUFFICES ASSUME IInv, NEW k \in killed, live[k] \cap Group(k) # {}
               PROVE  outrun[k] = 1..KillPasses
    BY DEF KillsAreComplete
  <2>1. k \in Calls /\ passes[k] = KillPasses /\ outrun[k] \subseteq 1..KillPasses
    BY DEF IInv, TypeOK, ExecTypeOK, KillInv, Converging
  <2>2. passes[k] > 0 /\ Converging(k)
    BY <2>1, ExecAssumption DEF IInv, KillInv
  <2>3. 1..passes[k] \subseteq outrun[k]
    BY <2>2 DEF Converging
  <2> QED
    BY <2>1, <2>3
<1> QED
  BY <1>1, Invariance, PTL
=============================================================================
