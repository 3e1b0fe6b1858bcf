--------------------------- MODULE EmergencyStop ---------------------------
(***************************************************************************)
(* The emergency stop: the block on an agent's sandbox that                *)
(* internal/restapi records, internal/tools/sandbox reads before each tool *)
(* call, and the sweep of the sandbox that follows it, against the         *)
(* executions of SandboxExec.  Between the two lie the hub and the link:   *)
(* a call that has passed the check reaches the sandbox later or never.    *)
(***************************************************************************)
EXTENDS SandboxExec

CONSTANTS
  Nobody      \* the sandbox is not blocked

ASSUME StopAssumption == Nobody \notin Stops

VARIABLES
  active,     \* the stop whose block row holds the sandbox's active key
  press,      \* where the handler of a stop is
  admitted,   \* calls that found no block and have not reached the sandbox
  stragglers  \* history: calls under way and not tracked when a stop swept

vars == <<execVars, active, press, admitted, stragglers>>
stopVars == <<active, press, admitted, stragglers>>

PressStates == {"idle", "recorded", "sweeping", "swept", "failed"}

TypeOK ==
  /\ ExecTypeOK
  /\ active \in Stops \cup {Nobody}
  /\ press \in [Stops -> PressStates]
  /\ admitted \in SUBSET Calls
  /\ stragglers \in [Stops -> SUBSET Calls]

Init ==
  /\ ExecInit
  /\ active = Nobody
  /\ press = [o \in Stops |-> "idle"]
  /\ admitted = {}
  /\ stragglers = [o \in Stops |-> {}]
-----------------------------------------------------------------------------
(***************************************************************************)
(* A tool call on its way to the sandbox.                                  *)
(***************************************************************************)

CheckOpen(k) ==  \* mutant: the block is not read
  /\ stage[k] = "idle" /\ k \notin admitted
  /\ admitted' = admitted \cup {k}
  /\ UNCHANGED <<execVars, active, press, stragglers>>

\* agentForCall: the block is read from the database on every call.
Check(k) ==
  /\ active = Nobody
  /\ stage[k] = "idle" /\ k \notin admitted
  /\ admitted' = admitted \cup {k}
  /\ UNCHANGED <<execVars, active, press, stragglers>>

\* No worker, a lost connection, an agent that gave up, a directory that is not
\* there.
Lose(k) ==
  /\ k \in admitted
  /\ admitted' = admitted \ {k}
  /\ UNCHANGED <<execVars, active, press, stragglers>>

Reach(k) ==
  /\ k \in admitted
  /\ admitted' = admitted \ {k}
  /\ Begin(k)
  /\ UNCHANGED <<active, press, stragglers>>
-----------------------------------------------------------------------------
(***************************************************************************)
(* The handlers of the button, one for each press of it, and the release.  *)
(***************************************************************************)

\* The unique index on active_key lets one block in.
Record(o) ==
  /\ press[o] = "idle" /\ active = Nobody
  /\ active' = o
  /\ press' = [press EXCEPT ![o] = "recorded"]
  /\ UNCHANGED <<execVars, admitted, stragglers>>

Sweep(o) ==
  /\ press[o] = "recorded"
  /\ press' = [press EXCEPT ![o] = "sweeping"]
  /\ ReadRunning(o)
  /\ stragglers' = [stragglers EXCEPT ![o] =
       {k \in Calls \ Tracked : k \in admitted \/ stage[k] # "idle"}]
  /\ UNCHANGED <<active, admitted>>

Swept(o) ==
  /\ press[o] = "sweeping" /\ stopping[o] = {}
  /\ press' = [press EXCEPT ![o] = "swept"]
  /\ UNCHANGED <<execVars, active, admitted, stragglers>>

\* Hub.Kill cannot reach the worker: the block stands, nothing is killed.
KillFails(o) ==
  /\ press[o] = "recorded"
  /\ press' = [press EXCEPT ![o] = "failed"]
  /\ UNCHANGED <<execVars, active, admitted, stragglers>>

\* Lifts whichever block is in force, also one whose sweep is under way.
Release ==
  /\ active # Nobody
  /\ active' = Nobody
  /\ UNCHANGED <<execVars, press, admitted, stragglers>>

\* The button can be pressed again.
Answered(o) ==
  /\ press[o] \in {"swept", "failed"} /\ active # o
  /\ press' = [press EXCEPT ![o] = "idle"]
  /\ stragglers' = [stragglers EXCEPT ![o] = {}]
  /\ UNCHANGED <<execVars, active, admitted>>
-----------------------------------------------------------------------------
\* The goroutine of an execution.
Moves(k) ==
  \/ MakeVenv(k) \/ VenvOver(k) \/ FindVenv(k) \/ Start(k)
  \/ (cause[k] # "none" /\ Refuse(k))
  \/ Track(k) \/ Reap(k) \/ Verdict(k) \/ Return(k)

\* The kernel ends every fork, one way or the other.
Forked(k) == Born(k) \/ ForkFails(k)

\* KillAll's loop over what it has read.
Stopping(o) == \E k \in Calls : Announce(o, k) \/ CancelAimed(o, k)

Execution(k) ==
  \/ Moves(k) \/ Refuse(k) \/ Deadline(k) \/ Abandon(k) \/ Pass(k)
  \/ Forked(k) \/ Escape(k)
  \/ \E p \in Processes : Fork(k, p) \/ CloseOutput(k, p) \/ Exit(k, p)

Creation == CutCreation \/ CreationForks \/ \E p \in Processes : CreationExits(p)

Next ==
  \/ \E k \in Calls : Check(k) \/ Lose(k) \/ Reach(k)
  \/ \E k \in Calls : Execution(k) /\ UNCHANGED stopVars
  \/ Creation /\ UNCHANGED stopVars
  \/ \E o \in Stops : Stopping(o) /\ UNCHANGED stopVars
  \/ \E o \in Stops : Record(o) \/ Sweep(o) \/ Swept(o) \/ KillFails(o) \/ Answered(o)
  \/ Release

Spec == Init /\ [][Next]_vars

\* Goroutines run, timers expire and the kernel does its part; no program need
\* ever exit by itself or let go of its output, no agent need call again or give
\* up.
Fairness ==
  /\ \A k \in Calls :
       /\ WF_vars(Moves(k) /\ UNCHANGED stopVars)
       /\ WF_vars(Deadline(k) /\ UNCHANGED stopVars)
       /\ WF_vars(Pass(k) /\ UNCHANGED stopVars)
       /\ WF_vars(Forked(k) /\ UNCHANGED stopVars)
  /\ WF_vars(CutCreation /\ UNCHANGED stopVars)
  /\ \A o \in Stops : WF_vars(Stopping(o) /\ UNCHANGED stopVars)

FairSpec == Spec /\ Fairness
-----------------------------------------------------------------------------
(***************************************************************************)
(* Properties.                                                             *)
(***************************************************************************)

\* sandboxes.go records the block before it sweeps.  So once the sweep of the
\* block in force is over, a program still running uncancelled belongs to a
\* call that had passed the check and was not tracked when the sweep read the
\* running commands: nothing newer, and nothing the sweep saw.
OnlyStragglersRun ==
  \A o \in Stops :
    active = o /\ press[o] = "swept" =>
      \A k \in Calls \ stragglers[o] : "leader" \in live[k] => cause[k] # "none"

\* KillAll reports a kill before it lands and ExecCommand reads the context
\* after the wait: an execution the operator ended was announced to the
\* watchers, and one whose group was killed is never said to have exited.
StopsAreToldHonestly ==
  \A k \in Calls :
    /\ cause[k] = "operator" => k \in announced
    /\ k \in killed => outcome[k] # "exited"

\* KillGroup repeats its pass because a fork caught in the middle of one leaves a
\* child that the pass has missed.  Once the hook is over, a member of the group
\* can be alive only if that has happened after each of the passes: one after
\* which no child is born ends the group for good.
KillsAreComplete ==
  \A k \in killed : live[k] \cap Group(k) # {} => outrun[k] = 1..KillPasses

\* What can keep a call past its deadline: a child with an output pipe in hand
\* that has left the group, or was born in it after the last of the passes; and
\* what the creation of the environment has left behind with its output in hand.
HeldUp(k) ==
  \/ "child" \in holding[k] /\ (k \in escaped \/ outrun[k] = 1..KillPasses)
  \/ stage[k] \in {"begun", "making"} /\ creation = {"child"}

\* ExecCommand returns: whatever programs do, a call that never ends is held up
\* for good by a process the code does not reach.
CallEnds ==
  \A k \in Calls : <>[](stage[k] # "idle") => <>[]HeldUp(k)

\* The runaway loop the button exists to stop: an agent that is blocked for
\* good, and calls again and again, ends up with no program running.
RunawayStops ==
  <>[](active # Nobody) => <>[](\A k \in Calls : "leader" \notin live[k])

\* procgroup_unix.go:21-24: WaitDelay bounds the wait for the output pipes, which
\* "a grandchild that escaped into its own session can hold" open, "and without
\* this the caller never returns".  ExecCommand reads both pipes to their end
\* before it calls the cmd.Wait that would start that delay.
EscapeCannotHoldTheCall ==
  \A k \in Calls : stage[k] # "idle" ~> stage[k] = "idle"

\* venv.go:24-27: creating the environment is "bounded, because an agent's first
\* command is waiting behind it".  What ends after two minutes is the interpreter:
\* createVenv gives the command neither a Cancel of its own nor a WaitDelay, and
\* CombinedOutput waits for whoever else holds the output.
CreationIsBounded ==
  venv = "busy" ~> venv = "over"

\* procgroup_unix.go:82-83: "after the first pass there are none left to fork".
\* A child that the pass has missed can be forking when the next one comes.
TwoPassesSuffice ==
  \A k \in Calls : passes[k] >= 2 => live[k] \cap Group(k) = {}

\* README.md:211: "a backgrounded child cannot outlive its timeout or the stop
\* button".  ExecCommand does not kill the group of a program that exits by
\* itself, and KillAll does not know the commands that have returned.
NoChildOutlivesTheStop ==
  \A o \in Stops :
    active = o /\ press[o] = "swept" =>
      \A k \in Calls \ stragglers[o] :
        stage[k] = "idle" => live[k] \cap Group(k) = {}
=============================================================================
