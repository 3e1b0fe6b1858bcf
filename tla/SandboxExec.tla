---------------------------- MODULE SandboxExec ----------------------------
(***************************************************************************)
(* One agent's sandbox on its worker, internal/sandbox: the executions of  *)
(* ExecCommand, the process group each of them starts and how it is        *)
(* killed, the creation of the virtual environment, and KillAll.           *)
(*                                                                         *)
(* An execution is a program (the leader of its group) and at most one     *)
(* child at a time, which joins the group, may leave it for a session of   *)
(* its own, and holds an output pipe open until it redirects its output.   *)
(* A member that is forking when the group is signalled dies, but its      *)
(* child may be born into the group after the signal.                      *)
(* A call is a slot that executions use one after the other: it is taken   *)
(* again once no process of the last one lives and no KillAll holds its    *)
(* cancel function, so that a name stands for one execution at a time.     *)
(***************************************************************************)
EXTENDS Naturals, FiniteSets

CONSTANTS
  Calls,      \* executions that may be under way at once
  Forking,    \* bound: the executions whose program may fork or close its output
  Stops,      \* calls of KillAll that may be under way at once
  NoCall,     \* what a KillAll between two commands aims at
  KillPasses  \* killPasses, procgroup_unix.go

ASSUME ExecAssumption ==
  /\ NoCall \notin Calls /\ Forking \subseteq Calls
  /\ KillPasses \in Nat \ {0}

VARIABLES
  venv,       \* venvOnce: sync.Once holds the others back while it is busy
  creation,   \* the processes that hold the output of the creation open
  stage,      \* where an execution is in ExecCommand
  cause,      \* why execCtx has ended; the first reason is the one it keeps
  passes,     \* how often the Cancel hook has signalled the group
  killed,     \* the executions whose Cancel hook is over
  live,       \* the processes of an execution that are alive
  holding,    \* those of them that hold an output pipe open
  escaped,    \* executions with a live child in a session of its own
  forker,     \* the member of a group that is, or was when killed, forking
  outrun,     \* history: the passes after which a child was born into the group
  outcome,    \* what ExecCommand has answered
  announced,  \* executions the watchers were shown a killed event of
  stopping,   \* the commands KillAll has yet to cancel
  aim         \* the command KillAll has announced and not cancelled

venvVars == <<venv, creation>>
hookVars == <<passes, killed>>
procVars == <<live, holding, escaped, forker, outrun>>
callVars == <<stage, cause, hookVars, procVars, outcome>>
execVars == <<venvVars, callVars, announced, stopping, aim>>

Processes == {"leader", "child"}
Executing == {"started", "running"}
Stages == {"idle", "begun", "making", "ready", "waited", "told"} \cup Executing
Causes == {"deadline", "caller", "operator"}
Outcomes == {"exited", "timed_out", "stopped"}

\* "unborn" holds what the fork under way has copied.
ExecTypeOK ==
  /\ venv \in {"unused", "busy", "over"}
  /\ creation \in SUBSET Processes
  /\ stage \in [Calls -> Stages]
  /\ cause \in [Calls -> Causes \cup {"none"}]
  /\ passes \in [Calls -> 0..KillPasses]
  /\ killed \in SUBSET Calls
  /\ live \in [Calls -> SUBSET Processes]
  /\ holding \in [Calls -> SUBSET (Processes \cup {"unborn"})]
  /\ escaped \in SUBSET Calls
  /\ forker \in [Calls -> Processes \cup {"none"}]
  /\ outrun \in [Calls -> SUBSET (1..KillPasses)]
  /\ outcome \in [Calls -> Outcomes \cup {"none"}]
  /\ announced \in SUBSET Calls
  /\ stopping \in [Stops -> SUBSET Calls]
  /\ aim \in [Stops -> Calls \cup {NoCall}]

\* A worker configured without a virtual environment starts as if it were over.
ExecInit ==
  /\ venv \in {"unused", "over"}
  /\ creation = {}
  /\ stage = [k \in Calls |-> "idle"]
  /\ cause = [k \in Calls |-> "none"]
  /\ passes = [k \in Calls |-> 0]
  /\ killed = {}
  /\ live = [k \in Calls |-> {}]
  /\ holding = [k \in Calls |-> {}]
  /\ escaped = {}
  /\ forker = [k \in Calls |-> "none"]
  /\ outrun = [k \in Calls |-> {}]
  /\ outcome = [k \in Calls |-> "none"]
  /\ announced = {}
  /\ stopping = [o \in Stops |-> {}]
  /\ aim = [o \in Stops |-> NoCall]

\* s.running: from trackRunning until ExecCommand returns.
Tracked == {k \in Calls : stage[k] \in {"running", "waited", "told"}}

Advance(k, from, to) ==
  /\ stage[k] = from
  /\ stage' = [stage EXCEPT ![k] = to]

\* ExecCommand returns and the slot forgets the execution, not its processes.
Leave(k) ==
  /\ stage' = [stage EXCEPT ![k] = "idle"]
  /\ cause' = [cause EXCEPT ![k] = "none"]
  /\ passes' = [passes EXCEPT ![k] = 0]
  /\ killed' = killed \ {k}
  /\ outrun' = [outrun EXCEPT ![k] = {}]
  /\ outcome' = [outcome EXCEPT ![k] = "none"]
  /\ announced' = announced \ {k}
-----------------------------------------------------------------------------
(***************************************************************************)
(* ExecCommand, from the check of its directory on.                        *)
(***************************************************************************)

\* The call is in the sandbox; its deadline runs from here.
Begin(k) ==
  /\ live[k] = {} /\ forker[k] = "none"
  /\ \A o \in Stops : k \notin stopping[o]
  /\ Advance(k, "idle", "begun")
  /\ announced' = announced \ {k}
  /\ UNCHANGED <<venvVars, cause, hookVars, procVars, outcome, stopping, aim>>

\* ensureVenv: the first execution creates it.  No process is started when no
\* interpreter is found, or when the call has ended before.
MakeVenv(k) ==
  /\ venv = "unused" /\ venv' = "busy"
  /\ creation' \in {{}, {"leader"}}
  /\ Advance(k, "begun", "making")
  /\ UNCHANGED <<cause, hookVars, procVars, outcome, announced, stopping, aim>>

\* CombinedOutput returns once nobody holds the output of the creation; whether
\* it was created or not, it is never tried again.
VenvOver(k) ==
  /\ creation = {}
  /\ Advance(k, "making", "ready")
  /\ venv' = "over"
  /\ UNCHANGED <<creation, cause, hookVars, procVars, outcome, announced, stopping, aim>>

\* sync.Once lets the others go when the creation is over, and not before:
\* whatever has become of their contexts.
FindVenv(k) ==
  /\ venv = "over"
  /\ Advance(k, "begun", "ready")
  /\ UNCHANGED <<venvVars, cause, hookVars, procVars, outcome, announced, stopping, aim>>

\* A program that is not there, a start that fails.
Refuse(k) ==
  /\ stage[k] = "ready"
  /\ Leave(k)
  /\ UNCHANGED <<venvVars, live, holding, escaped, forker, stopping, aim>>

\* cmd.Start: refuses a context that has ended.
Start(k) ==
  /\ cause[k] = "none"
  /\ Advance(k, "ready", "started")
  /\ live' = [live EXCEPT ![k] = {"leader"}]
  /\ holding' = [holding EXCEPT ![k] = {"leader"}]
  /\ UNCHANGED <<venvVars, cause, hookVars, escaped, forker, outrun, outcome, announced, stopping, aim>>

Track(k) ==
  /\ Advance(k, "started", "running")
  /\ UNCHANGED <<venvVars, cause, hookVars, procVars, outcome, announced, stopping, aim>>

\* Both pumps reach the end of their pipes; then cmd.Wait reaps the program, and
\* waits for a Cancel hook that has begun.  Nobody watches the context from here
\* on.
Reap(k) ==
  /\ holding[k] = {} /\ "leader" \notin live[k]
  /\ passes[k] # 0 => k \in killed
  /\ Advance(k, "running", "waited")
  /\ UNCHANGED <<venvVars, cause, hookVars, procVars, outcome, announced, stopping, aim>>

\* What the agent and the watchers are told; both cancellations read alike.
Sentence(why) ==
  CASE why = "none" -> "exited"
    [] why = "deadline" -> "timed_out"
    [] why \in {"caller", "operator"} -> "stopped"

\* execCtx.Err() is read after the wait.
Verdict(k) ==
  /\ Advance(k, "waited", "told")
  /\ outcome' = [outcome EXCEPT ![k] = Sentence(cause[k])]
  /\ UNCHANGED <<venvVars, cause, hookVars, procVars, announced, stopping, aim>>

Return(k) ==
  /\ stage[k] = "told"
  /\ Leave(k)
  /\ UNCHANGED <<venvVars, live, holding, escaped, forker, stopping, aim>>
-----------------------------------------------------------------------------
(***************************************************************************)
(* The end of a context, and what it does to the processes.                *)
(***************************************************************************)

EndContext(k, why) ==
  cause' = [cause EXCEPT ![k] = IF @ = "none" /\ stage[k] # "idle" THEN why ELSE @]

Deadline(k) ==
  /\ cause[k] = "none" /\ stage[k] # "idle"
  /\ EndContext(k, "deadline")
  /\ UNCHANGED <<venvVars, stage, hookVars, procVars, outcome, announced, stopping, aim>>

\* The link cancels the call: its agent gave up, or the worker is stopping.
Abandon(k) ==
  /\ cause[k] = "none" /\ stage[k] # "idle"
  /\ EndContext(k, "caller")
  /\ UNCHANGED <<venvVars, stage, hookVars, procVars, outcome, announced, stopping, aim>>

\* Two minutes, or the context of the call that creates the environment: the
\* default Cancel of exec.Cmd kills the interpreter alone.
CutCreation ==
  /\ "leader" \in creation
  /\ creation' = creation \ {"leader"}
  /\ UNCHANGED <<venv, callVars, announced, stopping, aim>>

\* The processes a signal to the group reaches.
Group(k) == IF k \in escaped THEN {"leader"} ELSE Processes

\* SIGSTOP lets no member begin another fork until SIGKILL ends it.
Signal(k) ==
  /\ cause[k] # "none" /\ k \notin killed /\ stage[k] \in Executing
  /\ passes' = [passes EXCEPT ![k] = @ + 1]
  /\ live' = [live EXCEPT ![k] = @ \ Group(k)]
  /\ holding' = [holding EXCEPT ![k] = @ \ Group(k)]
  /\ UNCHANGED <<venvVars, stage, cause, escaped, forker, outrun, outcome, announced, stopping, aim>>

\* A fork whose parent was killed in the middle of it.
Late(k) == forker[k] # "none" /\ forker[k] \notin live[k]

\* The hook is over with the last pass, or with one that finds nobody.
HookOver(k) ==
  killed' = IF passes'[k] = KillPasses \/ live[k] \cap Group(k) = {} THEN killed \cup {k} ELSE killed

OnePass(k) == Signal(k) /\ killed' = killed \cup {k}  \* mutant: one kill(-pgid, SIGKILL)
HastyPass(k) == Signal(k) /\ HookOver(k)              \* mutant: no sleep between the passes

\* cmd.Cancel, KillGroup: the sleep before the next pass outlasts a fork that the
\* last one has caught.
Pass(k) == ~Late(k) /\ Signal(k) /\ HookOver(k)
-----------------------------------------------------------------------------
(***************************************************************************)
(* What the processes do.                                                  *)
(***************************************************************************)

\* A member of the group begins a fork, with the pipes it holds.
Fork(k, p) ==
  /\ k \in Forking /\ forker[k] = "none"
  /\ p \in live[k] \cap Group(k)
  /\ p = "leader" => "child" \notin live[k]
  /\ forker' = [forker EXCEPT ![k] = p]
  /\ holding' = [holding EXCEPT ![k] = IF p \in @ THEN @ \cup {"unborn"} ELSE @]
  /\ UNCHANGED <<venvVars, stage, cause, hookVars, live, escaped, outrun, outcome, announced, stopping, aim>>

\* The new child joins the group; a child that forked leaves its place to it.
Born(k) ==
  /\ forker[k] # "none"
  /\ forker' = [forker EXCEPT ![k] = "none"]
  /\ live' = [live EXCEPT ![k] = @ \cup {"child"}]
  /\ holding' = [holding EXCEPT ![k] =
       (@ \ {"child", "unborn"}) \cup (IF "unborn" \in @ THEN {"child"} ELSE {})]
  /\ outrun' = [outrun EXCEPT ![k] = IF passes[k] = 0 THEN @ ELSE @ \cup {passes[k]}]
  /\ UNCHANGED <<venvVars, stage, cause, hookVars, escaped, outcome, announced, stopping, aim>>

\* The kernel refuses the fork, or lets it go with the parent.
ForkFails(k) ==
  /\ forker[k] # "none"
  /\ forker' = [forker EXCEPT ![k] = "none"]
  /\ holding' = [holding EXCEPT ![k] = @ \ {"unborn"}]
  /\ UNCHANGED <<venvVars, stage, cause, hookVars, live, escaped, outrun, outcome, announced, stopping, aim>>

\* setsid.
Escape(k) ==
  /\ k \notin escaped /\ "child" \in live[k] /\ forker[k] # "child"
  /\ escaped' = escaped \cup {k}
  /\ UNCHANGED <<venvVars, stage, cause, hookVars, live, holding, forker, outrun, outcome, announced, stopping, aim>>

CloseOutput(k, p) ==
  /\ k \in Forking
  /\ p \in holding[k] /\ forker[k] # p
  /\ holding' = [holding EXCEPT ![k] = @ \ {p}]
  /\ UNCHANGED <<venvVars, stage, cause, hookVars, live, escaped, forker, outrun, outcome, announced, stopping, aim>>

Exit(k, p) ==
  /\ p \in live[k] /\ forker[k] # p
  /\ live' = [live EXCEPT ![k] = @ \ {p}]
  /\ holding' = [holding EXCEPT ![k] = @ \ {p}]
  /\ escaped' = IF p = "child" THEN escaped \ {k} ELSE escaped
  /\ UNCHANGED <<venvVars, stage, cause, hookVars, forker, outrun, outcome, announced, stopping, aim>>

\* What the interpreter starts inherits the output of the creation.
CreationForks ==
  /\ "leader" \in creation
  /\ creation' = Processes
  /\ UNCHANGED <<venv, callVars, announced, stopping, aim>>

CreationExits(p) ==
  /\ p \in creation
  /\ creation' = creation \ {p}
  /\ UNCHANGED <<venv, callVars, announced, stopping, aim>>
-----------------------------------------------------------------------------
(***************************************************************************)
(* KillAll.                                                                *)
(***************************************************************************)

\* The commands to stop are read under the lock, and stopped without it.
ReadRunning(o) ==
  /\ stopping' = [stopping EXCEPT ![o] = Tracked]
  /\ UNCHANGED <<venvVars, callVars, announced, aim>>

Announce(o, k) ==
  /\ aim[o] = NoCall /\ k \in stopping[o]
  /\ aim' = [aim EXCEPT ![o] = k]
  /\ announced' = announced \cup {k}
  /\ UNCHANGED <<venvVars, callVars, stopping>>

CancelFirst(o, k) ==  \* mutant: the loop ends with the first command
  /\ aim[o] = k
  /\ aim' = [aim EXCEPT ![o] = NoCall]
  /\ stopping' = [stopping EXCEPT ![o] = {}]
  /\ EndContext(k, "operator")
  /\ UNCHANGED <<venvVars, stage, hookVars, procVars, outcome, announced>>

CancelUnannounced(o, k) ==  \* mutant: it does not wait for the announcement
  /\ k \in stopping[o]
  /\ aim' = [aim EXCEPT ![o] = NoCall]
  /\ stopping' = [stopping EXCEPT ![o] = @ \ {k}]
  /\ EndContext(k, "operator")
  /\ UNCHANGED <<venvVars, stage, hookVars, procVars, outcome, announced>>

\* The cancel function of an execution that has returned does nothing.
CancelAimed(o, k) ==
  /\ aim[o] = k
  /\ aim' = [aim EXCEPT ![o] = NoCall]
  /\ stopping' = [stopping EXCEPT ![o] = @ \ {k}]
  /\ EndContext(k, "operator")
  /\ UNCHANGED <<venvVars, stage, hookVars, procVars, outcome, announced>>
=============================================================================
