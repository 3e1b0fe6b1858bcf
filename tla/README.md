# mcp-sandbox in TLA+

A verification development of [mcp-sandbox](../src/README.md): a server that gives
AI agents sandboxes to run commands in, on a pool of workers that dial in to it,
with a live terminal and an emergency stop for the humans who watch.

The modules are translated from the Go and JavaScript sources under `src/`.
`PROJECT.json` names, for every definition, the lines it stands for.

## 1. Inventory

| Component | Source | State | Operations |
|---|---|---|---|
| Worker hub | `internal/workerhub` | live connections by worker name, the pin of each agent, per connection the next request id, the waiters by id, whether it is closed | accept, hello, deliver, drop; exec, read, write, list, delete, status, kill |
| Worker link | `internal/workerlink` | the current socket, cancel functions by request id | dial, hello, read, redial; handle, cancel, forward an event |
| Worker protocol | `internal/workerproto` | none | frames; the arithmetic of the limits and their validation |
| Terminal stream | `internal/stream`, `internal/restapi/stream.go`, `web/src/components/Terminal.jsx` | per sandbox a ring of retained events and its subscriptions; per page the last event number | publish, subscribe, unsubscribe, replay, live delivery, reconnect |
| Command execution | `internal/sandbox/sandbox.go`, `internal/procexec` | the cancel function of every running command; its process group and pipes | exec, timeout, stop, kill |
| Sandbox files | `internal/sandbox`, `internal/sandboxop` | directory of the agent | stat, read, write, list, delete, by the worker or by a helper running as the agent |
| Sandbox manager, user ids | `internal/sandbox/manager.go`, `uidpool_unix.go` | the sandboxes that exist, the user id that owns each directory | get, kill, assign, adopt |
| Python environment | `internal/sandbox/venv.go` | created once per sandbox | ensure |
| Emergency stop | `internal/restapi/sandboxes.go`, `internal/storage/sandbox_block_repo.go`, `internal/tools/sandbox/block.go` | block rows, one active per agent | block, release, check before every tool call |
| Tool call journal | `internal/tools/sandbox/audit.go`, `internal/storage/audit_repo.go`, `internal/restapi/tool_calls.go` | rows, two per call | append, prune, list |
| MCP tools | `internal/tools/sandbox`, `internal/mcpserver` | none | one tool per operation |
| Agent credentials | `internal/auth`, `internal/storage/actor_repo.go`, `internal/restapi/agents.go` | actors and token hashes | create, rotate, delete, authenticate |
| Human login | `internal/humanauth`, `internal/storage/human_repo.go` | sessions, human actors | login, callback, refresh, logout |
| Server and worker processes | `cmd/executor`, `cmd/worker`, `internal/health` | readiness | boot, degraded boot, prune loop, shutdown |
| Local helper | `cmd/executor-local`, `internal/localmcp`, `internal/localexec` | none shared | exec, file operations |
| Operator API and pages | `internal/restapi`, `web/src` | none | routing, rendering |

How they interact: an agent's tool call is authenticated, journalled, checked
against the block row, and becomes a call of the hub. The hub pins the agent to a
worker and sends a request frame over that worker's WebSocket; the worker performs
it in a goroutine of its own and answers with a result frame. What the command
prints goes the same way as event frames, into the ring of its sandbox, and from
there to every browser tab subscribed to it. An operator's stop writes the block
row, then calls the hub like an agent does.

The hard parts are where those goroutines meet: a call between its routing and its
registration while the connection is being dropped; a result, a cancel and a drop
for one waiter; a worker that redials while its commands run on; a second server or
worker of the same name; watchers that lag, reconnect or outlive the server; a stop
among commands that are just starting or refuse to die; two requests that refresh one
session or create one human; a server that finishes its start while it is probed; a
worker that dies in the middle of handing a directory over.

### What makes each part correct

- *Hub*: one connection per worker name; pins name live connections; an agent's
  files are in one place; every call returns; nobody's reader blocks; nothing leaks.
- *Link*: an answer belongs to its request; a cancel reaches its operation; a
  reconnection loses no sandbox.
- *Stream*: a screen shows every event in order, once, or says how many it cannot.
- *Execution*: a command ends at its timeout or at a stop with everything it
  started, and the call returns.
- *Stop*: once in force, no command runs and none starts until the release.
- *Files and limits*: no frame is larger than its receiver reads; what the caps allow is
  carried; what they forbid is not written; a worker that lost its connection comes back.
- *Journal*: a call leaves a started row, then a finished row that tells the truth.
- *User ids*: two agents never share one, across restarts of the worker; a directory
  is handed over whole.
- *Login*: a session ends at logout; a row that stays holds the token the provider
  accepts; a human has one actor, and a role that was taken away takes effect. (Where
  the provider rotates tokens, tabs that refresh together can end the session: the one
  that is refused deletes the row the other has just saved, `oidc_provider.go:93-95`.)
- *Credentials*: what was revoked stays revoked.
- *Server*: one that comes up late is the same server, and is not ready before it is.

## 2. Order of the work

1. `WorkerHub` – the hub against arbitrary workers. *(checked, proved)*
2. `WorkerLink` – hub and real workers composed; implements `WorkerHub`. *(checked, proved)*
3. `HonestTerminal`, `TerminalStream` – the stream and the promise it implements. *(checked, proved)*
4. `SandboxExec`, `EmergencyStop` – commands and the stop. *(checked, proved)*
5. `ServerProcess`, `ToolJournal`, `ServerJournal` – the server's life and the journal
   it keeps. *(checked, proved)*
6. `IdRegister`, `UidPool` – user ids and the handing over of directories. *(checked, proved)*
7. `HumanSessions`, `HumanRequests`, `ActorDirectory`, `Accounts` – sessions, humans,
   agents and credentials under concurrent requests. *(checked, proved)*
8. `FrameLimits`, `FileTransfer` – sizes, file operations and the handshake that ties
   them together. *(checked, proved)*

What could follow: the listings a directory read returns while the directory changes;
the local helper.

## 3. Modules

### WorkerHub

`internal/workerhub` as the code is structured: one goroutine per connection
(`serve`, ending in `drop`), one per call (`call`, `WriteFile` with its earlier
check, `Kill` with its reading of "no worker"). `Hub.mu` guards `workers` and
`assignments`; `worker.mu` guards `nextID`, `pending` and `closed`. An action is one
critical section, or the channel or socket operation between two of them:

| Code | Action |
|---|---|
| `Handler` accepts; `serve` refuses or registers | `Accept`, `RefuseHello`, `AcceptHello` |
| `deliver` looks up and deletes; sends on the channel | `DeliverResult`, `FillWaiter` |
| `drop`: unregister; close and take `pending`; fail the waiters; tell watchers | `Unregister`, `Close`, `FillWaiter`, `PublishOrphaned` |
| `WriteFile`'s check; `call`: route, register, send, wait, cancel | `CheckWrite`, `Route`/`NoWorker`, `Register`/`FindClosed`, `Send`/`SendFails`, `TakeAnswer`/`GiveUp`, `SendCancel` |

The worker is an *arbitrary* environment: it may claim any name and agents, declare
any limits, answer any id at any time, repeatedly or never, and its connection may
end at any point. What holds here therefore holds whatever workers do.

### WorkerLink

EXTENDS `WorkerHub` with the other end: `Link.Run`'s loop of sessions, one handler
per request, `inflight`, and per connection two FIFO channels that die together.
Every step of the hub that touches the socket is the `WorkerHub` action conjoined
with what it does to the channel. Handlers run under the context of `Run`, outlive
a session, and write to the connection the worker has by then – as the code does. A
handler that has sent its answer (`SendResult`) is still filed until its deferred
functions have run (`EndTask`), which delete whatever is filed under its id by then.
Commands are single operations here: begin, print, end; kills cancel the commands
`KillAll` would find. A worker may be restarted at any time with everything it holds.

### HonestTerminal, TerminalStream

`HonestTerminal` is the promise: show the next event, or declare how many are
missing and show the one after. `TerminalStream` is the ring with its budget and
eviction, subscriptions with a bounded channel, the handler that writes gap, replay
and queue, and the page's resume position. It implements the promise under
`published <- nextSeq - 1`. After a restart of the server the numbering starts over;
the promise then lets a screen that had shown something resume anywhere, once,
because the code does – see section 5.

### SandboxExec, EmergencyStop

`SandboxExec` is one agent's sandbox: `ExecCommand` from its entry to its return,
with the creation of the virtual environment that later calls wait for, the
processes it starts, the end of its context (deadline, caller, operator) and the
`Cancel` hook, and `KillAll`, which copies the running commands under the lock and
then announces and cancels them one by one without it.

| Code | Action |
|---|---|
| `ExecCommand`: entry; errors; `cmd.Start` | `Begin`; `Refuse`; `Start` |
| `ensureVenv`, `createVenv`; the end of its context | `MakeVenv`, `VenvOver`, `FindVenv`; `CutCreation` |
| `trackRunning`; pumps and `cmd.Wait`; the switch on `execCtx.Err()`; return | `Track`; `Reap`; `Verdict`; `Return` |
| `context.WithTimeout`; `Link.cancel` | `Deadline`; `Abandon` |
| `cmd.Cancel`: one pass of `KillGroup` with the sleep before it | `Pass` |
| `KillAll` | `ReadRunning`, `Announce`, `CancelAimed` |
| the program and its children | `Fork`, `Born`, `ForkFails`, `Escape`, `CloseOutput`, `Exit` |
| the interpreter that creates the environment, and its children | `CreationForks`, `CreationExits` |

A command is cancelled through its context, and nothing watches the context before
`cmd.Start` or once `cmd.Wait` has reaped the program; that is why `cause` (the
context has ended), `passes` (the hook has signalled) and `killed` (the hook is over)
are three variables. What `os/exec` does, which is not part of the repository, is
modelled from how `ExecCommand` uses it: `Start` refuses an ended context, `Wait` waits
for a hook that has begun.

The kill takes the passes it has in the code, because the group may grow between them.
A fork is two steps, `Fork` and `Born` or `ForkFails`, and a pass may fall in between: it
ends the parent, and the child is born into the group all the same, with the pipes that
were copied for it (`"unborn"`), and may be in the middle of a fork itself when the next
pass comes. `outrun` is a history variable: the passes after which that has happened. The
hook is over with the last pass, or with one that found nobody (`ESRCH`). One thing is
assumed of time: the sleep before the next pass (`killPassDelay`, 20 ms) outlasts a fork
that the last one has caught. After the last pass nothing is assumed.

The environment is created under `venvOnce`: a call waits for it whatever has become of
its own context, and `Refuse` is possible only afterwards. `CombinedOutput` waits for
every process that holds the output (`creation`), and the end of the context – two
minutes, or the caller's end – kills the interpreter only, since the command has no
`Cancel` of its own and no `WaitDelay`.

`EmergencyStop` EXTENDS it with the block row (`active`), the check each tool call
makes (`Check`), the way to the sandbox (`Lose`, `Reach`), and one handler per press
of the button: `Record`, then `Sweep` to `Swept`, or `KillFails`; `Release` at any
time, also in the middle of a sweep. `stragglers` is a history variable: the calls
that were under way and not tracked when a sweep read the running commands – on
their way, waiting for the environment, or between `cmd.Start` and `trackRunning`.

### ServerProcess, ToolJournal, ServerJournal

`ServerProcess` is `cmd/executor` from its start to its end: `storage.Open` answers and
`serveReady` serves, or it fails and `serveDegradedUntilReady` listens without the
application, until `retryOpenUntilReady` has the database; it then stores the routes
and swaps the readiness checker, in two steps, with a probe free to copy the checker
before and ask it after. `ToolJournal` is `audited`: name the worker, append the
started row, let the handler run (refused by the block, routed and served, or failed),
work the outcome out, ask for the worker again, append the finished row. Either insert
may fail, the pin may move at any time, and rows are deleted one by one once aged.
`ServerJournal` composes them: calls are served while the application is, inserts
succeed while the database is up, pruning lives as long as the start that launched it,
and the end of the process cuts calls where they are.

### IdRegister, UidPool

`GetSandbox` and `assignUID` under the manager's lock, one action per call to the
file system: `Return` for a directory that has its owner, else `Pick` (`nextFreeUID`),
`Make`, `Own` and `Mode` (`adoptDir`), `Walk`, `HandEntry` per entry, deepest first, and
`HandDirectory` last. The worker may `Crash` between any two of them, which loses the
instances and nothing on the volume; agents create entries meanwhile (`Create`),
also closed ones; an operator reaps directories of agents that are not running. A
directory is a chain of entries, the shape in which order and descent matter.

`IdRegister` is what all this promises: an id that nobody else has is given to an agent
in one step and is its own until its directory is removed, and an agent runs as its id
or not at all. `UidPool` implements it with the id of a directory that has changed hands
(`HeldId`) and the user of a sandbox that is open (`RunningAs`): handing a directory over
takes any number of steps, is cut off anywhere and begun anew with another id, and is
`Assign` when `HandDirectory` ends it. A migration of a directory from a former life is
an assignment like any other.

### HumanSessions, HumanRequests, ActorDirectory, Accounts

`HumanSessions` is the login flow, logout, and `OIDCProvider.Authenticate` as the three
steps it takes without a lock: read the row, ask the provider, write or delete the row.
The provider is external: it may rotate refresh tokens and refuse an old one, and the
human's groups change. A human may have several browsers: a login replaces the cookies
of the one it is made in. `ActorDirectory` is `GetOrCreateHumanActor` as its statements and
its transaction, the creation of agents (a probe for the name and an insert), and
tokens: issue, revoke, revoke all, and authentication by one, which reads the row and
later writes `last_used_at` to it. `Accounts` composes them the way the middleware does:
authenticate, provision, and with the role of the claims administer agents.
`HumanRequests` declares what both share.

### FrameLimits, FileTransfer

`FrameLimits` is `workerproto.Limits` with Go's wrapping ints: `FrameBytes`,
`MaxPayloadBytes`, `Validate`, and the flags a worker starts with. `FileTransfer` uses it
on both ends of a connection:

| Code | Action |
|---|---|
| worker's `main` and `New`; `session`; `serve` up to its loop; `drop` | `Start`; `Dial`; `Accept`, `Refuse`; `Drop` |
| `WriteFile`'s look at the file cap; `call`; its answer or its end | `CheckWrite`; `Ask`, `AskWrite`; `Deliver`, `Abandon` |
| `read_file`: `Stat`, then `ReadFile` | `Stat`, `ReadFile` |
| `write_file`: the worker's own check and `O_TRUNC`; the content | `Open`, `Fill` |
| an operation that fails at once, or in the middle (the helper's timeout) | `FailEarly`, `BreakOff` |
| `list_dir`, `delete_file`, `exec` | `ListDir`, `DeleteFile`, `StartCommand`, `CommandEnds` |

The two sides weigh payloads separately: the server against what the connection
declared, the worker against its own caps, which a restarted worker may have been given
anew, so a write is measured in one life and carried out in another. Content has a
size and a weight, the number of bytes JSON makes of each of its bytes (1 to 6). The
hello names every sandbox the process holds, and its size is weighed as well.

What is simplified: one file per sandbox; a write that breaks off leaves the file empty
or whole, never a part; Status and Kill, whose frames are small, are left to `WorkerHub`;
error texts are taken to fit the envelope (`workerlink.go:291` does not weigh them), and
so are the events of streamed output, which `New` sizes against the payload
(`workerlink.go:115-123`) without the escaping that could make a chunk several times as
large under very small caps.

## 4. Runs

| Run | Instance | Shows |
|---|---|---|
| `hub_redial` | 3 connections, 2 names, 1 agent, a write and an exec | registry, pins, one sandbox per agent, sticky routing |
| `hub_calls` | 2 connections, 2 agents, a write and a kill, two limits | no lost, leaked or blocked waiter; calls return (liveness) |
| `link_safety` | 2 connections of one worker, 2 execs of one agent | answers and cancels within a connection reach whom they are for, no stale cancel handle |
| `link_returns` | 1 connection, an exec and a kill | every call returns (liveness) |
| `stream_promise` | 2 watchers, 5 events of two sizes, 1 break, 1 restart | seamless history, the refinement, catching up (liveness) |
| `stop_safety` | 2 executions, one forks, 2 passes of the kill, a reusable button | what a stop leaves running, what is told of it, what a kill leaves of its group; a call that never returns is held up by a process the code does not reach, a blocked agent comes to rest (liveness) |
| `server_journal` | 1 call, 2 workers, a database that comes and goes, restarts | what the journal lacks, says and keeps; readiness; the server comes up (liveness) |
| `uid_pool` | 3 agents, 2 ids, directories two entries deep with a former owner | ids are not shared, handovers are whole, the refinement of the register |
| `accounts` | 2 requests and a session of 1 human, 2 names, 1 credential, 1 rotation | sessions, logout, provisioning, revocation; a demotion takes effect (liveness) |
| `file_transfer` | 1 worker, 4 pairs of caps, 2 calls, 2 contents | frames fit, caps hold and carry, the worker comes back (liveness) |
| `link_stale_answer` | as `link_safety` | finding: an answer to somebody else's request |
| `file_hello` | as `file_transfer`, one more sandbox | finding: a hello the server cannot read |

The type invariants are proved (section 6) and not run. The theorems also state some
safety properties that no run lists; each was checked in a run's configuration before it
was proved, and can be put there again like those of section 5. `AnswersFromItsWorker`
needs a second worker name to mean anything; two of them are too many states for a run.

### Bounds

- *Conns* (2 or 3): a drop and a redial need two connections; a duplicate name while
  a third is dropped needs three. Connections are used once, so the number is also
  the number of reconnections.
- *Calls* (2): the hazards are between two calls, or a call and the connection.
- *MaxID* (2): as many request ids as calls, so the bound never disables a call.
- *MaxUp* (1): a worker queues one event at a time; results and hellos are never held
  back by it.
- *Limits*: one choice that admits each payload and one that refuses both.
- *MaxSeq* (5), *Queue* (1), *Limit* (2) with sizes 1 and 3: a ring that holds two
  events, an event larger than the whole budget, and a queue that is full after one
  event, so eviction, gaps and lag all happen, also several times in a row.
- *MaxDrops*, *MaxRestarts* (1): one of each, at any moment.
- *Forking* (1 of 2 executions): one program that
  leaves children behind is enough to keep its call, its slot and a sweep busy; the
  other shows that they do not harm it. A program has one child at a time, in its group
  or in a session of its own, holding the output or not, and as many of them in
  succession as it likes; a child that forks leaves its place to the new one.
- *KillPasses* (2; the code makes 3): with two there is a first pass, one that catches
  the child the first has missed, one that finds nobody, and a group that outruns them
  all. The third repeats the second; the instance holds with it as well, and what a
  kill leaves is proved for any number.
- *Stops* (1), *Calls* of the sandbox (2): the button and the executions are slots
  used again and again, so presses, releases and calls repeat without end. A slot is
  taken again when no process of the last execution lives.
- `server_journal`: rows of different calls meet nowhere in the code, so one call is
  enough, against a server that restarts, and a database that fails, without bound.
- `uid_pool`: two ids for three agents, so that the pool runs out; *Depth* 2 is an entry
  behind a directory that may be closed.
- `accounts`: *MaxToken* 1, one rotation, which two requests race for; one human in TLC,
  any number in the proofs.
- `file_transfer`: sizes keep the order of the real ones, next to each other:

  | | code | instance |
  |---|---|---|
  | ints | 64 bits | -128..127 |
  | envelope; frame fields | 64 KiB; some hundred bytes | 8; 8 |
  | hello limit; an agent id; the rest of a hello | 8 KiB; 39; about 200 | 6; 2; 2 |
  | ceiling | 64 MiB | 64 |
  | chunk | 16 KiB | 4 |
  | default file and output cap | 8 MiB, 512 KiB | 6, 2 |

  The flags are a pair bounded by its output cap, one bounded by its file cap with the
  output's default, one so large that doubling wraps below zero, and one that `New`
  refuses. The contents are over some of the caps and under others, plain and wholly
  escaped. One worker that restarts with other flags shows what re-pinning to another
  worker would; the proofs are for any number. *MaxOthers* is 1 where the hello has
  room for everything, 2 in `file_hello`, where it has not. Calls are slots, used again
  once neither caller nor handler needs them.

Connections are symmetric where no liveness is checked, and so are the agents of
`uid_pool`. Deadlock is checked in `stop_safety`, `server_journal`, `uid_pool`,
`accounts` and the `file_*` runs. It is not in the others: calls are made once and
connections used once, so every instance comes to rest.

### Fairness

Goroutines are scheduled, so what a goroutine can do by itself it eventually does:
`Reader`, the steps of a call that began, the handler of a watcher, the handler of a
request (commands have a timeout, hence `FinishTask`), the reader of a session. A
socket that is alive delivers. In `EmergencyStop` the goroutine of an execution runs
(`Moves`), its deadline passes – `WithDefaults` makes every timeout positive –, the hook
makes its passes, the kernel ends every fork one way or the other, the interpreter that
creates the environment is killed after two minutes, and a `KillAll` that began works
through its commands. Nothing is assumed of what that interpreter has started. Programs
need not exit, fork or fall silent, agents need not call or give up, operators need
not press or release. Nothing is assumed of when calls are made or given
up, of the network, of redials and restarts, or of what a worker answers.

In `ServerJournal` the steps of a start are fair, the orchestrator's restart and the
retries of the database among them, and so is the hourly pruning; the database need
not stay up, and the process may end at any time. In `Accounts` a session's interval
passes and a request is handled to its end; nothing is assumed of browsers, the
provider or agents. In `FileTransfer` `Run` redials for ever, `serve` refuses or returns
and `drop` follows it (weak fairness of `Dial`, `Refuse` and `Drop`); and some redial is
not cut off by the network before its hello has been read (strong fairness of
`Accept`), without which no protocol could promise a connection.

## 5. Findings

Disagreements between what the sources say and what the code does. Two are shown by a
`violation` run:

- `AnswersItsRequest` (`link_stale_answer`): ids restart at 1 on each connection,
  handlers outlive connections, and answers go out on the current one.
- `ComesBack` (`file_hello`): the hello of a redial names every sandbox the process holds
  (`workerlink.go:203-213`), none of which ever leaves the manager, and the server reads
  it under `HelloFrameBytes`, 8 KiB (`workerhub.go:139`), "enough for the hello frame and
  nothing else" (`workerproto.go:64`). At 39 bytes an id, a worker that came to hold a
  little over 200 agents – the example range of `--uid-range` has room for 1000 – is
  refused at every redial until its process ends, and its sandboxes with it. The test
  that weighs a hello (`workerproto_test.go:79`) weighs one without agents.

The modules state the following ones too, as properties no run lists. To see one, put
the property into a copy of the run's configuration in place of the others:

| Property | Configuration | What TLC shows |
|---|---|---|
| `CancelIsObeyed` | `LinkReturns` with `SPECIFICATION PatientLinkSpec` and `ExecKindOf` | the reader handles a cancel (`workerlink.go:264`) before the goroutine of its request has registered anything to cancel; workerproto.go:134-137 says the worker cancels it. A patient command runs on unless it is cancelled, since the question is whether the cancel, not the timeout, ends it |
| `WorkCanBeCancelled` | `LinkSafety` | a handler of an earlier session files its cancel function under the id of a request of this connection (`workerlink.go:280`), or deletes that request's (`workerlink.go:284`); a cancel, which "abandons an in-flight request" (workerproto.go:135), then hits the old operation or none |
| `KillOfNothingIsTrue` | `LinkSafety` with `KillKindOf` | an agent whose worker is away may have a command running, where ops.go:82-84 says it has nothing running; for the same reason the notice "anything running has stopped" need not be true |
| `NoSilentJump` | `StreamPromise` | positions of an old server are taken for numbers of the new one (`ringbuffer.go:76`), where README.md:425-428 promises a gap rather than a silent jump |
| `NoChildOutlivesTheStop` | `StopSafety` | a program that exits by itself leaves the children in its group alone and `KillAll` no longer knows it (`sandbox.go:449`), where README.md:210-211 says a backgrounded child cannot outlive the stop button |
| `TwoPassesSuffice` | `StopSafety` with `KillPasses = 3` | a child that the first pass of the kill has missed may be forking when the second one comes, where procgroup_unix.go:82-83 says that "after the first pass there are none left to fork"; the same can befall the third |
| `CreationIsBounded` | `StopSafety` | a child of the interpreter that creates the environment holds the output past the two minutes, and `CombinedOutput` (`venv.go:83`) and every call of the sandbox wait for it, where venv.go:24-27 calls the creation bounded "because an agent's first command is waiting behind it" |
| `EscapeCannotHoldTheCall` | `StopSafety` | the pipes are read to their end (`sandbox.go:466`) before `cmd.Wait`, so the `WaitDelay` meant for an escaped child that holds one (procgroup_unix.go:21-24) never starts |
| `RetentionKept` | `ServerJournal` | a server that came up without its database never prunes: `main.go:322` starts no pruning loop, where main.go:388-390 speaks of a server that stays up for a month |
| `WalkReachesEverything` | `UidPool` | a directory that was closed by its owner before the worker takes it over, or given away by a handover that did not end, blocks the walk of every later start, where uidpool_unix.go:203 says the ownership step makes the first start against an existing volume work |
| `ReadLimitIsBounded` | `FileTransfer` | a file cap just under half the largest int passes `Validate` with a frame size that has wrapped below zero, and the connection is read without any limit |

Most of these leave something that does hold, stated and proved beside them:

| Does not hold | What holds instead |
|---|---|
| `AnswersItsRequest` | `AnswersWithinConnection`: never on one connection. `AnswersFromItsWorker`: a wrong answer is still that of the worker the call was sent to |
| `CancelIsObeyed` | `CancelsHitTheirOwn`: a cancel may come to nothing, but on its own connection it hits nobody else, and its caller has left |
| `ComesBack` for any number of agents | `TurnedAwayForCause`: a worker is refused for its former connection or for the agents it holds, never for its limits |
| `WorkCanBeCancelled` | `NoStaleCancelHandle`: a handler that has returned leaves nothing filed, under its own id or another's |
| `NoSilentJump` | `KeepsPromise`: a page that has not seen a restart skips exactly what it declared; `OnlyEvictedAreMissing`: and that is no longer retained |
| `NoChildOutlivesTheStop`, `TwoPassesSuffice` | `KillsAreComplete`: of a group that was killed a member lives only if a child was born after every pass. `OnlyStragglersRun` |
| `EscapeCannotHoldTheCall`, `CreationIsBounded` | `CallEnds`: nothing but an escaped child, one that outran every pass, or what the creation left behind can hold a call up for ever |
| `WalkReachesEverything` | the same formula under `FreshSpec`: on a volume that no agent had a directory on when the worker came to it, no walk is ever blocked |
| `ReadLimitIsBounded` | `ModestReadsAreBounded`: caps whose sums do not wrap leave every connection a limit between the envelope and the ceiling |

What a stop does not promise, and `OnlyStragglersRun` delimits: a call that passed the
block check before the block was recorded may still start its program afterwards. What
a logout does not, and `LogoutEndsTheRow` delimits: a refresh that was under way saves
the session's row again. What a re-pin does to the journal, and
`WorkerIsTheOneThatServed` delimits: a call re-pinned under way is filed under the worker
it was named for.

## 6. Proofs

Checked by TLAPS for any number of agents, workers, connections, calls, humans and
sessions, and for any sizes.

`WorkerHubProofs`: the inductive invariant `HubInv` is the type invariant with
`RoutingInv` (the registry, the pins and where routed calls are) and `WaiterInv`
(ids are unique, a pending entry is a call that waits unanswered under that id, and
what the reader holds is empty). The properties are not inductive by themselves:
that a waiter is not lost, neither to a result nor to a drop that took the pending map
away, needs that an entry is pending under the id its call has; that the reader
does not block needs that an entry is pending only while its channel is empty, which
needs that no id is handed out twice. One lemma per group of actions, then
`TypeCorrect`, `RegistryConsistent`, `AgentHasOneSandbox`, `ReaderIsNeverBlocked`,
`WaiterIsNeverLost`, `PendingHoldsWaiters`, `NamesAreUnique` and, from the same
invariant, the action property `RoutingIsSticky`.

`WorkerLinkProofs`: `LinkImplementsHub` – every step of the composition is a step of
the hub or leaves its variables alone, so all of the above carries over – and
`LinkInv`, which adds that frames in a channel name calls of that connection under
their ids (`FrameInv`) and that what is in a waiter came with such a frame or from a
handler of an earlier session (`AnswerSound`); from it `LinkTypeCorrect`,
`AnswersStayWithinConnection` and `LinkedAgentHasOneSandbox`. `HandlesAreNotStale` needs
more: were a request read twice, the second reading would take its handler back to the
start with its cancel function filed. `RequestInv` says that a request is on one socket,
once, and that nothing was done for it while it is there; with `FiledInv`, which says
whose a filed function is, it is inductive. `CancelsStayWithinConnection` adds
`CancelInv`, that a cancel on a socket is for a call of that connection that has returned:
the function filed under its id belongs to a call of the same id (`FiledInv`), and on one
connection there is one such call (`UniqueIDs`).

`AnswersComeFromTheWorker` is about who speaks on a connection. `OneAuthor` traces every
connection to one worker at most, by three things that must agree: who is linked to it,
who signed the frames on it, and which name its hello gave the hub. No one of the three
is inductive, since a worker is linked before anything is written, may be restarted while
what it wrote is still to be read, and is known to the hub only by what is read. Dialling
an unused connection is the only step that adds an author, and to one that has none.
`AnswersAtHome` follows the answer from there through `deliver`, the waiter and the return.
`HubPromisesHoldWithWorkers` states for the composition what `LinkImplementsHub` carries over.

`TerminalStreamProofs`, for any number of watchers and any budget: `StreamInv` says
that the ring is numbered without a break up to the newest event (`RingInv`), that what
a watcher is still owed begins right after its position or right after what it is told
is missing, and reaches the newest event while its subscription is open (`OwedInv`), and
that what a page calls missing is no longer retained (`PageInv`). `Seamless` alone is
not inductive: it does not say where the owed events begin, which is what the next
subscription and the promise depend on. From it `StreamTypeCorrect`, `HistoryIsSeamless`
and `StreamKeepsPromise`: a publish is a publish, a gap frame a `Declare`, an event
written a `Show` or, for a page of an earlier server, a `Resume`, a restart a restart,
and nothing else is visible on the screen. From the same invariant two things the
promise does not say: `MissingIsEvicted` (a gap never hides an event that could have been
shown), and `WhatIsKeptIsBounded`, that neither the ring nor a channel outgrows its bound
while watchers are slow.

`EmergencyStopProofs`, for any number of executions, presses and passes: `IInv` is the
type invariant with `StageInv` (a program lives only between `Start` and `Reap`, one that
was signalled has a context that has ended, a verdict agrees with it), `ForkInv`, `KillInv`,
`SweepInv` and `AimInv` (what `KillAll` is about to cancel it has read and announced).
`OnlyStragglersRun` speaks of a sweep that is over; by itself it is not inductive, because
a release, a second press and the calls admitted in between could undo what was swept.
`SweepInv` says what is true from the moment of the sweep on: as long as that block is in
force, each call that is not a straggler is not admitted anew, and has returned, been
cancelled, is still on the sweep's list or has nothing left to run. From it `TypeCorrect`,
`OnlyStragglersSurvive` and `ToldHonestly`.

`OnlyOutrunKillsLeaveAnyone` is the argument for repeating the kill. `KillsAreComplete`
speaks of a hook that is over; what is true after every pass (`Converging`) has two parts
that depend on each other. A live member of the group means that a child was born after
each pass so far; a fork under way means that one was born after each pass but the last,
since its parent was alive when the last one came. A birth turns the second into the
first, a pass the first into the second. A hook that ends early has found neither a member
nor a fork, so nothing can be born afterwards.

`ServerJournalProofs`: `JournalInv` adds to the five safety properties of the journal
what their steps rest on: `ProcSound` (a checker that can say ready has its routes,
also the copy a probe holds), `CallSound` (what a call has left behind at each step),
`RowsSound` (of a call's two rows the finished one is never the older, so pruning takes
the started one first) and `PinSound` (what the pin was when it was asked for).
`EveryRowHasOneFate` needs `FateInv` besides, which adds that what a finished row says has
been worked out. With it `JournalOnlyEverGrows`, an action property: apart from pruning
nothing leaves the journal, and nothing in it changes or comes back.

`UidPoolProofs`: `PoolInv`. That no two directories get one id rests on the lock:
`HandoverSound` says that the id picked is still free at every step until
`HandDirectory` gives it away, last, which makes `OneAgentPerId` and `HandedOverWhole`
true in one step. From it also `IdsAreKept`, that an agent keeps its id for as long as
its directory stays, and `PoolKeepsRegister`, the refinement: every step of a handover but
the last leaves the register alone, and the last finds the id free and the agent without
one. `FreshVolumeIsWalked` uses the same invariant from a smaller set of initial states,
with `EmptyUntilGiven`: what no agent was given has nothing in it.

`AccountsProofs`: `SessionInv` and `DirectoryInv`, invariants of the two halves which the
composition conjoins. `TokensSound` says who holds the token the provider accepts: where
tokens can be used once, exactly one request does, until it saves it. `ProvisionSound`
says what a request knows at its step; with the transaction it gives
`HumansHaveOneActor` and `FailureMeansConflict` for any number of humans racing for any
names. Also `RevocationIsFinal`, and `RevocationIsOnce`: of the revocations of one
credential one is answered as done. Four theorems tie the halves together:
`TokenHasOneWinner`, `RequestsActForTheirHuman` (which no step of either half could say of
the other), from it `ManagingTakesAnAdmin`, that agents and credentials change only while
some admitted administrator has found its own actor, and `RowsStayForGood`.

`FileTransferProofs`: `TransferInv` says that a process runs under limits `New` accepted,
that a live connection knows the limits of the process at its other end (`WorkerInv`),
and that each frame under way was weighed against those (`CallInv`). `FramesAlwaysFit`
then holds for all flags, wrapped sums included: the payload limit is the read limit
less the envelope, and what wraps to a negative read limit is no limit.
`CapsAreCarried` needs `Modest` caps, whose sums are exact. `FileCapIsKept` rests on the
worker's own check, which uses its own limits rather than those the server measured by.
`ModestReadLimits` and `LimitsNeverTurnAway` are the two halves of what the handshake does
with limits: what it accepts it can read under, and what a worker starts with it accepts.

Assumptions: `HubAssumption`, `LinkAssumption`, `StreamAssumption`, `ExecAssumption`,
`StopAssumption`, `JournalAssumption`, `PoolAssumption`, `SessionAssumption`, `DirectoryAssumption`,
`AccountsAssumption`, `SizesAssumption` and `TransferAssumption`, which say what the
constants are (worker names are ordered, each call has an agent, a kind and a size, the
null values are none of the others, sizes are positive ints, the fields of a frame fit
its envelope).

Only model-checked: liveness (`CallReturns`, `EveryCallReturns`, `CatchesUp`, `CallEnds`,
`RunawayStops`, `ComesUp`, `RetentionHonoured`, `DemotionTakesEffect`, `ComesBack`), which
is beyond the prover. Every safety property and refinement a run checks is proved. What
TLC shows not to hold (section 5) has its counterexample there and no proof.

## 7. Not modelled

- *MCP tools*: argument checks and wrapping around the operations of the hub; the state
  they touch is that of the journal, the block and the hub.
- *Local helper*: one user and one process that keeps nothing between calls; it runs a
  command the way `SandboxExec` does, without stop, tracking or hub.
- *Operator API and pages*: routing and rendering. *Test worker*: a fixture.

Inside the modelled parts: the check of the worker token and the WebSocket upgrade, the
contents of payloads and the wording of errors, what a command prints, the order of the
three signals within one pass of `KillGroup` (one step, between the steps of a fork),
a program with several children at once, paths and their confinement by `os.Root`,
symbolic links and what a listing contains, the lifetime of cookies and the key
that encrypts refresh tokens (one key, never changed), migrations, and the listing calls
of the API, which read the same state under the same lock. A database that fails does
so as a whole, and a reaped directory is one of an agent that is not running on its
worker, which uidpool_unix.go:197 leaves to the operator.
