----------------------------- MODULE WorkerLink -----------------------------
(***************************************************************************)
(* The hub together with the workers that dial it, internal/workerlink: a  *)
(* session goroutine that dials, says hello, reads and redials, and one    *)
(* handle goroutine per request.  The two ends share one WebSocket per     *)
(* session: a pair of FIFO channels that die together.                     *)
(*                                                                         *)
(* Handlers run under the context of Run, not of the session, so they      *)
(* outlive a lost connection, and they answer on whichever connection the  *)
(* worker has by then.                                                     *)
(*                                                                         *)
(* A handler is named by the call whose request it performs, and a result  *)
(* frame carries that call in place of a payload: Answers = Calls.         *)
(***************************************************************************)
EXTENDS WorkerHub, Sequences

CONSTANTS
  MaxUp       \* bound: frames a worker has queued on one connection

ASSUME LinkAssumption ==
  Answers = Calls /\ Calls \cap Failures = {} /\ MaxUp \in Nat

VARIABLES
  alive,      \* whether the socket still carries frames
  up, down,   \* frames on their way to the hub, and to the worker
  link,       \* Link.conn: the connection replies are written to
  phase,      \* where the worker's session goroutine is
  holds,      \* Manager.instances: the agents that have a sandbox there
  inflight,   \* Link.inflight: request id to the handler it would cancel
  task,       \* where the handler of a request is
  cancelled   \* whether its context has been cancelled

linkVars == <<alive, up, down, link, phase, holds, inflight, task, cancelled>>
allVars == <<vars, linkVars>>

Phases == {"redial", "dialed", "reading"}
UnderWay == {"executing", "finished", "answered"}
TaskStates == {"none", "spawned", "over"} \cup UnderWay

Hello(w) == [type |-> "hello", worker |-> w, held |-> holds[w]]
Result(k) == [type |-> "result", id |-> id[k], call |-> k]
Event(k) == [type |-> "event", call |-> k]
Request(k) == [type |-> "request", id |-> id[k], call |-> k]
Cancel(k) == [type |-> "cancel", id |-> id[k], call |-> k]

UpFrames ==
  [type : {"hello"}, worker : WorkerIds, held : SUBSET Agents]
    \cup [type : {"result"}, id : IDs, call : Calls] \cup [type : {"event"}, call : Calls]
DownFrames == [type : {"request", "cancel"}, id : IDs, call : Calls]

LinkTypeOK ==
  /\ TypeOK
  /\ alive \in [Conns -> BOOLEAN]
  /\ up \in [Conns -> Seq(UpFrames)]
  /\ down \in [Conns -> Seq(DownFrames)]
  /\ link \in [WorkerIds -> Conns \cup {NoConn}]
  /\ phase \in [WorkerIds -> Phases]
  /\ holds \in [WorkerIds -> SUBSET Agents]
  /\ inflight \in [WorkerIds -> [IDs -> Calls \cup {NoCall}]]
  /\ task \in [Calls -> TaskStates]
  /\ cancelled \in [Calls -> BOOLEAN]

LinkInit ==
  /\ Init
  /\ alive = [c \in Conns |-> FALSE]
  /\ up = [c \in Conns |-> <<>>]
  /\ down = [c \in Conns |-> <<>>]
  /\ link = [w \in WorkerIds |-> NoConn]
  /\ phase = [w \in WorkerIds |-> "redial"]
  /\ holds = [w \in WorkerIds |-> {}]
  /\ inflight = [w \in WorkerIds |-> [i \in IDs |-> NoCall]]
  /\ task = [k \in Calls |-> "none"]
  /\ cancelled = [k \in Calls |-> FALSE]

\* The worker a request was sent to.
Host(k) == wid[conn[k]]
-----------------------------------------------------------------------------
(***************************************************************************)
(* The network.                                                            *)
(***************************************************************************)

\* The socket dies.  What was written before may still be read at either end.
Break(c) ==
  /\ alive[c]
  /\ alive' = [alive EXCEPT ![c] = FALSE]
  /\ UNCHANGED <<vars, up, down, link, phase, holds, inflight, task, cancelled>>

\* The hub closes a connection it refuses.
HangUp(c) ==
  /\ alive' = [alive EXCEPT ![c] = FALSE]
  /\ up' = [up EXCEPT ![c] = <<>>]

\* l.send: written to the connection the worker has, or lost with it.
Write(w, frame) ==
  up' = IF link[w] # NoConn /\ alive[link[w]]
          THEN [up EXCEPT ![link[w]] = Append(@, frame)]
          ELSE up
-----------------------------------------------------------------------------
(***************************************************************************)
(* The worker: Run, session, handle, cancel.                               *)
(***************************************************************************)

\* Dial succeeds and the connection is published to every handler.
Dial(w, c) ==
  /\ phase[w] = "redial"
  /\ Accept(c)
  /\ alive' = [alive EXCEPT ![c] = TRUE]
  /\ link' = [link EXCEPT ![w] = c]
  /\ phase' = [phase EXCEPT ![w] = "dialed"]
  /\ UNCHANGED <<up, down, holds, inflight, task, cancelled>>

\* The agents held are collected and the hello is written.  A handler starting in
\* between is one that starts after: the hello does not name its agent.
SayHello(w) ==
  /\ phase[w] = "dialed"
  /\ alive[link[w]]
  /\ Write(w, Hello(w))
  /\ phase' = [phase EXCEPT ![w] = "reading"]
  /\ UNCHANGED <<vars, alive, down, link, holds, inflight, task, cancelled>>

\* The hello could not be written, or the read failed: back to Run.
EndSession(w) ==
  /\ phase[w] \in {"dialed", "reading"}
  /\ ~alive[link[w]]
  /\ phase' = [phase EXCEPT ![w] = "redial"]
  /\ down' = [down EXCEPT ![link[w]] = <<>>]
  /\ UNCHANGED <<vars, alive, up, link, holds, inflight, task, cancelled>>

Reads(w, type) ==
  /\ phase[w] = "reading"
  /\ down[link[w]] # <<>>
  /\ Head(down[link[w]]).type = type
  /\ down' = [down EXCEPT ![link[w]] = Tail(@)]

\* go l.handle(ctx, frame)
ReadRequest(w) ==
  /\ Reads(w, "request")
  /\ task' = [task EXCEPT ![Head(down[link[w]]).call] = "spawned"]
  /\ UNCHANGED <<vars, alive, up, link, phase, holds, inflight, cancelled>>

\* Link.cancel: whoever is in flight under that id is cancelled.
ReadCancel(w) ==
  LET i == Head(down[link[w]]).id
      k == inflight[w][i]
  IN  /\ Reads(w, "cancel")
      /\ inflight' = [inflight EXCEPT ![w][i] = NoCall]
      /\ cancelled' = IF k = NoCall THEN cancelled ELSE [cancelled EXCEPT ![k] = TRUE]
      /\ UNCHANGED <<vars, alive, up, link, phase, holds, task>>

\* handle begins: its cancel function is registered and the sandbox exists.
StartTask(k) ==
  /\ task[k] = "spawned"
  /\ task' = [task EXCEPT ![k] = "executing"]
  /\ inflight' = [inflight EXCEPT ![Host(k)][id[k]] = k]
  /\ holds' = [holds EXCEPT ![Host(k)] = @ \cup {AgentOf[k]}]
  /\ UNCHANGED <<vars, alive, up, down, link, phase, cancelled>>

\* forward: a command starts, prints or finishes.  Sent on the current socket.
EmitEvent(k) ==
  /\ task[k] = "executing"
  /\ KindOf[k] = "exec"
  /\ link[Host(k)] # NoConn => Len(up[link[Host(k)]]) < MaxUp
  /\ Write(Host(k), Event(k))
  /\ UNCHANGED <<vars, alive, down, link, phase, holds, inflight, task, cancelled>>

\* The commands KillAll finds running in the sandbox of the agent it is for.
Killable(k) ==
  {j \in Calls : /\ task[j] = "executing" /\ KindOf[j] = "exec"
                 /\ Host(j) = Host(k) /\ AgentOf[j] = AgentOf[k]}

\* dispatch returns: the operation is done, or its context was cancelled.  A
\* kill cancels what it finds.
FinishTask(k) ==
  /\ task[k] = "executing"
  /\ task' = [task EXCEPT ![k] = "finished"]
  /\ cancelled' = IF KindOf[k] = "kill"
                    THEN [j \in Calls |-> cancelled[j] \/ j \in Killable(k)]
                    ELSE cancelled
  /\ UNCHANGED <<vars, alive, up, down, link, phase, holds, inflight>>

\* delete(l.inflight, frame.ID)
FiledForGood(k) == inflight  \* mutant: never deleted
Unfiled(k) == [inflight EXCEPT ![Host(k)][id[k]] = NoCall]

\* The result is sent; the handler is still filed.
SendResult(k) ==
  /\ task[k] = "finished"
  /\ task' = [task EXCEPT ![k] = "answered"]
  /\ Write(Host(k), Result(k))
  /\ UNCHANGED <<vars, alive, down, link, phase, holds, inflight, cancelled>>

\* The deferred functions delete the id from inflight, whoever is filed under it
\* by now, and cancel the handler's context.
EndTask(k) ==
  /\ task[k] = "answered"
  /\ task' = [task EXCEPT ![k] = "over"]
  /\ inflight' = Unfiled(k)
  /\ cancelled' = [cancelled EXCEPT ![k] = TRUE]
  /\ UNCHANGED <<vars, alive, up, down, link, phase, holds>>

\* The pod is replaced: its commands, handlers and sandboxes are gone.
Restart(w) ==
  LET mine == {k \in Calls : task[k] # "none" /\ Host(k) = w}
  IN  /\ link[w] # NoConn
      /\ link' = [link EXCEPT ![w] = NoConn]
      /\ phase' = [phase EXCEPT ![w] = "redial"]
      /\ alive' = [alive EXCEPT ![link[w]] = FALSE]
      /\ holds' = [holds EXCEPT ![w] = {}]
      /\ inflight' = [inflight EXCEPT ![w] = [i \in IDs |-> NoCall]]
      /\ task' = [k \in Calls |-> IF k \in mine THEN "over" ELSE task[k]]
      /\ cancelled' = [k \in Calls |-> cancelled[k] \/ k \in mine]
      /\ down' = [down EXCEPT ![link[w]] = <<>>]
      /\ UNCHANGED <<vars, up>>
-----------------------------------------------------------------------------
(***************************************************************************)
(* The hub's steps that read or write the socket.                          *)
(***************************************************************************)

Incoming(c, type) == up[c] # <<>> /\ Head(up[c]).type = type

Consume(c) == up' = [up EXCEPT ![c] = Tail(@)]

\* serve's first read: a hello registers the connection.
HubReadsHello(c) ==
  /\ Incoming(c, "hello")
  /\ \E lim \in Limits : AcceptHello(c, Head(up[c]).worker, Head(up[c]).held, lim)
  /\ Consume(c)
  /\ UNCHANGED <<alive, down, link, phase, holds, inflight, task, cancelled>>

\* serve's first read: no hello, a duplicate's hello, or the end.
HubRefuses(c) ==
  /\ \/ Incoming(c, "result") \/ Incoming(c, "event")
     \/ Incoming(c, "hello") /\ workers[Head(up[c]).worker] # NoConn
     \/ up[c] = <<>> /\ ~alive[c]
  /\ RefuseHello(c)
  /\ HangUp(c)
  /\ UNCHANGED <<down, link, phase, holds, inflight, task, cancelled>>

\* serve's loop: a result goes to the waiter under its id.
HubReadsResult(c) ==
  /\ Incoming(c, "result")
  /\ DeliverResult(c, Head(up[c]).id, Head(up[c]).call)
  /\ Consume(c)
  /\ UNCHANGED <<alive, down, link, phase, holds, inflight, task, cancelled>>

\* serve's loop: an event goes to the terminal stream.
HubReadsEvent(c) ==
  /\ Reading(c)
  /\ Incoming(c, "event")
  /\ Consume(c)
  /\ UNCHANGED <<vars, alive, down, link, phase, holds, inflight, task, cancelled>>

\* serve's read fails, now or before what is still buffered is read.
HubLosesWorker(c) ==
  /\ ~alive[c]
  /\ Unregister(c)
  /\ up' = [up EXCEPT ![c] = <<>>]
  /\ UNCHANGED <<alive, down, link, phase, holds, inflight, task, cancelled>>

HubSends(k) ==
  /\ Send(k)
  /\ alive[conn[k]]
  /\ down' = [down EXCEPT ![conn[k]] = Append(@, Request(k))]
  /\ UNCHANGED <<alive, up, link, phase, holds, inflight, task, cancelled>>

HubCannotSend(k) ==
  /\ SendFails(k)
  /\ ~alive[conn[k]]
  /\ UNCHANGED linkVars

HubCancels(k) ==
  /\ SendCancel(k)
  /\ down' = IF alive[conn[k]] THEN [down EXCEPT ![conn[k]] = Append(@, Cancel(k))] ELSE down
  /\ UNCHANGED <<alive, up, link, phase, holds, inflight, task, cancelled>>

\* The hub's steps in its own memory.
HubConnection(c) ==
  /\ Reader(c)
  /\ UNCHANGED linkVars

HubCaller(k) ==
  /\ \/ NoWorker(k) \/ (\E c \in Conns : CheckWrite(k, c) \/ Route(k, c))
     \/ FindClosed(k) \/ Register(k) \/ TakeAnswer(k) \/ GiveUp(k)
  /\ UNCHANGED linkVars

HubContext(k) ==
  /\ EndContext(k)
  /\ UNCHANGED linkVars
-----------------------------------------------------------------------------
HubReader(c) ==
  \/ HubReadsHello(c) \/ HubRefuses(c) \/ HubReadsResult(c) \/ HubReadsEvent(c)
  \/ HubLosesWorker(c) \/ HubConnection(c)

HubCall(k) == HubSends(k) \/ HubCannotSend(k) \/ HubCancels(k) \/ HubCaller(k)

Session(w) == SayHello(w) \/ EndSession(w) \/ ReadRequest(w) \/ ReadCancel(w)

Handler(k) == StartTask(k) \/ FinishTask(k) \/ SendResult(k) \/ EndTask(k)

LinkNext ==
  \/ \E c \in Conns : HubReader(c) \/ Break(c) \/ (\E w \in WorkerIds : Dial(w, c))
  \/ \E k \in Calls : HubCall(k) \/ HubContext(k) \/ Handler(k) \/ EmitEvent(k)
  \/ \E w \in WorkerIds : Session(w) \/ Restart(w)

LinkSpec == LinkInit /\ [][LinkNext]_allVars

\* Goroutines run, sockets that are not broken deliver, and every operation ends
\* by itself, a command at its timeout at the latest.  Nothing is assumed of
\* when calls begin or give up, or of the network, redials and restarts.
LinkFairness ==
  /\ \A c \in Conns : WF_allVars(HubReader(c))
  /\ \A k \in Calls : WF_allVars(pc[k] # "idle" /\ HubCall(k)) /\ WF_allVars(Handler(k))
  /\ \A w \in WorkerIds : WF_allVars(Session(w))

FairLinkSpec == LinkSpec /\ LinkFairness

\* The same, except that a command may run for ever unless it is cancelled.
PatientHandler(k) ==
  StartTask(k) \/ SendResult(k) \/ EndTask(k) \/ ((cancelled[k] \/ KindOf[k] # "exec") /\ FinishTask(k))

PatientFairness ==
  /\ \A c \in Conns : WF_allVars(HubReader(c))
  /\ \A k \in Calls : WF_allVars(pc[k] # "idle" /\ HubCall(k)) /\ WF_allVars(PatientHandler(k))
  /\ \A w \in WorkerIds : WF_allVars(Session(w))

PatientLinkSpec == LinkSpec /\ PatientFairness
-----------------------------------------------------------------------------
(***************************************************************************)
(* What holds                                                              *)
(***************************************************************************)

\* A call is never answered with the result of another call of the same
\* connection: ids tell them apart there, cancelled calls' late results are
\* dropped, and no id is reused.
AnswersWithinConnection ==
  \A k \in Calls :
    result[k] \in Calls /\ conn[result[k]] = conn[k] => result[k] = k

\* A handler that has returned leaves no cancel function behind, under its own
\* id or, after a redial, under the id of another request.
NoStaleCancelHandle ==
  \A w \in WorkerIds, i \in IDs :
    inflight[w][i] # NoCall => task[inflight[w][i]] \in UnderWay

\* A result may be another call's (AnswersItsRequest does not hold), but it is that
\* of a call the same worker was sent: a connection carries what one worker says,
\* the one whose name its hello gave, whoever dials, dies and redials besides.
AnswersFromItsWorker ==
  \A k \in Calls : result[k] \in Calls => Host(result[k]) = Host(k)

\* A cancel on its way is for a call whose caller has left, and the only handler of
\* its own connection it can hit is that call's.
CancelsHitTheirOwn ==
  \A c \in Conns : \A n \in 1..Len(down[c]) :
    down[c][n].type = "cancel" =>
      /\ result[down[c][n].call] = "cancelled"
      /\ \A w \in WorkerIds :
           LET k == inflight[w][down[c][n].id]
           IN  k # NoCall /\ conn[k] = c => k = down[c][n].call

\* Every call that began returns: with its answer, or because its connection
\* was dropped, could not be written to, or its own context ended.
EveryCallReturns == \A k \in Calls : pc[k] # "idle" ~> pc[k] = "returned"

(***************************************************************************)
(* What the sources say and the code does not do                           *)
(***************************************************************************)

\* FrameResult "answers exactly one request": an answer is the answer to the
\* call it is returned from, and not one that an earlier session of the worker
\* left unfinished under the same id.
AnswersItsRequest == \A k \in Calls : result[k] \in Calls => result[k] = k

\* FrameCancel: "The worker cancels that operation".  Once the frame is read on
\* a connection that lasts, the operation does not go on uncancelled.
CancelIsObeyed ==
  \A k \in Calls :
    result[k] = "cancelled" /\ KindOf[k] = "exec" ~>
      task[k] \in {"none", "answered", "over"} \/ ~alive[conn[k]]

\* FrameCancel "abandons an in-flight request".  What a connection that lasts has
\* asked for can be cancelled while it is under way: a handler of an earlier
\* session under the same id files its own function there, or takes this one away.
WorkCanBeCancelled ==
  \A k \in Calls :
    task[k] = "executing" /\ alive[conn[k]] /\ ~cancelled[k] =>
      inflight[Host(k)][id[k]] = k

\* Hub.Kill of an agent without a worker: "it has nothing running".
NothingRuns(a) ==
  \A k \in Calls : AgentOf[k] = a /\ KindOf[k] = "exec" => task[k] # "executing"

KillOfNothingIsTrue ==
  [][\A k \in Calls :
       result[k] # "nothing_running" /\ result'[k] = "nothing_running" =>
         NothingRuns(AgentOf[k])]_allVars
=============================================================================
