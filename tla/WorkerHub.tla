----------------------------- MODULE WorkerHub -----------------------------
(***************************************************************************)
(* The server's side of the worker link, internal/workerhub: connections   *)
(* workers dial in on, the pin of every agent to one of them, and the      *)
(* request/result correlation of the calls multiplexed over a connection.  *)
(*                                                                         *)
(* Concurrency: one goroutine per connection (serve, ending in drop) and   *)
(* one per call.  They share workers and assignments under Hub.mu and, per *)
(* connection, nextID, pending and closed under worker.mu.  A step here is *)
(* what happens inside one critical section, or between two of them.       *)
(*                                                                         *)
(* The worker is an arbitrary environment: it may claim any id, any agents *)
(* and any limits, answer any request id at any time, twice or never, and  *)
(* its connection may die at every point.  WorkerLink.tla puts the real    *)
(* worker in its place.                                                    *)
(***************************************************************************)
EXTENDS Naturals, FiniteSets

CONSTANTS
  Agents,     \* agent ids: one sandbox each
  WorkerIds,  \* worker names; naturals, standing for their string order
  Conns,      \* connections: each is used once, a redial is another one
  Calls,      \* invocations of Hub.call, each made at most once
  AgentOf,    \* the agent a call is made for
  KindOf,     \* which operation it is: an exec, a write_file or a kill
  SizeOf,     \* the size of its payload
  Limits,     \* what a hello may declare: file and payload limits
  Answers,    \* what a result frame may carry
  MaxID,      \* bound: request ids per connection
  NoConn, NoCall, NoFrame

Kinds == {"exec", "write", "kill"}

\* What drop puts in a waiter and what call returns when no answer came back.
Failures == {"disconnected", "no_worker", "too_large", "send_failed",
             "cancelled", "nothing_running"}

ASSUME HubAssumption ==
  /\ WorkerIds \subseteq Nat \ {0}
  /\ AgentOf \in [Calls -> Agents]
  /\ KindOf \in [Calls -> Kinds]
  /\ SizeOf \in [Calls -> Nat]
  /\ Limits \subseteq [file : Nat, payload : Nat]
  /\ MaxID \in Nat
  /\ NoConn \notin Conns
  /\ NoCall \notin Calls
  /\ NoFrame \notin Answers \cup {"disconnected"}

VARIABLES
  session,      \* where the connection's serve goroutine is
  wid,          \* worker.id, from the hello
  limits,       \* worker.limits, from the hello
  workers,      \* Hub.workers
  assignments,  \* Hub.assignments
  nextID,       \* worker.nextID
  pending,      \* worker.pending
  outbox,       \* calls whose waiter the serve goroutine is about to fill
  answer,       \* the frame deliver holds, while it does
  orphans,      \* agents drop has still to tell the watchers about
  pc,           \* where the call's goroutine is
  conn,         \* the connection the call was routed to
  id,           \* the request id it was given there
  waiter,       \* the call's channel, which holds one frame
  ctxDone,      \* whether its context has ended
  result        \* what it returned

connVars == <<session, wid, limits, nextID, pending, outbox, answer, orphans>>
callVars == <<pc, conn, id, waiter, ctxDone, result>>
routeVars == <<workers, assignments>>
vars == <<connVars, callVars, routeVars>>

Sessions == {"unused", "accepted", "refused", "serving", "unregistered", "closed"}
CallStates == {"idle", "checked", "routed", "registered", "waiting",
               "cancelling", "returned"}
IDs == 1..MaxID

TypeOK ==
  /\ session \in [Conns -> Sessions]
  /\ wid \in [Conns -> WorkerIds \cup {0}]
  /\ limits \in [Conns -> [file : Nat, payload : Nat]]
  /\ workers \in [WorkerIds -> Conns \cup {NoConn}]
  /\ assignments \in [Agents -> Conns \cup {NoConn}]
  /\ nextID \in [Conns -> 0..MaxID]
  /\ pending \in [Conns -> [IDs -> Calls \cup {NoCall}]]
  /\ outbox \in [Conns -> SUBSET Calls]
  /\ answer \in [Conns -> Answers \cup {NoFrame}]
  /\ orphans \in [Conns -> SUBSET Agents]
  /\ pc \in [Calls -> CallStates]
  /\ conn \in [Calls -> Conns \cup {NoConn}]
  /\ id \in [Calls -> 0..MaxID]
  /\ waiter \in [Calls -> Answers \cup {"disconnected", NoFrame}]
  /\ ctxDone \in [Calls -> BOOLEAN]
  /\ result \in [Calls -> Answers \cup Failures \cup {NoFrame}]

NoLimits == [file |-> 0, payload |-> 0]

Init ==
  /\ session = [c \in Conns |-> "unused"]
  /\ wid = [c \in Conns |-> 0]
  /\ limits = [c \in Conns |-> NoLimits]
  /\ workers = [w \in WorkerIds |-> NoConn]
  /\ assignments = [a \in Agents |-> NoConn]
  /\ nextID = [c \in Conns |-> 0]
  /\ pending = [c \in Conns |-> [i \in IDs |-> NoCall]]
  /\ outbox = [c \in Conns |-> {}]
  /\ answer = [c \in Conns |-> NoFrame]
  /\ orphans = [c \in Conns |-> {}]
  /\ pc = [k \in Calls |-> "idle"]
  /\ conn = [k \in Calls |-> NoConn]
  /\ id = [k \in Calls |-> 0]
  /\ waiter = [k \in Calls |-> NoFrame]
  /\ ctxDone = [k \in Calls |-> FALSE]
  /\ result = [k \in Calls |-> NoFrame]
-----------------------------------------------------------------------------
(***************************************************************************)
(* A connection: serve and drop.                                           *)
(***************************************************************************)

Registered == {w \in WorkerIds : workers[w] # NoConn}

\* Handler: the token matched and the upgrade succeeded.
Accept(c) ==
  /\ session[c] = "unused"
  /\ session' = [session EXCEPT ![c] = "accepted"]
  /\ UNCHANGED <<wid, limits, nextID, pending, outbox, answer, orphans, callVars, routeVars>>

\* The first frame is no hello, speaks another protocol, declares no usable
\* limits or names a registered worker; or the connection ends before one arrives.
RefuseHello(c) ==
  /\ session[c] = "accepted"
  /\ session' = [session EXCEPT ![c] = "refused"]
  /\ UNCHANGED <<wid, limits, nextID, pending, outbox, answer, orphans, callVars, routeVars>>

\* No live connection answers to this worker name.
FreeUnchecked(w) == TRUE  \* mutant: no duplicate check
Free(w) == workers[w] = NoConn

\* The agents a hello pins to its connection: those it holds that no live
\* connection serves.
ReclaimedBlindly(held) == held  \* mutant: the incumbent is not consulted
Reclaimed(held) == {a \in held : assignments[a] = NoConn}

\* Under Hub.mu: register the connection and pin back the agents it holds.
AcceptHello(c, w, held, lim) ==
  /\ session[c] = "accepted"
  /\ Free(w)
  /\ session' = [session EXCEPT ![c] = "serving"]
  /\ wid' = [wid EXCEPT ![c] = w]
  /\ limits' = [limits EXCEPT ![c] = lim]
  /\ workers' = [workers EXCEPT ![w] = c]
  /\ assignments' = [a \in Agents |-> IF a \in Reclaimed(held) THEN c ELSE assignments[a]]
  /\ UNCHANGED <<nextID, pending, outbox, answer, orphans, callVars>>

\* serve reads only between two deliveries.
Reading(c) == session[c] = "serving" /\ outbox[c] = {}

\* delete(w.pending, id)
WithoutKeeping(c, i) == pending  \* mutant: the entry stays
Without(c, i) == [pending EXCEPT ![c][i] = NoCall]

\* The waiter deliver finds under an id, if any.
WaiterFor(c, i) == {pending[c][i]} \ {NoCall}

\* deliver, under worker.mu: the waiter is looked up and deleted.  A result
\* nobody waits for is discarded.
DeliverResult(c, i, ans) ==
  /\ Reading(c)
  /\ pending' = Without(c, i)
  /\ outbox' = [outbox EXCEPT ![c] = WaiterFor(c, i)]
  /\ answer' = [answer EXCEPT ![c] = IF pending[c][i] = NoCall THEN NoFrame ELSE ans]
  /\ UNCHANGED <<session, wid, limits, nextID, orphans, callVars, routeVars>>

\* waiter <- frame, in deliver and in drop: blocks while the channel is full.
FillWaiter(c, k) ==
  /\ k \in outbox[c]
  /\ waiter[k] = NoFrame
  /\ waiter' = [waiter EXCEPT ![k] =
                  IF session[c] = "serving" THEN answer[c] ELSE "disconnected"]
  /\ outbox' = [outbox EXCEPT ![c] = @ \ {k}]
  /\ answer' = [answer EXCEPT ![c] = NoFrame]
  /\ UNCHANGED <<session, wid, limits, nextID, pending, orphans,
                 pc, conn, id, ctxDone, result, routeVars>>

\* What is pinned once a connection is not.
StillPinned(c) == assignments  \* mutant: its agents keep their pin
Unpinned(c) == [a \in Agents |-> IF assignments[a] = c THEN NoConn ELSE assignments[a]]

\* drop, under Hub.mu: the read failed; no call is routed here any more.
Unregister(c) ==
  /\ Reading(c)
  /\ session' = [session EXCEPT ![c] = "unregistered"]
  /\ workers' = [workers EXCEPT ![wid[c]] = NoConn]
  /\ orphans' = [orphans EXCEPT ![c] = {a \in Agents : assignments[a] = c}]
  /\ assignments' = Unpinned(c)
  /\ UNCHANGED <<wid, limits, nextID, pending, outbox, answer, callVars>>

\* The calls waiting for an answer on a connection.
PendingOverlooked(c) == {}  \* mutant: drop leaves them waiting
PendingCalls(c) == {pending[c][i] : i \in IDs} \ {NoCall}

\* drop, under worker.mu: refuse new calls and take the waiters away.
Close(c) ==
  /\ session[c] = "unregistered"
  /\ session' = [session EXCEPT ![c] = "closed"]
  /\ outbox' = [outbox EXCEPT ![c] = PendingCalls(c)]
  /\ pending' = [pending EXCEPT ![c] = [i \in IDs |-> NoCall]]
  /\ UNCHANGED <<wid, limits, nextID, answer, orphans, callVars, routeVars>>

\* drop, after the waiters: one killed event per orphaned agent.
PublishOrphaned(c, a) ==
  /\ session[c] = "closed"
  /\ outbox[c] = {}
  /\ a \in orphans[c]
  /\ orphans' = [orphans EXCEPT ![c] = @ \ {a}]
  /\ UNCHANGED <<session, wid, limits, nextID, pending, outbox, answer, callVars, routeVars>>
-----------------------------------------------------------------------------
(***************************************************************************)
(* A call: WriteFile's check, workerFor, and the steps of Hub.call.        *)
(***************************************************************************)

\* How many agents a worker serves.
Load(w) == Cardinality({a \in Agents : assignments[a] # NoConn /\ wid[assignments[a]] = w})

\* The registered workers with the fewest agents and, of those, the first name.
LeastLoaded ==
  {w \in Registered : \A v \in Registered \ {w} :
     Load(w) < Load(v) \/ (Load(w) = Load(v) /\ w < v)}

\* What workerFor may answer: the pin, or the connection it is about to pin.
Candidates(a) ==
  IF assignments[a] # NoConn THEN {assignments[a]} ELSE {workers[w] : w \in LeastLoaded}

Return(k, r) ==
  /\ pc' = [pc EXCEPT ![k] = "returned"]
  /\ result' = [result EXCEPT ![k] = r]

\* A write_file consults workerFor once for its file limit, before call does.
BeforeRouting(k) == IF KindOf[k] = "write" THEN "checked" ELSE "idle"

\* workerFor found no worker.  Kill reports that as nothing killed.
NoWorker(k) ==
  /\ pc[k] \in {"idle", BeforeRouting(k)}
  /\ Candidates(AgentOf[k]) = {}
  /\ Return(k, IF KindOf[k] = "kill" THEN "nothing_running" ELSE "no_worker")
  /\ UNCHANGED <<connVars, routeVars, conn, id, waiter, ctxDone>>

\* WriteFile: pin, then refuse content over the file limit of that worker.
CheckWrite(k, c) ==
  /\ pc[k] = "idle"
  /\ KindOf[k] = "write"
  /\ c \in Candidates(AgentOf[k])
  /\ assignments' = [assignments EXCEPT ![AgentOf[k]] = c]
  /\ \/ SizeOf[k] > limits[c].file /\ Return(k, "too_large")
     \/ /\ SizeOf[k] <= limits[c].file
        /\ pc' = [pc EXCEPT ![k] = "checked"]
        /\ UNCHANGED result
  /\ UNCHANGED <<connVars, workers, conn, id, waiter, ctxDone>>

\* call: pin, then refuse a payload over that worker's limit.
Route(k, c) ==
  /\ pc[k] = BeforeRouting(k)
  /\ c \in Candidates(AgentOf[k])
  /\ assignments' = [assignments EXCEPT ![AgentOf[k]] = c]
  /\ \/ SizeOf[k] > limits[c].payload /\ Return(k, "too_large") /\ UNCHANGED conn
     \/ /\ SizeOf[k] <= limits[c].payload
        /\ pc' = [pc EXCEPT ![k] = "routed"]
        /\ conn' = [conn EXCEPT ![k] = c]
        /\ UNCHANGED result
  /\ UNCHANGED <<connVars, workers, id, waiter, ctxDone>>

\* w.closed: drop has been here.
ClosedUnseen(c) == FALSE  \* mutant: call does not look
Closed(c) == session[c] = "closed"

\* call, under worker.mu: the connection is gone.
FindClosed(k) ==
  /\ pc[k] = "routed"
  /\ Closed(conn[k])
  /\ Return(k, "disconnected")
  /\ UNCHANGED <<connVars, routeVars, conn, id, waiter, ctxDone>>

\* The request id a connection hands out next.
AlwaysFirstID(c) == 1  \* mutant: the counter is not kept
FreshID(c) == nextID[c] + 1

\* call, under worker.mu: take the next id and wait under it.
Register(k) ==
  LET c == conn[k]
      i == FreshID(c)
  IN  /\ pc[k] = "routed"
      /\ ~Closed(c)
      /\ i \in IDs
      /\ nextID' = [nextID EXCEPT ![c] = i]
      /\ pending' = [pending EXCEPT ![c][i] = k]
      /\ id' = [id EXCEPT ![k] = i]
      /\ pc' = [pc EXCEPT ![k] = "registered"]
      /\ UNCHANGED <<session, wid, limits, outbox, answer, orphans, routeVars,
                     conn, waiter, ctxDone, result>>

\* The request frame is written.  A read that failed has closed the socket.
Send(k) ==
  /\ pc[k] = "registered"
  /\ session[conn[k]] = "serving"
  /\ pc' = [pc EXCEPT ![k] = "waiting"]
  /\ UNCHANGED <<connVars, routeVars, conn, id, waiter, ctxDone, result>>

\* A call that leaves without an answer takes its waiter along.
ForgetNothing(k) == UNCHANGED pending  \* mutant: it does not
Forget(k) == pending' = Without(conn[k], id[k])

\* The write failed, or ran into its deadline.
SendFails(k) ==
  /\ pc[k] = "registered"
  /\ Forget(k)
  /\ Return(k, "send_failed")
  /\ UNCHANGED <<session, wid, limits, nextID, outbox, answer, orphans, routeVars,
                 conn, id, waiter, ctxDone>>

\* The select takes the frame.
TakeAnswer(k) ==
  /\ pc[k] = "waiting"
  /\ waiter[k] # NoFrame
  /\ Return(k, waiter[k])
  /\ UNCHANGED <<connVars, routeVars, conn, id, waiter, ctxDone>>

\* The select takes ctx.Done.
GiveUp(k) ==
  /\ pc[k] = "waiting"
  /\ ctxDone[k]
  /\ Forget(k)
  /\ pc' = [pc EXCEPT ![k] = "cancelling"]
  /\ UNCHANGED <<session, wid, limits, nextID, outbox, answer, orphans, routeVars,
                 conn, id, waiter, ctxDone, result>>

\* The cancel frame is written, or could not be; either way call returns.
SendCancel(k) ==
  /\ pc[k] = "cancelling"
  /\ Return(k, "cancelled")
  /\ UNCHANGED <<connVars, routeVars, conn, id, waiter, ctxDone>>

\* The agent goes away, or an enclosing deadline passes.  Only the select looks,
\* so when it happened before that makes no difference.
EndContext(k) ==
  /\ pc[k] = "waiting"
  /\ ~ctxDone[k]
  /\ ctxDone' = [ctxDone EXCEPT ![k] = TRUE]
  /\ UNCHANGED <<connVars, routeVars, pc, conn, id, waiter, result>>
-----------------------------------------------------------------------------
\* What the worker and the network decide.
Connection(c) ==
  \/ Accept(c)
  \/ RefuseHello(c)
  \/ \E w \in WorkerIds, held \in SUBSET Agents, lim \in Limits : AcceptHello(c, w, held, lim)
  \/ \E i \in IDs, ans \in Answers : DeliverResult(c, i, ans)
  \/ Unregister(c)

\* What the serve goroutine then does by itself.
Reader(c) ==
  \/ \E k \in Calls : FillWaiter(c, k)
  \/ Close(c)
  \/ \E a \in Agents : PublishOrphaned(c, a)

\* The caller's goroutine.
Caller(k) ==
  \/ NoWorker(k) \/ (\E c \in Conns : CheckWrite(k, c) \/ Route(k, c))
  \/ FindClosed(k) \/ Register(k) \/ Send(k) \/ SendFails(k) \/ TakeAnswer(k) \/ GiveUp(k) \/ SendCancel(k)

Next ==
  \/ \E c \in Conns : Connection(c) \/ Reader(c)
  \/ \E k \in Calls : Caller(k) \/ EndContext(k)

Spec == Init /\ [][Next]_vars

\* Goroutines are scheduled: a critical section that can be entered is, and a
\* send on a channel with room completes.  Nothing is assumed of the worker,
\* the network, or of when a caller makes its call or gives up.
Fairness ==
  /\ \A c \in Conns : WF_vars(Reader(c))
  /\ \A k \in Calls : WF_vars(pc[k] # "idle" /\ Caller(k))

FairSpec == Spec /\ Fairness
-----------------------------------------------------------------------------
(***************************************************************************)
(* Properties                                                              *)
(***************************************************************************)

\* Hub.workers is exactly the connections being served, each under its own id:
\* a drop never removes the successor of the connection it is for, and no two
\* connections answer to one worker name (serve's duplicate check and drop's
\* unconditional delete(h.workers, w.id)).
OneConnectionPerWorker ==
  /\ \A w \in Registered : session[workers[w]] = "serving" /\ wid[workers[w]] = w
  /\ \A c \in Conns : session[c] = "serving" => wid[c] \in WorkerIds /\ workers[wid[c]] = c

\* An agent is only ever pinned to a live connection, whatever the order of
\* hellos, drops and first calls (workerFor returns the pin unchecked).
PinsAreLive ==
  \A a \in Agents : assignments[a] # NoConn => session[assignments[a]] = "serving"

InCall == {"routed", "registered", "waiting"}

\* Two calls of one agent are never under way on two live workers: the files
\* the first one wrote are where the second one runs (the reason for the pin).
OneSandboxPerAgent ==
  \A k \in Calls :
    pc[k] \in InCall /\ session[conn[k]] = "serving" => assignments[AgentOf[k]] = conn[k]

\* The goroutine reading a connection never blocks on a caller's channel: a
\* waiter it is about to fill is empty, and nobody else is about to fill it.
\* Blocked, it would stop reading for every agent on that worker.
ReaderNeverBlocks ==
  \A c \in Conns : \A k \in outbox[c] :
    waiter[k] = NoFrame /\ \A d \in Conns \ {c} : k \notin outbox[d]

\* A call that waits with an empty channel is still known to somebody who will
\* fill it: its connection's goroutine holds it, or it is pending under its own id
\* and drop has yet to come for it.  Registering after drop has taken the pending
\* map away, or a result racing the swap, would leave it to wait for ever.
NoLostWaiter ==
  \A k \in Calls :
    pc[k] \in {"registered", "waiting"} /\ waiter[k] = NoFrame =>
      \/ k \in outbox[conn[k]]
      \/ pending[conn[k]][id[k]] = k /\ session[conn[k]] # "closed"

\* A caller that left, whether answered, cancelled or unable to send, leaves
\* nothing behind in pending, so the map does not grow with abandoned calls.
NoLeakedWaiter ==
  \A c \in Conns : \A k \in PendingCalls(c) :
    pc[k] \in {"registered", "waiting"} /\ conn[k] = c /\ pending[c][id[k]] = k

\* A pin moves only by way of the drop of the connection it names: a worker
\* that claims an agent served elsewhere does not take it over, and a lighter
\* worker does not attract an agent that has a sandbox.
StickyRouting ==
  [][\A a \in Agents :
       assignments[a] # NoConn /\ assignments'[a] # assignments[a] =>
         assignments'[a] = NoConn /\ session'[assignments[a]] # "serving"]_vars

\* A call whose worker disconnects, or whose context ends, returns.
CallReturns ==
  \A k \in Calls :
    pc[k] = "waiting" /\ (ctxDone[k] \/ session[conn[k]] = "unregistered")
      ~> pc[k] = "returned"
-----------------------------------------------------------------------------
(***************************************************************************)
(* The inductive invariant the proofs in WorkerHubProofs.tla rest on.      *)
(***************************************************************************)

Routed == InCall \cup {"cancelling"}

\* A routed call has a connection that was registered once; ids are handed out
\* from 1 and never twice on one connection.
CallSound ==
  \A k \in Calls :
    /\ pc[k] \in Routed => conn[k] \in Conns /\ session[conn[k]] \in {"serving", "unregistered", "closed"}
    /\ pc[k] \in {"registered", "waiting", "cancelling"} => id[k] \in IDs
    /\ pc[k] \in {"idle", "checked", "routed"} => id[k] = 0 /\ waiter[k] = NoFrame
    /\ id[k] # 0 => conn[k] \in Conns /\ id[k] <= nextID[conn[k]]

UniqueIDs ==
  \A k, l \in Calls : id[k] # 0 /\ id[k] = id[l] /\ conn[k] = conn[l] => k = l

\* Who is pending under an id waits for it, unanswered, on an open connection.
PendingSound ==
  \A c \in Conns, i \in IDs : pending[c][i] # NoCall =>
    /\ i <= nextID[c]
    /\ conn[pending[c][i]] = c
    /\ id[pending[c][i]] = i
    /\ pc[pending[c][i]] \in {"registered", "waiting"}
    /\ waiter[pending[c][i]] = NoFrame
    /\ pending[c][i] \notin outbox[c]
    /\ session[c] # "closed"

\* A waiter in the hands of a connection's goroutine is empty and belongs to a
\* call made there; while the connection is served there is one, with a frame.
OutboxSound ==
  \A c \in Conns : \A k \in outbox[c] :
    /\ conn[k] = c
    /\ id[k] # 0
    /\ waiter[k] = NoFrame
    /\ session[c] \in {"serving", "closed"}
    /\ session[c] = "serving" => answer[c] # NoFrame /\ outbox[c] = {k}

RoutingInv ==
  OneConnectionPerWorker /\ PinsAreLive /\ OneSandboxPerAgent /\ CallSound

WaiterInv == UniqueIDs /\ PendingSound /\ OutboxSound /\ NoLostWaiter

HubInv == TypeOK /\ RoutingInv /\ WaiterInv
=============================================================================
