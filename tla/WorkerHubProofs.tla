-------------------------- MODULE WorkerHubProofs --------------------------
(***************************************************************************)
(* HubInv is an inductive invariant of WorkerHub, and what follows from it *)
(* for any number of workers, connections, agents and calls.               *)
(*                                                                         *)
(* One lemma per action shows that it preserves the three parts of HubInv: *)
(* types, routing (Hub.mu's maps) and waiters (worker.mu's).               *)
(***************************************************************************)
EXTENDS WorkerHub, TLAPS

\* workerFor answers with a live connection, and with the pin if there is one.
LEMMA CandidatesLive ==
  ASSUME HubInv, NEW a \in Agents, NEW c \in Candidates(a)
  PROVE  /\ c \in Conns
         /\ session[c] = "serving"
         /\ assignments[a] # NoConn => c = assignments[a]
BY HubAssumption DEF HubInv, RoutingInv, Candidates, LeastLoaded, OneConnectionPerWorker,
   PinsAreLive, Registered, TypeOK

\* The first state: nothing is connected and nobody calls.
LEMMA HubInvInit == Init => HubInv
<1> SUFFICES ASSUME Init PROVE HubInv
  OBVIOUS
<1> USE HubAssumption DEF Init, TypeOK, IDs
<1>1. TypeOK
  BY DEF Sessions, CallStates, NoLimits
<1>2. RoutingInv
  BY DEF RoutingInv, OneConnectionPerWorker, Registered, PinsAreLive, OneSandboxPerAgent,
     CallSound, InCall, Routed
<1>3. WaiterInv
  BY DEF WaiterInv, UniqueIDs, PendingSound, OutboxSound, NoLostWaiter
<1> QED
  BY <1>1, <1>2, <1>3 DEF HubInv

\* The upgrade of a connection touches none of the maps.
LEMMA AcceptInv ==
  ASSUME HubInv, NEW c \in Conns, Accept(c)
  PROVE  HubInv'
<1> USE HubAssumption DEF HubInv, RoutingInv, WaiterInv, TypeOK, CallSound, InCall, Routed, IDs,
         connVars, callVars, routeVars, Accept
<1>1. TypeOK'
  BY DEF OneConnectionPerWorker, Sessions, CallStates
<1>2. RoutingInv'
  BY DEF OneConnectionPerWorker, Registered, PinsAreLive, OneSandboxPerAgent, PendingSound, OutboxSound
<1>3. WaiterInv'
  BY DEF UniqueIDs, PendingSound, OutboxSound, NoLostWaiter
<1> QED
  BY <1>1, <1>2, <1>3

\* A refused connection was never registered.
LEMMA RefuseHelloInv ==
  ASSUME HubInv, NEW c \in Conns, RefuseHello(c)
  PROVE  HubInv'
<1> USE HubAssumption DEF HubInv, RoutingInv, WaiterInv, TypeOK, CallSound, InCall, Routed, IDs,
         connVars, callVars, routeVars, RefuseHello
<1>1. TypeOK'
  BY DEF OneConnectionPerWorker, Sessions, CallStates
<1>2. RoutingInv'
  BY DEF OneConnectionPerWorker, Registered, PinsAreLive, OneSandboxPerAgent, PendingSound, OutboxSound
<1>3. WaiterInv'
  BY DEF UniqueIDs, PendingSound, OutboxSound, NoLostWaiter
<1> QED
  BY <1>1, <1>2, <1>3

\* A hello registers a fresh connection and pins only agents nobody serves.
LEMMA AcceptHelloInv ==
  ASSUME HubInv, NEW c \in Conns, NEW w \in WorkerIds, NEW held \in SUBSET Agents, NEW lim \in Limits, AcceptHello(c, w, held, lim)
  PROVE  HubInv'
<1> USE HubAssumption DEF HubInv, RoutingInv, WaiterInv, TypeOK, CallSound, InCall, Routed, IDs,
         connVars, callVars, routeVars, AcceptHello, Free, Reclaimed
<1>1. TypeOK'
  BY DEF OneConnectionPerWorker, Sessions, CallStates
<1>2. RoutingInv'
  BY DEF OneConnectionPerWorker, Registered, PinsAreLive, OneSandboxPerAgent, PendingSound, OutboxSound
<1>3. WaiterInv'
  BY DEF UniqueIDs, PendingSound, OutboxSound, NoLostWaiter
<1> QED
  BY <1>1, <1>2, <1>3

\* deliver hands a waiter from pending to the reading goroutine.
LEMMA DeliverResultInv ==
  ASSUME HubInv, NEW c \in Conns, NEW i \in IDs, NEW ans \in Answers, DeliverResult(c, i, ans)
  PROVE  HubInv'
<1> USE HubAssumption DEF HubInv, RoutingInv, WaiterInv, TypeOK, CallSound, InCall, Routed, IDs,
         connVars, callVars, routeVars, DeliverResult, Reading, Without, WaiterFor
<1>1. TypeOK'
  BY DEF OneConnectionPerWorker, Sessions, CallStates
<1>2. RoutingInv'
  BY DEF OneConnectionPerWorker, Registered, PinsAreLive, OneSandboxPerAgent, PendingSound, OutboxSound
<1>3. WaiterInv'
  BY DEF UniqueIDs, PendingSound, OutboxSound, NoLostWaiter
<1> QED
  BY <1>1, <1>2, <1>3

\* The frame is put into the waiter the goroutine was holding.
LEMMA FillWaiterInv ==
  ASSUME HubInv, NEW c \in Conns, NEW k \in Calls, FillWaiter(c, k)
  PROVE  HubInv'
<1> USE HubAssumption DEF HubInv, RoutingInv, WaiterInv, TypeOK, CallSound, InCall, Routed, IDs,
         connVars, callVars, routeVars, FillWaiter
<1>1. TypeOK'
  BY DEF OneConnectionPerWorker, Sessions, CallStates
<1>2. RoutingInv'
  BY DEF OneConnectionPerWorker, Registered, PinsAreLive, OneSandboxPerAgent, PendingSound, OutboxSound
<1>3. WaiterInv'
  BY DEF UniqueIDs, PendingSound, OutboxSound, NoLostWaiter
<1> QED
  BY <1>1, <1>2, <1>3

\* drop forgets the connection and every pin to it in one critical section.
LEMMA UnregisterInv ==
  ASSUME HubInv, NEW c \in Conns, Unregister(c)
  PROVE  HubInv'
<1> USE HubAssumption DEF HubInv, RoutingInv, WaiterInv, TypeOK, CallSound, InCall, Routed, IDs,
         connVars, callVars, routeVars, Unregister, Reading, Unpinned
<1>1. TypeOK'
  BY DEF OneConnectionPerWorker, Sessions, CallStates
<1>2. RoutingInv'
  BY DEF OneConnectionPerWorker, Registered, PinsAreLive, OneSandboxPerAgent, PendingSound, OutboxSound
<1>3. WaiterInv'
  BY DEF UniqueIDs, PendingSound, OutboxSound, NoLostWaiter
<1> QED
  BY <1>1, <1>2, <1>3

\* drop takes every pending waiter with it.
LEMMA CloseInv ==
  ASSUME HubInv, NEW c \in Conns, Close(c)
  PROVE  HubInv'
<1> USE HubAssumption DEF HubInv, RoutingInv, WaiterInv, TypeOK, CallSound, InCall, Routed, IDs,
         connVars, callVars, routeVars, Close, PendingCalls
<1>1. TypeOK'
  BY DEF OneConnectionPerWorker, Sessions, CallStates
<1>2. RoutingInv'
  BY DEF OneConnectionPerWorker, Registered, PinsAreLive, OneSandboxPerAgent, PendingSound, OutboxSound
<1>3. (UniqueIDs /\ PendingSound)'
  BY DEF UniqueIDs, PendingSound, OutboxSound
<1>4. OutboxSound'
  BY DEF PendingSound, OutboxSound
<1>5. NoLostWaiter'
  <2> SUFFICES ASSUME NEW k \in Calls, pc[k] \in {"registered", "waiting"}, waiter[k] = NoFrame,
                      ~(pending'[conn[k]][id[k]] = k)
               PROVE  k \in outbox'[conn[k]]
    BY DEF NoLostWaiter
  <2>1. conn[k] \in Conns /\ id[k] \in IDs
    OBVIOUS
  <2>2. pending[conn[k]][id[k]] = k \/ k \in outbox[conn[k]]
    BY DEF NoLostWaiter
  <2>3. CASE conn[k] = c
    <3>1. outbox[c] = {}
      BY DEF OutboxSound
    <3>2. pending[c][id[k]] = k /\ k # NoCall
      BY <2>2, <2>3, <3>1
    <3> QED
      BY <2>1, <2>3, <3>2
  <2>4. CASE conn[k] # c
    BY <2>1, <2>2, <2>4
  <2> QED
    BY <2>3, <2>4
<1> QED
  BY <1>1, <1>2, <1>3, <1>4, <1>5

\* Telling the watchers changes nothing the invariant is about.
LEMMA PublishOrphanedInv ==
  ASSUME HubInv, NEW c \in Conns, NEW a \in Agents, PublishOrphaned(c, a)
  PROVE  HubInv'
<1> USE HubAssumption DEF HubInv, RoutingInv, WaiterInv, TypeOK, CallSound, InCall, Routed, IDs,
         connVars, callVars, routeVars, PublishOrphaned
<1>1. TypeOK'
  BY DEF OneConnectionPerWorker, Sessions, CallStates
<1>2. RoutingInv'
  BY DEF OneConnectionPerWorker, Registered, PinsAreLive, OneSandboxPerAgent, PendingSound, OutboxSound
<1>3. WaiterInv'
  BY DEF UniqueIDs, PendingSound, OutboxSound, NoLostWaiter
<1> QED
  BY <1>1, <1>2, <1>3

\* A call that finds no worker returns.
LEMMA NoWorkerInv ==
  ASSUME HubInv, NEW k \in Calls, NoWorker(k)
  PROVE  HubInv'
<1> USE HubAssumption DEF HubInv, RoutingInv, WaiterInv, TypeOK, CallSound, InCall, Routed, IDs,
         connVars, callVars, routeVars, NoWorker, Return, BeforeRouting, Failures
<1>1. TypeOK'
  BY DEF OneConnectionPerWorker, Sessions, CallStates
<1>2. RoutingInv'
  BY DEF OneConnectionPerWorker, Registered, PinsAreLive, OneSandboxPerAgent, PendingSound, OutboxSound
<1>3. WaiterInv'
  BY DEF UniqueIDs, PendingSound, OutboxSound, NoLostWaiter
<1> QED
  BY <1>1, <1>2, <1>3

\* WriteFile's own consultation of workerFor pins the agent.
LEMMA CheckWriteInv ==
  ASSUME HubInv, NEW k \in Calls, NEW c \in Conns, CheckWrite(k, c)
  PROVE  HubInv'
<1> USE HubAssumption DEF HubInv, RoutingInv, WaiterInv, TypeOK, CallSound, InCall, Routed, IDs
<1>1. session[c] = "serving" /\ (assignments[AgentOf[k]] # NoConn => c = assignments[AgentOf[k]])
  BY CandidatesLive DEF CheckWrite
<1>2. limits[c].file \in Nat /\ SizeOf[k] \in Nat
  OBVIOUS
<1>3. /\ pc[k] \in {"idle", "checked"}
      /\ assignments' = [assignments EXCEPT ![AgentOf[k]] = c]
      /\ UNCHANGED <<session, wid, limits, nextID, pending, outbox, answer, orphans,
                     workers, id, waiter, ctxDone>>
  BY DEF CheckWrite, BeforeRouting, connVars
<1>4. CASE SizeOf[k] > limits[c].file
  <2>1. /\ pc' = [pc EXCEPT ![k] = "returned"]
        /\ result' = [result EXCEPT ![k] = "too_large"]
        /\ conn' = conn
    BY <1>2, <1>4 DEF CheckWrite, Return
  <2>2. TypeOK'
    BY <1>3, <2>1 DEF Sessions, CallStates, Failures
  <2>3. RoutingInv'
    BY <1>1, <1>3, <2>1 DEF OneConnectionPerWorker, Registered, PinsAreLive, OneSandboxPerAgent
  <2>4. WaiterInv'
    BY <1>3, <2>1 DEF UniqueIDs, PendingSound, OutboxSound, NoLostWaiter
  <2> QED
    BY <2>2, <2>3, <2>4
<1>5. CASE SizeOf[k] <= limits[c].file
  <2>1. /\ pc' = [pc EXCEPT ![k] = "checked"]
        /\ result' = result
        /\ conn' = conn
    BY <1>2, <1>5 DEF CheckWrite, Return
  <2>2. TypeOK'
    BY <1>3, <2>1 DEF Sessions, CallStates, Failures
  <2>3. RoutingInv'
    BY <1>1, <1>3, <2>1 DEF OneConnectionPerWorker, Registered, PinsAreLive, OneSandboxPerAgent
  <2>4. WaiterInv'
    BY <1>3, <2>1 DEF UniqueIDs, PendingSound, OutboxSound, NoLostWaiter
  <2> QED
    BY <2>2, <2>3, <2>4
<1> HIDE DEF HubInv
<1> QED
  BY <1>2, <1>4, <1>5

\* call pins the agent and keeps the connection it was given.
LEMMA RouteInv ==
  ASSUME HubInv, NEW k \in Calls, NEW c \in Conns, Route(k, c)
  PROVE  HubInv'
<1> USE HubAssumption DEF HubInv, RoutingInv, WaiterInv, TypeOK, CallSound, InCall, Routed, IDs
<1>1. session[c] = "serving" /\ (assignments[AgentOf[k]] # NoConn => c = assignments[AgentOf[k]])
  BY CandidatesLive DEF Route
<1>2. limits[c].payload \in Nat /\ SizeOf[k] \in Nat
  OBVIOUS
<1>3. /\ pc[k] \in {"idle", "checked"}
      /\ assignments' = [assignments EXCEPT ![AgentOf[k]] = c]
      /\ UNCHANGED <<session, wid, limits, nextID, pending, outbox, answer, orphans,
                     workers, id, waiter, ctxDone>>
  BY DEF Route, BeforeRouting, connVars
<1>4. CASE SizeOf[k] > limits[c].payload
  <2>1. /\ pc' = [pc EXCEPT ![k] = "returned"]
        /\ result' = [result EXCEPT ![k] = "too_large"]
        /\ conn' = conn
    BY <1>2, <1>4 DEF Route, Return
  <2>2. TypeOK'
    BY <1>3, <2>1 DEF Sessions, CallStates, Failures
  <2>3. RoutingInv'
    BY <1>1, <1>3, <2>1 DEF OneConnectionPerWorker, Registered, PinsAreLive, OneSandboxPerAgent
  <2>4. WaiterInv'
    BY <1>3, <2>1 DEF UniqueIDs, PendingSound, OutboxSound, NoLostWaiter
  <2> QED
    BY <2>2, <2>3, <2>4
<1>5. CASE SizeOf[k] <= limits[c].payload
  <2>1. /\ pc' = [pc EXCEPT ![k] = "routed"]
        /\ result' = result
        /\ conn' = [conn EXCEPT ![k] = c]
    BY <1>2, <1>5 DEF Route, Return
  <2>2. TypeOK'
    BY <1>3, <2>1 DEF Sessions, CallStates, Failures
  <2>3. RoutingInv'
    BY <1>1, <1>3, <2>1 DEF OneConnectionPerWorker, Registered, PinsAreLive, OneSandboxPerAgent
  <2>4. WaiterInv'
    BY <1>3, <2>1 DEF UniqueIDs, PendingSound, OutboxSound, NoLostWaiter
  <2> QED
    BY <2>2, <2>3, <2>4
<1> HIDE DEF HubInv
<1> QED
  BY <1>2, <1>4, <1>5

\* A call that finds its connection closed returns.
LEMMA FindClosedInv ==
  ASSUME HubInv, NEW k \in Calls, FindClosed(k)
  PROVE  HubInv'
<1> USE HubAssumption DEF HubInv, RoutingInv, WaiterInv, TypeOK, CallSound, InCall, Routed, IDs,
         connVars, callVars, routeVars, FindClosed, Closed, Return, Failures
<1>1. TypeOK'
  BY DEF OneConnectionPerWorker, Sessions, CallStates
<1>2. RoutingInv'
  BY DEF OneConnectionPerWorker, Registered, PinsAreLive, OneSandboxPerAgent, PendingSound, OutboxSound
<1>3. WaiterInv'
  BY DEF UniqueIDs, PendingSound, OutboxSound, NoLostWaiter
<1> QED
  BY <1>1, <1>2, <1>3

\* The next id has no waiter under it and no call has had it.
LEMMA RegisterInv ==
  ASSUME HubInv, NEW k \in Calls, Register(k)
  PROVE  HubInv'
<1> USE HubAssumption DEF HubInv, RoutingInv, WaiterInv, TypeOK, CallSound, InCall, Routed, IDs,
         connVars, callVars, routeVars, Register, Closed, FreshID
<1>1. TypeOK'
  BY DEF OneConnectionPerWorker, Sessions, CallStates
<1>2. RoutingInv'
  BY DEF OneConnectionPerWorker, Registered, PinsAreLive, OneSandboxPerAgent, PendingSound, OutboxSound
<1>3. WaiterInv'
  BY DEF UniqueIDs, PendingSound, OutboxSound, NoLostWaiter
<1> QED
  BY <1>1, <1>2, <1>3

\* The request has been written.
LEMMA SendInv ==
  ASSUME HubInv, NEW k \in Calls, Send(k)
  PROVE  HubInv'
<1> USE HubAssumption DEF HubInv, RoutingInv, WaiterInv, TypeOK, CallSound, InCall, Routed, IDs,
         connVars, callVars, routeVars, Send
<1>1. TypeOK'
  BY DEF OneConnectionPerWorker, Sessions, CallStates
<1>2. RoutingInv'
  BY DEF OneConnectionPerWorker, Registered, PinsAreLive, OneSandboxPerAgent, PendingSound, OutboxSound
<1>3. WaiterInv'
  BY DEF UniqueIDs, PendingSound, OutboxSound, NoLostWaiter
<1> QED
  BY <1>1, <1>2, <1>3

\* A call that could not send removes its own waiter and nobody else's.
LEMMA SendFailsInv ==
  ASSUME HubInv, NEW k \in Calls, SendFails(k)
  PROVE  HubInv'
<1> USE HubAssumption DEF HubInv, RoutingInv, WaiterInv, TypeOK, CallSound, InCall, Routed, IDs,
         connVars, callVars, routeVars, SendFails, Forget, Without, Return, Failures
<1>1. TypeOK'
  BY DEF OneConnectionPerWorker, Sessions, CallStates
<1>2. RoutingInv'
  BY DEF OneConnectionPerWorker, Registered, PinsAreLive, OneSandboxPerAgent, PendingSound, OutboxSound
<1>3. WaiterInv'
  BY DEF UniqueIDs, PendingSound, OutboxSound, NoLostWaiter
<1> QED
  BY <1>1, <1>2, <1>3

\* A call returns what is in its channel.
LEMMA TakeAnswerInv ==
  ASSUME HubInv, NEW k \in Calls, TakeAnswer(k)
  PROVE  HubInv'
<1> USE HubAssumption DEF HubInv, RoutingInv, WaiterInv, TypeOK, CallSound, InCall, Routed, IDs,
         connVars, callVars, routeVars, TakeAnswer, Return, Failures
<1>1. TypeOK'
  BY DEF OneConnectionPerWorker, Sessions, CallStates
<1>2. RoutingInv'
  BY DEF OneConnectionPerWorker, Registered, PinsAreLive, OneSandboxPerAgent, PendingSound, OutboxSound
<1>3. WaiterInv'
  BY DEF UniqueIDs, PendingSound, OutboxSound, NoLostWaiter
<1> QED
  BY <1>1, <1>2, <1>3

\* A call that gives up removes its own waiter and nobody else's.
LEMMA GiveUpInv ==
  ASSUME HubInv, NEW k \in Calls, GiveUp(k)
  PROVE  HubInv'
<1> USE HubAssumption DEF HubInv, RoutingInv, WaiterInv, TypeOK, CallSound, InCall, Routed, IDs,
         connVars, callVars, routeVars, GiveUp, Forget, Without
<1>1. TypeOK'
  BY DEF OneConnectionPerWorker, Sessions, CallStates
<1>2. RoutingInv'
  BY DEF OneConnectionPerWorker, Registered, PinsAreLive, OneSandboxPerAgent, PendingSound, OutboxSound
<1>3. WaiterInv'
  BY DEF UniqueIDs, PendingSound, OutboxSound, NoLostWaiter
<1> QED
  BY <1>1, <1>2, <1>3

\* The cancel frame changes nothing the invariant is about.
LEMMA SendCancelInv ==
  ASSUME HubInv, NEW k \in Calls, SendCancel(k)
  PROVE  HubInv'
<1> USE HubAssumption DEF HubInv, RoutingInv, WaiterInv, TypeOK, CallSound, InCall, Routed, IDs,
         connVars, callVars, routeVars, SendCancel, Return, Failures
<1>1. TypeOK'
  BY DEF OneConnectionPerWorker, Sessions, CallStates
<1>2. RoutingInv'
  BY DEF OneConnectionPerWorker, Registered, PinsAreLive, OneSandboxPerAgent, PendingSound, OutboxSound
<1>3. WaiterInv'
  BY DEF UniqueIDs, PendingSound, OutboxSound, NoLostWaiter
<1> QED
  BY <1>1, <1>2, <1>3

\* Only the select looks at the context.
LEMMA EndContextInv ==
  ASSUME HubInv, NEW k \in Calls, EndContext(k)
  PROVE  HubInv'
<1> USE HubAssumption DEF HubInv, RoutingInv, WaiterInv, TypeOK, CallSound, InCall, Routed, IDs,
         connVars, callVars, routeVars, EndContext
<1>1. TypeOK'
  BY DEF OneConnectionPerWorker, Sessions, CallStates
<1>2. RoutingInv'
  BY DEF OneConnectionPerWorker, Registered, PinsAreLive, OneSandboxPerAgent, PendingSound, OutboxSound
<1>3. WaiterInv'
  BY DEF UniqueIDs, PendingSound, OutboxSound, NoLostWaiter
<1> QED
  BY <1>1, <1>2, <1>3

LEMMA HubInvNext == HubInv /\ [Next]_vars => HubInv'
<1> SUFFICES ASSUME HubInv, [Next]_vars PROVE HubInv'
  OBVIOUS
<1>1. CASE UNCHANGED vars
  BY <1>1 DEF vars, connVars, callVars, routeVars, HubInv, TypeOK, RoutingInv, WaiterInv,
     OneConnectionPerWorker, Registered, PinsAreLive, OneSandboxPerAgent, CallSound,
     UniqueIDs, PendingSound, OutboxSound, NoLostWaiter
<1>2. ASSUME NEW c \in Conns, Connection(c) PROVE HubInv'
  BY <1>2, AcceptInv, RefuseHelloInv, AcceptHelloInv, DeliverResultInv, UnregisterInv DEF Connection
<1>3. ASSUME NEW c \in Conns, Reader(c) PROVE HubInv'
  BY <1>3, FillWaiterInv, CloseInv, PublishOrphanedInv DEF Reader
<1>4. ASSUME NEW k \in Calls, Caller(k) PROVE HubInv'
  BY <1>4, NoWorkerInv, CheckWriteInv, RouteInv, FindClosedInv, RegisterInv, SendInv,
     SendFailsInv, TakeAnswerInv, GiveUpInv, SendCancelInv DEF Caller
<1>5. ASSUME NEW k \in Calls, EndContext(k) PROVE HubInv'
  BY <1>5, EndContextInv
<1> QED
  BY <1>1, <1>2, <1>3, <1>4, <1>5 DEF Next

\* Every reachable state of the hub satisfies the inductive invariant.
LEMMA HubInvariant == Spec => []HubInv
BY HubInvInit, HubInvNext, PTL DEF Spec

\* The hub's maps and the calls' goroutines keep their types.
THEOREM TypeCorrect == Spec => []TypeOK
<1>1. HubInv => TypeOK
  BY DEF HubInv
<1> QED
  BY <1>1, HubInvariant, PTL

\* However connections come and go, workers holds exactly the served ones, one
\* per worker id, and assignments names only those.
THEOREM RegistryConsistent == Spec => [](OneConnectionPerWorker /\ PinsAreLive)
<1>1. HubInv => OneConnectionPerWorker /\ PinsAreLive
  BY DEF HubInv, RoutingInv
<1> QED
  BY <1>1, HubInvariant, PTL

\* Of several connections that claim one name exactly one is served at a time
\* (workerhub.go:240-249).
THEOREM NamesAreUnique == Spec => []OneConnectionPerWorker
<1>1. OneConnectionPerWorker /\ PinsAreLive => OneConnectionPerWorker
  OBVIOUS
<1> QED
  BY <1>1, RegistryConsistent, PTL

\* No two live workers ever run calls of one agent at the same time.
THEOREM AgentHasOneSandbox == Spec => []OneSandboxPerAgent
<1>1. HubInv => OneSandboxPerAgent
  BY DEF HubInv, RoutingInv
<1> QED
  BY <1>1, HubInvariant, PTL

\* The goroutine reading a connection finds room in every waiter it fills.
THEOREM ReaderIsNeverBlocked == Spec => []ReaderNeverBlocks
<1>1. HubInv => ReaderNeverBlocks
  BY DEF HubInv, WaiterInv, OutboxSound, ReaderNeverBlocks
<1> QED
  BY <1>1, HubInvariant, PTL

\* A waiting call whose channel is empty has somebody who will fill it.
THEOREM WaiterIsNeverLost == Spec => []NoLostWaiter
<1>1. HubInv => NoLostWaiter
  BY DEF HubInv, WaiterInv
<1> QED
  BY <1>1, HubInvariant, PTL

\* pending holds waiting calls only.
THEOREM PendingHoldsWaiters == Spec => []NoLeakedWaiter
<1>1. HubInv => NoLeakedWaiter
  BY DEF HubInv, WaiterInv, PendingSound, NoLeakedWaiter, PendingCalls
<1> QED
  BY <1>1, HubInvariant, PTL

\* A pin is only ever given up by the drop of the connection it names.
THEOREM RoutingIsSticky == Spec => StickyRouting
<1> DEFINE Step == \A a \in Agents :
             assignments[a] # NoConn /\ assignments'[a] # assignments[a] =>
               assignments'[a] = NoConn /\ session'[assignments[a]] # "serving"
<1>1. HubInv /\ [Next]_vars => [Step]_vars
  <2> SUFFICES ASSUME HubInv, Next, NEW a \in Agents,
                      assignments[a] # NoConn, assignments'[a] # assignments[a]
               PROVE  assignments'[a] = NoConn /\ session'[assignments[a]] # "serving"
    BY DEF vars, connVars, callVars, routeVars
  <2> USE DEF HubInv, TypeOK, connVars, callVars, routeVars
  <2>1. ASSUME NEW c \in Conns, Connection(c)
        PROVE  assignments'[a] = NoConn /\ session'[assignments[a]] # "serving"
    BY <2>1 DEF Connection, Accept, RefuseHello, AcceptHello, Free, Reclaimed, DeliverResult, Unregister, Unpinned
  <2>2. ASSUME NEW c \in Conns, Reader(c) PROVE FALSE
    BY <2>2 DEF Reader, FillWaiter, Close, PublishOrphaned
  <2>3. ASSUME NEW k \in Calls, NEW c \in Conns, CheckWrite(k, c) \/ Route(k, c) PROVE FALSE
    BY <2>3, CandidatesLive, HubAssumption DEF CheckWrite, Route
  <2>4. ASSUME NEW k \in Calls, Caller(k) PROVE FALSE
    BY <2>3, <2>4 DEF Caller, NoWorker, FindClosed, Register, Send, SendFails, TakeAnswer, GiveUp, SendCancel
  <2>5. ASSUME NEW k \in Calls, EndContext(k) PROVE FALSE
    BY <2>5 DEF EndContext
  <2> QED
    BY <2>1, <2>2, <2>4, <2>5 DEF Next
<1> QED
  BY <1>1, HubInvariant, PTL DEF Spec, StickyRouting
=============================================================================
