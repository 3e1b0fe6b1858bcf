-------------------------- MODULE WorkerLinkProofs --------------------------
(***************************************************************************)
(* Proofs about WorkerLink: the hub with real workers attached behaves as  *)
(* the hub of WorkerHub.tla with an arbitrary environment, so everything   *)
(* WorkerHubProofs.tla establishes holds of the whole; and an answer never *)
(* reaches another call of its connection.                                 *)
(***************************************************************************)
EXTENDS WorkerLink, WorkerHubProofs

-----------------------------------------------------------------------------
(***************************************************************************)
(* The inductive invariant.                                                *)
(***************************************************************************)

Used == {"serving", "unregistered", "closed"}

\* The calls whose request has an id: their connection was registered.
Made ==
  {k \in Calls : /\ id[k] \in IDs
                 /\ conn[k] \in Conns
                 /\ session[conn[k]] \in Used
                 /\ wid[conn[k]] \in WorkerIds}

\* What is written on a socket names requests that were made.
UpSound ==
  \A c \in Conns : \A n \in 1..Len(up[c]) :
    up[c][n].type = "result" => id[up[c][n].call] = up[c][n].id

DownSound ==
  \A c \in Conns : \A n \in 1..Len(down[c]) : down[c][n].call \in Made

TaskSound ==
  /\ \A k \in Calls : task[k] # "none" => k \in Made
  /\ \A w \in WorkerIds : phase[w] # "redial" => link[w] \in Conns

\* A connection that was registered has a name.
Named == \A c \in Conns : session[c] \in Used => wid[c] \in WorkerIds

SameID(k, l) == l \in Calls /\ id[k] # 0 /\ id[l] = id[k]

\* The frames on their way to a caller carry the results its id was given to.
AnswerSound ==
  /\ \A c \in Conns : \A k \in outbox[c] : session[c] = "serving" => SameID(k, answer[c])
  /\ \A k \in Calls : waiter[k] \in Calls => SameID(k, waiter[k])
  /\ \A k \in Calls : result[k] \in Calls => SameID(k, result[k])

FrameInv == UpSound /\ DownSound /\ TaskSound

LinkInv == HubInv /\ Named /\ LinkTypeOK /\ FrameInv /\ AnswerSound
-----------------------------------------------------------------------------
\* A worker that was registered keeps its name; a call that has a request id
\* keeps it, and its connection.
LEMMA MadeIsStable ==
  ASSUME HubInv, [Next]_vars
  PROVE  /\ \A k \in Calls : id[k] # 0 => id'[k] = id[k] /\ conn'[k] = conn[k]
         /\ \A c \in Conns : session[c] \in Used => session'[c] \in Used /\ wid'[c] = wid[c]
<1> USE DEF HubInv, TypeOK, connVars, callVars, routeVars, Used
<1> DEFINE Kept == /\ \A k \in Calls : id[k] # 0 => id'[k] = id[k] /\ conn'[k] = conn[k]
                   /\ \A c \in Conns : session[c] \in Used => session'[c] \in Used /\ wid'[c] = wid[c]
<1>1. CASE UNCHANGED vars
  BY <1>1 DEF vars
<1>2. ASSUME NEW c \in Conns, Connection(c) PROVE Kept
  BY <1>2 DEF Connection, Accept, RefuseHello, AcceptHello, DeliverResult, Unregister
<1>3. ASSUME NEW c \in Conns, Reader(c) PROVE Kept
  BY <1>3 DEF Reader, FillWaiter, Close, PublishOrphaned
<1>4. ASSUME NEW k \in Calls, Caller(k) PROVE Kept
  BY <1>4 DEF Caller, NoWorker, CheckWrite, Route, FindClosed, Register, Send, SendFails, TakeAnswer,
     GiveUp, SendCancel, RoutingInv, CallSound, BeforeRouting
<1>5. ASSUME NEW k \in Calls, EndContext(k) PROVE Kept
  BY <1>5 DEF EndContext
<1> QED
  BY <1>1, <1>2, <1>3, <1>4, <1>5 DEF Next

LEMMA MadeStays ==
  ASSUME HubInv, [Next]_vars
  PROVE  Made \subseteq Made'
BY MadeIsStable DEF Made, IDs

LEMMA NamedStays == HubInv /\ Named /\ [Next]_vars => Named'
<1> USE DEF HubInv, TypeOK, connVars, callVars, routeVars, Used, Named
<1> SUFFICES ASSUME HubInv, Named, [Next]_vars PROVE Named'
  OBVIOUS
<1>1. CASE UNCHANGED vars
  BY <1>1 DEF vars
<1>2. ASSUME NEW c \in Conns, Connection(c) PROVE Named'
  <2>1. CASE Accept(c) \/ RefuseHello(c)
    BY <2>1 DEF Accept, RefuseHello
  <2>2. ASSUME NEW w \in WorkerIds, NEW held \in SUBSET Agents, NEW lim \in Limits,
               AcceptHello(c, w, held, lim)
        PROVE  Named'
    BY <2>2 DEF AcceptHello
  <2>3. ASSUME NEW i \in IDs, NEW ans \in Answers, DeliverResult(c, i, ans) PROVE Named'
    BY <2>3 DEF DeliverResult
  <2>4. CASE Unregister(c)
    BY <2>4 DEF Unregister, Reading
  <2> QED
    BY <1>2, <2>1, <2>2, <2>3, <2>4 DEF Connection
<1>3. ASSUME NEW c \in Conns, Reader(c) PROVE Named'
  BY <1>3 DEF Reader, FillWaiter, Close, PublishOrphaned
<1>4. ASSUME NEW k \in Calls, Caller(k) PROVE Named'
  BY <1>4 DEF Caller, NoWorker, CheckWrite, Route, FindClosed, Register, Send, SendFails, TakeAnswer,
     GiveUp, SendCancel
<1>5. ASSUME NEW k \in Calls, EndContext(k) PROVE Named'
  BY <1>5 DEF EndContext
<1> QED
  BY <1>1, <1>2, <1>3, <1>4, <1>5 DEF Next

\* A call with an id to write on a frame is made.
LEMMA RegisteredIsMade ==
  ASSUME HubInv, Named, NEW k \in Calls, pc[k] \in {"registered", "waiting", "cancelling"}
  PROVE  k \in Made
BY DEF HubInv, RoutingInv, CallSound, Named, Routed, InCall, Made, Used, IDs
-----------------------------------------------------------------------------
(***************************************************************************)
(* Answers.                                                                *)
(***************************************************************************)

\* A step of the hub that delivers, if anything, the result of the request id.
SoundStep ==
  \/ UNCHANGED vars
  \/ \E c \in Conns :
       \/ Accept(c) \/ RefuseHello(c) \/ Unregister(c) \/ Reader(c)
       \/ \E w \in WorkerIds, held \in SUBSET Agents, lim \in Limits : AcceptHello(c, w, held, lim)
       \/ \E i \in IDs, ans \in Answers : DeliverResult(c, i, ans) /\ id[ans] = i
  \/ \E k \in Calls : Caller(k) \/ EndContext(k)

LEMMA SoundStepIsHubStep == SoundStep => [Next]_vars
BY DEF SoundStep, Next, Connection

\* Such a step leaves the results of their request ids in the callers' hands.
LEMMA AnswerSoundNext ==
  ASSUME HubInv, AnswerSound, SoundStep
  PROVE  AnswerSound'
<1> USE LinkAssumption, HubAssumption
<1>1. \A k \in Calls : id[k] # 0 => id'[k] = id[k]
  BY MadeIsStable, SoundStepIsHubStep
<1>2. \A k, l \in Calls : SameID(k, l) => SameID(k, l)'
  BY <1>1 DEF SameID
<1> HIDE LinkAssumption
<1> USE DEF HubInv, TypeOK, WaiterInv, OutboxSound, AnswerSound, connVars, callVars, routeVars
<1>3. CASE UNCHANGED vars
  BY <1>3 DEF vars, SameID
<1>4. ASSUME NEW c \in Conns, Accept(c) \/ RefuseHello(c) \/ Unregister(c) PROVE AnswerSound'
  <2>1. CASE Accept(c) \/ RefuseHello(c)
    <3>1. /\ UNCHANGED <<id, outbox, answer, waiter, result>>
          /\ \A d \in Conns : session'[d] = "serving" => session[d] = "serving"
      BY <2>1 DEF Accept, RefuseHello
    <3> QED
      BY <3>1 DEF SameID
  <2>2. CASE Unregister(c)
    BY <2>2 DEF Unregister, Reading, SameID
  <2> QED
    BY <1>4, <2>1, <2>2
<1>5. ASSUME NEW c \in Conns, NEW w \in WorkerIds, NEW held \in SUBSET Agents, NEW lim \in Limits,
             AcceptHello(c, w, held, lim)
      PROVE  AnswerSound'
  BY <1>5 DEF AcceptHello, SameID
<1>6. ASSUME NEW c \in Conns, NEW i \in IDs, NEW ans \in Answers, DeliverResult(c, i, ans), id[ans] = i
      PROVE  AnswerSound'
  <2>1. id[ans] = i
    BY <1>6
  <2>2. /\ session' = session /\ id' = id /\ waiter' = waiter /\ result' = result
        /\ \A d \in Conns \ {c} : outbox'[d] = outbox[d] /\ answer'[d] = answer[d]
    BY <1>6 DEF DeliverResult
  <2>3. ASSUME NEW k \in outbox'[c] PROVE SameID(k, answer[c])'
    <3>1. k = pending[c][i] /\ k # NoCall /\ answer'[c] = ans
      BY <1>6, <2>3 DEF DeliverResult, WaiterFor
    <3>2. id[k] = i /\ i # 0
      BY <3>1 DEF PendingSound, IDs
    <3> QED
      BY <2>1, <2>2, <3>1, <3>2, LinkAssumption DEF SameID
  <2>4. ASSUME NEW d \in Conns \ {c}, NEW k \in outbox'[d], session'[d] = "serving"
        PROVE  SameID(k, answer[d])'
    BY <2>2, <2>4 DEF SameID
  <2>5. \A k \in Calls : /\ waiter'[k] \in Calls => SameID(k, waiter[k])'
                         /\ result'[k] \in Calls => SameID(k, result[k])'
    BY <2>2 DEF SameID
  <2> QED
    BY <2>3, <2>4, <2>5
<1>7. ASSUME NEW c \in Conns, Reader(c) PROVE AnswerSound'
  <2>1. ASSUME NEW k \in Calls, FillWaiter(c, k) PROVE AnswerSound'
    <3>1. /\ session' = session /\ id' = id /\ result' = result
          /\ k \in outbox[c] /\ outbox' = [outbox EXCEPT ![c] = @ \ {k}]
          /\ answer' = [answer EXCEPT ![c] = NoFrame]
          /\ waiter' = [waiter EXCEPT ![k] = IF session[c] = "serving" THEN answer[c] ELSE "disconnected"]
      BY <2>1 DEF FillWaiter
    <3>2. waiter'[k] \in Calls => SameID(k, waiter[k])'
      BY <3>1, LinkAssumption DEF Failures, SameID
    <3> QED
      BY <3>1, <3>2 DEF SameID
  <2>2. CASE Close(c)
    BY <2>2 DEF Close, SameID
  <2>3. ASSUME NEW a \in Agents, PublishOrphaned(c, a) PROVE AnswerSound'
    BY <2>3 DEF PublishOrphaned, SameID
  <2> QED
    BY <1>7, <2>1, <2>2, <2>3 DEF Reader
<1>8. ASSUME NEW k \in Calls, Caller(k) PROVE AnswerSound'
  <2>1. UNCHANGED <<session, outbox, answer, waiter>>
    BY <1>8 DEF Caller, NoWorker, CheckWrite, Route, FindClosed, Register, Send, SendFails, TakeAnswer,
       GiveUp, SendCancel
  <2>2. \/ result' = result
        \/ \E r \in Failures : result' = [result EXCEPT ![k] = r]
        \/ waiter[k] # NoFrame /\ result' = [result EXCEPT ![k] = waiter[k]]
    BY <1>8 DEF Caller, NoWorker, CheckWrite, Route, FindClosed, Register, Send, SendFails, TakeAnswer,
       GiveUp, SendCancel, Return, Failures
  <2>3. \A l \in Calls : result'[l] \in Calls => SameID(l, result'[l])
    BY <2>2, LinkAssumption
  <2> QED
    BY <1>2, <2>1, <2>3 DEF SameID
<1>9. ASSUME NEW k \in Calls, EndContext(k) PROVE AnswerSound'
  BY <1>9 DEF EndContext, SameID
<1> QED
  BY <1>3, <1>4, <1>5, <1>6, <1>7, <1>8, <1>9 DEF SoundStep
-----------------------------------------------------------------------------
(***************************************************************************)
(* The sockets and the workers.                                            *)
(***************************************************************************)

\* What a step may do to a socket: nothing, read a frame, lose them all, or add
\* one that names a request that was made.
UpMove(c) ==
  \/ up'[c] = up[c]
  \/ up'[c] = <<>>
  \/ up[c] # <<>> /\ up'[c] = Tail(up[c])
  \/ \E f \in UpFrames : (f.type = "result" => id[f.call] = f.id) /\ up'[c] = Append(up[c], f)

DownMove(c) ==
  \/ down'[c] = down[c]
  \/ down'[c] = <<>>
  \/ down[c] # <<>> /\ down'[c] = Tail(down[c])
  \/ \E f \in DownFrames : f.call \in Made /\ down'[c] = Append(down[c], f)

SocketMoves ==
  /\ up' = [c \in Conns |-> up'[c]] /\ \A c \in Conns : UpMove(c)
  /\ down' = [c \in Conns |-> down'[c]] /\ \A c \in Conns : DownMove(c)

\* The types of the worker's variables, and what they say of the calls.
WorkerTypeOK ==
  /\ alive \in [Conns -> BOOLEAN]
  /\ link \in [WorkerIds -> Conns \cup {NoConn}]
  /\ phase \in [WorkerIds -> Phases]
  /\ holds \in [WorkerIds -> SUBSET Agents]
  /\ inflight \in [WorkerIds -> [IDs -> Calls \cup {NoCall}]]
  /\ task \in [Calls -> TaskStates]
  /\ cancelled \in [Calls -> BOOLEAN]

WorkerMoves ==
  /\ WorkerTypeOK'
  /\ \A k \in Calls : task'[k] # "none" => task[k] # "none" \/ k \in Made
  /\ \A w \in WorkerIds : phase'[w] # "redial" => link'[w] \in Conns

LinkMove == SoundStep /\ SocketMoves /\ WorkerMoves

LEMMA UpStays ==
  ASSUME LinkInv, [Next]_vars, SocketMoves
  PROVE  up' \in [Conns -> Seq(UpFrames)] /\ UpSound'
<1>1. up \in [Conns -> Seq(UpFrames)] /\ UpSound
  BY DEF LinkInv, LinkTypeOK, FrameInv
<1>2. \A k \in Calls : id[k] # 0 => id'[k] = id[k]
  BY MadeIsStable DEF LinkInv
<1>3. ASSUME NEW c \in Conns
      PROVE  /\ up'[c] \in Seq(UpFrames)
             /\ \A n \in 1..Len(up'[c]) :
                  up'[c][n].type = "result" => id'[up'[c][n].call] = up'[c][n].id
  <2>1. \A f \in UpFrames : f.type = "result" /\ id[f.call] = f.id => id'[f.call] = f.id
    BY <1>2 DEF UpFrames, IDs
  <2>2. up[c] \in Seq(UpFrames) /\ \A n \in 1..Len(up[c]) : up[c][n] \in UpFrames
    BY <1>1
  <2>3. UpMove(c)
    BY DEF SocketMoves
  <2>4. CASE up'[c] = up[c]
    BY <1>1, <2>1, <2>2, <2>4 DEF UpSound
  <2>5. CASE up'[c] = <<>>
    BY <2>5
  <2>6. CASE up[c] # <<>> /\ up'[c] = Tail(up[c])
    <3>1. /\ up'[c] \in Seq(UpFrames)
          /\ \A n \in 1..Len(up'[c]) : n + 1 \in 1..Len(up[c]) /\ up'[c][n] = up[c][n + 1]
      BY <2>2, <2>6
    <3> QED
      BY <1>1, <2>1, <2>2, <3>1 DEF UpSound
  <2>7. ASSUME NEW f \in UpFrames, f.type = "result" => id[f.call] = f.id, up'[c] = Append(up[c], f)
        PROVE  /\ up'[c] \in Seq(UpFrames)
               /\ \A n \in 1..Len(up'[c]) :
                    up'[c][n].type = "result" => id'[up'[c][n].call] = up'[c][n].id
    <3>1. /\ up'[c] \in Seq(UpFrames)
          /\ \A n \in 1..Len(up'[c]) : (n \in 1..Len(up[c]) /\ up'[c][n] = up[c][n]) \/ up'[c][n] = f
      BY <2>2, <2>7
    <3> QED
      BY <1>1, <2>1, <2>2, <2>7, <3>1 DEF UpSound
  <2> QED
    BY <2>3, <2>4, <2>5, <2>6, <2>7 DEF UpMove
<1> QED
  BY <1>3 DEF UpSound, SocketMoves

LEMMA DownStays ==
  ASSUME LinkInv, [Next]_vars, SocketMoves
  PROVE  down' \in [Conns -> Seq(DownFrames)] /\ DownSound'
<1>1. down \in [Conns -> Seq(DownFrames)] /\ DownSound
  BY DEF LinkInv, LinkTypeOK, FrameInv
<1>2. Made \subseteq Made'
  BY MadeStays DEF LinkInv
<1>3. ASSUME NEW c \in Conns
      PROVE  down'[c] \in Seq(DownFrames) /\ \A n \in 1..Len(down'[c]) : down'[c][n].call \in Made'
  <2>1. DownMove(c)
    BY DEF SocketMoves
  <2>2. down[c] \in Seq(DownFrames) /\ \A n \in 1..Len(down[c]) : down[c][n].call \in Made'
    BY <1>1, <1>2 DEF DownSound
  <2>3. CASE down'[c] = down[c]
    BY <2>2, <2>3
  <2>4. CASE down'[c] = <<>>
    BY <2>4
  <2>5. CASE down[c] # <<>> /\ down'[c] = Tail(down[c])
    BY <2>2, <2>5
  <2>6. ASSUME NEW f \in DownFrames, f.call \in Made, down'[c] = Append(down[c], f)
        PROVE  down'[c] \in Seq(DownFrames) /\ \A n \in 1..Len(down'[c]) : down'[c][n].call \in Made'
    BY <1>2, <2>2, <2>6
  <2> QED
    BY <2>1, <2>3, <2>4, <2>5, <2>6 DEF DownMove
<1> QED
  BY <1>3 DEF DownSound, SocketMoves

\* A move of the link preserves the invariant.
LEMMA LinkInvMove ==
  ASSUME LinkInv, LinkMove
  PROVE  LinkInv'
<1>1. [Next]_vars
  BY SoundStepIsHubStep DEF LinkMove
<1>2. HubInv' /\ Named' /\ AnswerSound'
  BY <1>1, HubInvNext, NamedStays, AnswerSoundNext DEF LinkInv, LinkMove
<1>3. /\ up' \in [Conns -> Seq(UpFrames)] /\ UpSound'
      /\ down' \in [Conns -> Seq(DownFrames)] /\ DownSound'
  BY <1>1, UpStays, DownStays DEF LinkMove
<1>4. LinkTypeOK'
  BY <1>2, <1>3 DEF LinkMove, WorkerMoves, WorkerTypeOK, LinkTypeOK, HubInv
<1>5. TaskSound'
  BY <1>1, MadeStays DEF LinkInv, FrameInv, TaskSound, LinkMove, WorkerMoves
<1> QED
  BY <1>2, <1>3, <1>4, <1>5 DEF LinkInv, FrameInv

\* A frame at the head of a socket is one of its frames.
LEMMA HeadFrames ==
  ASSUME LinkInv, NEW c \in Conns
  PROVE  /\ up[c] # <<>> => /\ Head(up[c]) \in UpFrames
                            /\ Head(up[c]).type = "result" => id[Head(up[c]).call] = Head(up[c]).id
         /\ down[c] # <<>> => Head(down[c]) \in DownFrames /\ Head(down[c]).call \in Made
<1>1. up[c] \in Seq(UpFrames) /\ down[c] \in Seq(DownFrames)
  BY DEF LinkInv, LinkTypeOK
<1>2. up[c] # <<>> => Head(up[c]) = up[c][1] /\ 1 \in 1..Len(up[c]) /\ up[c][1] \in UpFrames
  BY <1>1
<1>3. down[c] # <<>> => Head(down[c]) = down[c][1] /\ 1 \in 1..Len(down[c]) /\ down[c][1] \in DownFrames
  BY <1>1
<1> QED
  BY <1>2, <1>3 DEF LinkInv, FrameInv, UpSound, DownSound

\* Frames written by a worker name requests that were made.
LEMMA WriteMoves ==
  ASSUME LinkInv, NEW w \in WorkerIds, NEW f \in UpFrames, Write(w, f),
         f.type = "result" => id[f.call] = f.id
  PROVE  up' = [c \in Conns |-> up'[c]] /\ \A c \in Conns : UpMove(c)
BY DEF LinkInv, LinkTypeOK, Write, UpMove

LEMMA HubReaderMoves ==
  ASSUME LinkInv, NEW c \in Conns, HubReader(c)
  PROVE  LinkMove
<1> USE LinkAssumption
<1> USE DEF LinkInv, LinkTypeOK, WorkerTypeOK, FrameInv, TaskSound, LinkMove, SocketMoves, WorkerMoves,
         UpMove, DownMove
<1>1. up[c] # <<>> => /\ Head(up[c]) \in UpFrames
                      /\ Head(up[c]).type = "result" => id[Head(up[c]).call] = Head(up[c]).id
  BY HeadFrames
<1>2. CASE HubReadsHello(c)
  <2>1. PICK lim \in Limits : AcceptHello(c, Head(up[c]).worker, Head(up[c]).held, lim)
    BY <1>2 DEF HubReadsHello
  <2>2. Head(up[c]).worker \in WorkerIds /\ Head(up[c]).held \in SUBSET Agents
    BY <1>1, <1>2 DEF HubReadsHello, Incoming, UpFrames
  <2>3. SoundStep
    BY <2>1, <2>2 DEF SoundStep
  <2>4. SocketMoves
    BY <1>2 DEF HubReadsHello, Incoming, Consume
  <2>5. WorkerMoves
    BY <1>2 DEF HubReadsHello
  <2> QED
    BY <2>3, <2>4, <2>5
<1>3. CASE HubRefuses(c)
  <2>1. SoundStep
    BY <1>3 DEF HubRefuses, SoundStep
  <2>2. SocketMoves
    BY <1>3 DEF HubRefuses, HangUp
  <2>3. WorkerMoves
    BY <1>3 DEF HubRefuses, HangUp
  <2> QED
    BY <2>1, <2>2, <2>3
<1>4. CASE HubReadsResult(c)
  <2>1. /\ Head(up[c]).id \in IDs /\ Head(up[c]).call \in Answers
        /\ id[Head(up[c]).call] = Head(up[c]).id
    BY <1>1, <1>4 DEF HubReadsResult, Incoming, UpFrames
  <2>2. SoundStep
    BY <1>4, <2>1 DEF HubReadsResult, SoundStep
  <2>3. SocketMoves
    BY <1>4 DEF HubReadsResult, Incoming, Consume
  <2>4. WorkerMoves
    BY <1>4 DEF HubReadsResult
  <2> QED
    BY <2>2, <2>3, <2>4
<1>5. CASE HubReadsEvent(c)
  BY <1>5 DEF HubReadsEvent, Incoming, Consume, SoundStep
<1>6. CASE HubLosesWorker(c)
  BY <1>6 DEF HubLosesWorker, SoundStep
<1>7. CASE HubConnection(c)
  BY <1>7 DEF HubConnection, linkVars, SoundStep
<1> QED
  BY <1>2, <1>3, <1>4, <1>5, <1>6, <1>7 DEF HubReader

LEMMA HubCallMoves ==
  ASSUME LinkInv, NEW k \in Calls, HubCall(k) \/ HubContext(k)
  PROVE  LinkMove
<1> USE DEF LinkInv, LinkTypeOK, WorkerTypeOK, FrameInv, TaskSound, LinkMove, SocketMoves, WorkerMoves,
         UpMove, DownMove
<1>1. pc[k] \in {"registered", "waiting", "cancelling"} => k \in Made
  BY RegisteredIsMade
<1>2. CASE HubSends(k)
  <2>1. k \in Made /\ conn[k] \in Conns /\ Request(k) \in DownFrames /\ Request(k).call = k
    BY <1>1, <1>2 DEF HubSends, Send, Made, Request, DownFrames
  <2>2. SoundStep
    BY <1>2 DEF HubSends, SoundStep, Caller
  <2>3. SocketMoves
    BY <1>2, <2>1 DEF HubSends
  <2>4. WorkerMoves
    BY <1>2 DEF HubSends
  <2> QED
    BY <2>2, <2>3, <2>4
<1>3. CASE HubCancels(k)
  <2>1. k \in Made /\ conn[k] \in Conns /\ Cancel(k) \in DownFrames /\ Cancel(k).call = k
    BY <1>1, <1>3 DEF HubCancels, SendCancel, Made, Cancel, DownFrames
  <2>2. SoundStep
    BY <1>3 DEF HubCancels, SoundStep, Caller
  <2>3. SocketMoves
    BY <1>3, <2>1 DEF HubCancels
  <2>4. WorkerMoves
    BY <1>3 DEF HubCancels
  <2> QED
    BY <2>2, <2>3, <2>4
<1>4. CASE HubCannotSend(k)
  BY <1>4 DEF HubCannotSend, linkVars, SoundStep, Caller
<1>5. CASE HubCaller(k)
  BY <1>5 DEF HubCaller, linkVars, SoundStep, Caller
<1>6. CASE HubContext(k)
  BY <1>6 DEF HubContext, linkVars, SoundStep
<1> QED
  BY <1>2, <1>3, <1>4, <1>5, <1>6 DEF HubCall

LEMMA SessionMoves ==
  ASSUME LinkInv, NEW w \in WorkerIds,
         Session(w) \/ Restart(w) \/ \E c \in Conns : Dial(w, c)
  PROVE  LinkMove
<1> USE DEF LinkInv, LinkTypeOK, WorkerTypeOK, FrameInv, TaskSound, LinkMove, SocketMoves, WorkerMoves,
         UpMove, DownMove
<1>1. ASSUME NEW c \in Conns, Dial(w, c) PROVE LinkMove
  BY <1>1 DEF Dial, SoundStep, Phases
<1>2. CASE SayHello(w)
  <2>1. Hello(w) \in UpFrames /\ Hello(w).type # "result"
    BY DEF Hello, UpFrames
  <2>2. up' = [c \in Conns |-> up'[c]] /\ \A c \in Conns : UpMove(c)
    BY <1>2, <2>1, WriteMoves DEF SayHello
  <2>3. WorkerMoves
    BY <1>2 DEF SayHello, Phases
  <2>4. SoundStep
    BY <1>2 DEF SayHello, SoundStep
  <2> QED
    BY <1>2, <2>2, <2>3, <2>4 DEF SayHello
<1>3. CASE EndSession(w)
  BY <1>3 DEF EndSession, SoundStep, Phases
<1>4. CASE ReadRequest(w)
  <2>1. /\ link[w] \in Conns /\ Head(down[link[w]]).call \in Made
        /\ Head(down[link[w]]).call \in Calls
    BY <1>4, HeadFrames DEF ReadRequest, Reads, DownFrames
  <2>2. SocketMoves
    BY <1>4, <2>1 DEF ReadRequest, Reads
  <2>3. WorkerMoves
    BY <1>4, <2>1 DEF ReadRequest, TaskStates, UnderWay
  <2>4. SoundStep
    BY <1>4 DEF ReadRequest, SoundStep
  <2> QED
    BY <2>2, <2>3, <2>4
<1>5. CASE ReadCancel(w)
  <2>1. link[w] \in Conns /\ Head(down[link[w]]).id \in IDs
    BY <1>5, HeadFrames DEF ReadCancel, Reads, DownFrames
  <2>2. SocketMoves
    BY <1>5, <2>1 DEF ReadCancel, Reads
  <2>3. WorkerMoves
    BY <1>5, <2>1 DEF ReadCancel
  <2>4. SoundStep
    BY <1>5 DEF ReadCancel, SoundStep
  <2> QED
    BY <2>2, <2>3, <2>4
<1>6. CASE Restart(w)
  <2>1. SocketMoves /\ SoundStep
    BY <1>6 DEF Restart, SoundStep
  <2>2. /\ link' = [link EXCEPT ![w] = NoConn] /\ phase' = [phase EXCEPT ![w] = "redial"]
        /\ holds' = [holds EXCEPT ![w] = {}]
        /\ inflight' = [inflight EXCEPT ![w] = [i \in IDs |-> NoCall]]
        /\ alive' \in [Conns -> BOOLEAN]
    BY <1>6 DEF Restart
  <2>3. /\ task' \in [Calls -> TaskStates] /\ cancelled' \in [Calls -> BOOLEAN]
        /\ \A k \in Calls : task'[k] # "none" => task[k] # "none"
    BY <1>6 DEF Restart, TaskStates, UnderWay
  <2>4. WorkerMoves
    BY <2>2, <2>3 DEF Phases
  <2> QED
    BY <2>1, <2>4
<1> QED
  BY <1>1, <1>2, <1>3, <1>4, <1>5, <1>6 DEF Session

LEMMA HandlerMoves ==
  ASSUME LinkInv, NEW k \in Calls, Handler(k) \/ EmitEvent(k)
  PROVE  LinkMove
<1> USE HubAssumption DEF LinkInv, LinkTypeOK, WorkerTypeOK, FrameInv, TaskSound, LinkMove, SocketMoves, WorkerMoves,
         UpMove, DownMove
<1>1. task[k] # "none" => Host(k) \in WorkerIds /\ id[k] \in IDs
  BY DEF Made, Host
<1>2. CASE StartTask(k)
  <2>1. SocketMoves /\ SoundStep
    BY <1>2 DEF StartTask, SoundStep
  <2>2. holds' = [holds EXCEPT ![Host(k)] = @ \cup {AgentOf[k]}] /\ AgentOf[k] \in Agents
    BY <1>2 DEF StartTask
  <2>3. /\ task' = [task EXCEPT ![k] = "executing"]
        /\ inflight' = [inflight EXCEPT ![Host(k)][id[k]] = k]
        /\ Host(k) \in WorkerIds
    BY <1>1, <1>2 DEF StartTask
  <2>4. UNCHANGED <<alive, link, phase, cancelled>> /\ task[k] = "spawned"
    BY <1>2 DEF StartTask
  <2>5. holds' \in [WorkerIds -> SUBSET Agents]
    BY <2>2
  <2>6. inflight' \in [WorkerIds -> [IDs -> Calls \cup {NoCall}]]
    BY <2>3
  <2>7. WorkerMoves
    BY <2>3, <2>4, <2>5, <2>6 DEF TaskStates, UnderWay
  <2> QED
    BY <2>1, <2>7
<1>3. CASE FinishTask(k)
  <2>1. SocketMoves /\ SoundStep
    BY <1>3 DEF FinishTask, SoundStep
  <2>2. WorkerMoves
    BY <1>3 DEF FinishTask, TaskStates, UnderWay
  <2> QED
    BY <2>1, <2>2
<1>4. CASE SendResult(k)
  <2>1. Host(k) \in WorkerIds /\ Result(k) \in UpFrames /\ id[Result(k).call] = Result(k).id
    BY <1>1, <1>4 DEF SendResult, Result, UpFrames
  <2>2. up' = [c \in Conns |-> up'[c]] /\ \A c \in Conns : UpMove(c)
    BY <1>4, <2>1, WriteMoves DEF SendResult
  <2>3. WorkerMoves
    BY <1>4 DEF SendResult, TaskStates, UnderWay
  <2>4. SoundStep /\ down' = down
    BY <1>4 DEF SendResult, SoundStep
  <2> QED
    BY <2>2, <2>3, <2>4
<1>6. CASE EndTask(k)
  <2>1. SocketMoves /\ SoundStep
    BY <1>6 DEF EndTask, SoundStep
  <2>2. WorkerMoves
    BY <1>1, <1>6 DEF EndTask, TaskStates, UnderWay, Unfiled
  <2> QED
    BY <2>1, <2>2
<1>5. CASE EmitEvent(k)
  <2>1. Host(k) \in WorkerIds /\ Event(k) \in UpFrames /\ Event(k).type # "result"
    BY <1>1, <1>5 DEF EmitEvent, Event, UpFrames
  <2>2. up' = [c \in Conns |-> up'[c]] /\ \A c \in Conns : UpMove(c)
    BY <1>5, <2>1, WriteMoves DEF EmitEvent
  <2>3. WorkerMoves
    BY <1>5 DEF EmitEvent
  <2>4. SoundStep /\ down' = down
    BY <1>5 DEF EmitEvent, SoundStep
  <2> QED
    BY <2>2, <2>3, <2>4
<1> QED
  BY <1>2, <1>3, <1>4, <1>5, <1>6 DEF Handler

LEMMA LinkStepMoves == LinkInv /\ [LinkNext]_allVars => LinkMove
<1> SUFFICES ASSUME LinkInv, [LinkNext]_allVars PROVE LinkMove
  OBVIOUS
<1>1. CASE UNCHANGED allVars
  BY <1>1 DEF allVars, linkVars, LinkInv, LinkTypeOK, WorkerTypeOK, FrameInv, TaskSound, LinkMove,
     SocketMoves, WorkerMoves, UpMove, DownMove, SoundStep
<1>2. ASSUME NEW c \in Conns, Break(c) PROVE LinkMove
  BY <1>2 DEF Break, LinkInv, LinkTypeOK, WorkerTypeOK, FrameInv, TaskSound, LinkMove,
     SocketMoves, WorkerMoves, UpMove, DownMove, SoundStep
<1> QED
  BY <1>1, <1>2, HubReaderMoves, HubCallMoves, SessionMoves, HandlerMoves DEF LinkNext

LEMMA LinkInvInit == LinkInit => LinkInv
BY HubInvInit, HubAssumption, LinkAssumption DEF LinkInit, Init, LinkInv, LinkTypeOK, HubInv, Named, Used,
   FrameInv, UpSound, DownSound, TaskSound, AnswerSound, Phases, TaskStates, UnderWay

\* Every reachable state of hub and workers satisfies the inductive invariant.
LEMMA LinkInvariant == LinkSpec => []LinkInv
BY LinkInvInit, LinkStepMoves, LinkInvMove, PTL DEF LinkSpec
-----------------------------------------------------------------------------
(***************************************************************************)
(* The cancel functions a worker keeps.  That none is left behind rests on *)
(* each request being read once: it is sent once, on one connection, and   *)
(* nothing has been done for it as long as it is on its way.               *)
(***************************************************************************)

AfterSend == {"waiting", "cancelling", "returned"}

IsRequest(c, n) == n \in 1..Len(down[c]) /\ down[c][n].type = "request"

RequestInv ==
  /\ \A k \in Calls : task[k] # "none" => pc[k] \in AfterSend
  /\ \A c \in Conns : \A n \in 1..Len(down[c]) :
       down[c][n].type = "request" =>
         /\ conn[down[c][n].call] = c
         /\ task[down[c][n].call] = "none"
         /\ pc[down[c][n].call] \in AfterSend
         /\ \A m \in 1..Len(down[c]) :
              m # n /\ down[c][m].type = "request" => down[c][m].call # down[c][n].call

\* A cancel function is that of a handler under way, filed where it belongs.
FiledInv ==
  \A w \in WorkerIds, i \in IDs :
    LET k == inflight[w][i]
    IN  k # NoCall => id[k] = i /\ Host(k) = w /\ task[k] \in UnderWay

HandleInv == LinkInv /\ RequestInv /\ FiledInv

\* A call whose request was written does not go back.
LEMMA SentForGood ==
  ASSUME HubInv, [Next]_vars
  PROVE  \A k \in Calls : pc[k] \in AfterSend => pc'[k] \in AfterSend
<1> USE DEF HubInv, TypeOK, connVars, callVars, routeVars, AfterSend
<1> DEFINE Kept == \A k \in Calls : pc[k] \in AfterSend => pc'[k] \in AfterSend
<1>1. CASE UNCHANGED vars
  BY <1>1 DEF vars
<1>2. ASSUME NEW c \in Conns, Connection(c) PROVE Kept
  BY <1>2 DEF Connection, Accept, RefuseHello, AcceptHello, DeliverResult, Unregister
<1>3. ASSUME NEW c \in Conns, Reader(c) PROVE Kept
  BY <1>3 DEF Reader, FillWaiter, Close, PublishOrphaned
<1>4. ASSUME NEW k \in Calls, Caller(k) PROVE Kept
  BY <1>4 DEF Caller, NoWorker, CheckWrite, Route, FindClosed, Register, Send, SendFails, TakeAnswer,
     GiveUp, SendCancel, BeforeRouting, Return
<1>5. ASSUME NEW k \in Calls, EndContext(k) PROVE Kept
  BY <1>5 DEF EndContext
<1> QED
  BY <1>1, <1>2, <1>3, <1>4, <1>5 DEF Next

\* A socket that is given no request.
NoNewRequest(c) ==
  \/ down'[c] = down[c]
  \/ down'[c] = <<>>
  \/ down[c] # <<>> /\ down'[c] = Tail(down[c])
  \/ \E f \in DownFrames : f.type = "cancel" /\ down'[c] = Append(down[c], f)

\* The requests on a socket that is given none were there before.
LEMMA OldRequests ==
  ASSUME LinkInv, NEW c \in Conns, NoNewRequest(c)
  PROVE  \E d \in {0, 1} : \A n \in 1..Len(down'[c]) :
           down'[c][n].type = "request" =>
             n + d \in 1..Len(down[c]) /\ down'[c][n] = down[c][n + d]
<1> DEFINE From(d) == \A n \in 1..Len(down'[c]) :
             down'[c][n].type = "request" =>
               n + d \in 1..Len(down[c]) /\ down'[c][n] = down[c][n + d]
<1>1. down[c] \in Seq(DownFrames)
  BY DEF LinkInv, LinkTypeOK
<1>2. CASE down'[c] = down[c] \/ down'[c] = <<>>
  <2>1. From(0)
    BY <1>1, <1>2
  <2> QED
    BY <2>1
<1>3. CASE down[c] # <<>> /\ down'[c] = Tail(down[c])
  <2>1. From(1)
    BY <1>1, <1>3
  <2> QED
    BY <2>1
<1>4. ASSUME NEW f \in DownFrames, f.type = "cancel", down'[c] = Append(down[c], f)
      PROVE  \E d \in {0, 1} : From(d)
  <2>1. \A n \in 1..Len(down'[c]) : (n \in 1..Len(down[c]) /\ down'[c][n] = down[c][n]) \/ down'[c][n] = f
    BY <1>1, <1>4
  <2>2. From(0)
    BY <1>1, <1>4, <2>1
  <2> QED
    BY <2>2
<1> QED
  BY <1>2, <1>3, <1>4 DEF NoNewRequest

\* Such steps leave the requests as they are, if nothing is begun.
LEMMA RequestsKept ==
  ASSUME LinkInv, RequestInv, [Next]_vars,
         \A c \in Conns : NoNewRequest(c),
         \A k \in Calls : task'[k] = "none" <=> task[k] = "none"
  PROVE  RequestInv'
<1>1. \A k \in Calls : pc[k] \in AfterSend => pc'[k] \in AfterSend
  BY SentForGood DEF LinkInv
<1>2. \A k \in Made : k \in Calls /\ conn'[k] = conn[k]
  BY MadeIsStable DEF LinkInv, Made, IDs
<1>3. ASSUME NEW c \in Conns
      PROVE  \A n \in 1..Len(down'[c]) :
               down'[c][n].type = "request" =>
                 /\ conn'[down'[c][n].call] = c
                 /\ task'[down'[c][n].call] = "none"
                 /\ pc'[down'[c][n].call] \in AfterSend
                 /\ \A m \in 1..Len(down'[c]) :
                      m # n /\ down'[c][m].type = "request" => down'[c][m].call # down'[c][n].call
  <2>1. PICK d \in {0, 1} : \A n \in 1..Len(down'[c]) :
           down'[c][n].type = "request" =>
             n + d \in 1..Len(down[c]) /\ down'[c][n] = down[c][n + d]
    BY OldRequests
  <2>2. \A n \in 1..Len(down[c]) : down[c][n].call \in Made
    BY DEF LinkInv, FrameInv, DownSound
  <2>3. ASSUME NEW n \in 1..Len(down'[c]), down'[c][n].type = "request"
        PROVE  /\ conn'[down'[c][n].call] = c
               /\ task'[down'[c][n].call] = "none"
               /\ pc'[down'[c][n].call] \in AfterSend
    BY <1>1, <1>2, <2>1, <2>2, <2>3 DEF RequestInv
  <2>4. ASSUME NEW n \in 1..Len(down'[c]), down'[c][n].type = "request",
               NEW m \in 1..Len(down'[c]), m # n, down'[c][m].type = "request"
        PROVE  down'[c][m].call # down'[c][n].call
    <3>1. n + d # m + d
      BY <2>4
    <3> QED
      BY <2>1, <2>4, <3>1 DEF RequestInv
  <2> QED
    BY <2>3, <2>4
<1>4. \A k \in Calls : task'[k] # "none" => pc'[k] \in AfterSend
  BY <1>1 DEF RequestInv
<1> QED
  BY <1>3, <1>4 DEF RequestInv

\* Reading a request begins it, and it is nowhere else.
LEMMA ReadRequestKeeps ==
  ASSUME LinkInv, RequestInv, NEW w \in WorkerIds, ReadRequest(w)
  PROVE  /\ RequestInv'
         /\ Head(down[link[w]]).call \in Calls /\ task[Head(down[link[w]]).call] = "none"
<1> DEFINE c == link[w]
           k == Head(down[c]).call
<1>1. /\ down[c] # <<>> /\ Head(down[c]).type = "request" /\ c \in Conns
      /\ task' = [task EXCEPT ![k] = "spawned"] /\ down' = [down EXCEPT ![c] = Tail(@)]
      /\ pc' = pc /\ conn' = conn
  BY DEF ReadRequest, Reads, LinkInv, FrameInv, TaskSound, vars, callVars
<1>2. down \in [Conns -> Seq(DownFrames)] /\ task \in [Calls -> TaskStates]
  BY DEF LinkInv, LinkTypeOK
<1> HIDE DEF c
<1>3. down[c] \in Seq(DownFrames)
  BY <1>1, <1>2
<1>4. 1 \in 1..Len(down[c]) /\ down[c][1] = Head(down[c]) /\ down[c][1] \in DownFrames
  BY <1>1, <1>3
<1>5. k \in Calls /\ down[c][1].call = k
  BY <1>4 DEF DownFrames
<1> HIDE DEF k
<1>6. conn[k] = c /\ task[k] = "none" /\ pc[k] \in AfterSend
  BY <1>1, <1>4, <1>5 DEF RequestInv
<1>7. /\ down'[c] = Tail(down[c])
      /\ \A n \in 1..Len(down'[c]) : n + 1 \in 1..Len(down[c]) /\ n + 1 # 1 /\ down'[c][n] = down[c][n + 1]
  <2> DEFINE s == down[c]
             t == down'[c]
  <2>1. t = Tail(s) /\ s \in Seq(DownFrames) /\ s # <<>>
    BY <1>1, <1>2, <1>3
  <2> HIDE DEF s, t
  <2>2. Len(s) \in Nat /\ \A n \in 1..Len(t) : n \in Nat \ {0} /\ n <= Len(s) - 1 /\ t[n] = s[n + 1]
    BY <2>1
  <2>3. \A n \in 1..Len(t) : n + 1 \in 1..Len(s) /\ n + 1 # 1 /\ t[n] = s[n + 1]
    BY <2>2
  <2> QED
    BY <2>1, <2>3 DEF s, t
<1>0. \A d \in Conns : \A n \in 1..Len(down[d]) : down[d][n].call \in Calls
  <2> SUFFICES ASSUME NEW d \in Conns, NEW n \in 1..Len(down[d]) PROVE down[d][n].call \in Calls
    OBVIOUS
  <2>1. down[d][n] \in DownFrames
    BY <1>2
  <2> QED
    BY <2>1 DEF DownFrames
<1>8. ASSUME NEW d \in Conns, NEW n \in 1..Len(down'[d]), down'[d][n].type = "request"
      PROVE  /\ conn'[down'[d][n].call] = d
             /\ task'[down'[d][n].call] = "none"
             /\ pc'[down'[d][n].call] \in AfterSend
             /\ \A m \in 1..Len(down'[d]) :
                  m # n /\ down'[d][m].type = "request" => down'[d][m].call # down'[d][n].call
  <2>1. CASE d = c
    <3>1. /\ n + 1 \in 1..Len(down[c]) /\ n + 1 # 1 /\ down'[d][n] = down[c][n + 1]
          /\ down[c][n + 1].type = "request"
      BY <1>7, <1>8, <2>1
    <3>2. down[c][n + 1].call # k
      BY <1>1, <1>4, <1>5, <3>1 DEF RequestInv
    <3>3. down[c][n + 1].call \in Calls
      BY <1>0, <1>1, <3>1
    <3>4. /\ conn'[down'[d][n].call] = d
          /\ task'[down'[d][n].call] = "none"
          /\ pc'[down'[d][n].call] \in AfterSend
      BY <1>1, <1>2, <2>1, <3>1, <3>2, <3>3 DEF RequestInv
    <3>5. ASSUME NEW m \in 1..Len(down'[d]), m # n, down'[d][m].type = "request"
          PROVE  down'[d][m].call # down'[d][n].call
      <4>1. m + 1 \in 1..Len(down[c]) /\ down'[d][m] = down[c][m + 1]
        BY <1>7, <2>1
      <4>2. m \in Nat /\ n \in Nat
        BY <2>1
      <4>3. m + 1 # n + 1
        BY <3>5, <4>2
      <4>4. down[c][m + 1].type = "request"
        BY <3>5, <4>1
      <4>5. down[c][m + 1].call # down[c][n + 1].call
        BY <1>1, <3>1, <4>1, <4>3, <4>4 DEF RequestInv
      <4> QED
        BY <3>1, <4>1, <4>5
    <3> QED
      BY <3>4, <3>5
  <2>2. CASE d # c
    <3>1. down'[d] = down[d]
      BY <1>1, <1>2, <2>2
    <3>2. /\ conn[down[d][n].call] = d /\ task[down[d][n].call] = "none"
          /\ pc[down[d][n].call] \in AfterSend
          /\ \A m \in 1..Len(down[d]) :
               m # n /\ down[d][m].type = "request" => down[d][m].call # down[d][n].call
      BY <1>8, <3>1 DEF RequestInv
    <3>3. down[d][n].call # k
      BY <1>6, <2>2, <3>2
    <3>4. down[d][n].call \in Calls
      BY <1>0, <1>8, <3>1
    <3> QED
      BY <1>1, <1>2, <3>1, <3>2, <3>3, <3>4
  <2> QED
    BY <2>1, <2>2
<1>9. \A l \in Calls : task'[l] # "none" => pc'[l] \in AfterSend
  BY <1>1, <1>2, <1>6 DEF RequestInv
<1>10. RequestInv'
  BY <1>8, <1>9 DEF RequestInv
<1> QED
  BY <1>5, <1>6, <1>10 DEF k, c

\* A request is written once, for a call nothing was done for.
LEMMA SendsKeeps ==
  ASSUME LinkInv, RequestInv, NEW k \in Calls, HubSends(k)
  PROVE  RequestInv'
<1> DEFINE c == conn[k]
<1>1. k \in Made /\ c \in Conns
  BY RegisteredIsMade DEF HubSends, Send, LinkInv, Made
<1>2. /\ pc[k] = "registered" /\ pc' = [pc EXCEPT ![k] = "waiting"] /\ conn' = conn /\ task' = task
      /\ down' = [down EXCEPT ![c] = Append(@, Request(k))]
  BY DEF HubSends, Send
<1>3. /\ down \in [Conns -> Seq(DownFrames)] /\ task \in [Calls -> TaskStates]
      /\ DOMAIN pc = Calls
  BY DEF LinkInv, LinkTypeOK, TypeOK
<1>4. Request(k) \in DownFrames /\ Request(k).call = k
  BY <1>1 DEF Made, Request, DownFrames
<1> HIDE DEF c
<1>5. task[k] = "none"
  BY <1>2 DEF RequestInv, AfterSend
<1>6. \A l \in Calls : pc[l] \in AfterSend => l # k /\ pc'[l] = pc[l]
  BY <1>2, <1>3 DEF AfterSend
<1>7. /\ down'[c] = Append(down[c], Request(k)) /\ down[c] \in Seq(DownFrames)
      /\ \A d \in Conns : d # c => down'[d] = down[d]
  BY <1>1, <1>2, <1>3
<1>8. \A n \in 1..Len(down'[c]) :
        \/ n \in 1..Len(down[c]) /\ down'[c][n] = down[c][n]
        \/ n = Len(down[c]) + 1 /\ down'[c][n] = Request(k)
  BY <1>4, <1>7
<1>9. ASSUME NEW d \in Conns, NEW n \in 1..Len(down[d]), down[d][n].type = "request"
      PROVE  /\ down[d][n].call \in Calls /\ down[d][n].call # k
             /\ conn'[down[d][n].call] = d
             /\ task'[down[d][n].call] = "none"
             /\ pc'[down[d][n].call] \in AfterSend
  <2>1. down[d][n] \in DownFrames
    BY <1>3
  <2>2. down[d][n].call \in Calls
    BY <2>1 DEF DownFrames
  <2> QED
    BY <1>2, <1>6, <1>9, <2>2 DEF RequestInv
<1>10. pc'[k] \in AfterSend /\ conn'[k] = c /\ task'[k] = "none"
  BY <1>2, <1>3, <1>5 DEF AfterSend, c
<1>11. ASSUME NEW d \in Conns, NEW n \in 1..Len(down'[d]), down'[d][n].type = "request"
       PROVE  /\ conn'[down'[d][n].call] = d
              /\ task'[down'[d][n].call] = "none"
              /\ pc'[down'[d][n].call] \in AfterSend
              /\ \A m \in 1..Len(down'[d]) :
                   m # n /\ down'[d][m].type = "request" => down'[d][m].call # down'[d][n].call
  <2>1. CASE d # c
    BY <1>7, <1>9, <1>11, <2>1 DEF RequestInv
  <2>2. CASE d = c
    <3>1. CASE n \in 1..Len(down[c]) /\ down'[c][n] = down[c][n]
      <4>1. /\ conn'[down[c][n].call] = c /\ task'[down[c][n].call] = "none"
            /\ pc'[down[c][n].call] \in AfterSend /\ down[c][n].call # k
        BY <1>1, <1>9, <1>11, <2>2, <3>1
      <4>2. ASSUME NEW m \in 1..Len(down'[c]), m # n, down'[c][m].type = "request"
            PROVE  down'[c][m].call # down'[c][n].call
        <5>1. CASE m \in 1..Len(down[c]) /\ down'[c][m] = down[c][m]
          BY <1>1, <1>11, <2>2, <3>1, <4>2, <5>1 DEF RequestInv
        <5>2. CASE down'[c][m] = Request(k)
          BY <1>4, <3>1, <4>1, <5>2
        <5> QED
          BY <1>8, <5>1, <5>2
      <4> QED
        BY <2>2, <3>1, <4>1, <4>2
    <3>2. CASE n = Len(down[c]) + 1 /\ down'[c][n] = Request(k)
      <4>1. ASSUME NEW m \in 1..Len(down'[c]), m # n, down'[c][m].type = "request"
            PROVE  down'[c][m].call # k
        <5>1. m \in 1..Len(down[c]) /\ down'[c][m] = down[c][m]
          BY <1>8, <3>2, <4>1
        <5> QED
          BY <1>1, <1>9, <4>1, <5>1
      <4> QED
        BY <1>4, <1>10, <2>2, <3>2, <4>1
    <3> QED
      BY <1>8, <1>11, <2>2, <3>1, <3>2
  <2> QED
    BY <2>1, <2>2
<1>12. \A l \in Calls : task'[l] # "none" => pc'[l] \in AfterSend
  BY <1>2, <1>6 DEF RequestInv
<1> QED
  BY <1>11, <1>12 DEF RequestInv

\* Every other step gives the workers no request and begins none.
LEMMA OtherSteps ==
  ASSUME LinkInv, [LinkNext]_allVars,
         \A w \in WorkerIds : ~ReadRequest(w),
         \A k \in Calls : ~HubSends(k)
  PROVE  /\ \A c \in Conns : NoNewRequest(c)
         /\ \A k \in Calls : task'[k] = "none" <=> task[k] = "none"
<1> DEFINE Quietly == /\ \A c \in Conns : NoNewRequest(c)
                      /\ \A k \in Calls : task'[k] = "none" <=> task[k] = "none"
<1> USE DEF NoNewRequest, linkVars
<1>1. CASE UNCHANGED allVars
  BY <1>1 DEF allVars
<1>2. ASSUME NEW c \in Conns, HubReader(c) \/ Break(c) \/ (\E w \in WorkerIds : Dial(w, c))
      PROVE  Quietly
  BY <1>2 DEF HubReader, HubReadsHello, HubRefuses, HubReadsResult, HubReadsEvent, HubLosesWorker,
     HubConnection, HangUp, Consume, Break, Dial
<1>3. ASSUME NEW k \in Calls, HubCall(k) \/ HubContext(k) PROVE Quietly
  <2>1. CASE HubCancels(k)
    <3>1. k \in Made /\ conn[k] \in Conns
      BY <2>1, RegisteredIsMade DEF HubCancels, SendCancel, LinkInv, Made
    <3>2. Cancel(k) \in DownFrames /\ Cancel(k).type = "cancel"
      BY <3>1 DEF Made, Cancel, DownFrames
    <3>3. down \in [Conns -> Seq(DownFrames)]
      BY DEF LinkInv, LinkTypeOK
    <3>4. \A c \in Conns : down'[c] = down[c] \/ down'[c] = Append(down[c], Cancel(k))
      BY <2>1, <3>1, <3>3 DEF HubCancels
    <3> QED
      BY <2>1, <3>2, <3>4 DEF HubCancels
  <2>2. CASE HubCannotSend(k) \/ HubCaller(k) \/ HubContext(k)
    BY <2>2 DEF HubCannotSend, HubCaller, HubContext
  <2> QED
    BY <1>3, <2>1, <2>2 DEF HubCall
<1>4. ASSUME NEW k \in Calls, Handler(k) \/ EmitEvent(k) PROVE Quietly
  <2>1. down' = down
    BY <1>4 DEF Handler, StartTask, FinishTask, SendResult, EndTask, EmitEvent
  <2>2. task \in [Calls -> TaskStates]
    BY DEF LinkInv, LinkTypeOK
  <2>3. \A l \in Calls : task'[l] = "none" <=> task[l] = "none"
    BY <1>4, <2>2 DEF Handler, StartTask, FinishTask, SendResult, EndTask, EmitEvent
  <2> QED
    BY <2>1, <2>3
<1>5. ASSUME NEW w \in WorkerIds, Session(w) \/ Restart(w) PROVE Quietly
  <2>1. down \in [Conns -> Seq(DownFrames)] /\ task \in [Calls -> TaskStates]
    BY DEF LinkInv, LinkTypeOK
  <2>2. CASE SayHello(w)
    BY <2>2 DEF SayHello
  <2>3. CASE EndSession(w)
    BY <2>1, <2>3 DEF EndSession
  <2>4. CASE ReadCancel(w)
    BY <2>1, <2>4 DEF ReadCancel, Reads
  <2>5. CASE Restart(w)
    <3>1. \A c \in Conns : down'[c] = down[c] \/ down'[c] = <<>>
      BY <2>1, <2>5 DEF Restart
    <3>2. \A k \in Calls : task'[k] = task[k] \/ (task[k] # "none" /\ task'[k] = "over")
      BY <2>1, <2>5 DEF Restart
    <3> QED
      BY <3>1, <3>2
  <2> QED
    BY <1>5, <2>2, <2>3, <2>4, <2>5 DEF Session
<1> QED
  BY <1>1, <1>2, <1>3, <1>4, <1>5 DEF LinkNext

LEMMA RequestStep ==
  ASSUME LinkInv, RequestInv, [LinkNext]_allVars
  PROVE  RequestInv'
<1>1. CASE \E w \in WorkerIds : ReadRequest(w)
  BY <1>1, ReadRequestKeeps
<1>2. CASE \E k \in Calls : HubSends(k)
  BY <1>2, SendsKeeps
<1>3. CASE (\A w \in WorkerIds : ~ReadRequest(w)) /\ (\A k \in Calls : ~HubSends(k))
  <2>1. [Next]_vars
    BY LinkStepMoves, SoundStepIsHubStep DEF LinkMove
  <2> QED
    BY <1>3, <2>1, OtherSteps, RequestsKept
<1> QED
  BY <1>1, <1>2, <1>3

LEMMA FiledStep ==
  ASSUME LinkInv, RequestInv, FiledInv, [LinkNext]_allVars
  PROVE  FiledInv'
<1> USE DEF UnderWay
<1>1. /\ task \in [Calls -> TaskStates] /\ inflight \in [WorkerIds -> [IDs -> Calls \cup {NoCall}]]
      /\ \A k \in Calls : task[k] # "none" => k \in Made
  BY DEF LinkInv, LinkTypeOK, FrameInv, TaskSound
<1>2. [Next]_vars
  BY LinkStepMoves, SoundStepIsHubStep DEF LinkMove
\* A handler stays where it is, under the id it has.
<1>3. \A k \in Made : id'[k] = id[k] /\ wid'[conn'[k]] = Host(k)
  BY <1>2, MadeIsStable DEF LinkInv, Made, Host, IDs
<1>4. \A k \in Calls : task[k] # "none" => id'[k] = id[k] /\ wid'[conn'[k]] = Host(k)
  BY <1>1, <1>3
<1>5. ASSUME inflight' = inflight, task' = task PROVE FiledInv'
  BY <1>1, <1>4, <1>5 DEF FiledInv, Host
<1>6. ASSUME NEW w \in WorkerIds, ReadRequest(w) PROVE FiledInv'
  <2> DEFINE k == Head(down[link[w]]).call
  <2>1. k \in Calls /\ task[k] = "none"
    BY <1>6, ReadRequestKeeps
  <2>2. inflight' = inflight /\ task' = [task EXCEPT ![k] = "spawned"]
    BY <1>6 DEF ReadRequest
  <2> HIDE DEF k
  <2> QED
    BY <1>1, <1>4, <2>1, <2>2 DEF FiledInv, Host
<1>7. ASSUME NEW w \in WorkerIds, ReadCancel(w) PROVE FiledInv'
  <2>1. inflight' = [inflight EXCEPT ![w][Head(down[link[w]]).id] = NoCall] /\ task' = task
    BY <1>7 DEF ReadCancel
  <2>2. ASSUME NEW v \in WorkerIds, NEW i \in IDs, inflight'[v][i] # NoCall
        PROVE  /\ id'[inflight'[v][i]] = i /\ wid'[conn'[inflight'[v][i]]] = v
               /\ task'[inflight'[v][i]] \in UnderWay
    <3> DEFINE l == inflight[v][i]
    <3>1. inflight'[v][i] = l /\ l \in Calls
      BY <1>1, <2>1, <2>2
    <3>2. id[l] = i /\ Host(l) = v /\ task[l] \in UnderWay
      BY <2>2, <3>1 DEF FiledInv
    <3> HIDE DEF l
    <3> QED
      BY <1>4, <2>1, <3>1, <3>2
  <2> QED
    BY <2>2 DEF FiledInv, Host
<1>8. ASSUME NEW k \in Calls, StartTask(k) PROVE FiledInv'
  <2>1. task[k] = "spawned" /\ k \in Made /\ id[k] \in IDs /\ Host(k) \in WorkerIds
    BY <1>1, <1>8 DEF StartTask, Made, Host
  <2>2. /\ task' = [task EXCEPT ![k] = "executing"]
        /\ inflight' = [inflight EXCEPT ![Host(k)][id[k]] = k]
    BY <1>8 DEF StartTask
  <2>3. ASSUME NEW v \in WorkerIds, NEW i \in IDs
        PROVE  inflight'[v][i] = IF v = Host(k) /\ i = id[k] THEN k ELSE inflight[v][i]
    BY <1>1, <2>1, <2>2
  <2>4. ASSUME NEW v \in WorkerIds, NEW i \in IDs, inflight'[v][i] # NoCall
        PROVE  /\ id'[inflight'[v][i]] = i /\ wid'[conn'[inflight'[v][i]]] = v
               /\ task'[inflight'[v][i]] \in UnderWay
    <3>1. CASE v = Host(k) /\ i = id[k]
      BY <1>1, <1>4, <2>1, <2>2, <2>3, <3>1
    <3>2. CASE ~(v = Host(k) /\ i = id[k])
      <4> DEFINE l == inflight[v][i]
      <4>1. inflight'[v][i] = l /\ l \in Calls
        BY <1>1, <2>3, <2>4, <3>2
      <4>2. id[l] = i /\ Host(l) = v /\ task[l] \in UnderWay
        BY <2>4, <4>1 DEF FiledInv
      <4> HIDE DEF l
      <4>3. l # k /\ task'[l] = task[l] /\ task[l] # "none"
        BY <1>1, <2>1, <2>2, <4>1, <4>2
      <4> QED
        BY <1>4, <4>1, <4>2, <4>3
    <3> QED
      BY <3>1, <3>2
  <2> QED
    BY <2>4 DEF FiledInv, Host
<1>9. ASSUME NEW k \in Calls, FinishTask(k) PROVE FiledInv'
  BY <1>1, <1>4, <1>9 DEF FinishTask, FiledInv, Host
<1>10. ASSUME NEW k \in Calls, SendResult(k) PROVE FiledInv'
  BY <1>1, <1>4, <1>10 DEF SendResult, FiledInv, Host
<1>11. ASSUME NEW k \in Calls, EndTask(k) PROVE FiledInv'
  <2>1. task[k] = "answered" /\ k \in Made /\ id[k] \in IDs /\ Host(k) \in WorkerIds
    BY <1>1, <1>11 DEF EndTask, Made, Host
  <2>2. task' = [task EXCEPT ![k] = "over"] /\ inflight' = [inflight EXCEPT ![Host(k)][id[k]] = NoCall]
    BY <1>11 DEF EndTask, Unfiled
  <2>3. ASSUME NEW v \in WorkerIds, NEW i \in IDs, inflight'[v][i] # NoCall
        PROVE  /\ id'[inflight'[v][i]] = i /\ wid'[conn'[inflight'[v][i]]] = v
               /\ task'[inflight'[v][i]] \in UnderWay
    <3> DEFINE l == inflight[v][i]
    <3>1. inflight'[v][i] = l /\ l \in Calls /\ ~(v = Host(k) /\ i = id[k])
      BY <1>1, <2>1, <2>2, <2>3
    <3>2. id[l] = i /\ Host(l) = v /\ task[l] \in UnderWay
      BY <2>3, <3>1 DEF FiledInv
    <3> HIDE DEF l
    <3>3. l # k /\ task'[l] = task[l] /\ task[l] # "none"
      BY <1>1, <2>1, <2>2, <3>1, <3>2
    <3> QED
      BY <1>4, <3>1, <3>2, <3>3
  <2> QED
    BY <2>3 DEF FiledInv, Host
<1>12. ASSUME NEW w \in WorkerIds, Restart(w) PROVE FiledInv'
  <2>1. inflight' = [inflight EXCEPT ![w] = [i \in IDs |-> NoCall]]
    BY <1>12 DEF Restart
  <2>2. \A k \in Calls : task[k] = "none" \/ Host(k) # w => task'[k] = task[k]
    BY <1>12 DEF Restart
  <2>3. ASSUME NEW v \in WorkerIds, NEW i \in IDs, inflight'[v][i] # NoCall
        PROVE  /\ id'[inflight'[v][i]] = i /\ wid'[conn'[inflight'[v][i]]] = v
               /\ task'[inflight'[v][i]] \in UnderWay
    <3> DEFINE l == inflight[v][i]
    <3>1. v # w /\ inflight'[v][i] = l /\ l \in Calls
      BY <1>1, <2>1, <2>3
    <3>2. id[l] = i /\ Host(l) = v /\ task[l] \in UnderWay
      BY <2>3, <3>1 DEF FiledInv
    <3> HIDE DEF l
    <3> QED
      BY <1>4, <2>2, <3>1, <3>2
  <2> QED
    BY <2>3 DEF FiledInv, Host
<1>13. CASE /\ \A w \in WorkerIds : ~ReadRequest(w) /\ ~ReadCancel(w) /\ ~Restart(w)
            /\ \A k \in Calls : ~Handler(k)
  <2>1. inflight' = inflight /\ task' = task
    <3>1. CASE UNCHANGED allVars
      BY <3>1 DEF allVars, linkVars
    <3>2. ASSUME NEW c \in Conns, HubReader(c) \/ Break(c) \/ (\E w \in WorkerIds : Dial(w, c))
          PROVE  inflight' = inflight /\ task' = task
      BY <3>2 DEF HubReader, HubReadsHello, HubRefuses, HubReadsResult, HubReadsEvent, HubLosesWorker,
         HubConnection, HangUp, Consume, Break, Dial, linkVars
    <3>3. ASSUME NEW k \in Calls, HubCall(k) \/ HubContext(k) \/ EmitEvent(k)
          PROVE  inflight' = inflight /\ task' = task
      BY <3>3 DEF HubCall, HubSends, HubCancels, HubCannotSend, HubCaller, HubContext, EmitEvent, linkVars
    <3>4. ASSUME NEW w \in WorkerIds, SayHello(w) \/ EndSession(w)
          PROVE  inflight' = inflight /\ task' = task
      BY <3>4 DEF SayHello, EndSession
    <3> QED
      BY <1>13, <3>1, <3>2, <3>3, <3>4 DEF LinkNext, Session
  <2> QED
    BY <1>5, <2>1
<1> QED
  BY <1>6, <1>7, <1>8, <1>9, <1>10, <1>11, <1>12, <1>13 DEF Handler

\* HandleInv is inductive.
LEMMA HandleInvariant == LinkSpec => []HandleInv
<1>1. LinkInit => HandleInv
  <2> SUFFICES ASSUME LinkInit PROVE HandleInv
    OBVIOUS
  <2>1. RequestInv
    BY DEF LinkInit, RequestInv
  <2>2. FiledInv
    BY DEF LinkInit, FiledInv
  <2> QED
    BY <2>1, <2>2, LinkInvInit DEF HandleInv
<1>2. HandleInv /\ [LinkNext]_allVars => HandleInv'
  BY LinkStepMoves, LinkInvMove, RequestStep, FiledStep DEF HandleInv
<1> QED
  BY <1>1, <1>2, PTL DEF LinkSpec

-----------------------------------------------------------------------------
(***************************************************************************)
(* Who writes on a connection.  One worker at a time is linked to it; the  *)
(* frames it wrote and the name the hub read from its hello are its own.   *)
(***************************************************************************)

\* A frame that says who wrote it: a hello, or the result of a request sent there.
Signed(f, w) ==
  \/ f.type = "hello" /\ f.worker = w
  \/ f.type = "result" /\ Host(f.call) = w

\* The workers a connection can be traced to.
Authors(c) ==
  {w \in WorkerIds :
     \/ link[w] = c
     \/ \E n \in 1..Len(up[c]) : Signed(up[c][n], w)
     \/ session[c] \in Used /\ wid[c] = w}

OneAuthor ==
  \A c \in Conns :
    /\ session[c] = "unused" => Authors(c) = {}
    /\ \A v, w \in Authors(c) : v = w

\* Results are those of requests that were made.
ResultsAreMade ==
  \A c \in Conns : \A n \in 1..Len(up[c]) : up[c][n].type = "result" => up[c][n].call \in Made

\* What a step may do to the frames on their way to the hub: lose some, or add one
\* that somebody linked to the connection signs, or nobody does.
AuthoredMove(c) ==
  \/ up'[c] = up[c]
  \/ up'[c] = <<>>
  \/ up[c] # <<>> /\ up'[c] = Tail(up[c])
  \/ \E f \in UpFrames, w \in WorkerIds :
       /\ link[w] = c
       /\ up'[c] = Append(up[c], f)
       /\ f.type = "result" => f.call \in Made /\ Host(f.call) = w
       /\ f.type = "hello" => f.worker = w

\* A worker that is linked to a connection it was not linked to dials it, and a
\* connection gets the name a hello on it gives.
NamesMove(c) ==
  /\ \A w \in WorkerIds : link'[w] = c => link[w] = c
  /\ session'[c] = "unused" => session[c] = "unused"
  /\ session'[c] \in Used /\ session[c] \notin Used => wid'[c] \in Authors(c)

DialMove(c) ==
  /\ up'[c] = up[c]
  /\ session[c] = "unused" /\ session'[c] = "accepted"
  /\ \A v, w \in WorkerIds : link'[v] = c /\ link'[w] = c => link[v] = c \/ link[w] = c \/ v = w

AuthorsMove ==
  \A c \in Conns : (AuthoredMove(c) /\ NamesMove(c)) \/ DialMove(c)

\* The frames after such a move are frames of before, or the one written.
LEMMA FramesAfter ==
  ASSUME LinkInv, NEW c \in Conns, AuthoredMove(c), NEW n \in 1..Len(up'[c])
  PROVE  \/ \E m \in 1..Len(up[c]) : up'[c][n] = up[c][m]
         \/ \E w \in WorkerIds :
              /\ link[w] = c
              /\ up'[c][n].type = "result" => up'[c][n].call \in Made /\ Host(up'[c][n].call) = w
              /\ up'[c][n].type = "hello" => up'[c][n].worker = w
<1>1. up[c] \in Seq(UpFrames)
  BY DEF LinkInv, LinkTypeOK
<1>2. CASE up'[c] = up[c]
  BY <1>2
<1>3. CASE up'[c] = <<>>
  BY <1>3
<1>4. CASE up[c] # <<>> /\ up'[c] = Tail(up[c])
  <2>1. n + 1 \in 1..Len(up[c]) /\ up'[c][n] = up[c][n + 1]
    BY <1>1, <1>4
  <2> QED
    BY <2>1
<1>5. ASSUME NEW f \in UpFrames, NEW w \in WorkerIds, link[w] = c, up'[c] = Append(up[c], f),
             f.type = "result" => f.call \in Made /\ Host(f.call) = w,
             f.type = "hello" => f.worker = w
      PROVE  \/ \E m \in 1..Len(up[c]) : up'[c][n] = up[c][m]
             \/ \E v \in WorkerIds :
                  /\ link[v] = c
                  /\ up'[c][n].type = "result" => up'[c][n].call \in Made /\ Host(up'[c][n].call) = v
                  /\ up'[c][n].type = "hello" => up'[c][n].worker = v
  <2>1. (n \in 1..Len(up[c]) /\ up'[c][n] = up[c][n]) \/ up'[c][n] = f
    BY <1>1, <1>5
  <2>2. CASE n \in 1..Len(up[c]) /\ up'[c][n] = up[c][n]
    BY <2>2
  <2>3. CASE up'[c][n] = f
    BY <1>5, <2>3
  <2> QED
    BY <2>1, <2>2, <2>3
<1> QED
  BY <1>2, <1>3, <1>4, <1>5 DEF AuthoredMove

\* Results that were made keep the worker they were made for.
LEMMA HostStays ==
  ASSUME HubInv, [Next]_vars, NEW k \in Made
  PROVE  k \in Made' /\ wid'[conn'[k]] = Host(k)
BY MadeIsStable, MadeStays DEF Made, Host, IDs

\* A move leaves every connection with one author at most.
LEMMA AuthorsStay ==
  ASSUME LinkInv, OneAuthor, ResultsAreMade, [Next]_vars, AuthorsMove
  PROVE  OneAuthor' /\ ResultsAreMade'
<1>1. \A k \in Made : k \in Made' /\ wid'[conn'[k]] = Host(k)
  BY HostStays DEF LinkInv
<1>2. ASSUME NEW c \in Conns, AuthoredMove(c), NamesMove(c)
      PROVE  /\ Authors(c)' \subseteq Authors(c)
             /\ \A n \in 1..Len(up'[c]) : up'[c][n].type = "result" => up'[c][n].call \in Made'
  <2>1. ASSUME NEW n \in 1..Len(up'[c])
        PROVE  /\ up'[c][n].type = "result" => up'[c][n].call \in Made'
               /\ \A w \in WorkerIds : Signed(up[c][n], w)' => w \in Authors(c)
    <3> DEFINE f == up'[c][n]
    <3>1. CASE \E m \in 1..Len(up[c]) : f = up[c][m]
      <4>1. PICK m \in 1..Len(up[c]) : f = up[c][m]
        BY <3>1
      <4>2. f.type = "result" => f.call \in Made
        BY <4>1 DEF ResultsAreMade
      <4> HIDE DEF f
      <4>3. ASSUME NEW w \in WorkerIds, (f.type = "hello" /\ f.worker = w) \/ (f.type = "result" /\ wid'[conn'[f.call]] = w)
            PROVE  w \in Authors(c)
        BY <1>1, <4>1, <4>2, <4>3 DEF Authors, Signed
      <4> QED
        BY <1>1, <4>2, <4>3 DEF f, Signed, Host
    <3>2. ASSUME NEW v \in WorkerIds, link[v] = c,
                 f.type = "result" => f.call \in Made /\ Host(f.call) = v,
                 f.type = "hello" => f.worker = v
          PROVE  /\ f.type = "result" => f.call \in Made'
                 /\ \A w \in WorkerIds : Signed(up[c][n], w)' => w \in Authors(c)
      <4>1. v \in Authors(c)
        BY <3>2 DEF Authors
      <4> QED
        BY <1>1, <3>2, <4>1 DEF Signed, Host
    <3> QED
      BY <1>2, <3>1, <3>2, FramesAfter
  <2>2. ASSUME NEW w \in WorkerIds, session'[c] \in Used, wid'[c] = w PROVE w \in Authors(c)
    <3>1. CASE session[c] \in Used
      <4>1. wid'[c] = wid[c]
        BY <3>1, MadeIsStable DEF LinkInv
      <4> QED
        BY <2>2, <3>1, <4>1 DEF Authors
    <3>2. CASE session[c] \notin Used
      BY <1>2, <2>2, <3>2 DEF NamesMove
    <3> QED
      BY <3>1, <3>2
  <2>3. \A w \in WorkerIds : link'[w] = c => w \in Authors(c)
    BY <1>2 DEF NamesMove, Authors
  <2>4. ASSUME NEW w \in Authors(c)' PROVE w \in Authors(c)
    <3>1. /\ w \in WorkerIds
          /\ \/ link'[w] = c
             \/ \E n \in 1..Len(up'[c]) : Signed(up[c][n], w)'
             \/ session'[c] \in Used /\ wid'[c] = w
      BY <2>4 DEF Authors, Used
    <3> QED
      BY <2>1, <2>2, <2>3, <3>1
  <2> QED
    BY <2>1, <2>4
<1>3. ASSUME NEW c \in Conns, DialMove(c)
      PROVE  /\ session'[c] # "unused"
             /\ \A v, w \in Authors(c)' : v = w
             /\ \A n \in 1..Len(up'[c]) : up'[c][n].type = "result" => up'[c][n].call \in Made'
  <2>1. Authors(c) = {} /\ up'[c] = up[c] /\ session'[c] = "accepted"
    BY <1>3 DEF DialMove, OneAuthor
  <2>2. \A n \in 1..Len(up[c]) : up[c][n].type = "result" => up[c][n].call \in Made
    BY DEF ResultsAreMade
  <2>3. ASSUME NEW w \in Authors(c)' PROVE w \in WorkerIds /\ link'[w] = c /\ link[w] # c
    <3>1. w \in WorkerIds /\ (link'[w] = c \/ \E n \in 1..Len(up'[c]) : Signed(up[c][n], w)')
      BY <2>1, <2>3 DEF Authors, Used
    <3>2. ASSUME NEW n \in 1..Len(up'[c]), Signed(up[c][n], w)' PROVE FALSE
      <4> DEFINE f == up[c][n]
      <4>1. n \in 1..Len(up[c]) /\ (f.type = "result" => f.call \in Made)
        BY <2>1, <2>2
      <4>2. (f.type = "hello" /\ f.worker = w) \/ (f.type = "result" /\ wid'[conn'[f.call]] = w)
        BY <2>1, <3>2 DEF Signed, Host
      <4>3. Signed(f, w)
        <5> HIDE DEF f
        <5> QED
          BY <1>1, <4>1, <4>2 DEF Signed
      <4> QED
        BY <2>1, <3>1, <4>3 DEF Authors
    <3>3. link[w] # c
      BY <2>1, <3>1 DEF Authors
    <3> QED
      BY <2>1, <2>3, <3>1, <3>2, <3>3 DEF Authors, Used
  <2>4. \A v, w \in Authors(c)' : v = w
    BY <1>3, <2>3 DEF DialMove
  <2> QED
    BY <1>1, <2>1, <2>2, <2>4
<1>4. ASSUME NEW c \in Conns
      PROVE  /\ session'[c] = "unused" => Authors(c)' = {}
             /\ \A v, w \in Authors(c)' : v = w
             /\ \A n \in 1..Len(up'[c]) : up'[c][n].type = "result" => up'[c][n].call \in Made'
  <2>1. CASE AuthoredMove(c) /\ NamesMove(c)
    BY <1>2, <2>1 DEF OneAuthor, NamesMove
  <2>2. CASE DialMove(c)
    BY <1>3, <2>2
  <2> QED
    BY <2>1, <2>2 DEF AuthorsMove
<1> QED
  BY <1>4 DEF OneAuthor, ResultsAreMade

\* What a worker writes goes where it is linked to, under its own name.
LEMMA WriteIsAuthored ==
  ASSUME LinkInv, NEW w \in WorkerIds, NEW f \in UpFrames, Write(w, f),
         f.type = "result" => f.call \in Made /\ Host(f.call) = w,
         f.type = "hello" => f.worker = w
  PROVE  \A c \in Conns : AuthoredMove(c)
<1>1. up \in [Conns -> Seq(UpFrames)] /\ link \in [WorkerIds -> Conns \cup {NoConn}]
  BY DEF LinkInv, LinkTypeOK
<1>2. ASSUME NEW c \in Conns PROVE AuthoredMove(c)
  <2>1. CASE link[w] = c
    <3>1. up'[c] = up[c] \/ up'[c] = Append(up[c], f)
      BY <1>1, <2>1 DEF Write
    <3> QED
      BY <2>1, <3>1 DEF AuthoredMove
  <2>2. CASE link[w] # c
    BY <1>1, <2>2 DEF Write, AuthoredMove
  <2> QED
    BY <2>1, <2>2
<1> QED
  BY <1>2

LEMMA HubReaderAuthors ==
  ASSUME LinkInv, NEW c \in Conns, HubReader(c)
  PROVE  AuthorsMove
<1> USE DEF AuthorsMove, AuthoredMove, NamesMove
<1>1. /\ up \in [Conns -> Seq(UpFrames)] /\ session \in [Conns -> Sessions]
      /\ wid \in [Conns -> WorkerIds \cup {0}]
  BY DEF LinkInv, LinkTypeOK, TypeOK
<1>2. CASE HubReadsHello(c)
  <2> DEFINE v == Head(up[c]).worker
  <2>1. PICK lim \in Limits : AcceptHello(c, v, Head(up[c]).held, lim)
    BY <1>2 DEF HubReadsHello
  <2>2. /\ session' = [session EXCEPT ![c] = "serving"] /\ wid' = [wid EXCEPT ![c] = v]
    BY <2>1 DEF AcceptHello
  <2>3. link' = link /\ up[c] # <<>> /\ Head(up[c]).type = "hello" /\ up' = [up EXCEPT ![c] = Tail(@)]
    BY <1>2 DEF HubReadsHello, Incoming, Consume
  <2>4. 1 \in 1..Len(up[c]) /\ Head(up[c]) = up[c][1] /\ v \in WorkerIds
    BY <1>1, <2>3, HeadFrames DEF UpFrames
  <2>5. v \in Authors(c)
    BY <2>3, <2>4 DEF Authors, Signed
  <2> HIDE DEF v
  <2> QED
    BY <1>1, <2>2, <2>3, <2>5
<1>3. CASE HubRefuses(c)
  BY <1>1, <1>3 DEF HubRefuses, RefuseHello, HangUp, Used
<1>4. CASE HubReadsResult(c)
  BY <1>1, <1>4 DEF HubReadsResult, DeliverResult, Incoming, Consume
<1>5. CASE HubReadsEvent(c)
  BY <1>1, <1>5 DEF HubReadsEvent, Incoming, Consume, vars, connVars
<1>6. CASE HubLosesWorker(c)
  BY <1>1, <1>6 DEF HubLosesWorker, Unregister, Reading, Used
<1>7. CASE HubConnection(c)
  BY <1>1, <1>7 DEF HubConnection, Reader, FillWaiter, Close, PublishOrphaned, linkVars, Used
<1> QED
  BY <1>2, <1>3, <1>4, <1>5, <1>6, <1>7 DEF HubReader

LEMMA HubCallAuthors ==
  ASSUME NEW k \in Calls, HubCall(k) \/ HubContext(k)
  PROVE  AuthorsMove
<1>1. UNCHANGED <<up, link, session>>
  BY DEF HubCall, HubContext, HubSends, HubCannotSend, HubCancels, HubCaller, Send, SendFails, SendCancel,
     NoWorker, CheckWrite, Route, FindClosed, Register, TakeAnswer, GiveUp, EndContext, connVars, linkVars
<1> QED
  BY <1>1 DEF AuthorsMove, AuthoredMove, NamesMove

LEMMA WorkerAuthors ==
  ASSUME LinkInv, NEW w \in WorkerIds,
         Session(w) \/ Restart(w) \/ \E c \in Conns : Dial(w, c)
  PROVE  AuthorsMove
<1> USE DEF AuthorsMove, NamesMove
<1>1. /\ up \in [Conns -> Seq(UpFrames)] /\ link \in [WorkerIds -> Conns \cup {NoConn}]
      /\ session \in [Conns -> Sessions]
  BY DEF LinkInv, LinkTypeOK, TypeOK
<1>2. ASSUME NEW c \in Conns, Dial(w, c) PROVE AuthorsMove
  <2>1. /\ up' = up /\ link' = [link EXCEPT ![w] = c]
        /\ session[c] = "unused" /\ session' = [session EXCEPT ![c] = "accepted"]
    BY <1>2 DEF Dial, Accept
  <2>2. DialMove(c)
    BY <1>1, <2>1 DEF DialMove
  <2>3. ASSUME NEW d \in Conns, d # c PROVE AuthoredMove(d) /\ NamesMove(d)
    BY <1>1, <2>1, <2>3 DEF AuthoredMove
  <2> HIDE DEF NamesMove
  <2> QED
    BY <2>2, <2>3
<1>3. CASE SayHello(w)
  <2>1. Hello(w) \in UpFrames /\ Hello(w).type = "hello" /\ Hello(w).worker = w
    BY DEF Hello, UpFrames, LinkInv, LinkTypeOK
  <2>2. \A c \in Conns : AuthoredMove(c)
    BY <1>3, <2>1, WriteIsAuthored DEF SayHello
  <2> QED
    BY <1>3, <2>2 DEF SayHello, vars, connVars
<1>4. CASE EndSession(w) \/ ReadRequest(w) \/ ReadCancel(w)
  BY <1>4 DEF EndSession, ReadRequest, ReadCancel, vars, connVars, AuthoredMove
<1>5. CASE Restart(w)
  <2>1. up' = up /\ session' = session /\ link' = [link EXCEPT ![w] = NoConn]
    BY <1>5 DEF Restart, vars, connVars
  <2> QED
    BY <1>1, <2>1, HubAssumption DEF AuthoredMove
<1> QED
  BY <1>2, <1>3, <1>4, <1>5 DEF Session

LEMMA HandlerAuthors ==
  ASSUME LinkInv, NEW k \in Calls, Handler(k) \/ EmitEvent(k)
  PROVE  AuthorsMove
<1> USE DEF AuthorsMove, NamesMove
<1>1. link' = link /\ session' = session
  BY DEF Handler, StartTask, FinishTask, SendResult, EndTask, EmitEvent, vars, connVars
<1>2. task[k] # "none" => k \in Made /\ Host(k) \in WorkerIds /\ id[k] \in IDs
  BY DEF Made, Host, LinkInv, FrameInv, TaskSound
<1>3. CASE StartTask(k) \/ FinishTask(k) \/ EndTask(k)
  BY <1>1, <1>3 DEF StartTask, FinishTask, EndTask, AuthoredMove
<1>4. CASE SendResult(k)
  <2>1. k \in Made /\ Host(k) \in WorkerIds /\ id[k] \in IDs
    BY <1>2, <1>4 DEF SendResult
  <2>2. Result(k) \in UpFrames /\ Result(k).type = "result" /\ Result(k).call = k
    BY <2>1 DEF Result, UpFrames
  <2>3. \A c \in Conns : AuthoredMove(c)
    BY <1>4, <2>1, <2>2, WriteIsAuthored DEF SendResult
  <2> QED
    BY <1>1, <2>3
<1>5. CASE EmitEvent(k)
  <2>1. Host(k) \in WorkerIds
    BY <1>2, <1>5 DEF EmitEvent
  <2>2. Event(k) \in UpFrames /\ Event(k).type = "event"
    BY DEF Event, UpFrames
  <2>3. \A c \in Conns : AuthoredMove(c)
    BY <1>5, <2>1, <2>2, WriteIsAuthored DEF EmitEvent
  <2> QED
    BY <1>1, <2>3
<1> QED
  BY <1>3, <1>4, <1>5 DEF Handler

LEMMA LinkStepAuthors == LinkInv /\ [LinkNext]_allVars => AuthorsMove
<1> SUFFICES ASSUME LinkInv, [LinkNext]_allVars PROVE AuthorsMove
  OBVIOUS
<1>1. CASE UNCHANGED allVars
  BY <1>1 DEF allVars, vars, connVars, linkVars, AuthorsMove, AuthoredMove, NamesMove
<1>2. ASSUME NEW c \in Conns, Break(c) PROVE AuthorsMove
  BY <1>2 DEF Break, vars, connVars, AuthorsMove, AuthoredMove, NamesMove
<1> QED
  BY <1>1, <1>2, HubReaderAuthors, HubCallAuthors, WorkerAuthors, HandlerAuthors DEF LinkNext

-----------------------------------------------------------------------------
(***************************************************************************)
(* Where answers come from.                                                *)
(***************************************************************************)

SameHost(k, l) == k \in Made /\ l \in Made /\ Host(l) = Host(k)

\* What is on its way to a caller was computed where its request was sent.
AnswersAtHome ==
  /\ \A c \in Conns : \A k \in outbox[c] : session[c] = "serving" => SameHost(k, answer[c])
  /\ \A k \in Calls : waiter[k] \in Calls => SameHost(k, waiter[k])
  /\ \A k \in Calls : result[k] \in Calls => SameHost(k, result[k])

AuthorInv == LinkInv /\ OneAuthor /\ ResultsAreMade /\ AnswersAtHome

\* What a step hands to a connection's goroutine comes from its worker.
DeliversOwn ==
  \A c \in Conns : \A k \in outbox'[c] \ outbox[c] :
    session[c] = "serving" => answer'[c] \in Made /\ Host(answer'[c]) = wid[c]

LEMMA LinkStepDelivers ==
  ASSUME LinkInv, OneAuthor, ResultsAreMade, [LinkNext]_allVars
  PROVE  DeliversOwn
<1>1. outbox \in [Conns -> SUBSET Calls] /\ answer \in [Conns -> Answers \cup {NoFrame}]
  BY DEF LinkInv, LinkTypeOK, TypeOK
<1>2. CASE outbox' = outbox
  BY <1>2 DEF DeliversOwn
<1>3. ASSUME NEW c \in Conns, HubReadsResult(c) PROVE DeliversOwn
  <2> DEFINE f == Head(up[c])
  <2>1. /\ up[c] # <<>> /\ f.type = "result" /\ Reading(c)
        /\ DeliverResult(c, f.id, f.call)
    BY <1>3 DEF HubReadsResult, Incoming, DeliverResult
  <2>2. up[c] \in Seq(UpFrames)
    BY DEF LinkInv, LinkTypeOK
  <2>3. f = up[c][1] /\ 1 \in 1..Len(up[c])
    BY <2>1, <2>2
  <2>4. f.call \in Made /\ Host(f.call) \in WorkerIds
    BY <2>1, <2>3 DEF ResultsAreMade, Made, Host
  <2>5. wid[c] \in WorkerIds /\ session[c] \in Used
    BY <2>1 DEF LinkInv, Named, Reading, Used
  <2>6. Host(f.call) \in Authors(c) /\ wid[c] \in Authors(c)
    BY <2>1, <2>3, <2>4, <2>5 DEF Authors, Signed
  <2>7. Host(f.call) = wid[c]
    BY <2>6 DEF OneAuthor
  <2> DEFINE i == f.id
  <2>8. /\ outbox' = [outbox EXCEPT ![c] = WaiterFor(c, i)]
        /\ answer' = [answer EXCEPT ![c] = IF pending[c][i] = NoCall THEN NoFrame ELSE f.call]
    BY <2>1 DEF DeliverResult
  <2> HIDE DEF f, i
  <2> QED
    BY <1>1, <2>4, <2>7, <2>8 DEF DeliversOwn, WaiterFor
<1>4. ASSUME NEW c \in Conns, HubReader(c), ~HubReadsResult(c) PROVE DeliversOwn
  <2>1. CASE HubReadsHello(c) \/ HubRefuses(c) \/ HubReadsEvent(c) \/ HubLosesWorker(c)
    BY <1>2, <2>1 DEF HubReadsHello, HubRefuses, HubReadsEvent, HubLosesWorker, AcceptHello, RefuseHello,
       Unregister, vars, connVars
  <2>2. CASE HubConnection(c)
    BY <1>1, <2>2 DEF HubConnection, Reader, FillWaiter, Close, PublishOrphaned, DeliversOwn
  <2> QED
    BY <1>4, <2>1, <2>2 DEF HubReader
<1>5. CASE UNCHANGED allVars
  BY <1>2, <1>5 DEF allVars, vars, connVars
<1>6. ASSUME NEW c \in Conns, Break(c) \/ (\E w \in WorkerIds : Dial(w, c)) PROVE DeliversOwn
  BY <1>2, <1>6 DEF Break, Dial, Accept, vars, connVars
<1>7. ASSUME NEW k \in Calls, HubCall(k) \/ HubContext(k) PROVE DeliversOwn
  BY <1>2, <1>7 DEF HubCall, HubContext, HubSends, HubCannotSend, HubCancels, HubCaller, Send, SendFails,
     SendCancel, NoWorker, CheckWrite, Route, FindClosed, Register, TakeAnswer, GiveUp, EndContext, connVars
<1>8. ASSUME NEW k \in Calls, Handler(k) \/ EmitEvent(k) PROVE DeliversOwn
  BY <1>2, <1>8 DEF Handler, StartTask, FinishTask, SendResult, EndTask, EmitEvent, vars, connVars
<1>9. ASSUME NEW w \in WorkerIds, Session(w) \/ Restart(w) PROVE DeliversOwn
  BY <1>2, <1>9 DEF Session, SayHello, EndSession, ReadRequest, ReadCancel, Restart, vars, connVars
<1> QED
  BY <1>3, <1>4, <1>5, <1>6, <1>7, <1>8, <1>9 DEF LinkNext

LEMMA AnswersStayAtHome ==
  ASSUME HubInv, Named, AnswersAtHome, SoundStep, DeliversOwn
  PROVE  AnswersAtHome'
<1> USE LinkAssumption, HubAssumption
<1>1. \A k, l : SameHost(k, l) => SameHost(k, l)'
  BY HostStays, SoundStepIsHubStep DEF SameHost, Host
<1>2. \A k \in Calls, c \in Conns : k \in outbox[c] /\ session[c] = "serving" => k \in Made /\ Host(k) = wid[c]
  BY DEF HubInv, TypeOK, WaiterInv, OutboxSound, Named, Made, Used, Host, IDs
<1> HIDE LinkAssumption
<1> USE DEF HubInv, TypeOK, WaiterInv, OutboxSound, AnswersAtHome, connVars, callVars, routeVars
<1>3. CASE UNCHANGED vars
  BY <1>1, <1>3 DEF vars
<1>4. ASSUME NEW c \in Conns, Accept(c) \/ RefuseHello(c) \/ Unregister(c) PROVE AnswersAtHome'
  <2>1. /\ UNCHANGED <<outbox, answer, waiter, result>>
        /\ \A d \in Conns : outbox[d] # {} /\ session'[d] = "serving" => session[d] = "serving"
    BY <1>4 DEF Accept, RefuseHello, Unregister, Reading
  <2> QED
    BY <1>1, <2>1
<1>5. ASSUME NEW c \in Conns, NEW w \in WorkerIds, NEW held \in SUBSET Agents, NEW lim \in Limits,
             AcceptHello(c, w, held, lim)
      PROVE  AnswersAtHome'
  <2>1. /\ UNCHANGED <<outbox, answer, waiter, result>> /\ session[c] = "accepted"
        /\ session' = [session EXCEPT ![c] = "serving"]
    BY <1>5 DEF AcceptHello
  <2>2. outbox[c] = {}
    BY <2>1
  <2> QED
    BY <1>1, <2>1, <2>2
<1>6. ASSUME NEW c \in Conns, NEW i \in IDs, NEW ans \in Answers, DeliverResult(c, i, ans)
      PROVE  AnswersAtHome'
  <2>1. /\ session' = session /\ wid' = wid /\ conn' = conn /\ waiter' = waiter /\ result' = result
        /\ session[c] = "serving" /\ outbox[c] = {}
        /\ \A d \in Conns \ {c} : outbox'[d] = outbox[d] /\ answer'[d] = answer[d]
    BY <1>6 DEF DeliverResult, Reading
  <2>2. ASSUME NEW k \in outbox'[c] PROVE SameHost(k, answer'[c])
    <3>1. answer'[c] \in Made /\ Host(answer'[c]) = wid[c]
      BY <2>1, <2>2 DEF DeliversOwn
    <3>2. k = pending[c][i] /\ k \in Calls /\ k # NoCall
      BY <1>6, <2>2 DEF DeliverResult, WaiterFor
    <3>3. conn[k] = c /\ id[k] = i
      BY <3>2 DEF PendingSound
    <3>4. wid[c] \in WorkerIds
      BY <2>1 DEF Named, Used
    <3>5. k \in Made /\ Host(k) = wid[c]
      BY <2>1, <3>2, <3>3, <3>4 DEF Made, Used, Host
    <3> QED
      BY <3>1, <3>5 DEF SameHost
  <2>3. \A d \in Conns : \A k \in outbox'[d] : session'[d] = "serving" => SameHost(k, answer'[d])
    BY <2>1, <2>2
  <2> QED
    BY <1>1, <2>1, <2>3
<1>7. ASSUME NEW c \in Conns, Reader(c) PROVE AnswersAtHome'
  <2>1. ASSUME NEW k \in Calls, FillWaiter(c, k) PROVE AnswersAtHome'
    <3>1. /\ session' = session /\ result' = result
          /\ k \in outbox[c] /\ outbox' = [outbox EXCEPT ![c] = @ \ {k}]
          /\ answer' = [answer EXCEPT ![c] = NoFrame]
          /\ waiter' = [waiter EXCEPT ![k] = IF session[c] = "serving" THEN answer[c] ELSE "disconnected"]
      BY <2>1 DEF FillWaiter
    <3>2. waiter'[k] \in Calls => SameHost(k, waiter'[k])
      BY <3>1, LinkAssumption DEF Failures
    <3>3. \A d \in Conns : \A l \in outbox'[d] : session'[d] = "serving" => SameHost(l, answer'[d])
      BY <3>1
    <3>4. \A l \in Calls : waiter'[l] \in Calls => SameHost(l, waiter'[l])
      BY <3>1, <3>2
    <3> QED
      BY <1>1, <3>1, <3>3, <3>4
  <2>2. CASE Close(c)
    <3>1. /\ UNCHANGED <<answer, waiter, result>> /\ session' = [session EXCEPT ![c] = "closed"]
          /\ \A d \in Conns \ {c} : outbox'[d] = outbox[d]
      BY <2>2 DEF Close
    <3> QED
      BY <1>1, <3>1
  <2>3. ASSUME NEW a \in Agents, PublishOrphaned(c, a) PROVE AnswersAtHome'
    BY <1>1, <2>3 DEF PublishOrphaned
  <2> QED
    BY <1>7, <2>1, <2>2, <2>3 DEF Reader
<1>8. ASSUME NEW k \in Calls, Caller(k) PROVE AnswersAtHome'
  <2>1. UNCHANGED <<session, outbox, answer, waiter>>
    BY <1>8 DEF Caller, NoWorker, CheckWrite, Route, FindClosed, Register, Send, SendFails, TakeAnswer,
       GiveUp, SendCancel
  <2>2. \/ result' = result
        \/ \E r \in Failures : result' = [result EXCEPT ![k] = r]
        \/ waiter[k] # NoFrame /\ result' = [result EXCEPT ![k] = waiter[k]]
    BY <1>8 DEF Caller, NoWorker, CheckWrite, Route, FindClosed, Register, Send, SendFails, TakeAnswer,
       GiveUp, SendCancel, Return, Failures
  <2>3. \A l \in Calls : result'[l] \in Calls => SameHost(l, result'[l])
    BY <2>2, LinkAssumption
  <2> QED
    BY <1>1, <2>1, <2>3
<1>9. ASSUME NEW k \in Calls, EndContext(k) PROVE AnswersAtHome'
  BY <1>1, <1>9 DEF EndContext
<1> QED
  BY <1>3, <1>4, <1>5, <1>6, <1>7, <1>8, <1>9 DEF SoundStep

\* AuthorInv is inductive.
LEMMA AuthorInvariant == LinkSpec => []AuthorInv
<1>1. LinkInit => AuthorInv
  <2> SUFFICES ASSUME LinkInit PROVE AuthorInv
    OBVIOUS
  <2>1. \A c \in Conns : Authors(c) = {}
    BY HubAssumption DEF LinkInit, Init, Authors, Used
  <2>2. ResultsAreMade /\ AnswersAtHome
    BY HubAssumption, LinkAssumption DEF LinkInit, Init, ResultsAreMade, AnswersAtHome
  <2> QED
    BY <2>1, <2>2, LinkInvInit DEF AuthorInv, OneAuthor
<1>2. AuthorInv /\ [LinkNext]_allVars => AuthorInv'
  <2> SUFFICES ASSUME AuthorInv, [LinkNext]_allVars PROVE AuthorInv'
    OBVIOUS
  <2>1. LinkInv /\ OneAuthor /\ ResultsAreMade /\ AnswersAtHome
    BY DEF AuthorInv
  <2>2. LinkMove /\ SoundStep /\ [Next]_vars /\ LinkInv'
    BY <2>1, LinkStepMoves, LinkInvMove, SoundStepIsHubStep DEF LinkMove
  <2>3. OneAuthor' /\ ResultsAreMade'
    BY <2>1, <2>2, LinkStepAuthors, AuthorsStay
  <2>4. AnswersAtHome'
    BY <2>1, <2>2, LinkStepDelivers, AnswersStayAtHome DEF LinkInv
  <2> QED
    BY <2>2, <2>3, <2>4 DEF AuthorInv
<1> QED
  BY <1>1, <1>2, PTL DEF LinkSpec

-----------------------------------------------------------------------------
(***************************************************************************)
(* Cancels.                                                                *)
(***************************************************************************)

\* A cancel of a call on its way on a connection: under the id the call has there,
\* and the call has returned for it.
CancelOf(f, c) ==
  /\ conn[f.call] = c /\ id[f.call] = f.id
  /\ pc[f.call] = "returned" /\ result[f.call] = "cancelled"

CancelInv ==
  \A c \in Conns : \A n \in 1..Len(down[c]) :
    down[c][n].type = "cancel" => CancelOf(down[c][n], c)

\* What a step may do to the frames on their way to a worker.
CancelMove(c) ==
  \/ down'[c] = down[c]
  \/ down'[c] = <<>>
  \/ down[c] # <<>> /\ down'[c] = Tail(down[c])
  \/ \E f \in DownFrames :
       /\ down'[c] = Append(down[c], f)
       /\ f.type = "cancel" =>
            /\ conn'[f.call] = c /\ id'[f.call] = f.id
            /\ pc'[f.call] = "returned" /\ result'[f.call] = "cancelled"

\* What a call returned it has returned.
LEMMA ReturnedForGood ==
  ASSUME HubInv, [Next]_vars
  PROVE  \A k \in Calls : pc[k] = "returned" => pc'[k] = "returned" /\ result'[k] = result[k]
<1> USE DEF HubInv, TypeOK, connVars, callVars, routeVars
<1> DEFINE Kept == \A k \in Calls : pc[k] = "returned" => pc'[k] = "returned" /\ result'[k] = result[k]
<1>1. CASE UNCHANGED vars
  BY <1>1 DEF vars
<1>2. ASSUME NEW c \in Conns, Connection(c) PROVE Kept
  BY <1>2 DEF Connection, Accept, RefuseHello, AcceptHello, DeliverResult, Unregister
<1>3. ASSUME NEW c \in Conns, Reader(c) PROVE Kept
  BY <1>3 DEF Reader, FillWaiter, Close, PublishOrphaned
<1>4. ASSUME NEW k \in Calls, Caller(k) PROVE Kept
  BY <1>4 DEF Caller, NoWorker, CheckWrite, Route, FindClosed, Register, Send, SendFails, TakeAnswer,
     GiveUp, SendCancel, BeforeRouting, Return
<1>5. ASSUME NEW k \in Calls, EndContext(k) PROVE Kept
  BY <1>5 DEF EndContext
<1> QED
  BY <1>1, <1>2, <1>3, <1>4, <1>5 DEF Next

LEMMA LinkStepCancels ==
  ASSUME LinkInv, [LinkNext]_allVars
  PROVE  \A c \in Conns : CancelMove(c)
<1> DEFINE Moved == \A c \in Conns : CancelMove(c)
<1>1. down \in [Conns -> Seq(DownFrames)] /\ DOMAIN pc = Calls /\ DOMAIN result = Calls
  BY DEF LinkInv, LinkTypeOK, TypeOK
<1>2. CASE down' = down
  BY <1>2 DEF CancelMove
<1>3. CASE UNCHANGED allVars
  BY <1>2, <1>3 DEF allVars, linkVars
<1>4. ASSUME NEW c \in Conns, HubReader(c) \/ Break(c) \/ (\E w \in WorkerIds : Dial(w, c)) PROVE Moved
  BY <1>2, <1>4 DEF HubReader, HubReadsHello, HubRefuses, HubReadsResult, HubReadsEvent, HubLosesWorker,
     HubConnection, HangUp, Consume, Break, Dial, linkVars
<1>5. ASSUME NEW k \in Calls, HubSends(k) PROVE Moved
  <2>1. k \in Made /\ conn[k] \in Conns
    BY <1>5, RegisteredIsMade DEF HubSends, Send, LinkInv, Made
  <2>2. Request(k) \in DownFrames /\ Request(k).type = "request"
    BY <2>1 DEF Made, Request, DownFrames
  <2>3. \A c \in Conns : down'[c] = down[c] \/ down'[c] = Append(down[c], Request(k))
    BY <1>1, <1>5, <2>1 DEF HubSends
  <2> QED
    BY <2>2, <2>3 DEF CancelMove
<1>6. ASSUME NEW k \in Calls, HubCancels(k) PROVE Moved
  <2>1. k \in Made /\ conn[k] \in Conns
    BY <1>6, RegisteredIsMade DEF HubCancels, SendCancel, LinkInv, Made
  <2>2. Cancel(k) \in DownFrames /\ Cancel(k).call = k /\ Cancel(k).id = id[k]
    BY <2>1 DEF Made, Cancel, DownFrames
  <2>3. /\ conn' = conn /\ id' = id
        /\ pc'[k] = "returned" /\ result'[k] = "cancelled"
    BY <1>1, <1>6 DEF HubCancels, SendCancel, Return
  <2>4. \A c \in Conns : down'[c] = down[c] \/ (c = conn[k] /\ down'[c] = Append(down[c], Cancel(k)))
    BY <1>1, <1>6, <2>1 DEF HubCancels
  <2> QED
    BY <2>2, <2>3, <2>4 DEF CancelMove
<1>7. ASSUME NEW k \in Calls, HubCannotSend(k) \/ HubCaller(k) \/ HubContext(k) PROVE Moved
  BY <1>2, <1>7 DEF HubCannotSend, HubCaller, HubContext, linkVars
<1>8. ASSUME NEW k \in Calls, Handler(k) \/ EmitEvent(k) PROVE Moved
  BY <1>2, <1>8 DEF Handler, StartTask, FinishTask, SendResult, EndTask, EmitEvent
<1>9. ASSUME NEW w \in WorkerIds, Session(w) \/ Restart(w) PROVE Moved
  BY <1>1, <1>9 DEF Session, SayHello, EndSession, ReadRequest, ReadCancel, Reads, Restart, CancelMove
<1> QED
  BY <1>3, <1>4, <1>5, <1>6, <1>7, <1>8, <1>9 DEF LinkNext, HubCall

LEMMA CancelStep ==
  ASSUME LinkInv, CancelInv, [LinkNext]_allVars
  PROVE  CancelInv'
<1>1. down \in [Conns -> Seq(DownFrames)] /\ DownSound
  BY DEF LinkInv, LinkTypeOK, FrameInv
<1>2. HubInv /\ [Next]_vars
  BY LinkStepMoves, SoundStepIsHubStep DEF LinkMove, LinkInv
<1>3. \A f, c : f.call \in Made /\ CancelOf(f, c) => CancelOf(f, c)'
  BY <1>2, MadeIsStable, ReturnedForGood DEF CancelOf, Made, IDs
<1>4. ASSUME NEW c \in Conns, NEW n \in 1..Len(down'[c]), down'[c][n].type = "cancel"
      PROVE  CancelOf(down[c][n], c)'
  <2>1. CancelMove(c)
    BY LinkStepCancels
  <2>2. ASSUME NEW m \in 1..Len(down[c]), down'[c][n] = down[c][m] PROVE CancelOf(down[c][n], c)'
    <3> DEFINE f == down[c][m]
    <3>1. f.call \in Made /\ CancelOf(f, c)
      BY <1>1, <1>4, <2>2 DEF DownSound, CancelInv
    <3> HIDE DEF f
    <3>2. /\ conn'[f.call] = c /\ id'[f.call] = f.id
          /\ pc'[f.call] = "returned" /\ result'[f.call] = "cancelled"
      BY <1>3, <3>1 DEF CancelOf
    <3>3. down'[c][n] = f
      BY <2>2 DEF f
    <3> QED
      BY <3>2, <3>3 DEF CancelOf
  <2>3. CASE down'[c] = down[c] \/ down'[c] = <<>>
    BY <2>2, <2>3
  <2>4. CASE down[c] # <<>> /\ down'[c] = Tail(down[c])
    <3>1. n + 1 \in 1..Len(down[c]) /\ down'[c][n] = down[c][n + 1]
      BY <1>1, <2>4
    <3> QED
      BY <2>2, <3>1
  <2>5. ASSUME NEW f \in DownFrames, down'[c] = Append(down[c], f),
               f.type = "cancel" =>
                 /\ conn'[f.call] = c /\ id'[f.call] = f.id
                 /\ pc'[f.call] = "returned" /\ result'[f.call] = "cancelled"
        PROVE  CancelOf(down[c][n], c)'
    <3>1. (n \in 1..Len(down[c]) /\ down'[c][n] = down[c][n]) \/ down'[c][n] = f
      BY <1>1, <2>5
    <3>2. CASE down'[c][n] = f
      BY <1>4, <2>5, <3>2 DEF CancelOf
    <3> QED
      BY <2>2, <3>1, <3>2
  <2> QED
    BY <2>1, <2>3, <2>4, <2>5 DEF CancelMove
<1> QED
  BY <1>4 DEF CancelInv

\* CancelInv is inductive, beside the link's invariant.
LEMMA CancelInvariant == LinkSpec => []CancelInv
<1>1. LinkInit => CancelInv
  BY DEF LinkInit, CancelInv
<1>2. LinkInv /\ CancelInv /\ [LinkNext]_allVars => CancelInv'
  BY CancelStep
<1> QED
  BY <1>1, <1>2, LinkInvariant, PTL DEF LinkSpec

-----------------------------------------------------------------------------
(***************************************************************************)
(* Theorems.                                                               *)
(***************************************************************************)

\* The hub serving real workers is the hub of WorkerHub.tla: what its frames make
\* it do is among what that module lets an arbitrary worker do.
THEOREM LinkImplementsHub == LinkSpec => Spec
<1>1. LinkInit => Init
  BY DEF LinkInit
<1>2. LinkInv /\ [LinkNext]_allVars => [Next]_vars
  BY LinkStepMoves, SoundStepIsHubStep DEF LinkMove
<1> QED
  BY <1>1, <1>2, LinkInvariant, PTL DEF LinkSpec, Spec

\* The sockets carry hellos, requests and results of the right shape, with ids
\* that were handed out, and the worker's maps keep their types.
THEOREM LinkTypeCorrect == LinkSpec => []LinkTypeOK
<1>1. LinkInv => LinkTypeOK
  BY DEF LinkInv
<1> QED
  BY <1>1, LinkInvariant, PTL

\* However calls, cancellations and late results interleave, no call returns the
\* result of another call of its own connection.
THEOREM AnswersStayWithinConnection == LinkSpec => []AnswersWithinConnection
<1>1. LinkInv => AnswersWithinConnection
  BY DEF LinkInv, HubInv, WaiterInv, UniqueIDs, AnswerSound, SameID, AnswersWithinConnection
<1> QED
  BY <1>1, LinkInvariant, PTL

\* With real workers too, an agent's calls are never under way on two of them.
THEOREM LinkedAgentHasOneSandbox == LinkSpec => []OneSandboxPerAgent
BY LinkImplementsHub, AgentHasOneSandbox, PTL

\* A worker keeps no cancel function of a handler that has answered, under its own
\* id or another: a cancel never stops the command of a request it was not meant for
\* because of what an answered one left behind.
THEOREM HandlesAreNotStale == LinkSpec => []NoStaleCancelHandle
<1>1. ASSUME HandleInv PROVE NoStaleCancelHandle
  BY <1>1 DEF HandleInv, FiledInv, NoStaleCancelHandle
<1> QED
  BY <1>1, HandleInvariant, PTL

\* A call may be answered with the result of another, but the answer is that of the
\* worker its request was sent to, and never of a worker beside it.
THEOREM AnswersComeFromTheWorker == LinkSpec => []AnswersFromItsWorker
<1>1. ASSUME AuthorInv PROVE AnswersFromItsWorker
  BY <1>1 DEF AuthorInv, AnswersAtHome, SameHost, AnswersFromItsWorker
<1> QED
  BY <1>1, AuthorInvariant, PTL

\* A cancel on its way is for a caller that has left; whatever was filed and redialled
\* in between, no other handler of its connection is the one it would cancel.
THEOREM CancelsStayWithinConnection == LinkSpec => []CancelsHitTheirOwn
<1>1. ASSUME HandleInv, CancelInv PROVE CancelsHitTheirOwn
  <2>1. ASSUME NEW c \in Conns, NEW n \in 1..Len(down[c]), down[c][n].type = "cancel",
               NEW w \in WorkerIds, inflight[w][down[c][n].id] # NoCall,
               conn[inflight[w][down[c][n].id]] = c
        PROVE  inflight[w][down[c][n].id] = down[c][n].call
    <3> DEFINE f == down[c][n]
               k == inflight[w][f.id]
    <3>1. CancelOf(f, c)
      BY <1>1, <2>1 DEF CancelInv
    <3>2. /\ f \in DownFrames /\ down[c][n].call \in Made
          /\ inflight \in [WorkerIds -> [IDs -> Calls \cup {NoCall}]]
      BY <1>1 DEF HandleInv, LinkInv, LinkTypeOK, FrameInv, DownSound
    <3>3. f.id \in IDs /\ k \in Calls /\ f.call \in Calls
      BY <2>1, <3>2 DEF DownFrames
    <3>4. id[k] = f.id /\ conn[k] = c
      BY <1>1, <2>1, <3>3 DEF HandleInv, FiledInv
    <3> HIDE DEF f, k
    <3>5. k = f.call
      BY <1>1, <3>1, <3>3, <3>4 DEF CancelOf, HandleInv, LinkInv, HubInv, WaiterInv, UniqueIDs, IDs
    <3> QED
      BY <3>5 DEF f, k
  <2> QED
    BY <1>1, <2>1 DEF CancelInv, CancelOf, CancelsHitTheirOwn
<1> QED
  BY <1>1, HandleInvariant, CancelInvariant, PTL

\* What WorkerHub.tla promises of an arbitrary worker, the hub keeps with real ones:
\* names and pins stay sound, no caller is forgotten or left behind, and no reader
\* is held up by a caller.
THEOREM HubPromisesHoldWithWorkers ==
  LinkSpec => /\ [](OneConnectionPerWorker /\ PinsAreLive)
              /\ [](ReaderNeverBlocks /\ NoLostWaiter /\ NoLeakedWaiter)
              /\ StickyRouting
BY LinkImplementsHub, RegistryConsistent, ReaderIsNeverBlocked, WaiterIsNeverLost, PendingHoldsWaiters,
   RoutingIsSticky, PTL
=============================================================================
