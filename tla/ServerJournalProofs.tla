------------------------ MODULE ServerJournalProofs ------------------------
(***************************************************************************)
(* JournalInv is an inductive invariant of ServerJournal, for any number   *)
(* of calls and workers.                                                   *)
(*                                                                         *)
(* The steps of the process and those of a call touch different variables, *)
(* so each action is shown to preserve the parts about what it changes;    *)
(* pins relate calls to each other and have a part of their own.           *)
(***************************************************************************)
EXTENDS ServerJournal, TLAPS

\* The first process has not started and nothing has been called.
LEMMA JournalInvInit == Init => JournalInv
<1> SUFFICES ASSUME Init PROVE JournalInv
  OBVIOUS
<1> USE JournalAssumption DEF Init, ProcInit, NoProcess, JournalInit, Started, Finished
<1>1. TypeOK
  BY DEF TypeOK, ProcTypeOK, JournalTypeOK, Stages, Listening, Serving, Steps, Ends, NoEnd,
     Outcomes, Phases
<1>2. ProcSound /\ ReadyMeansServed
  BY DEF ProcSound, ReadyMeansServed
<1>3. CallSound /\ AttemptLeavesATrace /\ OutcomeIsHonest
  BY DEF CallSound, AttemptLeavesATrace, OutcomeIsHonest
<1>4. RowsSound /\ UnpairedMeansUnreturned /\ PinSound /\ WorkerIsTheOneThatServed
  BY DEF RowsSound, UnpairedMeansUnreturned, PinSound, WorkerIsTheOneThatServed
<1> QED
  BY <1>1, <1>2, <1>3, <1>4 DEF JournalInv

\* The two rows of a call are different, and those of different calls too.
LEMMA RowsApart ==
  ASSUME NEW k \in Calls
  PROVE  /\ Started(k) \in Calls \X Phases /\ Finished(k) \in Calls \X Phases
         /\ \A j \in Calls : /\ Started(k) # Finished(j)
                             /\ j # k => Started(k) # Started(j) /\ Finished(k) # Finished(j)
BY DEF Started, Finished, Phases

\* Each step of the process: what is served stays in place until its end.
LEMMA ProcSteps ==
  ASSUME ProcTypeOK, ProcSound, ReadyMeansServed, Starts \/ Probes \/ Shutdown \/ DbChanges
  PROVE  ProcTypeOK' /\ ProcSound' /\ ReadyMeansServed'
<1> USE DEF ProcTypeOK, ProcSound, ReadyMeansServed, Stages, Listening, Serving
<1>1. CASE StartProcess
  BY <1>1 DEF StartProcess
<1>2. CASE BootDegraded
  BY <1>2 DEF BootDegraded
<1>3. CASE BootDirect
  BY <1>3 DEF BootDirect
<1>4. CASE ServeReady
  BY <1>4 DEF ServeReady
<1>5. CASE RetrySucceeds
  BY <1>5 DEF RetrySucceeds
<1>6. CASE StoreRoutes
  BY <1>6 DEF StoreRoutes
<1>7. CASE SwapChecker
  BY <1>7 DEF SwapChecker
<1>8. CASE ReadChecker
  BY <1>8 DEF ReadChecker
<1>9. CASE AnswerProbe
  BY <1>9 DEF AnswerProbe
<1>10. CASE Shutdown
  BY <1>10 DEF Shutdown
<1>11. CASE DbChanges
  BY <1>11 DEF DbChanges
<1> QED
  BY <1>1, <1>2, <1>3, <1>4, <1>5, <1>6, <1>7, <1>8, <1>9, <1>10, <1>11 DEF Starts, Probes

\* The journal does not move with the process.
LEMMA ProcessInv == ASSUME JournalInv, Process \/ UNCHANGED vars PROVE JournalInv'
<1> USE DEF JournalInv, TypeOK
<1>1. ProcTypeOK' /\ ProcSound' /\ ReadyMeansServed'
  <2>1. CASE Process
    BY <2>1, ProcSteps DEF Process
  <2>2. CASE UNCHANGED vars
    BY <2>2 DEF vars, procVars, ProcTypeOK, ProcSound, ReadyMeansServed
  <2> QED
    BY <2>1, <2>2
<1>2. UNCHANGED journalVars
  BY DEF Process, vars
<1> USE <1>2 DEF journalVars
<1>3. JournalTypeOK' /\ CallSound' /\ AttemptLeavesATrace' /\ OutcomeIsHonest'
  BY DEF JournalTypeOK, CallSound, AttemptLeavesATrace, OutcomeIsHonest
<1>4. RowsSound' /\ UnpairedMeansUnreturned' /\ PinSound' /\ WorkerIsTheOneThatServed'
  BY DEF RowsSound, UnpairedMeansUnreturned, UnderWay, PinSound, WorkerIsTheOneThatServed
<1> QED
  BY <1>1, <1>3, <1>4

\* The end of the process leaves the rows as they are.
LEMMA EndInv == ASSUME JournalInv, EndOfProcess PROVE JournalInv'
<1> USE JournalAssumption DEF JournalInv, EndOfProcess, ProcessEnds, LoseCalls, UnderWay
<1>1. TypeOK'
  BY DEF TypeOK, ProcTypeOK, JournalTypeOK, Stages, Steps
<1>2. ProcSound' /\ ReadyMeansServed'
  BY DEF ProcSound, ReadyMeansServed
<1>3. CallSound'
  BY DEF CallSound, TypeOK, JournalTypeOK, Steps
<1>4. AttemptLeavesATrace' /\ OutcomeIsHonest'
  BY DEF AttemptLeavesATrace, OutcomeIsHonest
<1>5. RowsSound' /\ UnpairedMeansUnreturned'
  BY DEF RowsSound, UnpairedMeansUnreturned, TypeOK, JournalTypeOK
<1>6. PinSound' /\ WorkerIsTheOneThatServed'
  BY DEF PinSound, WorkerIsTheOneThatServed, TypeOK, JournalTypeOK
<1> QED
  BY <1>1, <1>2, <1>3, <1>4, <1>5, <1>6

\* What a step of one call needs to show: the process does not move.
LEMMA ProcUnmoved ==
  ASSUME JournalInv, UNCHANGED procVars
  PROVE  ProcTypeOK' /\ ProcSound' /\ ReadyMeansServed'
BY DEF JournalInv, TypeOK, procVars, ProcTypeOK, ProcSound, ReadyMeansServed

\* A call is made: the pin of the moment is its worker.
LEMMA ServeInv == ASSUME JournalInv, NEW k \in Calls, Serve(k) PROVE JournalInv'
<1> USE JournalAssumption, RowsApart DEF JournalInv, Serve, NameWorker, Step, TypeOK
<1>1. ProcTypeOK' /\ ProcSound' /\ ReadyMeansServed'
  BY ProcUnmoved
<1>2. JournalTypeOK'
  BY DEF JournalTypeOK, Steps
<1>3. CallSound'
  BY DEF CallSound, JournalTypeOK
<1>4. AttemptLeavesATrace' /\ OutcomeIsHonest' /\ RowsSound'
  BY DEF AttemptLeavesATrace, OutcomeIsHonest, RowsSound
<1>5. UnpairedMeansUnreturned'
  BY DEF UnpairedMeansUnreturned, UnderWay, JournalTypeOK
<1>6. PinSound' /\ WorkerIsTheOneThatServed'
  BY DEF PinSound, WorkerIsTheOneThatServed, JournalTypeOK
<1> QED
  BY <1>1, <1>2, <1>3, <1>4, <1>5, <1>6

\* The started row, or the failure to write it.
LEMMA StartedInv ==
  ASSUME JournalInv, NEW k \in Calls, NEW works \in BOOLEAN, AppendStarted(k, works),
         UNCHANGED procVars
  PROVE  JournalInv'
<1> USE JournalAssumption, RowsApart DEF JournalInv, AppendStarted, Append, Step, TypeOK
<1>1. ProcTypeOK' /\ ProcSound' /\ ReadyMeansServed'
  BY ProcUnmoved
<1>2. JournalTypeOK'
  BY DEF JournalTypeOK, Steps
<1>3. CallSound'
  BY DEF CallSound, JournalTypeOK
<1>4. AttemptLeavesATrace' /\ OutcomeIsHonest'
  BY DEF AttemptLeavesATrace, OutcomeIsHonest, JournalTypeOK
<1>5. RowsSound'
  BY DEF RowsSound, CallSound, JournalTypeOK
<1>6. UnpairedMeansUnreturned'
  BY DEF UnpairedMeansUnreturned, UnderWay, JournalTypeOK
<1>7. PinSound' /\ WorkerIsTheOneThatServed'
  BY DEF PinSound, WorkerIsTheOneThatServed, JournalTypeOK
<1> QED
  BY <1>1, <1>2, <1>3, <1>4, <1>5, <1>6, <1>7

\* A call that is refused has its started row.
LEMMA RefuseInv ==
  ASSUME JournalInv, NEW k \in Calls, NEW e \in {"blocked", "other"}, Refuse(k, e),
         UNCHANGED procVars
  PROVE  JournalInv'
<1> USE JournalAssumption, RowsApart DEF JournalInv, Refuse, Step, TypeOK
<1>1. ProcTypeOK' /\ ProcSound' /\ ReadyMeansServed'
  BY ProcUnmoved
<1>2. JournalTypeOK'
  BY DEF JournalTypeOK, Steps, Ends
<1>3. CallSound'
  BY DEF CallSound, JournalTypeOK, NoEnd
<1>4. AttemptLeavesATrace' /\ OutcomeIsHonest'
  BY DEF AttemptLeavesATrace, OutcomeIsHonest, CallSound, JournalTypeOK
<1>5. RowsSound'
  BY DEF RowsSound
<1>6. UnpairedMeansUnreturned'
  BY DEF UnpairedMeansUnreturned, UnderWay, JournalTypeOK
<1>7. PinSound' /\ WorkerIsTheOneThatServed'
  BY DEF PinSound, WorkerIsTheOneThatServed, CallSound, JournalTypeOK
<1> QED
  BY <1>1, <1>2, <1>3, <1>4, <1>5, <1>6, <1>7

\* A call is routed to the pin, and a new pin is for an agent that had none.
LEMMA RouteInv ==
  ASSUME JournalInv, NEW k \in Calls, NEW w \in Workers, Route(k, w),
         UNCHANGED procVars
  PROVE  JournalInv'
<1> USE JournalAssumption, RowsApart DEF JournalInv, Route, Step, TypeOK
<1>1. ProcTypeOK' /\ ProcSound' /\ ReadyMeansServed'
  BY ProcUnmoved
<1>2. JournalTypeOK'
  BY DEF JournalTypeOK, Steps, Ends
<1>3. CallSound'
  BY DEF CallSound, JournalTypeOK, NoEnd
<1>4. AttemptLeavesATrace' /\ OutcomeIsHonest'
  BY DEF AttemptLeavesATrace, OutcomeIsHonest, CallSound, JournalTypeOK
<1>5. RowsSound'
  BY DEF RowsSound
<1>6. UnpairedMeansUnreturned'
  BY DEF UnpairedMeansUnreturned, UnderWay, JournalTypeOK
<1>7. PinSound' /\ WorkerIsTheOneThatServed'
  BY DEF PinSound, WorkerIsTheOneThatServed, CallSound, JournalTypeOK
<1> QED
  BY <1>1, <1>2, <1>3, <1>4, <1>5, <1>6, <1>7

\* A routed call comes back.
LEMMA ReturnsInv ==
  ASSUME JournalInv, NEW k \in Calls, NEW e \in Ends, HandlerReturns(k, e),
         UNCHANGED procVars
  PROVE  JournalInv'
<1> USE JournalAssumption, RowsApart DEF JournalInv, HandlerReturns, Step, TypeOK
<1>1. ProcTypeOK' /\ ProcSound' /\ ReadyMeansServed'
  BY ProcUnmoved
<1>2. JournalTypeOK'
  BY DEF JournalTypeOK, Steps, Ends
<1>3. CallSound'
  BY DEF CallSound, JournalTypeOK, NoEnd
<1>4. AttemptLeavesATrace' /\ OutcomeIsHonest'
  BY DEF AttemptLeavesATrace, OutcomeIsHonest, CallSound, JournalTypeOK
<1>5. RowsSound'
  BY DEF RowsSound
<1>6. UnpairedMeansUnreturned'
  BY DEF UnpairedMeansUnreturned, UnderWay, JournalTypeOK
<1>7. PinSound' /\ WorkerIsTheOneThatServed'
  BY DEF PinSound, WorkerIsTheOneThatServed, CallSound, JournalTypeOK
<1> QED
  BY <1>1, <1>2, <1>3, <1>4, <1>5, <1>6, <1>7

\* The finished row says how the call ended, and by which worker.
LEMMA FinishedInv ==
  ASSUME JournalInv, NEW k \in Calls, NEW works \in BOOLEAN, AppendFinished(k, works),
         UNCHANGED procVars
  PROVE  JournalInv'
<1> USE JournalAssumption, RowsApart DEF JournalInv, AppendFinished, Append, Step, TypeOK
<1>1. ProcTypeOK' /\ ProcSound' /\ ReadyMeansServed'
  BY ProcUnmoved
<1>2. \A e \in Ends : /\ OutcomeOf(e) \in Outcomes
                      /\ OutcomeOf(e) = "ok" <=> e = NoEnd
                      /\ OutcomeOf(e) = "blocked" <=> e.error = "blocked"
                      /\ e.error \in {"blocked", "other"} => OutcomeOf(e) \in {"blocked", "error"}
  <2> TAKE e \in Ends
  <2>1. CASE e \in [reported : {"none", "timeout", "stopped"}, error : {"none"}]
    <3>1. e.error = "none" /\ e.reported \in {"none", "timeout", "stopped"}
      BY <2>1
    <3>2. OutcomeOf(e) = IF e.reported = "none" THEN "ok" ELSE e.reported
      BY <3>1 DEF OutcomeOf
    <3>3. e = NoEnd <=> e.reported = "none"
      BY <2>1, <3>1 DEF NoEnd
    <3> QED
      BY <3>1, <3>2, <3>3 DEF Outcomes
  <2>2. CASE e \in [reported : {"none"}, error : {"blocked", "other"}]
    <3>1. e.error \in {"blocked", "other"} /\ e # NoEnd
      BY <2>2 DEF NoEnd
    <3>2. OutcomeOf(e) = IF e.error = "blocked" THEN "blocked" ELSE "error"
      BY <3>1 DEF OutcomeOf
    <3> QED
      BY <3>1, <3>2 DEF Outcomes
  <2> QED
    BY <2>1, <2>2 DEF Ends
<1>3. JournalTypeOK'
  BY <1>2 DEF JournalTypeOK, Steps, NamedLater
<1>4. CallSound'
  BY DEF CallSound, JournalTypeOK
<1>5. AttemptLeavesATrace'
  BY DEF AttemptLeavesATrace, JournalTypeOK
<1>6. OutcomeIsHonest'
  BY <1>2 DEF OutcomeIsHonest, CallSound, JournalTypeOK
<1>7. RowsSound'
  <2>1. \A j \in Calls : Started(j) \in rows' <=> Started(j) \in rows
    OBVIOUS
  <2> QED
    BY <2>1 DEF RowsSound, CallSound, JournalTypeOK
<1>8. UnpairedMeansUnreturned'
  BY DEF UnpairedMeansUnreturned, UnderWay, JournalTypeOK
<1>9. PinSound' /\ WorkerIsTheOneThatServed'
  BY DEF PinSound, WorkerIsTheOneThatServed, NamedLater, CallSound, JournalTypeOK
<1> QED
  BY <1>1, <1>3, <1>4, <1>5, <1>6, <1>7, <1>8, <1>9

\* A pin that changes is remembered with the calls that are under way.
LEMMA RepinInv == ASSUME JournalInv, HubRepins PROVE JournalInv'
<1> USE JournalAssumption DEF JournalInv, HubRepins, Repin, TypeOK, UnderWay
<1>1. ProcTypeOK' /\ ProcSound' /\ ReadyMeansServed'
  BY ProcUnmoved
<1>2. JournalTypeOK'
  BY DEF JournalTypeOK
<1>3. CallSound' /\ AttemptLeavesATrace' /\ OutcomeIsHonest' /\ RowsSound'
  BY DEF CallSound, AttemptLeavesATrace, OutcomeIsHonest, RowsSound
<1>4. UnpairedMeansUnreturned' /\ PinSound' /\ WorkerIsTheOneThatServed'
  BY DEF UnpairedMeansUnreturned, PinSound, WorkerIsTheOneThatServed
<1> QED
  BY <1>1, <1>2, <1>3, <1>4

\* Rows come of age in order, and those that have go together.
LEMMA AgeInv == ASSUME JournalInv, TimePasses \/ PruneTick PROVE JournalInv'
<1> USE JournalAssumption, RowsApart
        DEF JournalInv, TimePasses, PruneTick, Expire, Prune, TypeOK
<1>1. ProcTypeOK' /\ ProcSound' /\ ReadyMeansServed'
  BY ProcUnmoved
<1>2. JournalTypeOK'
  BY DEF JournalTypeOK
<1>3. CallSound' /\ AttemptLeavesATrace'
  BY DEF CallSound, AttemptLeavesATrace, JournalTypeOK
<1>4. RowsSound'
  <2>1. CASE PruneTick
    BY <2>1 DEF RowsSound, JournalTypeOK
  <2>2. ASSUME NEW row \in rows, Expire(row) PROVE RowsSound'
    <3> SUFFICES ASSUME NEW j \in Calls, Finished(j) \in aged' PROVE Started(j) \notin rows' \ aged'
      BY <2>2 DEF RowsSound
    <3>1. CASE row = Finished(j)
      BY <2>2, <3>1 DEF Finished
    <3> QED
      BY <2>2, <3>1 DEF RowsSound
  <2> QED
    BY <2>1, <2>2
<1>5. UnpairedMeansUnreturned'
  BY DEF UnpairedMeansUnreturned, RowsSound, UnderWay, JournalTypeOK
<1>6. OutcomeIsHonest' /\ PinSound' /\ WorkerIsTheOneThatServed'
  BY DEF OutcomeIsHonest, PinSound, WorkerIsTheOneThatServed
<1> QED
  BY <1>1, <1>2, <1>3, <1>4, <1>5, <1>6

\* Every step of the server keeps JournalInv.
LEMMA JournalInvNext == JournalInv /\ [Next]_vars => JournalInv'
<1> SUFFICES ASSUME JournalInv, [Next]_vars PROVE JournalInv'
  OBVIOUS
<1>1. ASSUME NEW k \in Calls, Handler(k) PROVE JournalInv'
  <2>1. (db = "up") \in BOOLEAN
    OBVIOUS
  <2>2. CASE \E works \in BOOLEAN : AppendStarted(k, works) \/ AppendFinished(k, works)
    BY <1>1, <2>2, StartedInv, FinishedInv DEF Handler
  <2> QED
    BY <1>1, <2>1, <2>2, RefuseInv, RouteInv, ReturnsInv DEF Handler
<1> QED
  BY <1>1, ProcessInv, EndInv, ServeInv, RepinInv, AgeInv DEF Next

\* The invariant of the server and its journal.
THEOREM JournalInvariant == Spec => []JournalInv
BY JournalInvInit, JournalInvNext, PTL DEF Spec
-----------------------------------------------------------------------------
\* Types (main.go, audit.go, audit_repo.go).
THEOREM JournalTypeCorrect == Spec => []TypeOK
<1>1. JournalInv => TypeOK
  BY DEF JournalInv
<1> QED
  BY <1>1, JournalInvariant, PTL

\* A process that said it is ready has its routes (main.go:331-334).
THEOREM ReadyIsServed == Spec => []ReadyMeansServed
<1>1. JournalInv => ReadyMeansServed
  BY DEF JournalInv
<1> QED
  BY <1>1, JournalInvariant, PTL

\* Nothing runs on a worker without a started row, a failed insert or a pruned
\* row of it (audit.go:54-61).
THEOREM AttemptsAreTraced == Spec => []AttemptLeavesATrace
<1>1. JournalInv => AttemptLeavesATrace
  BY DEF JournalInv
<1> QED
  BY <1>1, JournalInvariant, PTL

\* Pruning never makes a call that returned look cut off (audit_repo.go:124-131).
THEOREM UnpairedIsUnreturned == Spec => []UnpairedMeansUnreturned
<1>1. JournalInv => UnpairedMeansUnreturned
  BY DEF JournalInv
<1> QED
  BY <1>1, JournalInvariant, PTL

\* A finished row does not call a stop a success (audit.go:67-90).
THEOREM OutcomesAreHonest == Spec => []OutcomeIsHonest
<1>1. JournalInv => OutcomeIsHonest
  BY DEF JournalInv
<1> QED
  BY <1>1, JournalInvariant, PTL

\* Asked twice, the hub names the worker that served (audit.go:49-52, 91-97).
THEOREM WorkerIsNamedRight == Spec => []WorkerIsTheOneThatServed
<1>1. JournalInv => WorkerIsTheOneThatServed
  BY DEF JournalInv
<1> QED
  BY <1>1, JournalInvariant, PTL
-----------------------------------------------------------------------------
\* What one row's fate needs besides: a finished row that is there has an outcome.
FateInv ==
  /\ OneFate
  /\ \A k \in Calls : Finished(k) \in rows => outcome[k] # "none"

\* What a step may do to the journal.
Grows ==
  /\ rows \ rows' \subseteq aged
  /\ rows' \cap (missed \cup pruned) = {}
  /\ \A k \in Calls :
       /\ Finished(k) \in rows' \ rows => Started(k) \in rows \cup missed \cup pruned
       /\ Finished(k) \in rows =>
            outcome'[k] = outcome[k] /\ outcome[k] # "none" /\ workerID'[k] = workerID[k]

\* A row that is not there when its insert is tried gets one fate by it.
LEMMA AppendFate ==
  ASSUME OneFate, NEW row, NEW works \in BOOLEAN, Append(row, works), UNCHANGED pruned,
         row \notin rows \cup missed \cup pruned
  PROVE  /\ rows' \cap missed' = {} /\ rows' \cap pruned' = {} /\ missed' \cap pruned' = {}
         /\ rows' \cap (missed \cup pruned) = {}
         /\ rows \subseteq rows' /\ rows' \subseteq rows \cup {row}
         /\ rows' \cup missed' \cup pruned' = rows \cup missed \cup pruned \cup {row}
BY DEF OneFate, Append

\* Steps that write nothing.
LEMMA UnwrittenFate ==
  ASSUME FateInv, UNCHANGED <<rows, missed, pruned, outcome>>,
         \A k \in Calls : call'[k] \in {"new", "named"} => call[k] \in {"new", "named"},
         \A k \in Calls : Finished(k) \in rows => workerID'[k] = workerID[k]
  PROVE  FateInv' /\ Grows
BY DEF FateInv, OneFate, Grows

LEMMA FateNext == ASSUME JournalInv, FateInv, [Next]_vars PROVE FateInv' /\ Grows
<1>0. /\ JournalTypeOK /\ CallSound
      /\ \A k \in Calls : call[k] \in Steps /\ (call[k] # "over" => Finished(k) \notin rows \cup missed \cup pruned)
  BY DEF JournalInv, TypeOK, CallSound, JournalTypeOK
<1>1. CASE Process \/ EndOfProcess \/ HubRepins \/ TimePasses \/ UNCHANGED vars
  <2>1. UNCHANGED <<rows, missed, pruned, outcome, workerID>>
    BY <1>1 DEF Process, EndOfProcess, LoseCalls, HubRepins, Repin, TimePasses, Expire, vars, journalVars
  <2>2. \A k \in Calls : call'[k] \in {"new", "named"} => call[k] \in {"new", "named"}
    BY <1>1 DEF Process, EndOfProcess, LoseCalls, HubRepins, Repin, TimePasses, Expire, vars, journalVars
  <2> QED
    BY <2>1, <2>2, UnwrittenFate
<1>2. CASE PruneTick
  <2>1. /\ rows' = rows \ aged /\ pruned' = pruned \cup aged /\ aged \subseteq rows
        /\ UNCHANGED <<missed, outcome, workerID, call>>
    BY <1>0, <1>2 DEF PruneTick, Prune, JournalTypeOK
  <2> QED
    BY <2>1 DEF FateInv, OneFate, Grows
<1>3. ASSUME NEW k \in Calls, Serve(k) PROVE FateInv' /\ Grows
  <2>1. /\ call[k] = "new" /\ UNCHANGED <<rows, missed, pruned, outcome>>
        /\ \A j \in Calls : j # k => call'[j] = call[j] /\ workerID'[j] = workerID[j]
    BY <1>0, <1>3 DEF Serve, NameWorker, Step, JournalTypeOK
  <2> QED
    BY <1>0, <2>1, UnwrittenFate
<1>4. ASSUME NEW k \in Calls, Handler(k) PROVE FateInv' /\ Grows
  <2>1. CASE UNCHANGED <<rows, missed, pruned, outcome, workerID>> /\ \E to \in Steps \ {"new", "named"} :
               call' = [call EXCEPT ![k] = to]
    <3>1. \A j \in Calls : call'[j] \in {"new", "named"} => call[j] \in {"new", "named"}
      BY <1>0, <2>1 DEF JournalTypeOK
    <3> QED
      BY <2>1, <3>1, UnwrittenFate
  <2>2. ASSUME NEW works \in BOOLEAN, AppendStarted(k, works) PROVE FateInv' /\ Grows
    <3>1. /\ call[k] = "named" /\ call' = [call EXCEPT ![k] = "journalled"]
          /\ Append(Started(k), works) /\ UNCHANGED <<pruned, outcome, workerID>>
      BY <2>2 DEF AppendStarted, Step
    <3>2. Started(k) \notin rows \cup missed \cup pruned
      BY <3>1 DEF FateInv, OneFate
    <3>3. /\ rows' \cap missed' = {} /\ rows' \cap pruned' = {} /\ missed' \cap pruned' = {}
          /\ rows' \cap (missed \cup pruned) = {}
          /\ rows \subseteq rows' /\ rows' \subseteq rows \cup {Started(k)}
          /\ rows' \cup missed' \cup pruned' = rows \cup missed \cup pruned \cup {Started(k)}
      BY <3>1, <3>2, AppendFate DEF FateInv
    <3>4. \A j \in Calls : call'[j] = IF j = k THEN "journalled" ELSE call[j]
      BY <1>0, <3>1 DEF JournalTypeOK
    <3>5. \A j \in Calls : call'[j] \in {"new", "named"} => Started(j) \notin rows' \cup missed' \cup pruned'
      BY <3>3, <3>4, RowsApart DEF FateInv, OneFate
    <3>6. \A j \in Calls : Finished(j) \in rows' => Finished(j) \in rows
      BY <3>3, RowsApart
    <3>7. FateInv'
      BY <3>1, <3>3, <3>5, <3>6 DEF FateInv, OneFate
    <3>8. Grows
      BY <3>1, <3>3, <3>6 DEF Grows, FateInv
    <3> QED
      BY <3>7, <3>8
  <2>3. ASSUME NEW works \in BOOLEAN, AppendFinished(k, works) PROVE FateInv' /\ Grows
    <3>1. /\ call[k] = "returned" /\ call' = [call EXCEPT ![k] = "over"]
          /\ Append(Finished(k), works) /\ UNCHANGED pruned
          /\ outcome' = [outcome EXCEPT ![k] = IF works THEN OutcomeOf(end[k]) ELSE @]
          /\ workerID' = [workerID EXCEPT ![k] = NamedLater(k)]
      BY <2>3 DEF AppendFinished, Step
    <3>2. Finished(k) \notin rows \cup missed \cup pruned
      BY <1>0, <3>1
    <3>3. /\ rows' \cap missed' = {} /\ rows' \cap pruned' = {} /\ missed' \cap pruned' = {}
          /\ rows' \cap (missed \cup pruned) = {}
          /\ rows \subseteq rows' /\ rows' \subseteq rows \cup {Finished(k)}
          /\ rows' \cup missed' \cup pruned' = rows \cup missed \cup pruned \cup {Finished(k)}
      BY <3>1, <3>2, AppendFate DEF FateInv
    <3>4. \A j \in Calls : /\ call'[j] = IF j = k THEN "over" ELSE call[j]
                           /\ j # k => outcome'[j] = outcome[j] /\ workerID'[j] = workerID[j]
      BY <1>0, <3>1 DEF JournalTypeOK
    <3>5. \A j \in Calls : call'[j] \in {"new", "named"} => Started(j) \notin rows' \cup missed' \cup pruned'
      BY <3>3, <3>4, RowsApart DEF FateInv, OneFate
    <3>6. \A j \in Calls : Finished(j) \in rows' \ rows => j = k /\ works
      BY <3>1, <3>3, RowsApart DEF Append
    <3>7. OutcomeOf(end[k]) # "none"
      BY <1>0 DEF OutcomeOf, Ends, JournalTypeOK
    <3>8. \A j \in Calls : Finished(j) \in rows' => outcome'[j] # "none"
      BY <1>0, <3>1, <3>4, <3>6, <3>7 DEF FateInv, JournalTypeOK
    <3>9. Started(k) \in rows \cup missed \cup pruned
      BY <1>0, <3>1 DEF CallSound
    <3>10. FateInv'
      BY <3>3, <3>5, <3>8 DEF FateInv, OneFate
    <3>11. Grows
      BY <3>2, <3>3, <3>4, <3>6, <3>9 DEF Grows, FateInv
    <3> QED
      BY <3>10, <3>11
  <2>4. (db = "up") \in BOOLEAN
    OBVIOUS
  <2>5. CASE \/ \E works \in BOOLEAN : AppendStarted(k, works) \/ AppendFinished(k, works)
    BY <2>2, <2>3, <2>5
  <2>6. CASE \/ Refuse(k, "blocked") \/ Refuse(k, "other") \/ (\E w \in Workers : Route(k, w))
             \/ \E e \in Ends : HandlerReturns(k, e)
    <3>1. UNCHANGED <<rows, missed, pruned, outcome, workerID>> /\ \E to \in Steps \ {"new", "named"} :
               call' = [call EXCEPT ![k] = to]
      BY <2>6 DEF Refuse, Route, HandlerReturns, Step, Steps
    <3> QED
      BY <3>1, <2>1
  <2> QED
    BY <1>4, <2>4, <2>5, <2>6 DEF Handler
<1> QED
  BY <1>1, <1>2, <1>3, <1>4 DEF Next

LEMMA FateInvariant == Spec => [](JournalInv /\ FateInv)
<1>1. Init => FateInv
  BY DEF Init, JournalInit, FateInv, OneFate
<1> QED
  BY <1>1, JournalInvariant, FateNext, PTL DEF Spec

\* A row is written, missed or deleted, one of the three and once (audit_repo.go:33-84,
\* 124-131).
THEOREM EveryRowHasOneFate == Spec => []OneFate
<1>1. FateInv => OneFate
  BY DEF FateInv
<1> QED
  BY <1>1, FateInvariant, PTL

\* No step rewrites what the journal says, and only age takes anything out of it.
THEOREM JournalOnlyEverGrows == Spec => JournalOnlyGrows
<1>1. JournalInv /\ FateInv /\ [Next]_vars => [Grows]_vars
  BY FateNext
<1> QED
  BY <1>1, FateInvariant, PTL DEF Spec, JournalOnlyGrows, Grows
=============================================================================
