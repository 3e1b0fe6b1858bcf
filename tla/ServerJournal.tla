---------------------------- MODULE ServerJournal ----------------------------
(***************************************************************************)
(* The server process with the tool calls it serves and the journal it     *)
(* keeps: calls are taken once the application is served, rows can be      *)
(* written while the database is up, the pruning loop lives as long as the *)
(* start that launched it, and the end of the process cuts what is under   *)
(* way.                                                                    *)
(***************************************************************************)
EXTENDS ServerProcess, ToolJournal

vars == <<procVars, journalVars>>

TypeOK == ProcTypeOK /\ JournalTypeOK
Init == ProcInit /\ JournalInit

Process ==
  /\ Starts \/ Probes \/ Shutdown \/ DbChanges
  /\ UNCHANGED journalVars

EndOfProcess == ProcessEnds /\ LoseCalls

\* A request for /mcp; the ones under way when the server stops run on.
Serve(k) ==
  /\ NameWorker(k)
  /\ stage \in Listening /\ routes
  /\ UNCHANGED procVars

\* The handler goroutine of a call, until its process ends.
Handler(k) ==
  /\ \/ AppendStarted(k, db = "up")
     \/ db = "up" /\ Refuse(k, "blocked")
     \/ Refuse(k, "other")
     \/ db = "up" /\ \E w \in Workers : Route(k, w)
     \/ \E e \in Ends : HandlerReturns(k, e)
     \/ AppendFinished(k, db = "up")
  /\ stage # "off"
  /\ UNCHANGED procVars

HubRepins ==
  /\ Repin
  /\ stage # "off"
  /\ UNCHANGED procVars

TimePasses == (\E row \in rows : Expire(row)) /\ UNCHANGED procVars

\* The ticker of pruneAuditPeriodically; a failure is logged and forgotten.
PruneTick ==
  /\ Prune
  /\ pruner /\ db = "up"
  /\ UNCHANGED procVars

Next ==
  \/ Process \/ EndOfProcess \/ HubRepins \/ TimePasses \/ PruneTick
  \/ \E k \in Calls : Serve(k) \/ Handler(k)

Spec == Init /\ [][Next]_vars

\* The process is started again, its start and its loops go on; nothing is
\* assumed of the calls, the database or the end of the process.
FairSpec ==
  /\ Spec
  /\ WF_vars(Starts /\ UNCHANGED journalVars)
  /\ WF_vars(PruneTick)
-----------------------------------------------------------------------------
\* Once a probe has been told this process is ready, every request finds the
\* application: main.go:331 stores the routes before 333 swaps the checker,
\* and a probe under way keeps the checker it copied.
ReadyMeansServed == ready => routes

\* An action that was attempted has its started row, whatever happened after,
\* unless that row could not be written or has been pruned (audit.go:54-61).
AttemptLeavesATrace ==
  \A k \in Calls :
    (served[k] # Unpinned \/ end[k] # NoEnd) =>
      Started(k) \in rows \cup missed \cup pruned

\* A started row on its own means what the README says it does: the call has
\* not returned, because it is under way or was cut off, unless the row of its
\* return could not be written.  Pruning takes rows one by one and must not
\* produce such a row (audit_repo.go:129).
UnpairedMeansUnreturned ==
  \A k \in Calls :
    Started(k) \in rows /\ Finished(k) \notin rows =>
      k \in UnderWay \/ call[k] = "cut" \/ Finished(k) \in missed

\* The finished row says how the call ended: a call the service cut short is
\* not filed as ok, nor a block as a failure (audit.go:67-90).
OutcomeIsHonest ==
  \A k \in Calls :
    outcome[k] # "none" =>
      /\ outcome[k] = "ok" <=> end[k] = NoEnd
      /\ outcome[k] = "blocked" <=> end[k].error = "blocked"
      /\ served[k] = Unpinned => outcome[k] \in {"blocked", "error"}

\* The worker of a finished row is the one that served the call, unless the
\* pin changed while the call was under way (audit.go:49-52, 91-97).
WorkerIsTheOneThatServed ==
  \A k \in Calls \ repinned :
    call[k] = "over" /\ served[k] # Unpinned => workerID[k] = served[k]

\* Every row has one fate: it is in the table, its insert failed, or it has been
\* deleted; and none of a call's before the insert is tried.
OneFate ==
  /\ rows \cap missed = {} /\ rows \cap pruned = {} /\ missed \cap pruned = {}
  /\ \A k \in Calls : call[k] \in {"new", "named"} =>
                        Started(k) \notin rows \cup missed \cup pruned

\* The journal only grows, until age takes rows out of it: no step of any call,
\* pin or process takes a row that is not past its retention, writes one that
\* was missed or deleted before, puts the end of a call ahead of its start, or
\* changes what a finished row says (audit_repo.go:33-84, 124-131).
JournalOnlyGrows ==
  [][/\ rows \ rows' \subseteq aged
     /\ rows' \cap (missed \cup pruned) = {}
     /\ \A k \in Calls :
          /\ Finished(k) \in rows' \ rows => Started(k) \in rows \cup missed \cup pruned
          /\ Finished(k) \in rows =>
               outcome'[k] = outcome[k] /\ outcome[k] # "none" /\ workerID'[k] = workerID[k]]_vars

\* A process that started without its database serves once the database stays
\* up, or ends for the orchestrator to start it again (main.go:278-338).
ComesUp ==
  stage = "degraded" ~> routes \/ stage \in {"stopping", "off"} \/ db = "down"

\* While a server started the direct way stays up with its database, rows past
\* their retention go (main.go:246, 398-425).
RetentionHonoured ==
  \A k \in Calls : \A p \in Phases :
    <<k, p>> \in aged ~> <<k, p>> \notin aged \/ stage # "direct" \/ db = "down"

\* The promise as main.go:388-390 and the README put it, for every server
\* that serves.
RetentionKept ==
  \A k \in Calls : \A p \in Phases :
    <<k, p>> \in aged ~>
      <<k, p>> \notin aged \/ stage \notin Serving \/ db = "down"
-----------------------------------------------------------------------------
\* What can be live has been put in place before.
ProcSound ==
  /\ stage \in {"stored", "direct", "recovered"} => routes
  /\ "live" \in {checker, probe} => routes

\* What a call has left behind at each of its steps.
CallSound ==
  \A k \in Calls :
    /\ call[k] \in {"new", "named", "journalled", "routed"} => end[k] = NoEnd
    /\ call[k] \in {"new", "named", "journalled"} => served[k] = Unpinned
    /\ call[k] = "routed" => served[k] \in Workers
    /\ call[k] \in {"journalled", "routed", "returned", "over"} =>
         Started(k) \in rows \cup missed \cup pruned
    /\ call[k] = "over" <=> Finished(k) \in rows \cup missed \cup pruned
    /\ outcome[k] # "none" => call[k] = "over"
    /\ call[k] \in {"returned", "over"} /\ served[k] = Unpinned =>
         end[k].error \in {"blocked", "other"}

\* Of the two rows of a call the finished one is never the older.
RowsSound ==
  \A k \in Calls :
    /\ Finished(k) \in aged => Started(k) \notin rows \ aged
    /\ Finished(k) \in pruned => Started(k) \notin rows

\* The pin while a call is under way.
PinSound ==
  \A k \in Calls \ repinned :
    /\ call[k] \in {"named", "journalled"} => workerID[k] \in {Unpinned, pin}
    /\ call[k] \in {"routed", "returned"} /\ served[k] # Unpinned =>
         served[k] = pin /\ workerID[k] \in {Unpinned, pin}

\* The inductive invariant.
JournalInv ==
  /\ TypeOK
  /\ ProcSound /\ ReadyMeansServed
  /\ CallSound /\ AttemptLeavesATrace /\ OutcomeIsHonest
  /\ RowsSound /\ UnpairedMeansUnreturned
  /\ PinSound /\ WorkerIsTheOneThatServed
=============================================================================
