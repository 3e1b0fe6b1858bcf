----------------------------- MODULE ToolJournal -----------------------------
(***************************************************************************)
(* The tool calls of one agent and the journal they leave                  *)
(* (internal/tools/sandbox/audit.go, internal/storage/audit_repo.go): a    *)
(* row when a call is attempted, a row when it returns, both deleted by    *)
(* age.  Which worker the agent is pinned to is the hub's doing; here the  *)
(* pin changes at any time.                                                *)
(***************************************************************************)
CONSTANTS
  Calls,      \* tool calls; each is made once
  Workers,    \* worker names
  Unpinned    \* the agent is pinned to no worker

ASSUME JournalAssumption == Unpinned \notin Workers

VARIABLES
  pin,        \* hub.assignments for this agent
  call,       \* where a call is in audited
  workerID,   \* record.WorkerID
  served,     \* history: the worker the call was routed to
  end,        \* how the handler came back: what it reported and its error
  rows,       \* the rows in the table, by call and phase
  aged,       \* those of them that are past their retention
  outcome,    \* the outcome written in a call's finished row
  missed,     \* history: rows whose insert failed
  pruned,     \* history: rows that were deleted
  repinned    \* history: calls under way when the pin changed

journalVars == <<pin, call, workerID, served, end, rows, aged, outcome, missed, pruned, repinned>>

Phases == {"started", "finished"}
Steps == {"new", "named", "journalled", "routed", "returned", "over", "cut"}
\* "none" is the empty string of the code.
Ends == [reported : {"none", "timeout", "stopped"}, error : {"none"}]
          \cup [reported : {"none"}, error : {"blocked", "other"}]
NoEnd == [reported |-> "none", error |-> "none"]
Outcomes == {"ok", "timeout", "stopped", "blocked", "error"}
Started(k) == <<k, "started">>
Finished(k) == <<k, "finished">>
UnderWay == {k \in Calls : call[k] \in {"named", "journalled", "routed", "returned"}}

JournalTypeOK ==
  /\ pin \in Workers \cup {Unpinned}
  /\ call \in [Calls -> Steps]
  /\ workerID \in [Calls -> Workers \cup {Unpinned}]
  /\ served \in [Calls -> Workers \cup {Unpinned}]
  /\ end \in [Calls -> Ends]
  /\ rows \in SUBSET (Calls \X Phases)
  /\ aged \in SUBSET rows
  /\ outcome \in [Calls -> Outcomes \cup {"none"}]
  /\ missed \in SUBSET (Calls \X Phases)
  /\ pruned \in SUBSET (Calls \X Phases)
  /\ repinned \in SUBSET Calls

JournalInit ==
  /\ pin \in Workers \cup {Unpinned}
  /\ call = [k \in Calls |-> "new"]
  /\ workerID = [k \in Calls |-> Unpinned]
  /\ served = [k \in Calls |-> Unpinned]
  /\ end = [k \in Calls |-> NoEnd]
  /\ rows = {} /\ aged = {} /\ missed = {} /\ pruned = {} /\ repinned = {}
  /\ outcome = [k \in Calls |-> "none"]

Step(k, from, to) ==
  /\ call[k] = from
  /\ call' = [call EXCEPT ![k] = to]

\* One insert: the row is there afterwards, or the failure is only logged.
Append(row, works) ==
  /\ rows' = IF works THEN rows \cup {row} ELSE rows
  /\ missed' = IF works THEN missed ELSE missed \cup {row}
-----------------------------------------------------------------------------
(***************************************************************************)
(* audited, around the handler of a tool.                                  *)
(***************************************************************************)

\* WorkerFor before the call: nobody yet, for an agent never routed.
NameWorker(k) ==
  /\ Step(k, "new", "named")
  /\ workerID' = [workerID EXCEPT ![k] = pin]
  /\ UNCHANGED <<pin, served, end, rows, aged, outcome, missed, pruned, repinned>>

StartUnwritten(k, works) ==  \* mutant: one row, when the call is over
  /\ Step(k, "named", "journalled")
  /\ UNCHANGED <<pin, workerID, served, end, rows, aged, outcome, missed, pruned, repinned>>

AppendStarted(k, works) ==
  /\ Step(k, "named", "journalled")
  /\ Append(Started(k), works)
  /\ UNCHANGED <<pin, workerID, served, end, aged, outcome, pruned, repinned>>

\* agentForCall refuses: blocked, or the block cannot be read; or there is no
\* worker to route to.
Refuse(k, error) ==
  /\ Step(k, "journalled", "returned")
  /\ end' = [end EXCEPT ![k] = [reported |-> "none", error |-> error]]
  /\ UNCHANGED <<pin, workerID, served, rows, aged, outcome, missed, pruned, repinned>>

\* Hub.workerFor: the pin, or a worker that becomes the pin.
Route(k, w) ==
  /\ Step(k, "journalled", "routed")
  /\ pin \in {w, Unpinned}
  /\ pin' = w
  /\ served' = [served EXCEPT ![k] = w]
  /\ UNCHANGED <<workerID, end, rows, aged, outcome, missed, pruned, repinned>>

HandlerReturns(k, e) ==
  /\ Step(k, "routed", "returned")
  /\ e.error # "blocked"
  /\ end' = [end EXCEPT ![k] = e]
  /\ UNCHANGED <<pin, workerID, served, rows, aged, outcome, missed, pruned, repinned>>

OutcomeOfError(e) ==  \* mutant: what the handler reports is not asked for
  CASE e.error = "blocked" -> "blocked"
    [] e.error = "other" -> "error"
    [] e.error = "none" -> "ok"
OutcomeOf(e) ==
  CASE e.error = "blocked" -> "blocked"
    [] e.error = "other" -> "error"
    [] e.error = "none" -> IF e.reported = "none" THEN "ok" ELSE e.reported

NamedOnce(k) == workerID[k]  \* mutant: not asked again after the call
NamedLater(k) == IF workerID[k] = Unpinned THEN pin ELSE workerID[k]

AppendFinished(k, works) ==
  /\ Step(k, "returned", "over")
  /\ Append(Finished(k), works)
  /\ outcome' = [outcome EXCEPT ![k] = IF works THEN OutcomeOf(end[k]) ELSE @]
  /\ workerID' = [workerID EXCEPT ![k] = NamedLater(k)]
  /\ UNCHANGED <<pin, served, end, aged, pruned, repinned>>
-----------------------------------------------------------------------------
\* The worker is lost, or one that was gone claims the agent back.
Repin ==
  /\ pin' \in (Workers \cup {Unpinned}) \ {pin}
  /\ repinned' = repinned \cup UnderWay
  /\ UNCHANGED <<call, workerID, served, end, rows, aged, outcome, missed, pruned>>

\* Rows come of age in the order they were written.
Expire(row) ==
  /\ row \in rows \ aged
  /\ row[2] = "finished" => Started(row[1]) \notin rows \ aged
  /\ aged' = aged \cup {row}
  /\ UNCHANGED <<pin, call, workerID, served, end, rows, outcome, missed, pruned, repinned>>

PruneReturned ==  \* mutant: calls under way are spared, row by row
  /\ aged # {}
  /\ rows' = rows \ {r \in aged : r[2] = "finished"}
  /\ pruned' = pruned \cup {r \in aged : r[2] = "finished"}
  /\ aged' = {r \in aged : r[2] = "started"}
  /\ UNCHANGED <<pin, call, workerID, served, end, outcome, missed, repinned>>

\* PruneAudit: one statement.
Prune ==
  /\ aged # {}
  /\ rows' = rows \ aged
  /\ pruned' = pruned \cup aged
  /\ aged' = {}
  /\ UNCHANGED <<pin, call, workerID, served, end, outcome, missed, repinned>>

\* The process ends: what it had not written is never written, and the pins
\* of the hub are gone.
LoseCalls ==
  /\ call' = [k \in Calls |-> IF k \in UnderWay THEN "cut" ELSE call[k]]
  /\ pin' = Unpinned
  /\ UNCHANGED <<workerID, served, end, rows, aged, outcome, missed, pruned, repinned>>
=============================================================================
