---------------------------- MODULE ServerProcess ----------------------------
(***************************************************************************)
(* The life of the server process, cmd/executor: the two ways it starts    *)
(* (the database answers at boot, or it comes up degraded and finishes     *)
(* later), what a readiness probe sees meanwhile, the loop that prunes the *)
(* journal, and its end.                                                   *)
(***************************************************************************)
VARIABLES
  db,         \* the database: whether a query would succeed now
  stage,      \* where the process is in its start, "off" when there is none
  routes,     \* the handler of the application is in place
  checker,    \* what /readyz is answered from: "boot" is never ready
  pruner,     \* pruneAuditPeriodically is running
  probe,      \* the checker a probe under way has copied
  ready       \* history: this process has answered a probe with ready

procVars == <<db, stage, routes, checker, pruner, probe, ready>>

Serving == {"direct", "recovered"}
Listening == {"degraded", "opened", "stored"} \cup Serving
Stages == {"off", "opening", "building", "stopping"} \cup Listening

ProcTypeOK ==
  /\ db \in {"up", "down"}
  /\ stage \in Stages
  /\ routes \in BOOLEAN /\ pruner \in BOOLEAN /\ ready \in BOOLEAN
  /\ checker \in {"boot", "live"}
  /\ probe \in {"none", "boot", "live"}

NoProcess == /\ stage = "off"
             /\ routes = FALSE /\ pruner = FALSE /\ ready = FALSE
             /\ checker = "boot" /\ probe = "none"

ProcInit == db \in {"up", "down"} /\ NoProcess
-----------------------------------------------------------------------------
DbChanges ==
  /\ db' = IF db = "up" THEN "down" ELSE "up"
  /\ UNCHANGED <<stage, routes, checker, pruner, probe, ready>>

\* The orchestrator starts the process again whenever it has ended.
StartProcess ==
  /\ stage = "off" /\ stage' = "opening"
  /\ UNCHANGED <<db, routes, checker, pruner, probe, ready>>

\* storage.Open fails: listen anyway, without the application.
BootDegraded ==
  /\ stage = "opening" /\ db = "down"
  /\ stage' = "degraded"
  /\ UNCHANGED <<db, routes, checker, pruner, probe, ready>>

BootDirect ==
  /\ stage = "opening" /\ db = "up"
  /\ stage' = "building"
  /\ UNCHANGED <<db, routes, checker, pruner, probe, ready>>

ServeUnpruned ==  \* mutant: the loop is forgotten here too
  /\ stage = "building"
  /\ stage' = "direct"
  /\ routes' = TRUE /\ checker' = "live"
  /\ UNCHANGED <<db, pruner, probe, ready>>

\* serveReady: the routes, the pruning loop, the listener.
ServeReady ==
  /\ stage = "building"
  /\ stage' = "direct"
  /\ routes' = TRUE /\ checker' = "live" /\ pruner' = TRUE
  /\ UNCHANGED <<db, probe, ready>>

\* retryOpenUntilReady: it sends the database once and never tries again.
RetrySucceeds ==
  /\ stage = "degraded" /\ db = "up"
  /\ stage' = "opened"
  /\ UNCHANGED <<db, routes, checker, pruner, probe, ready>>

StoreCheckerFirst ==  \* mutant: ready before there is anything to serve
  /\ stage = "opened"
  /\ stage' = "stored"
  /\ checker' = "live"
  /\ UNCHANGED <<db, routes, pruner, probe, ready>>

\* buildAppHandler succeeds, and the routes go in before the checker.
StoreRoutes ==
  /\ stage = "opened"
  /\ stage' = "stored"
  /\ routes' = TRUE
  /\ UNCHANGED <<db, checker, pruner, probe, ready>>

SwapChecker ==
  /\ stage = "stored"
  /\ stage' = "recovered"
  /\ checker' = "live"
  /\ UNCHANGED <<db, routes, pruner, probe, ready>>

\* A signal: no new request is accepted and the pruning loop ends; the
\* requests under way have five seconds.
Shutdown ==
  /\ stage \in Listening
  /\ stage' = "stopping" /\ pruner' = FALSE
  /\ UNCHANGED <<db, routes, checker, probe, ready>>

\* The end of the shutdown, a crash, a listener that fails, routes that
\* cannot be built because the identity provider does not answer.
ProcessEnds ==
  /\ stage # "off"
  /\ stage' = "off"
  /\ routes' = FALSE /\ pruner' = FALSE /\ ready' = FALSE
  /\ checker' = "boot" /\ probe' = "none"
  /\ UNCHANGED db
-----------------------------------------------------------------------------
\* /readyz copies the checker under the lock and asks it without.
ReadChecker ==
  /\ stage \in Listening /\ probe = "none"
  /\ probe' = checker
  /\ UNCHANGED <<db, stage, routes, checker, pruner, ready>>

AnswerProbe ==
  /\ probe # "none"
  /\ probe' = "none"
  /\ ready' = (ready \/ (probe = "live" /\ db = "up"))
  /\ UNCHANGED <<db, stage, routes, checker, pruner>>
-----------------------------------------------------------------------------
Starts ==
  \/ StartProcess \/ BootDegraded \/ BootDirect \/ ServeReady
  \/ RetrySucceeds \/ StoreRoutes \/ SwapChecker
Probes == ReadChecker \/ AnswerProbe
=============================================================================
