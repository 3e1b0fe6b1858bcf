---------------------------- MODULE HumanRequests ----------------------------
(***************************************************************************)
(* The requests of humans that the server may have under way at once, each *)
(* handled by a goroutine of its own.  HumanSessions authenticates them,   *)
(* ActorDirectory finds who sent them.                                     *)
(***************************************************************************)
CONSTANT Requests
=============================================================================
