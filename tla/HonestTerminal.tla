--------------------------- MODULE HonestTerminal ---------------------------
(***************************************************************************)
(* What the terminal stream promises the operator: within one lifetime of  *)
(* the server, a screen shows every event of the sandbox in order, once,   *)
(* and where it cannot it says how many are missing before it goes on.     *)
(*                                                                         *)
(* A restart of the server starts the numbering over.  A screen that had   *)
(* shown something is then lost until its next event, wherever that falls. *)
(***************************************************************************)
EXTENDS Naturals

CONSTANT Watchers

VARIABLES
  published,  \* how many events this server has published
  last,       \* the number of the last event on the screen, 0 at first
  declared,   \* how many events the screen says are missing after it
  lost        \* screens whose position is one of an earlier server

vars == <<published, last, declared, lost>>

Init ==
  /\ published = 0
  /\ last = [w \in Watchers |-> 0]
  /\ declared = [w \in Watchers |-> 0]
  /\ lost = {}

Publish ==
  /\ published' = published + 1
  /\ UNCHANGED <<last, declared, lost>>

\* The next event, or the one after the declared gap.
Show(w) ==
  /\ w \notin lost
  /\ last[w] + declared[w] < published
  /\ last' = [last EXCEPT ![w] = last[w] + declared[w] + 1]
  /\ declared' = [declared EXCEPT ![w] = 0]
  /\ UNCHANGED <<published, lost>>

\* A gap is declared, or found to have grown: never up to the newest event.
Declare(w) ==
  /\ \E n \in 1..published :
       /\ w \notin lost => declared[w] <= n /\ last[w] + n < published
       /\ declared' = [declared EXCEPT ![w] = n]
  /\ UNCHANGED <<published, last, lost>>

\* A lost screen picks up at some event of the new server.
Resume(w) ==
  /\ w \in lost
  /\ \E s \in 1..published : last' = [last EXCEPT ![w] = s]
  /\ declared' = [declared EXCEPT ![w] = 0]
  /\ lost' = lost \ {w}
  /\ UNCHANGED published

Restart ==
  /\ published' = 0
  /\ lost' = lost \cup {w \in Watchers : last[w] # 0 \/ declared[w] # 0}
  /\ UNCHANGED <<last, declared>>

Next ==
  \/ Publish
  \/ Restart
  \/ \E w \in Watchers : Show(w) \/ Declare(w) \/ Resume(w)

Spec == Init /\ [][Next]_vars
=============================================================================
