--------------------------- MODULE TerminalStream ---------------------------
(***************************************************************************)
(* The terminal stream of one sandbox: the ring of retained events and the *)
(* broadcaster of internal/stream, the WebSocket handler that serves it    *)
(* (restapi/stream.go) and the page that shows it                          *)
(* (web/src/components/Terminal.jsx).                                      *)
(*                                                                         *)
(* Broadcaster.mu makes Publish, Subscribe and Unsubscribe atomic.  A      *)
(* handler then writes the replay and the subscription's queue, one frame  *)
(* at a time, concurrently with everything else.                           *)
(*                                                                         *)
(* An event is its sequence number and its size.  The sandboxes' streams   *)
(* share nothing but the mutex, so one of them is modelled.                *)
(***************************************************************************)
EXTENDS Integers, Sequences

CONSTANTS
  Watchers,     \* browser tabs
  Sizes,        \* what an event may count against the budget
  Limit,        \* ring.limitBytes
  Queue,        \* subscriberQueue: room in a subscription's channel
  MaxSeq,       \* bound: events published by one server
  MaxDrops,     \* bound: connections the network breaks
  MaxRestarts   \* bound: restarts of the server

ASSUME StreamAssumption ==
  /\ Sizes \subseteq Nat \ {0}
  /\ {Limit, MaxSeq, MaxDrops, MaxRestarts} \subseteq Nat
  /\ Queue \in Nat \ {0}

VARIABLES
  ring,       \* ring.events, oldest first
  nextSeq,    \* ring.nextSeq
  sub,        \* the watcher's subscription: none, open, or closed as lagged
  gap,        \* the missed count of a gap frame still to be written, or 0
  replay,     \* numbers of the retained events still to be written
  queue,      \* numbers of the events in the subscription's channel
  last,       \* lastSeq in the page
  declared,   \* missed events of a gap item nothing has been shown after yet
  server,     \* how often the server has been restarted
  lost,       \* ghost: pages whose position is one of an earlier server
  drops       \* connections broken so far

watchVars == <<sub, gap, replay, queue>>
pageVars == <<last, declared, lost>>
vars == <<ring, nextSeq, watchVars, pageVars, server, drops>>

Events == [seq : Nat, size : Sizes]

TypeOK ==
  /\ ring \in Seq(Events)
  /\ nextSeq \in Nat
  /\ sub \in [Watchers -> {"none", "open", "lagged"}]
  /\ gap \in [Watchers -> Nat]
  /\ replay \in [Watchers -> Seq(Nat)]
  /\ queue \in [Watchers -> Seq(Nat)]
  /\ last \in [Watchers -> Nat]
  /\ declared \in [Watchers -> Nat]
  /\ server \in Nat
  /\ lost \subseteq Watchers
  /\ drops \in Nat

Init ==
  /\ ring = <<>>
  /\ nextSeq = 1
  /\ sub = [w \in Watchers |-> "none"]
  /\ gap = [w \in Watchers |-> 0]
  /\ replay = [w \in Watchers |-> <<>>]
  /\ queue = [w \in Watchers |-> <<>>]
  /\ last = [w \in Watchers |-> 0]
  /\ declared = [w \in Watchers |-> 0]
  /\ server = 0
  /\ lost = {}
  /\ drops = 0
-----------------------------------------------------------------------------
(***************************************************************************)
(* The ring.                                                               *)
(***************************************************************************)

\* What events cost against the budget.
Bytes(events) ==
  LET sum[n \in 0..Len(events)] == IF n = 0 THEN 0 ELSE sum[n - 1] + events[n].size
  IN  sum[Len(events)]

From(events, n) == SubSeq(events, n, Len(events))

\* Eviction stops at the n-th event: what is left fits, or is a single event.
Suffices(events, n) == n = Len(events) \/ Bytes(From(events, n)) <= Limit

\* The retained events after a position, and how many before them are gone.
LaterOffByOne(after) == {i \in 1..Len(ring) : ring[i].seq > after + 1}  \* mutant
Later(after) == {i \in 1..Len(ring) : ring[i].seq > after}

Since(after) ==
  IF Later(after) = {} THEN <<>>
  ELSE LET n == CHOOSE i \in Later(after) : \A j \in Later(after) : i <= j
       IN  [i \in 1..(Len(ring) - n + 1) |-> ring[n + i - 1].seq]

MissedOneMore(after) ==  \* mutant: the first retained event counts as missed
  IF ring # <<>> /\ ring[1].seq > after + 1 THEN ring[1].seq - after ELSE 0
Missed(after) ==
  IF ring # <<>> /\ ring[1].seq > after + 1 THEN ring[1].seq - after - 1 ELSE 0
-----------------------------------------------------------------------------
(***************************************************************************)
(* The broadcaster.                                                        *)
(***************************************************************************)

Open == {w \in Watchers : sub[w] = "open"}
Full == {w \in Open : Len(queue[w]) = Queue}

\* Whom a publish disconnects.
CutOffNobody == {}  \* mutant: a full queue just misses the event
CutOff == Full

\* Publish: stamp, retain, evict, and hand to every subscription with room; the
\* others are closed as lagged, keeping what they had queued.
Publish(size) ==
  LET events == Append(ring, [seq |-> nextSeq, size |-> size])
  IN  /\ nextSeq <= MaxSeq
      /\ nextSeq' = nextSeq + 1
      /\ \E n \in 1..Len(events) :
           /\ Suffices(events, n)
           /\ \A m \in 1..(n - 1) : ~Suffices(events, m)
           /\ ring' = From(events, n)
      /\ queue' = [w \in Watchers |->
                     IF w \in Open \ Full THEN Append(queue[w], nextSeq) ELSE queue[w]]
      /\ sub' = [w \in Watchers |-> IF w \in CutOff THEN "lagged" ELSE sub[w]]
      /\ UNCHANGED <<gap, replay, pageVars, server, drops>>

\* The page connects, resuming after what it showed last, and the handler
\* subscribes: history and registration under one lock.
Connect(w) ==
  /\ sub[w] = "none"
  /\ sub' = [sub EXCEPT ![w] = "open"]
  /\ gap' = [gap EXCEPT ![w] = Missed(last[w])]
  /\ replay' = [replay EXCEPT ![w] = Since(last[w])]
  /\ queue' = [queue EXCEPT ![w] = <<>>]
  /\ UNCHANGED <<ring, nextSeq, pageVars, server, drops>>

\* The handler ends: Unsubscribe, and what was still to be written is gone.
Detached(ws) ==
  /\ sub' = [w \in Watchers |-> IF w \in ws THEN "none" ELSE sub[w]]
  /\ gap' = [w \in Watchers |-> IF w \in ws THEN 0 ELSE gap[w]]
  /\ replay' = [w \in Watchers |-> IF w \in ws THEN <<>> ELSE replay[w]]
  /\ queue' = [w \in Watchers |-> IF w \in ws THEN <<>> ELSE queue[w]]
-----------------------------------------------------------------------------
(***************************************************************************)
(* The handler's writes and the page that receives them.  A frame written  *)
(* and lost with the connection is one that was not written.               *)
(***************************************************************************)

\* The gap frame: an item on the screen, but no sequence number to resume from.
WriteGap(w) ==
  /\ gap[w] # 0
  /\ gap' = [gap EXCEPT ![w] = 0]
  /\ declared' = [declared EXCEPT ![w] = gap[w]]
  /\ UNCHANGED <<ring, nextSeq, sub, replay, queue, last, lost, server, drops>>

\* The page shows an event and remembers its number.
Shows(w, seq) ==
  /\ last' = [last EXCEPT ![w] = seq]
  /\ declared' = [declared EXCEPT ![w] = 0]
  /\ lost' = lost \ {w}

WriteReplay(w) ==
  /\ gap[w] = 0
  /\ replay[w] # <<>>
  /\ Shows(w, Head(replay[w]))
  /\ replay' = [replay EXCEPT ![w] = Tail(@)]
  /\ UNCHANGED <<ring, nextSeq, sub, gap, queue, server, drops>>

\* A closed channel is drained before it reads as closed.
WriteLive(w) ==
  /\ gap[w] = 0
  /\ replay[w] = <<>>
  /\ queue[w] # <<>>
  /\ Shows(w, Head(queue[w]))
  /\ queue' = [queue EXCEPT ![w] = Tail(@)]
  /\ UNCHANGED <<ring, nextSeq, sub, gap, replay, server, drops>>

\* The channel reads as closed: close code 4000, and the page reconnects.
CloseSlow(w) ==
  /\ sub[w] = "lagged"
  /\ gap[w] = 0 /\ replay[w] = <<>> /\ queue[w] = <<>>
  /\ Detached({w})
  /\ UNCHANGED <<ring, nextSeq, pageVars, server, drops>>

\* The connection breaks, or a write runs into its deadline.
Disconnect(w) ==
  /\ sub[w] # "none"
  /\ drops < MaxDrops
  /\ drops' = drops + 1
  /\ Detached({w})
  /\ UNCHANGED <<ring, nextSeq, pageVars, server>>

\* The server restarts: the rings are in memory, the pages are not.
RestartServer ==
  /\ server < MaxRestarts
  /\ server' = server + 1
  /\ ring' = <<>>
  /\ nextSeq' = 1
  /\ Detached(Watchers)
  /\ lost' = lost \cup {w \in Watchers : last[w] # 0 \/ declared[w] # 0}
  /\ UNCHANGED <<last, declared, drops>>
-----------------------------------------------------------------------------
Deliver(w) == WriteGap(w) \/ WriteReplay(w) \/ WriteLive(w) \/ CloseSlow(w)

Next ==
  \/ \E size \in Sizes : Publish(size)
  \/ \E w \in Watchers : Connect(w) \/ Deliver(w) \/ Disconnect(w)
  \/ RestartServer

Spec == Init /\ [][Next]_vars

\* The handler's goroutine runs, and the page's retry timer fires.
FairSpec ==
  Spec /\ \A w \in Watchers : WF_vars(Deliver(w)) /\ WF_vars(Connect(w))
-----------------------------------------------------------------------------
(***************************************************************************)
(* Properties                                                              *)
(***************************************************************************)

(* Between the history a watcher was given and the events of its queue      *)
(* nothing is missing: what an open subscription has still to write runs    *)
(* without a break from where the page stopped, or from the oldest retained *)
(* event, up to the newest one.  Subscribe takes the history and registers  *)
(* under one lock for this, and Publish closes a subscription rather than   *)
(* leave an event out of it.                                                *)
Owed(w) == replay[w] \o queue[w]

Seamless ==
  \A w \in Watchers :
    /\ \A i \in 1..(Len(Owed(w)) - 1) : Owed(w)[i + 1] = Owed(w)[i] + 1
    /\ sub[w] = "open" =>
         IF Owed(w) # <<>>
           THEN Owed(w)[Len(Owed(w))] = nextSeq - 1
           ELSE w \notin lost => last[w] = nextSeq - 1

(* Publish, eviction, replay, lag, disconnection and reconnection together  *)
(* implement the promise: what a screen shows follows what it showed, up to *)
(* the gap it declares.                                                     *)
Promise == INSTANCE HonestTerminal WITH published <- nextSeq - 1

KeepsPromise == Promise!Spec

(* A screen catches up: once the sandbox is quiet and the connection holds, *)
(* the last event on it is the last one published, however often the        *)
(* watcher was cut off for being slow.  Only a screen whose position is one *)
(* of an earlier server may have to wait for the next event.                *)
CatchesUp == \A w \in Watchers : <>[](w \in lost \/ last[w] = nextSeq - 1)

(* README.md:424-428: a position no longer retained "produces a `gap` rather *)
(* than a silent jump", and "a reconnect reports the loss honestly".  What a *)
(* screen shows is the first event, follows the one it showed before, or     *)
(* follows a gap it declared.                                                *)
NoSilentJump ==
  [][\A w \in Watchers :
       last'[w] # last[w] =>
         \/ last'[w] = 1
         \/ declared[w] > 0
         \/ w \notin lost /\ last'[w] = last[w] + 1]_vars

(* An event is declared missing because it is gone: of those a gap frame     *)
(* names, written or about to be, none is in the ring (ringbuffer.go:68-93). *)
OnlyEvictedAreMissing ==
  \A w \in Watchers \ lost : \A missed \in {gap[w], declared[w]} :
    missed # 0 => \A i \in 1..Len(ring) : ring[i].seq > last[w] + missed

(* What the server keeps for its watchers is bounded, whoever is slow: each  *)
(* channel by its room, and the ring by its budget or to one event.          *)
KeptIsBounded ==
  /\ \A w \in Watchers : Len(queue[w]) <= Queue
  /\ Len(ring) <= 1 \/ Bytes(ring) <= Limit
-----------------------------------------------------------------------------
(***************************************************************************)
(* The inductive invariant.                                                *)
(***************************************************************************)

\* The ring holds the last events of this server, numbered without a break.
RingInv ==
  /\ Len(ring) < nextSeq
  /\ ring = <<>> => nextSeq = 1
  /\ \A i \in 1..Len(ring) : ring[i].seq = nextSeq - Len(ring) - 1 + i

\* What is still to be written begins after the position of the page and the
\* gap it is told of, runs without a break, and ends with the newest event
\* while the subscription is open.
OwedInv(w) ==
  LET owed == Owed(w)
  IN  IF owed = <<>>
        THEN /\ gap[w] = 0
             /\ sub[w] = "open" /\ w \notin lost => last[w] = nextSeq - 1 /\ declared[w] = 0
        ELSE /\ sub[w] # "none"
             /\ owed[1] > 0
             /\ \A i \in 1..Len(owed) : owed[i] = owed[1] + i - 1
             /\ owed[1] + Len(owed) <= nextSeq
             /\ sub[w] = "open" => owed[1] + Len(owed) = nextSeq
             /\ gap[w] # 0 => /\ owed[1] = last[w] + gap[w] + 1
                              /\ ring # <<>> /\ ring[1].seq >= owed[1]
             /\ w \notin lost =>
                  IF gap[w] = 0 THEN owed[1] = last[w] + declared[w] + 1
                                ELSE declared[w] <= gap[w]

\* A page of this server is not ahead of it, and what it says is missing is no
\* longer retained.
PageInv(w) ==
  w \notin lost =>
    /\ last[w] < nextSeq
    /\ declared[w] # 0 => ring # <<>> /\ ring[1].seq > last[w] + declared[w]

StreamInv == TypeOK /\ RingInv /\ \A w \in Watchers : OwedInv(w) /\ PageInv(w)
=============================================================================
