------------------------ MODULE TerminalStreamProofs ------------------------
(***************************************************************************)
(* TerminalStream.tla keeps the promise of HonestTerminal.tla, for any     *)
(* number of watchers, sizes and budgets, evictions, lags, disconnections  *)
(* and restarts.                                                           *)
(*                                                                         *)
(* The argument: the ring is numbered without a break up to the newest     *)
(* event, so what a watcher is given at its subscription begins right      *)
(* after its position or right after what is declared missing, and ends    *)
(* with the newest event; a publish adds the next number to what an open   *)
(* subscription is owed, or closes the subscription.                       *)
(***************************************************************************)
EXTENDS TerminalStream, SequenceTheorems, TLAPS

\* What a watcher is owed is a sequence of numbers.
LEMMA OwedIsSeq ==
  ASSUME TypeOK, NEW w \in Watchers
  PROVE  /\ replay[w] \in Seq(Nat) /\ queue[w] \in Seq(Nat)
         /\ Owed(w) \in Seq(Nat)
         /\ Len(Owed(w)) = Len(replay[w]) + Len(queue[w])
         /\ \A i \in 1..Len(Owed(w)) :
              Owed(w)[i] = IF i <= Len(replay[w]) THEN replay[w][i]
                                                  ELSE queue[w][i - Len(replay[w])]
         /\ Owed(w) = <<>> <=> replay[w] = <<>> /\ queue[w] = <<>>
<1>1. replay[w] \in Seq(Nat) /\ queue[w] \in Seq(Nat)
  BY DEF TypeOK
<1>2. /\ Owed(w) \in Seq(Nat)
      /\ Len(Owed(w)) = Len(replay[w]) + Len(queue[w])
      /\ \A i \in 1..(Len(replay[w]) + Len(queue[w])) :
           Owed(w)[i] = IF i <= Len(replay[w]) THEN replay[w][i]
                                               ELSE queue[w][i - Len(replay[w])]
  BY <1>1, ConcatProperties, Zenon DEF Owed
<1>3. Owed(w) = <<>> <=> replay[w] = <<>> /\ queue[w] = <<>>
  BY <1>1, ConcatEqualIffEmpty DEF Owed
<1> QED
  BY <1>1, <1>2, <1>3

\* A function on an initial segment is a sequence of that length.
LEMMA SegmentIsSeq ==
  ASSUME NEW k \in Nat \ {0}, NEW s \in [1..k -> Nat]
  PROVE  s \in Seq(Nat) /\ Len(s) = k /\ s # <<>>
<1>1. s \in Seq(Nat)
  BY SeqDef
<1>2. DOMAIN s = 1..Len(s) /\ Len(s) \in Nat /\ DOMAIN s = 1..k
  BY <1>1, LenProperties
<1>3. Len(s) = k
  BY <1>2
<1> QED
  BY <1>1, <1>3, EmptySeq

\* Appending to the second of two sequences appends to both together.
LEMMA ConcatAppend ==
  ASSUME NEW s \in Seq(Nat), NEW t \in Seq(Nat), NEW e \in Nat
  PROVE  s \o Append(t, e) = Append(s \o t, e)
<1>1. <<e>> \in Seq(Nat)
  OBVIOUS
<1>2. Append(t, e) = t \o <<e>>
  BY AppendIsConcat
<1>3. (s \o t) \o <<e>> = s \o (t \o <<e>>)
  BY <1>1, ConcatAssociative, SMTT(60)
<1>4. s \o t \in Seq(Nat)
  BY ConcatProperties
<1>5. Append(s \o t, e) = (s \o t) \o <<e>>
  BY <1>4, AppendIsConcat
<1> QED
  BY <1>1, <1>2, <1>3, <1>5, Zenon

\* A run of numbers, continued by the next one.
LEMMA RunContinued ==
  ASSUME NEW s \in Seq(Nat), NEW next \in Nat,
         s # <<>> => /\ \A i \in 1..Len(s) : s[i] = s[1] + i - 1
                     /\ s[1] + Len(s) = next
  PROVE  LET t == Append(s, next)
         IN  /\ t # <<>>
             /\ t[1] = IF s = <<>> THEN next ELSE s[1]
             /\ \A i \in 1..Len(t) : t[i] = t[1] + i - 1
             /\ t[1] + Len(t) = next + 1
<1> DEFINE t == Append(s, next)
<1>1. /\ t # <<>> /\ Len(t) = Len(s) + 1 /\ Len(s) \in Nat
      /\ \A i \in 1..Len(s) : t[i] = s[i]
      /\ t[Len(s) + 1] = next
  BY AppendProperties, LenProperties
<1> HIDE DEF t
<1>2. CASE s = <<>>
  <2>1. Len(s) = 0
    BY <1>2, EmptySeq
  <2> QED
    BY <1>1, <1>2, <2>1 DEF t
<1>3. CASE s # <<>>
  <2>1. Len(s) \in Nat \ {0} /\ s[1] \in Nat
    BY <1>3, EmptySeq, LenProperties
  <2>2. t[1] = s[1] /\ s[1] + Len(s) = next
    BY <1>1, <1>3, <2>1
  <2>3. ASSUME NEW i \in 1..Len(t) PROVE t[i] = t[1] + i - 1
    <3>1. CASE i \in 1..Len(s)
      BY <1>1, <1>3, <2>1, <2>2, <3>1
    <3>2. CASE i = Len(s) + 1
      BY <1>1, <2>1, <2>2, <3>2
    <3> QED
      BY <1>1, <2>1, <3>1, <3>2
  <2>4. t[1] + Len(t) = next + 1
    <3>1. Len(t) = Len(s) + 1
      BY <1>1
    <3>2. s[1] + (Len(s) + 1) = next + 1
      <4>1. s[1] \in Nat /\ Len(s) \in Nat /\ s[1] + Len(s) = next
        BY <2>1, <2>2
      <4>2. \A a, b \in Nat : a + (b + 1) = (a + b) + 1
        OBVIOUS
      <4> QED
        BY <4>1, <4>2, Zenon
    <3> QED
      BY <2>2, <3>1, <3>2, Zenon
  <2> QED
    BY <1>1, <1>3, <2>2, <2>3, <2>4, Zenon DEF t
<1> QED
  BY <1>2, <1>3

\* Events whose numbers run without a break, after a position: all of them, or those
\* from the position on.
LEMMA SinceProperties ==
  ASSUME TypeOK, RingInv, NEW after \in Nat
  PROVE  /\ Since(after) \in Seq(Nat)
         /\ after >= nextSeq - 1 => Since(after) = <<>>
         /\ after < nextSeq - 1 =>
              /\ Since(after) # <<>> /\ ring # <<>>
              /\ Since(after)[1] = IF ring[1].seq > after + 1 THEN ring[1].seq ELSE after + 1
              /\ \A i \in 1..Len(Since(after)) : Since(after)[i] = Since(after)[1] + i - 1
              /\ Since(after)[1] + Len(Since(after)) = nextSeq
<1>1. /\ Len(ring) \in Nat /\ nextSeq \in Nat
      /\ \A i \in 1..Len(ring) : ring[i].seq = nextSeq - Len(ring) - 1 + i
  BY LenProperties DEF TypeOK, RingInv
<1>2. CASE after >= nextSeq - 1
  <2>1. Later(after) = {}
    BY <1>1, <1>2 DEF Later
  <2> QED
    BY <2>1, <1>1, <1>2, EmptySeq DEF Since
<1>3. CASE after < nextSeq - 1
  <2> DEFINE first == nextSeq - Len(ring)
             n == IF first > after THEN 1 ELSE after - first + 2
             s == [i \in 1..(Len(ring) - n + 1) |-> ring[n + i - 1].seq]
  <2>1. ring # <<>> /\ Len(ring) > 0 /\ Len(ring) < nextSeq /\ ring[1].seq = first
    <3>1. ring # <<>>
      BY <1>1, <1>3 DEF RingInv
    <3>2. Len(ring) \in Nat \ {0}
      BY <3>1, EmptySeq DEF TypeOK
    <3> QED
      BY <1>1, <3>1, <3>2 DEF RingInv
  <2>2. n \in 1..Len(ring) /\ first \in Nat \ {0}
    BY <1>1, <1>3, <2>1
  <2>3. Later(after) = n..Len(ring)
    BY <1>1, <1>3, <2>1, <2>2 DEF Later
  <2>4. n \in Later(after) /\ \A j \in Later(after) : n <= j
    BY <2>2, <2>3
  <2>5. \A i \in Later(after) : (\A j \in Later(after) : i <= j) => i = n
    BY <2>2, <2>3, <2>4
  <2>6. n = CHOOSE i \in Later(after) : \A j \in Later(after) : i <= j
    BY <2>4, <2>5
  <2>7. Since(after) = s
    BY <2>4, <2>6 DEF Since
  <2>8. n + first - 1 = IF first > after + 1 THEN first ELSE after + 1
    BY <1>1, <1>3, <2>2
  <2> HIDE DEF first, n
  <2>9. \A i \in 1..(Len(ring) - n + 1) :
          ring[n + i - 1].seq \in Nat /\ ring[n + i - 1].seq = first + n + i - 2
    BY <1>1, <2>1, <2>2 DEF first
  <2>10. Len(ring) - n + 1 \in Nat \ {0}
    BY <1>1, <2>2
  <2>11. s \in [1..(Len(ring) - n + 1) -> Nat]
    BY <2>9
  <2>12. s \in Seq(Nat) /\ Len(s) = Len(ring) - n + 1 /\ s # <<>>
    BY <2>10, <2>11, SegmentIsSeq
  <2>13. \A i \in 1..Len(s) : s[i] = first + n + i - 2
    BY <2>9, <2>12
  <2> HIDE DEF s
  <2>14. s[1] = first + n - 1
    BY <2>2, <2>10, <2>12, <2>13
  <2>15. \A i \in 1..Len(s) : s[i] = s[1] + i - 1
    BY <1>1, <2>2, <2>12, <2>13, <2>14
  <2>16. s[1] + Len(s) = nextSeq
    BY <1>1, <2>2, <2>12, <2>14 DEF first
  <2>17. s[1] = IF ring[1].seq > after + 1 THEN ring[1].seq ELSE after + 1
    BY <1>1, <2>1, <2>2, <2>8, <2>14
  <2> QED
    BY <1>1, <1>3, <2>1, <2>7, <2>12, <2>15, <2>16, <2>17
<1> QED
  BY <1>1, <1>2, <1>3

\* The gap a subscription begins with.
LEMMA MissedProperties ==
  ASSUME TypeOK, RingInv, NEW after \in Nat
  PROVE  /\ Missed(after) \in Nat
         /\ after >= nextSeq - 1 => Missed(after) = 0
         /\ after < nextSeq - 1 =>
              Missed(after) = IF ring[1].seq > after + 1 THEN ring[1].seq - after - 1 ELSE 0
<1>1. /\ Len(ring) \in Nat /\ nextSeq \in Nat
      /\ \A i \in 1..Len(ring) : ring[i].seq = nextSeq - Len(ring) - 1 + i
  BY LenProperties DEF TypeOK, RingInv
<1>2. CASE ring = <<>>
  BY <1>1, <1>2 DEF Missed, RingInv
<1>3. CASE ring # <<>>
  <2>1. Len(ring) \in Nat \ {0}
    BY <1>3, EmptySeq DEF TypeOK
  <2>2. ring[1].seq = nextSeq - Len(ring) /\ ring[1].seq \in Nat
    BY <1>1, <2>1 DEF RingInv
  <2> QED
    BY <1>1, <1>3, <2>1, <2>2 DEF Missed
<1> QED
  BY <1>2, <1>3
-----------------------------------------------------------------------------
(***************************************************************************)
(* Lemmas about what one step does to the ring and to one watcher.         *)
(***************************************************************************)

LEMMA InitInv == Init => StreamInv
<1> SUFFICES ASSUME Init PROVE StreamInv
  OBVIOUS
<1>1. TypeOK
  BY EmptySeq DEF Init, TypeOK
<1>2. RingInv
  BY EmptySeq DEF Init, RingInv
<1>3. ASSUME NEW w \in Watchers PROVE OwedInv(w) /\ PageInv(w)
  <2>1. replay[w] = <<>> /\ queue[w] = <<>>
    BY DEF Init
  <2>2. Owed(w) = <<>>
    BY <1>1, <2>1, OwedIsSeq
  <2> QED
    BY <2>2 DEF Init, OwedInv, PageInv
<1> QED
  BY <1>1, <1>2, <1>3 DEF StreamInv

\* The ring's first event is the oldest this server still has.
LEMMA RingFirst ==
  ASSUME TypeOK, RingInv, ring # <<>>
  PROVE  /\ Len(ring) \in Nat \ {0}
         /\ ring[1].seq = nextSeq - Len(ring)
         /\ ring[1].seq \in Nat \ {0}
         /\ ring[1].seq < nextSeq
<1>1. Len(ring) \in Nat \ {0} /\ nextSeq \in Nat
  BY EmptySeq DEF TypeOK
<1> QED
  BY <1>1 DEF RingInv

\* A publish extends the numbering by one, and eviction takes from the front only.
LEMMA PublishRing ==
  ASSUME TypeOK, RingInv, NEW size \in Sizes, Publish(size)
  PROVE  /\ ring' \in Seq(Events) /\ RingInv' /\ ring' # <<>>
         /\ ring # <<>> => ring'[1].seq >= ring[1].seq
<1> DEFINE e == [seq |-> nextSeq, size |-> size]
           events == Append(ring, e)
<1>1. PICK n \in 1..Len(events) : ring' = From(events, n)
  BY DEF Publish
<1>2. nextSeq \in Nat /\ nextSeq' = nextSeq + 1 /\ Len(ring) \in Nat /\ Len(ring) < nextSeq
  BY LenProperties DEF Publish, TypeOK, RingInv
<1>3. e \in Events
  BY <1>2, StreamAssumption DEF Events
<1>4. /\ events \in Seq(Events) /\ Len(events) = Len(ring) + 1
      /\ \A i \in 1..Len(ring) : events[i] = ring[i]
      /\ events[Len(ring) + 1] = e
  BY <1>3, AppendProperties DEF TypeOK
<1>5. \A i \in 1..Len(events) : events[i] \in Events /\ events[i].seq = nextSeq - Len(ring) - 1 + i
  <2>1. ASSUME NEW i \in 1..Len(events) PROVE events[i] \in Events
    BY <1>4, LenProperties
  <2>2. ASSUME NEW i \in 1..Len(ring) PROVE events[i].seq = nextSeq - Len(ring) - 1 + i
    BY <1>2, <1>4 DEF RingInv
  <2>3. events[Len(ring) + 1].seq = nextSeq
    BY <1>4
  <2> HIDE DEF events
  <2>4. ASSUME NEW i \in 1..Len(events) PROVE events[i].seq = nextSeq - Len(ring) - 1 + i
    <3>1. i \in 1..Len(ring) \/ i = Len(ring) + 1
      BY <1>2, <1>4
    <3>2. CASE i \in 1..Len(ring)
      BY <2>2, <3>2, Zenon
    <3>3. CASE i = Len(ring) + 1
      <4>1. events[i].seq = nextSeq
        BY <2>3, <3>3, Zenon
      <4>2. nextSeq = nextSeq - Len(ring) - 1 + i
        BY <1>2, <3>3
      <4> QED
        BY <4>1, <4>2, Zenon
    <3> QED
      BY <3>1, <3>2, <3>3
  <2> QED
    BY <2>1, <2>4
<1> HIDE DEF events, e
<1>6. n \in Nat /\ 1 <= n /\ n <= Len(ring) + 1
  BY <1>2, <1>4
<1>7. /\ ring' \in Seq(Events) /\ Len(ring') = Len(events) - n + 1
      /\ \A i \in 1..(Len(events) - n + 1) : ring'[i] = events[n + i - 1]
  <2>1. \A i \in n..Len(events) : events[i] \in Events
    BY <1>2, <1>4, <1>5, <1>6
  <2> QED
    BY <1>1, <1>2, <1>4, <1>6, <2>1, SubSeqProperties DEF From
<1>8. \A i \in 1..Len(ring') : ring'[i].seq = nextSeq' - Len(ring') - 1 + i
  BY <1>2, <1>4, <1>5, <1>6, <1>7
<1>9. ring' # <<>>
  BY <1>2, <1>4, <1>6, <1>7, EmptySeq
<1>10. RingInv'
  BY <1>2, <1>4, <1>6, <1>7, <1>8, <1>9 DEF RingInv
<1>11. ASSUME ring # <<>> PROVE ring'[1].seq >= ring[1].seq
  <2>1. ring[1].seq = nextSeq - Len(ring)
    BY <1>11, RingFirst
  <2>2. Len(ring') \in Nat /\ 1 \in 1..Len(ring') /\ Len(ring') <= Len(ring) + 1
    BY <1>2, <1>4, <1>6, <1>7
  <2>3. ring'[1].seq = nextSeq' - Len(ring') - 1 + 1
    BY <1>8, <2>2
  <2> QED
    BY <1>2, <2>1, <2>2, <2>3
<1> QED
  BY <1>7, <1>9, <1>10, <1>11

\* A step that leaves the server and a watcher alone keeps what holds of the watcher.
LEMMA Quiet ==
  ASSUME NEW w \in Watchers, OwedInv(w), PageInv(w),
         sub'[w] = sub[w], gap'[w] = gap[w], replay'[w] = replay[w], queue'[w] = queue[w],
         last'[w] = last[w], declared'[w] = declared[w], w \in lost' <=> w \in lost,
         ring' = ring, nextSeq' = nextSeq
  PROVE  OwedInv(w)' /\ PageInv(w)'
  BY DEF OwedInv, PageInv, Owed

\* A watcher whose handler ended is owed nothing.
LEMMA DetachedInv ==
  ASSUME TypeOK', NEW w \in Watchers,
         sub'[w] = "none", gap'[w] = 0, replay'[w] = <<>>, queue'[w] = <<>>
  PROVE  OwedInv(w)'
<1>1. Owed(w)' = <<>>
  BY ConcatEmptySeq, EmptySeq, Zenon DEF Owed
<1> QED
  BY <1>1 DEF OwedInv

\* A publish reaches every open subscription that has room, and closes the others.
LEMMA PublishInv ==
  ASSUME StreamInv, NEW size \in Sizes, Publish(size), NEW w \in Watchers
  PROVE  OwedInv(w)' /\ PageInv(w)'
<1>1. TypeOK /\ RingInv /\ OwedInv(w) /\ PageInv(w)
  BY DEF StreamInv
<1>2. /\ nextSeq \in Nat /\ nextSeq' = nextSeq + 1 /\ gap' = gap /\ replay' = replay
      /\ last' = last /\ declared' = declared /\ lost' = lost
      /\ last[w] \in Nat /\ declared[w] \in Nat /\ gap[w] \in Nat
  BY <1>1 DEF Publish, pageVars, TypeOK
<1>3. ring' # <<>> /\ (ring # <<>> => ring'[1].seq >= ring[1].seq)
  BY <1>1, PublishRing
<1>4. ring # <<>> => ring[1].seq \in Nat
  BY <1>1, RingFirst
<1>5. ring'[1].seq \in Nat
  <2>1. ring' \in Seq(Events)
    BY <1>1, PublishRing
  <2>2. Len(ring') \in Nat \ {0}
    BY <1>3, <2>1, EmptySeq
  <2>3. ring'[1] \in Events
    BY <2>1, <2>2, LenProperties
  <2> QED
    BY <2>3 DEF Events
<1>6. PageInv(w)'
  BY <1>1, <1>2, <1>3, <1>4, <1>5 DEF PageInv
<1>7. OwedInv(w)'
  <2>1. /\ Owed(w) \in Seq(Nat) /\ Len(Owed(w)) \in Nat
        /\ Owed(w) # <<>> => Len(Owed(w)) > 0 /\ Owed(w)[1] \in Nat
    <3>1. Owed(w) \in Seq(Nat)
      BY <1>1, OwedIsSeq
    <3>2. Len(Owed(w)) \in Nat /\ (Owed(w) # <<>> => Len(Owed(w)) \in Nat \ {0})
      BY <3>1, LenProperties, EmptySeq
    <3>3. \A i \in 1..Len(Owed(w)) : Owed(w)[i] \in Nat
      BY <3>1, LenProperties
    <3> QED
      BY <3>1, <3>2, <3>3
  <2>2. CASE w \in Open \ Full
    <3>1. sub[w] = "open" /\ sub'[w] = "open" /\ queue'[w] = Append(queue[w], nextSeq)
      BY <2>2 DEF Publish, Open, CutOff
    <3>2. Owed(w)' = Append(Owed(w), nextSeq)
      <4>1. replay[w] \in Seq(Nat) /\ queue[w] \in Seq(Nat)
        BY <1>1, OwedIsSeq
      <4>2. replay[w] \o Append(queue[w], nextSeq) = Append(replay[w] \o queue[w], nextSeq)
        BY <1>2, <4>1, ConcatAppend, Zenon
      <4> QED
        BY <1>2, <3>1, <4>2, Zenon DEF Owed
    <3>3. Owed(w) # <<>> => /\ \A i \in 1..Len(Owed(w)) : Owed(w)[i] = Owed(w)[1] + i - 1
                            /\ Owed(w)[1] + Len(Owed(w)) = nextSeq
      BY <1>1, <3>1 DEF OwedInv
    <3>4. /\ Owed(w)' # <<>>
          /\ Owed(w)'[1] = IF Owed(w) = <<>> THEN nextSeq ELSE Owed(w)[1]
          /\ \A i \in 1..Len(Owed(w)') : Owed(w)'[i] = Owed(w)'[1] + i - 1
          /\ Owed(w)'[1] + Len(Owed(w)') = nextSeq'
      <4> DEFINE t == Append(Owed(w), nextSeq)
      <4>1. /\ t # <<>>
            /\ t[1] = IF Owed(w) = <<>> THEN nextSeq ELSE Owed(w)[1]
            /\ \A i \in 1..Len(t) : t[i] = t[1] + i - 1
            /\ t[1] + Len(t) = nextSeq + 1
        BY <1>2, <2>1, <3>3, RunContinued, Zenon
      <4> HIDE DEF t
      <4>2. Owed(w)' = t
        BY <3>2 DEF t
      <4> QED
        BY <1>2, <4>1, <4>2, Zenon
    <3>5. nextSeq > 0
      BY <1>1, <1>2, LenProperties DEF RingInv, TypeOK
    <3>6. /\ Owed(w)'[1] > 0
          /\ gap[w] # 0 => Owed(w)'[1] = last[w] + gap[w] + 1 /\ ring'[1].seq >= Owed(w)'[1]
          /\ w \notin lost => IF gap[w] = 0 THEN Owed(w)'[1] = last[w] + declared[w] + 1
                                            ELSE declared[w] <= gap[w]
      <4>1. CASE Owed(w) = <<>>
        <5>1. gap[w] = 0 /\ (w \notin lost => last[w] = nextSeq - 1 /\ declared[w] = 0)
          BY <1>1, <3>1, <4>1 DEF OwedInv
        <5> QED
          BY <1>2, <3>4, <3>5, <4>1, <5>1
      <4>2. CASE Owed(w) # <<>>
        <5>1. /\ Owed(w)[1] > 0
              /\ gap[w] # 0 => /\ Owed(w)[1] = last[w] + gap[w] + 1
                               /\ ring # <<>> /\ ring[1].seq >= Owed(w)[1]
              /\ w \notin lost => IF gap[w] = 0 THEN Owed(w)[1] = last[w] + declared[w] + 1
                                                ELSE declared[w] <= gap[w]
          BY <1>1, <4>2 DEF OwedInv
        <5>2. Owed(w)'[1] = Owed(w)[1] /\ Owed(w)[1] \in Nat
          BY <2>1, <3>4, <4>2
        <5> QED
          BY <1>2, <1>3, <1>4, <1>5, <5>1, <5>2
      <4> QED
        BY <4>1, <4>2
    <3>7. Owed(w)'[1] + Len(Owed(w)') <= nextSeq'
      BY <1>2, <3>4
    <3> QED
      BY <1>2, <1>3, <3>1, <3>4, <3>6, <3>7 DEF OwedInv
  <2>3. CASE w \notin Open \ Full
    <3>1. queue'[w] = queue[w] /\ sub'[w] = (IF w \in Full THEN "lagged" ELSE sub[w])
      BY <2>3 DEF Publish, CutOff
    <3>2. Owed(w)' = Owed(w)
      BY <1>2, <3>1 DEF Owed
    <3>3. sub'[w] # "open"
      BY <2>3, <3>1 DEF Open
    <3>4. Owed(w) = <<>> => sub'[w] = sub[w]
      <4>1. Owed(w) = <<>> => Len(queue[w]) = 0
        BY <1>1, OwedIsSeq, EmptySeq
      <4> QED
        BY <3>1, <4>1, StreamAssumption DEF Full
    <3>5. sub[w] # "none" => sub'[w] # "none"
      BY <3>1
    <3> QED
      BY <1>1, <1>2, <1>3, <1>4, <1>5, <2>1, <3>2, <3>3, <3>4, <3>5 DEF OwedInv
  <2> QED
    BY <2>2, <2>3
<1> QED
  BY <1>6, <1>7

\* A subscription begins right after the position it was asked for, or right after
\* the gap it is told of.
LEMMA ConnectInv ==
  ASSUME StreamInv, NEW w \in Watchers, Connect(w)
  PROVE  OwedInv(w)' /\ PageInv(w)'
<1>1. TypeOK /\ RingInv /\ OwedInv(w) /\ PageInv(w)
  BY DEF StreamInv
<1>2. /\ nextSeq \in Nat /\ last[w] \in Nat /\ declared[w] \in Nat
      /\ ring' = ring /\ nextSeq' = nextSeq
      /\ last' = last /\ declared' = declared /\ lost' = lost
      /\ sub'[w] = "open" /\ gap'[w] = Missed(last[w])
      /\ replay'[w] = Since(last[w]) /\ queue'[w] = <<>>
  BY <1>1 DEF Connect, pageVars, TypeOK
<1>3. Since(last[w]) \in Seq(Nat) /\ Len(Since(last[w])) \in Nat
  BY <1>1, <1>2, SinceProperties, LenProperties
<1>4. Owed(w)' = Since(last[w])
  BY <1>2, <1>3, ConcatEmptySeq DEF Owed
<1>5. PageInv(w)'
  BY <1>1, <1>2 DEF PageInv
<1>6. CASE last[w] >= nextSeq - 1
  <2>1. Since(last[w]) = <<>> /\ Missed(last[w]) = 0
    BY <1>1, <1>2, <1>6, SinceProperties, MissedProperties
  <2>2. w \notin lost => last[w] = nextSeq - 1 /\ declared[w] = 0
    BY <1>1, <1>2, <1>6, RingFirst DEF PageInv
  <2> QED
    BY <1>2, <1>4, <1>5, <2>1, <2>2 DEF OwedInv
<1>7. CASE last[w] < nextSeq - 1
  <2>1. /\ Since(last[w]) # <<>> /\ ring # <<>>
        /\ Since(last[w])[1] = IF ring[1].seq > last[w] + 1 THEN ring[1].seq ELSE last[w] + 1
        /\ \A i \in 1..Len(Since(last[w])) : Since(last[w])[i] = Since(last[w])[1] + i - 1
        /\ Since(last[w])[1] + Len(Since(last[w])) = nextSeq
    BY <1>1, <1>2, <1>7, SinceProperties
  <2>2. Missed(last[w]) = IF ring[1].seq > last[w] + 1 THEN ring[1].seq - last[w] - 1 ELSE 0
    BY <1>1, <1>2, <1>7, MissedProperties
  <2>3. ring[1].seq \in Nat \ {0}
    BY <1>1, <2>1, RingFirst
  <2>4. w \notin lost /\ declared[w] # 0 => ring[1].seq > last[w] + declared[w]
    BY <1>1 DEF PageInv
  <2> DEFINE s == Since(last[w])
             g == Missed(last[w])
             first == ring[1].seq
  <2>5. /\ s[1] = IF first > last[w] + 1 THEN first ELSE last[w] + 1
        /\ g = IF first > last[w] + 1 THEN first - last[w] - 1 ELSE 0
        /\ s[1] + Len(s) = nextSeq /\ Len(s) \in Nat /\ first \in Nat \ {0}
        /\ w \notin lost /\ declared[w] # 0 => first > last[w] + declared[w]
    BY <1>3, <2>1, <2>2, <2>3, <2>4
  <2> HIDE DEF s, g, first
  <2>6. s[1] > 0 /\ s[1] + Len(s) <= nextSeq
    BY <1>2, <2>5
  <2>7. g # 0 => s[1] = last[w] + g + 1 /\ first >= s[1]
    BY <1>2, <2>5
  <2>8. w \notin lost => IF g = 0 THEN s[1] = last[w] + declared[w] + 1
                                   ELSE declared[w] <= g
    BY <1>2, <2>5
  <2> QED
    BY <1>2, <1>4, <1>5, <2>1, <2>6, <2>7, <2>8 DEF OwedInv, s, g, first
<1> QED
  BY <1>2, <1>6, <1>7

\* What is left of a run after its first number.
LEMMA RunShortened ==
  ASSUME NEW s \in Seq(Nat), s # <<>>,
         \A i \in 1..Len(s) : s[i] = s[1] + i - 1
  PROVE  /\ Tail(s) \in Seq(Nat) /\ Len(Tail(s)) = Len(s) - 1
         /\ Tail(s) # <<>> =>
              /\ Tail(s)[1] = s[1] + 1
              /\ \A i \in 1..Len(Tail(s)) : Tail(s)[i] = Tail(s)[1] + i - 1
<1>1. /\ Tail(s) \in Seq(Nat) /\ Len(Tail(s)) = Len(s) - 1
      /\ \A i \in 1..Len(Tail(s)) : Tail(s)[i] = s[i + 1]
  BY HeadTailProperties
<1>2. Len(s) \in Nat \ {0} /\ s[1] \in Nat
  BY EmptySeq, LenProperties
<1> DEFINE t == Tail(s)
<1> HIDE DEF t
<1>3. ASSUME t # <<>> PROVE t[1] = s[1] + 1 /\ \A i \in 1..Len(t) : t[i] = t[1] + i - 1
  <2>1. Len(t) \in Nat \ {0}
    BY <1>1, <1>3, EmptySeq DEF t
  <2>2. \A i \in 1..Len(t) : t[i] = s[i + 1]
    BY <1>1 DEF t
  <2>3. Len(t) = Len(s) - 1
    BY <1>1 DEF t
  <2>4. \A i \in 1..Len(t) : t[i] = s[1] + i
    BY <1>2, <2>1, <2>2, <2>3
  <2> QED
    BY <1>2, <2>1, <2>4
<1> QED
  BY <1>1, <1>3 DEF t

\* The first of two sequences, or of the second if the first is empty, is the first of
\* both together.
LEMMA ConcatFirst ==
  ASSUME NEW s \in Seq(Nat), NEW t \in Seq(Nat)
  PROVE  /\ s # <<>> => /\ s \o t # <<>>
                        /\ (s \o t)[1] = Head(s) /\ Tail(s) \o t = Tail(s \o t)
         /\ s = <<>> => s \o t = t
<1>1. s = <<>> => s \o t = t
  BY ConcatEmptySeq
<1>2. ASSUME s # <<>>
      PROVE  s \o t # <<>> /\ (s \o t)[1] = Head(s) /\ Tail(s) \o t = Tail(s \o t)
  <2>1. Len(s) \in Nat \ {0} /\ Len(t) \in Nat
    BY <1>2, EmptySeq, LenProperties
  <2>2. /\ s \o t \in Seq(Nat) /\ Len(s \o t) = Len(s) + Len(t)
        /\ \A i \in 1..(Len(s) + Len(t)) : (s \o t)[i] = IF i <= Len(s) THEN s[i] ELSE t[i - Len(s)]
    BY ConcatProperties
  <2>3. s \o t # <<>>
    BY <1>2, ConcatEqualIffEmpty
  <2>4. (s \o t)[1] = Head(s)
    BY <2>1, <2>2
  <2>5. /\ Tail(s) \in Seq(Nat) /\ Len(Tail(s)) = Len(s) - 1
        /\ \A i \in 1..Len(Tail(s)) : Tail(s)[i] = s[i + 1]
    BY <1>2, HeadTailProperties
  <2>6. /\ Tail(s \o t) \in Seq(Nat) /\ Len(Tail(s \o t)) = Len(s \o t) - 1
        /\ \A i \in 1..Len(Tail(s \o t)) : Tail(s \o t)[i] = (s \o t)[i + 1]
    BY <2>2, <2>3, HeadTailProperties
  <2>7. /\ Tail(s) \o t \in Seq(Nat) /\ Len(Tail(s) \o t) = Len(Tail(s)) + Len(t)
        /\ \A i \in 1..(Len(Tail(s)) + Len(t)) :
             (Tail(s) \o t)[i] = IF i <= Len(Tail(s)) THEN Tail(s)[i] ELSE t[i - Len(Tail(s))]
    BY <2>5, ConcatProperties
  <2>8. Tail(s) \o t = Tail(s \o t)
    <3> DEFINE a == Tail(s) \o t
               b == Tail(s \o t)
    <3>1. a \in Seq(Nat) /\ b \in Seq(Nat) /\ Len(a) = Len(b) /\ Len(a) \in Nat
      BY <2>1, <2>2, <2>5, <2>6, <2>7
    <3>2. ASSUME NEW i \in 1..Len(a) PROVE a[i] = b[i]
      <4>1. i \in 1..(Len(s) + Len(t) - 1)
        BY <2>5, <2>7
      <4>2. CASE i <= Len(s) - 1
        BY <2>1, <2>2, <2>5, <2>6, <2>7, <4>1, <4>2
      <4>3. CASE i > Len(s) - 1
        BY <2>1, <2>2, <2>5, <2>6, <2>7, <4>1, <4>3
      <4> QED
        BY <2>1, <4>1, <4>2, <4>3
    <3> HIDE DEF a, b
    <3> QED
      BY <3>1, <3>2, SeqEqual DEF a, b
  <2> QED
    BY <2>3, <2>4, <2>8
<1> QED
  BY <1>1, <1>2

\* Every event written is the first one owed, and becomes the position of the page.
LEMMA ShowInv ==
  ASSUME StreamInv, NEW w \in Watchers, WriteReplay(w) \/ WriteLive(w)
  PROVE  /\ Owed(w) # <<>> /\ gap[w] = 0
         /\ Shows(w, Owed(w)[1])
         /\ OwedInv(w)' /\ PageInv(w)'
<1>1. TypeOK /\ RingInv /\ OwedInv(w) /\ PageInv(w)
  BY DEF StreamInv
<1>2. replay[w] \in Seq(Nat) /\ queue[w] \in Seq(Nat) /\ Owed(w) \in Seq(Nat)
  BY <1>1, OwedIsSeq
<1>3. /\ Owed(w) # <<>> /\ Shows(w, Owed(w)[1]) /\ Owed(w)' = Tail(Owed(w))
      /\ gap[w] = 0 /\ gap' = gap /\ sub' = sub /\ ring' = ring /\ nextSeq' = nextSeq
  <2>1. CASE WriteReplay(w)
    <3>1. /\ replay[w] # <<>> /\ Shows(w, Head(replay[w])) /\ gap[w] = 0
          /\ replay'[w] = Tail(replay[w]) /\ queue' = queue
          /\ gap' = gap /\ sub' = sub /\ ring' = ring /\ nextSeq' = nextSeq
      BY <1>1, <2>1 DEF WriteReplay, TypeOK
    <3>2. /\ replay[w] \o queue[w] # <<>> /\ (replay[w] \o queue[w])[1] = Head(replay[w])
          /\ Tail(replay[w]) \o queue[w] = Tail(replay[w] \o queue[w])
      BY <1>2, <3>1, ConcatFirst
    <3> QED
      BY <3>1, <3>2, Zenon DEF Owed
  <2>2. CASE WriteLive(w)
    <3>1. /\ queue[w] # <<>> /\ replay[w] = <<>> /\ gap[w] = 0
          /\ Shows(w, Head(queue[w]))
          /\ queue'[w] = Tail(queue[w]) /\ replay' = replay
          /\ gap' = gap /\ sub' = sub /\ ring' = ring /\ nextSeq' = nextSeq
      BY <1>1, <2>2 DEF WriteLive, TypeOK
    <3>2. replay[w] \o queue[w] = queue[w]
      BY <1>2, <3>1, ConcatFirst
    <3>3. Head(queue[w]) = queue[w][1]
      BY <1>2, <3>1
    <3>4. Tail(queue[w]) \in Seq(Nat)
      BY <1>2, <3>1, HeadTailProperties
    <3>5. <<>> \o Tail(queue[w]) = Tail(queue[w])
      BY <3>4, ConcatEmptySeq
    <3> QED
      BY <3>1, <3>2, <3>3, <3>5, Zenon DEF Owed
  <2> QED
    BY <2>1, <2>2
<1>4. /\ last'[w] = Owed(w)[1] /\ declared'[w] = 0 /\ w \notin lost'
  BY <1>1, <1>3 DEF Shows, TypeOK
<1> DEFINE s == Owed(w)
           t == Tail(s)
<1> HIDE DEF s, t
<1>5. /\ s \in Seq(Nat) /\ s # <<>> /\ s[1] > 0
      /\ \A i \in 1..Len(s) : s[i] = s[1] + i - 1
      /\ s[1] + Len(s) <= nextSeq
      /\ sub[w] # "none" /\ (sub[w] = "open" => s[1] + Len(s) = nextSeq)
  BY <1>1, <1>2, <1>3 DEF OwedInv, s
<1>6. s[1] \in Nat /\ Len(s) \in Nat \ {0} /\ nextSeq \in Nat
  BY <1>1, <1>5, EmptySeq, LenProperties DEF TypeOK
<1>7. /\ t \in Seq(Nat) /\ Len(t) = Len(s) - 1
      /\ t # <<>> => /\ t[1] = s[1] + 1
                     /\ \A i \in 1..Len(t) : t[i] = t[1] + i - 1
  BY <1>5, RunShortened DEF t
<1>8. Owed(w)' = t /\ last'[w] = s[1]
  BY <1>3, <1>4 DEF s, t
<1>9. PageInv(w)'
  BY <1>3, <1>4, <1>5, <1>6, <1>8 DEF PageInv
<1>10. OwedInv(w)'
  <2>1. CASE t = <<>>
    <3>1. Len(s) = 1
      BY <1>6, <1>7, <2>1, EmptySeq
    <3>2. sub[w] = "open" => s[1] = nextSeq - 1
      BY <1>5, <1>6, <3>1
    <3> QED
      BY <1>3, <1>4, <1>8, <2>1, <3>2 DEF OwedInv
  <2>2. CASE t # <<>>
    <3>1. /\ t[1] > 0 /\ t[1] + Len(t) = s[1] + Len(s) /\ t[1] = s[1] + 0 + 1
      <4>1. t[1] = s[1] + 1 /\ Len(t) = Len(s) - 1
        BY <1>7, <2>2
      <4>2. \A a \in Nat, b \in Nat \ {0} : a + 1 > 0 /\ (a + 1) + (b - 1) = a + b /\ a + 1 = a + 0 + 1
        OBVIOUS
      <4> QED
        BY <1>6, <4>1, <4>2, Zenon
    <3> QED
      BY <1>3, <1>4, <1>5, <1>7, <1>8, <2>2, <3>1 DEF OwedInv
  <2> QED
    BY <2>1, <2>2
<1> QED
  BY <1>3, <1>9, <1>10

\* The gap frame says how many events are missing before the first one owed.
LEMMA GapInv ==
  ASSUME StreamInv, NEW w \in Watchers, WriteGap(w)
  PROVE  /\ gap[w] \in Nat \ {0} /\ gap[w] + last[w] + 1 < nextSeq
         /\ w \notin lost => declared[w] <= gap[w]
         /\ OwedInv(w)' /\ PageInv(w)'
<1>1. TypeOK /\ RingInv /\ OwedInv(w) /\ PageInv(w)
  BY DEF StreamInv
<1>2. /\ gap'[w] = 0 /\ declared'[w] = gap[w] /\ gap[w] # 0
      /\ gap[w] \in Nat /\ last[w] \in Nat /\ declared[w] \in Nat /\ nextSeq \in Nat
      /\ last' = last /\ lost' = lost /\ sub' = sub /\ ring' = ring /\ nextSeq' = nextSeq
      /\ Owed(w)' = Owed(w)
  BY <1>1 DEF WriteGap, TypeOK, Owed
<1> DEFINE s == Owed(w)
<1> HIDE DEF s
<1>3. /\ s # <<>> /\ sub[w] # "none" /\ s[1] > 0
      /\ \A i \in 1..Len(s) : s[i] = s[1] + i - 1
      /\ s[1] + Len(s) <= nextSeq
      /\ sub[w] = "open" => s[1] + Len(s) = nextSeq
      /\ s[1] = last[w] + gap[w] + 1 /\ ring # <<>> /\ ring[1].seq >= s[1]
      /\ w \notin lost => declared[w] <= gap[w]
  BY <1>1, <1>2 DEF OwedInv, s
<1>4. Len(s) \in Nat \ {0}
  BY <1>1, <1>3, OwedIsSeq, EmptySeq DEF s
<1>5. gap[w] + last[w] + 1 < nextSeq /\ last[w] < nextSeq
  BY <1>2, <1>3, <1>4
<1>6. ring[1].seq > last[w] + gap[w]
  <2>1. ring[1].seq \in Nat
    BY <1>1, <1>3, RingFirst
  <2> QED
    BY <1>2, <1>3, <2>1
<1>7. PageInv(w)'
  BY <1>2, <1>3, <1>5, <1>6 DEF PageInv
<1>8. OwedInv(w)'
  BY <1>2, <1>3 DEF OwedInv, s
<1> QED
  BY <1>2, <1>3, <1>5, <1>7, <1>8
-----------------------------------------------------------------------------
(***************************************************************************)
(* The invariant and the theorems.                                         *)
(***************************************************************************)

\* A write, a connection or its end touches one watcher only.
LEMMA OthersUntouched ==
  ASSUME TypeOK, NEW w \in Watchers, NEW v \in Watchers, v # w,
         Connect(w) \/ Deliver(w) \/ Disconnect(w)
  PROVE  /\ sub'[v] = sub[v] /\ gap'[v] = gap[v]
         /\ replay'[v] = replay[v] /\ queue'[v] = queue[v]
         /\ last'[v] = last[v] /\ declared'[v] = declared[v]
         /\ v \in lost' <=> v \in lost
<1>1. CASE Connect(w)
  BY <1>1 DEF TypeOK, Connect, pageVars
<1>2. CASE WriteGap(w)
  BY <1>2 DEF TypeOK, WriteGap
<1>3. CASE WriteReplay(w)
  BY <1>3 DEF TypeOK, WriteReplay, Shows
<1>4. CASE WriteLive(w)
  BY <1>4 DEF TypeOK, WriteLive, Shows
<1>5. CASE CloseSlow(w)
  BY <1>5 DEF TypeOK, CloseSlow, Detached, pageVars
<1>6. CASE Disconnect(w)
  BY <1>6 DEF TypeOK, Disconnect, Detached, pageVars
<1> QED
  BY <1>1, <1>2, <1>3, <1>4, <1>5, <1>6 DEF Deliver

LEMMA TypeStep ==
  ASSUME StreamInv, [Next]_vars
  PROVE  TypeOK'
<1>1. TypeOK /\ RingInv
  BY DEF StreamInv
<1>2. ASSUME NEW size \in Sizes, Publish(size) PROVE TypeOK'
  <2>1. ring' \in Seq(Events)
    BY <1>1, <1>2, PublishRing
  <2>2. nextSeq \in Nat /\ nextSeq' \in Nat
    BY <1>1, <1>2 DEF Publish, TypeOK
  <2>3. queue' \in [Watchers -> Seq(Nat)]
    <3>1. \A w \in Watchers : queue[w] \in Seq(Nat) /\ Append(queue[w], nextSeq) \in Seq(Nat)
      BY <1>1, <2>2, AppendProperties DEF TypeOK
    <3> QED
      BY <1>2, <3>1, Zenon DEF Publish
  <2>4. sub' \in [Watchers -> {"none", "open", "lagged"}]
    BY <1>1, <1>2 DEF Publish, TypeOK
  <2> QED
    BY <1>1, <1>2, <2>1, <2>2, <2>3, <2>4 DEF Publish, TypeOK, pageVars
<1>3. ASSUME NEW w \in Watchers, Connect(w) PROVE TypeOK'
  <2>1. last[w] \in Nat
    BY <1>1 DEF TypeOK
  <2>2. Missed(last[w]) \in Nat /\ Since(last[w]) \in Seq(Nat) /\ <<>> \in Seq(Nat)
    BY <1>1, <2>1, MissedProperties, SinceProperties, EmptySeq
  <2> QED
    BY <1>1, <1>3, <2>2 DEF Connect, TypeOK, pageVars
<1>4. ASSUME NEW w \in Watchers, WriteGap(w) PROVE TypeOK'
  BY <1>1, <1>4 DEF WriteGap, TypeOK
<1>5. ASSUME NEW w \in Watchers, WriteReplay(w) PROVE TypeOK'
  <2>1. Head(replay[w]) \in Nat /\ Tail(replay[w]) \in Seq(Nat)
    BY <1>1, <1>5, HeadTailProperties DEF WriteReplay, TypeOK
  <2> QED
    BY <1>1, <1>5, <2>1 DEF WriteReplay, Shows, TypeOK
<1>6. ASSUME NEW w \in Watchers, WriteLive(w) PROVE TypeOK'
  <2>1. Head(queue[w]) \in Nat /\ Tail(queue[w]) \in Seq(Nat)
    BY <1>1, <1>6, HeadTailProperties DEF WriteLive, TypeOK
  <2> QED
    BY <1>1, <1>6, <2>1 DEF WriteLive, Shows, TypeOK
<1>7. ASSUME NEW ws \in SUBSET Watchers, Detached(ws)
      PROVE  /\ sub' \in [Watchers -> {"none", "open", "lagged"}] /\ gap' \in [Watchers -> Nat]
             /\ replay' \in [Watchers -> Seq(Nat)] /\ queue' \in [Watchers -> Seq(Nat)]
  <2>1. <<>> \in Seq(Nat)
    BY EmptySeq
  <2> QED
    BY <1>1, <1>7, <2>1 DEF Detached, TypeOK
<1>8. ASSUME NEW w \in Watchers, CloseSlow(w) PROVE TypeOK'
  BY <1>1, <1>7, <1>8 DEF CloseSlow, TypeOK, pageVars
<1>9. ASSUME NEW w \in Watchers, Disconnect(w) PROVE TypeOK'
  BY <1>1, <1>7, <1>9 DEF Disconnect, TypeOK, pageVars
<1>10. CASE RestartServer
  <2>1. <<>> \in Seq(Events)
    BY EmptySeq
  <2> QED
    BY <1>1, <1>7, <1>10, <2>1 DEF RestartServer, TypeOK
<1>11. CASE UNCHANGED vars
  BY <1>1, <1>11 DEF vars, watchVars, pageVars, TypeOK
<1> QED
  BY <1>2, <1>3, <1>4, <1>5, <1>6, <1>8, <1>9, <1>10, <1>11 DEF Next, Deliver

\* StreamInv is inductive.
LEMMA StreamStep == StreamInv /\ [Next]_vars => StreamInv'
<1> SUFFICES ASSUME StreamInv, [Next]_vars PROVE StreamInv'
  OBVIOUS
<1>1. TypeOK /\ RingInv /\ \A w \in Watchers : OwedInv(w) /\ PageInv(w)
  BY DEF StreamInv
<1>2. TypeOK'
  BY TypeStep
<1>3. ASSUME NEW size \in Sizes, Publish(size) PROVE StreamInv'
  BY <1>1, <1>2, <1>3, PublishRing, PublishInv DEF StreamInv
<1>4. ASSUME NEW w \in Watchers, Connect(w) \/ Deliver(w) \/ Disconnect(w) PROVE StreamInv'
  <2>1. ring' = ring /\ nextSeq' = nextSeq
    BY <1>4 DEF Connect, Deliver, WriteGap, WriteReplay, WriteLive, CloseSlow, Disconnect
  <2>2. RingInv'
    BY <1>1, <2>1 DEF RingInv
  <2>3. OwedInv(w)' /\ PageInv(w)'
    <3>1. CASE Connect(w)
      BY <3>1, ConnectInv
    <3>2. CASE WriteGap(w)
      BY <3>2, GapInv
    <3>3. CASE WriteReplay(w) \/ WriteLive(w)
      BY <3>3, ShowInv
    <3>4. CASE CloseSlow(w) \/ Disconnect(w)
      <4>1. /\ sub'[w] = "none" /\ gap'[w] = 0 /\ replay'[w] = <<>> /\ queue'[w] = <<>>
            /\ last' = last /\ declared' = declared /\ lost' = lost
        BY <3>4 DEF CloseSlow, Disconnect, Detached, pageVars
      <4>2. OwedInv(w)'
        BY <1>2, <4>1, DetachedInv
      <4> QED
        BY <1>1, <2>1, <4>1, <4>2 DEF PageInv
    <3> QED
      BY <1>4, <3>1, <3>2, <3>3, <3>4 DEF Deliver
  <2>4. ASSUME NEW v \in Watchers, v # w PROVE OwedInv(v)' /\ PageInv(v)'
    BY <1>1, <1>4, <2>1, <2>4, OthersUntouched, Quiet
  <2> QED
    BY <1>2, <2>2, <2>3, <2>4 DEF StreamInv
<1>5. CASE RestartServer
  <2>1. RingInv'
    BY <1>5, EmptySeq DEF RestartServer, RingInv
  <2>2. ASSUME NEW w \in Watchers PROVE OwedInv(w)' /\ PageInv(w)'
    <3>1. sub'[w] = "none" /\ gap'[w] = 0 /\ replay'[w] = <<>> /\ queue'[w] = <<>>
      BY <1>5 DEF RestartServer, Detached
    <3>2. OwedInv(w)'
      BY <1>2, <3>1, DetachedInv
    <3>3. PageInv(w)'
      BY <1>5 DEF RestartServer, PageInv
    <3> QED
      BY <3>2, <3>3
  <2> QED
    BY <1>2, <2>1, <2>2 DEF StreamInv
<1>6. CASE UNCHANGED vars
  <2>1. RingInv'
    BY <1>1, <1>6 DEF vars, RingInv
  <2>2. ASSUME NEW w \in Watchers PROVE OwedInv(w)' /\ PageInv(w)'
    BY <1>1, <1>6, Quiet DEF vars, watchVars, pageVars
  <2> QED
    BY <1>2, <2>1, <2>2 DEF StreamInv
<1> QED
  BY <1>3, <1>4, <1>5, <1>6 DEF Next

LEMMA StreamIsInvariant == Spec => []StreamInv
  BY InitInv, StreamStep, PTL DEF Spec

(* Every variable keeps its type, whatever is evicted, closed, lost with a *)
(* connection or with the server.                                          *)
THEOREM StreamTypeCorrect == Spec => []TypeOK
<1>1. StreamInv => TypeOK
  BY DEF StreamInv
<1> QED
  BY <1>1, StreamIsInvariant, PTL

(* Between the history Subscribe hands out and the events Publish queues   *)
(* nothing is missing.                                                     *)
THEOREM HistoryIsSeamless == Spec => []Seamless
<1>1. ASSUME StreamInv PROVE Seamless
  <2> SUFFICES ASSUME NEW w \in Watchers
               PROVE  /\ \A i \in 1..(Len(Owed(w)) - 1) : Owed(w)[i + 1] = Owed(w)[i] + 1
                      /\ sub[w] = "open" =>
                           IF Owed(w) # <<>>
                             THEN Owed(w)[Len(Owed(w))] = nextSeq - 1
                             ELSE w \notin lost => last[w] = nextSeq - 1
    BY DEF Seamless
  <2>1. TypeOK /\ OwedInv(w)
    BY <1>1 DEF StreamInv
  <2> DEFINE s == Owed(w)
  <2> HIDE DEF s
  <2>2. s \in Seq(Nat) /\ (s = <<>> => Len(s) = 0)
    BY <2>1, OwedIsSeq, EmptySeq DEF s
  <2>3. CASE s = <<>>
    BY <2>1, <2>2, <2>3 DEF OwedInv, s
  <2>4. CASE s # <<>>
    <3>1. Len(s) \in Nat \ {0} /\ s[1] \in Nat /\ nextSeq \in Nat
      BY <2>1, <2>2, <2>4, EmptySeq, LenProperties DEF TypeOK
    <3>2. /\ \A i \in 1..Len(s) : s[i] = s[1] + i - 1
          /\ sub[w] = "open" => s[1] + Len(s) = nextSeq
      BY <2>1, <2>4 DEF OwedInv, s
    <3>3. \A i \in 1..(Len(s) - 1) : s[i + 1] = s[i] + 1
      BY <3>1, <3>2
    <3>4. sub[w] = "open" => s[Len(s)] = nextSeq - 1
      BY <3>1, <3>2
    <3> QED
      BY <2>4, <3>3, <3>4 DEF s
  <2> QED
    BY <2>3, <2>4
<1> QED
  BY <1>1, StreamIsInvariant, PTL

(* A page that shows an event shows the one the promise allows: the next,  *)
(* the one after the declared gap, or, after a restart, any of the new     *)
(* server; everything the ring, the queue and the connections do besides   *)
(* is invisible on the screen.                                             *)
THEOREM StreamKeepsPromise == Spec => KeepsPromise
<1>1. Init => Promise!Init
  BY DEF Init, Promise!Init
<1>2. StreamInv /\ [Next]_vars => [Promise!Next]_(Promise!vars)
  <2> SUFFICES ASSUME StreamInv, [Next]_vars
               PROVE  Promise!Next \/ UNCHANGED Promise!vars
    BY DEF Promise!vars
  <2>1. TypeOK /\ \A w \in Watchers : OwedInv(w)
    BY DEF StreamInv
  <2>2. nextSeq \in Nat
    BY <2>1 DEF TypeOK
  <2>3. ASSUME NEW size \in Sizes, Publish(size) PROVE Promise!Publish
    BY <2>2, <2>3 DEF Publish, pageVars, Promise!Publish
  <2>4. ASSUME NEW w \in Watchers, WriteGap(w) PROVE Promise!Declare(w)
    <3>1. /\ gap[w] \in 1..(nextSeq - 1) /\ last[w] \in Nat
          /\ w \notin lost => declared[w] <= gap[w] /\ last[w] + gap[w] < nextSeq - 1
      BY <2>1, <2>2, <2>4, GapInv DEF TypeOK
    <3>2. /\ declared' = [declared EXCEPT ![w] = gap[w]]
          /\ nextSeq' = nextSeq /\ last' = last /\ lost' = lost
      BY <2>4 DEF WriteGap
    <3> QED
      BY <3>1, <3>2 DEF Promise!Declare
  <2>5. ASSUME NEW w \in Watchers, WriteReplay(w) \/ WriteLive(w)
        PROVE  Promise!Show(w) \/ Promise!Resume(w)
    <3> DEFINE s == Owed(w)
    <3>1. s # <<>> /\ gap[w] = 0 /\ Shows(w, s[1]) /\ nextSeq' = nextSeq
      BY <2>5, ShowInv DEF WriteReplay, WriteLive
    <3>2. s \in Seq(Nat)
      BY <2>1, OwedIsSeq
    <3>3. Len(s) \in Nat \ {0} /\ s[1] \in Nat /\ last[w] \in Nat /\ declared[w] \in Nat
      BY <2>1, <3>1, <3>2, EmptySeq, LenProperties DEF TypeOK
    <3>4. /\ s[1] > 0 /\ s[1] + Len(s) <= nextSeq
          /\ w \notin lost => s[1] = last[w] + declared[w] + 1
      BY <2>1, <3>1 DEF OwedInv
    <3> HIDE DEF s
    <3>5. s[1] \in 1..(nextSeq - 1)
      BY <2>2, <3>3, <3>4
    <3>6. CASE w \notin lost
      <4>1. last[w] + declared[w] < nextSeq - 1
        BY <2>2, <3>3, <3>4, <3>5, <3>6
      <4>2. lost' = lost
        BY <3>1, <3>6 DEF Shows
      <4> QED
        BY <3>1, <3>4, <3>6, <4>1, <4>2 DEF Shows, Promise!Show
    <3>7. CASE w \in lost
      BY <3>1, <3>5, <3>7 DEF Shows, Promise!Resume
    <3> QED
      BY <3>6, <3>7
  <2>6. ASSUME NEW w \in Watchers, Connect(w) \/ CloseSlow(w) \/ Disconnect(w)
        PROVE  UNCHANGED Promise!vars
    BY <2>6 DEF Connect, CloseSlow, Disconnect, pageVars, Promise!vars
  <2>7. CASE RestartServer
    BY <2>7 DEF RestartServer, Promise!Restart, Promise!Next
  <2>8. CASE UNCHANGED vars
    BY <2>8 DEF vars, pageVars, Promise!vars
  <2> QED
    BY <2>3, <2>4, <2>5, <2>6, <2>7, <2>8 DEF Next, Deliver, Promise!Next
<1> QED
  BY <1>1, <1>2, StreamIsInvariant, PTL DEF Spec, KeepsPromise, Promise!Spec
-----------------------------------------------------------------------------
(* A gap frame never names an event the ring still holds (ringbuffer.go:68). *)
THEOREM MissingIsEvicted == Spec => []OnlyEvictedAreMissing
<1>1. ASSUME StreamInv PROVE OnlyEvictedAreMissing
  <2> SUFFICES ASSUME NEW w \in Watchers \ lost, NEW missed \in {gap[w], declared[w]},
                      missed # 0, NEW i \in 1..Len(ring)
               PROVE  ring[i].seq > last[w] + missed
    BY DEF OnlyEvictedAreMissing
  <2>1. TypeOK /\ RingInv /\ OwedInv(w) /\ PageInv(w)
    BY <1>1 DEF StreamInv
  <2>2. last[w] \in Nat /\ gap[w] \in Nat /\ declared[w] \in Nat /\ missed \in Nat /\ nextSeq \in Nat
    BY <2>1 DEF TypeOK
  <2>3. /\ ring # <<>> /\ Len(ring) \in Nat \ {0} /\ ring[1].seq \in Nat
        /\ ring[1].seq = nextSeq - Len(ring) /\ ring[i].seq = nextSeq - Len(ring) - 1 + i
    <3>1. ring # <<>> /\ Len(ring) \in Nat
      BY <2>1, EmptySeq, LenProperties DEF TypeOK
    <3> QED
      BY <2>1, <3>1, RingFirst DEF RingInv
  <2>4. ring[1].seq > last[w] + missed
    <3>1. CASE gap[w] # 0 /\ missed = gap[w]
      <4>1. Owed(w) # <<>>
        BY <2>1, <3>1 DEF OwedInv
      <4>2. Owed(w)[1] = last[w] + gap[w] + 1 /\ ring[1].seq >= Owed(w)[1]
        BY <2>1, <3>1, <4>1 DEF OwedInv
      <4> QED
        BY <2>2, <2>3, <3>1, <4>2
    <3>2. CASE declared[w] # 0 /\ missed = declared[w]
      BY <2>1, <3>2 DEF PageInv
    <3> QED
      BY <3>1, <3>2
  <2> QED
    BY <2>2, <2>3, <2>4
<1> QED
  BY <1>1, StreamIsInvariant, PTL

LEMMA KeptStep == ASSUME StreamInv, KeptIsBounded, [Next]_vars PROVE KeptIsBounded'
<1> USE DEF TypeOK
<1>0. /\ TypeOK /\ RingInv /\ Queue \in Nat \ {0} /\ Limit \in Nat
      /\ \A w \in Watchers : queue[w] \in Seq(Nat) /\ Len(queue[w]) \in Nat /\ Len(queue[w]) <= Queue
  BY StreamAssumption, LenProperties DEF StreamInv, KeptIsBounded
<1>1. Len(ring') <= 1 \/ Bytes(ring') <= Limit
  <2>1. CASE ring' = ring
    BY <2>1 DEF KeptIsBounded
  <2>2. CASE RestartServer
    BY <2>2, EmptySeq DEF RestartServer
  <2>3. ASSUME NEW size \in Sizes, Publish(size) PROVE Len(ring') <= 1 \/ Bytes(ring') <= Limit
    <3> DEFINE events == Append(ring, [seq |-> nextSeq, size |-> size])
    <3>1. PICK n \in 1..Len(events) : Suffices(events, n) /\ ring' = From(events, n)
      BY <2>3 DEF Publish
    <3>2. events \in Seq(Events)
      BY <1>0, <2>3, AppendProperties DEF Events
    <3>3. CASE n = Len(events)
      <4>1. Len(events) \in Nat /\ events[n] \in Events
        BY <3>2, <3>3, LenProperties
      <4> HIDE DEF events
      <4>2. Len(SubSeq(events, n, n)) = 1
        BY <3>2, <3>3, <4>1, SubSeqProperties
      <4> QED
        BY <3>1, <3>3, <4>2 DEF From
    <3> HIDE DEF events
    <3>4. CASE Bytes(From(events, n)) <= Limit
      BY <3>1, <3>4
    <3> QED
      BY <3>1, <3>3, <3>4 DEF Suffices
  <2> QED
    BY <2>1, <2>2, <2>3 DEF Next, Connect, Deliver, WriteGap, WriteReplay, WriteLive, CloseSlow,
       Disconnect, vars
<1>2. ASSUME NEW w \in Watchers PROVE Len(queue'[w]) <= Queue
  <2>1. CASE queue'[w] = queue[w]
    BY <1>0, <2>1
  <2>2. CASE queue'[w] = <<>>
    BY <1>0, <2>2, EmptySeq
  <2>3. CASE queue[w] # <<>> /\ queue'[w] = Tail(queue[w])
    <3>1. Len(Tail(queue[w])) = Len(queue[w]) - 1
      BY <1>0, <2>3, HeadTailProperties
    <3> QED
      BY <1>0, <2>3, <3>1
  <2>4. ASSUME NEW size \in Sizes, Publish(size) PROVE Len(queue'[w]) <= Queue
    <3>1. CASE w \in Open \ Full
      <4>1. Len(queue[w]) # Queue
        BY <3>1 DEF Full
      <4>2. queue'[w] = Append(queue[w], nextSeq)
        BY <2>4, <3>1 DEF Publish
      <4>3. Len(queue'[w]) = Len(queue[w]) + 1
        BY <1>0, <4>2, AppendProperties
      <4> QED
        BY <1>0, <4>1, <4>3
    <3>2. CASE w \notin Open \ Full
      BY <2>1, <2>4, <3>2 DEF Publish
    <3> QED
      BY <3>1, <3>2
  <2>5. ASSUME NEW v \in Watchers, Connect(v) \/ Deliver(v) \/ Disconnect(v)
        PROVE  \/ queue'[w] = queue[w] \/ queue'[w] = <<>>
               \/ queue[w] # <<>> /\ queue'[w] = Tail(queue[w])
    BY <1>0, <2>5 DEF Connect, Deliver, WriteGap, WriteReplay, WriteLive, CloseSlow, Disconnect, Detached
  <2>6. CASE RestartServer
    BY <2>2, <2>6 DEF RestartServer, Detached
  <2>7. CASE UNCHANGED vars
    BY <2>1, <2>7 DEF vars, watchVars
  <2> QED
    BY <2>1, <2>2, <2>3, <2>4, <2>5, <2>6, <2>7 DEF Next
<1> QED
  BY <1>1, <1>2 DEF KeptIsBounded

(* A slow watcher costs the server no more than its queue (broadcaster.go),  *)
(* and no history costs more than the budget or one event (ringbuffer.go).   *)
THEOREM WhatIsKeptIsBounded == Spec => []KeptIsBounded
<1>1. Init => KeptIsBounded
  BY StreamAssumption, EmptySeq DEF Init, KeptIsBounded
<1> QED
  BY <1>1, KeptStep, StreamIsInvariant, PTL DEF Spec
=============================================================================
