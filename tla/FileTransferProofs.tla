------------------------- MODULE FileTransferProofs -------------------------
(***************************************************************************)
(* What FileTransfer.tla promises, for any number of workers and calls and *)
(* for all flags: frames fit and the file cap holds.                       *)
(*                                                                         *)
(* The argument: a frame is weighed by its sender against the payload that *)
(* the receiver's read limit leaves room for.  On the worker both numbers  *)
(* are its own; on the server the payload is the one the registered        *)
(* connection declared, and a live connection was declared by the process  *)
(* that is reading.  The frame then fits because the payload limit is the  *)
(* read limit less the envelope, also when FrameBytes has wrapped: what    *)
(* wraps to a negative read limit is no limit.                             *)
(***************************************************************************)
EXTENDS FileTransfer, TLAPS

\* The limits a process runs under are such that New accepted them; a live
\* connection is to a process that is up, and knows its limits.
WorkerInv == \A w \in Workers :
  /\ proc[w] # "off" => Usable(limits[w])
  /\ conn[w] = "live" => proc[w] = "up" /\ declared[w] = limits[w]

\* A call, under given processes and limits.
GoodCall(r, p, l) ==
  /\ r \in CallRecords
  /\ r.phase = "checked" => r.body \in Contents /\ r.job = "none" /\ r.told = "nothing"
  /\ r.phase = "waiting" \/ r.job # "none" => r.at \in Workers
  /\ r.job # "none" => p[r.at] # "off"
  /\ r.job \in {"sent", "answered"} => r.size <= MaxPayloadBytes(l[r.at])
  /\ r.job = "sent" /\ r.op = "write" => r.body \in Contents
  /\ r.job = "cut" => r.body \in Contents /\ r.body.size <= l[r.at].file

CallInv == \A c \in Calls : GoodCall(call[c], proc, limits)

TransferInv == TypeOK /\ WorkerInv /\ CallInv
-----------------------------------------------------------------------------
\* Sums of ints are ints.
LEMMA WrapType == ASSUME NEW x \in Int, -2 * Half <= x, x < 2 * Half
                  PROVE  Wrap(x) \in Ints
  BY SizesAssumption DEF Wrap, Ints

LEMMA FrameType == ASSUME NEW l \in CapPairs
                   PROVE  FrameBytes(l) \in Ints /\ MaxPayloadBytes(l) \in Ints
  <1> DEFINE both == Wrap(2 * l.out)
             payload == IF both > l.file THEN both ELSE l.file
             twice == Wrap(escapeAllowance * payload)
  <1>0. l.out \in Ints /\ l.file \in Ints /\ Half \in Nat /\ 0 < EnvelopeBytes
        /\ EnvelopeBytes < Half /\ EnvelopeBytes \in Nat
    BY SizesAssumption DEF CapPairs
  <1>1. both \in Ints
    BY <1>0, WrapType DEF Ints
  <1>2. payload \in Ints
    BY <1>0, <1>1
  <1> HIDE DEF payload
  <1>3. twice \in Ints
    BY <1>0, <1>2, WrapType DEF Ints, escapeAllowance
  <1> HIDE DEF twice
  <1>4. Wrap(twice + EnvelopeBytes) \in Ints
    BY <1>0, <1>3, WrapType DEF Ints
  <1>5. FrameBytes(l) \in Ints
    BY <1>4 DEF FrameBytes, twice, payload
  <1>6. MaxPayloadBytes(l) \in Ints
    BY <1>0, <1>5, WrapType DEF MaxPayloadBytes, Ints
  <1> QED BY <1>5, <1>6

\* What may be sent is what may be read, less the envelope.
LEMMA PayloadFits ==
  ASSUME NEW l \in CapPairs, NEW n \in Nat, n <= MaxPayloadBytes(l)
  PROVE  Admits(FrameBytes(l), n + FrameFields)
  <1>1. FrameBytes(l) \in Ints
    BY FrameType
  <1>2. CASE FrameBytes(l) < 0
    BY <1>2 DEF Admits
  <1>3. CASE FrameBytes(l) >= 0
    <2>1. MaxPayloadBytes(l) = FrameBytes(l) - EnvelopeBytes
      BY <1>1, <1>3, SizesAssumption DEF MaxPayloadBytes, Wrap, Ints
    <2> QED BY <2>1, <1>1, SizesAssumption, TransferAssumption DEF Admits, Ints
  <1> QED BY <1>1, <1>2, <1>3 DEF Ints

LEMMA CapsType == NoLimits \in CapPairs /\ \A f \in Flags : WithDefaults(f) \in CapPairs
  BY SizesAssumption, TransferAssumption DEF NoLimits, CapPairs, Ints, WithDefaults

LEMMA PayloadType == \A body \in Contents \cup {Cut, NoFile} : Payload(body) \in Nat
  <1>1. \A m, n \in Nat : m * n \in Nat
    OBVIOUS
  <1> QED BY <1>1, TransferAssumption DEF Payload, Cut

\* An error's text is nothing the payload limit would refuse.
LEMMA UsableRoom == ASSUME NEW l \in CapPairs, Usable(l) PROVE 0 <= MaxPayloadBytes(l)
  BY FrameType, SizesAssumption DEF Usable, Ints
-----------------------------------------------------------------------------
\* The ways a call's record changes.
LEMMA EndedGood == ASSUME NEW p, NEW l, NEW told \in Told
                   PROVE  GoodCall(Ended(told), p, l)
  BY DEF GoodCall, Ended, CallRecords, Ops, Answers

LEMMA SettledGood == ASSUME NEW p, NEW l, NEW r, GoodCall(r, p, l)
                     PROVE  GoodCall(Settled(r), p, l)
  BY EndedGood DEF Settled, GoodCall, CallRecords

LEMMA AnsweredGood ==
  ASSUME NEW r, TypeOK, GoodCall(r, proc, limits), r.job # "none", r.phase # "checked",
         NEW ans \in Answers, NEW n \in Nat, n <= MaxPayloadBytes(limits[r.at])
  PROVE  GoodCall(Answered(r, ans, n), proc, limits)
  <1> DEFINE s == [r EXCEPT !.ans = ans, !.size = n,
                            !.job = IF proc[r.at] = "apart" THEN "none" ELSE "answered"]
  <1>1. GoodCall(s, proc, limits)
    BY DEF GoodCall, CallRecords
  <1> QED BY <1>1, SettledGood DEF Answered

LEMMA FailureGood ==
  ASSUME NEW r, TransferInv, GoodCall(r, proc, limits), r.job # "none", r.phase # "checked",
         NEW ans \in Answers
  PROVE  GoodCall(Failure(r, ans), proc, limits)
  <1>1. r.at \in Workers /\ limits[r.at] \in CapPairs /\ Usable(limits[r.at])
    BY DEF TransferInv, TypeOK, WorkerInv, GoodCall
  <1>2. 0 <= MaxPayloadBytes(limits[r.at])
    BY <1>1, UsableRoom
  <1> QED BY <1>2, AnsweredGood DEF Failure, TransferInv

LEMMA ResultGood ==
  ASSUME NEW r, TransferInv, GoodCall(r, proc, limits), r.job # "none", r.phase # "checked",
         NEW body \in Contents \cup {Cut, NoFile}
  PROVE  GoodCall(Result(r, body), proc, limits)
  <1>1. r.at \in Workers /\ limits[r.at] \in CapPairs /\ Usable(limits[r.at])
    BY DEF TransferInv, TypeOK, WorkerInv, GoodCall
  <1>2. 0 <= MaxPayloadBytes(limits[r.at]) /\ MaxPayloadBytes(limits[r.at]) \in Ints
    BY <1>1, UsableRoom, FrameType
  <1>3. Payload(body) \in Nat
    BY PayloadType
  <1>4. CASE Payload(body) > MaxPayloadBytes(limits[r.at])
    BY <1>2, <1>4, AnsweredGood DEF Result, TransferInv, Answers
  <1>5. CASE ~(Payload(body) > MaxPayloadBytes(limits[r.at]))
    <2>1. Payload(body) <= MaxPayloadBytes(limits[r.at])
      BY <1>2, <1>3, <1>5 DEF Ints
    <2> QED BY <1>3, <1>5, <2>1, AnsweredGood DEF Result, TransferInv, Answers
  <1> QED BY <1>4, <1>5
-----------------------------------------------------------------------------
\* A step that changes one call, and neither processes nor connections.
LEMMA OneCall ==
  ASSUME TransferInv, NEW c \in Calls, NEW r, GoodCall(r, proc, limits),
         call' = [call EXCEPT ![c] = r],
         UNCHANGED <<proc, limits, others, conn, declared>>,
         mine' \in [Workers -> BOOLEAN], pin' \in Workers \cup {NoWorker},
         file' \in [Workers -> Contents \cup {Cut, NoFile}]
  PROVE  TransferInv'
  <1>1. r \in CallRecords
    BY DEF GoodCall
  <1>2. TypeOK'
    BY <1>1 DEF TransferInv, TypeOK
  <1>3. WorkerInv'
    BY DEF TransferInv, WorkerInv
  <1>4. CallInv'
    BY DEF TransferInv, TypeOK, CallInv
  <1> QED BY <1>2, <1>3, <1>4 DEF TransferInv

LEMMA CallSteps == ASSUME TransferInv, NEW c \in Calls, CallStep(c) PROVE TransferInv'
  <1> USE DEF workerVars, hubVars
  <1>0. GoodCall(call[c], proc, limits) /\ TypeOK
    BY DEF TransferInv, CallInv
  <1>1. ASSUME NEW told \in Told, NEW r, r = Settled([call[c] EXCEPT !.phase = "done", !.told = told])
        PROVE  GoodCall(r, proc, limits)
    <2> DEFINE s == [call[c] EXCEPT !.phase = "done", !.told = told]
    <2>1. GoodCall(s, proc, limits)
      BY <1>0 DEF GoodCall, CallRecords
    <2> QED BY <2>1, <1>1, SettledGood
  <1>2. ASSUME NEW told \in Told, Return(c, told), NEW q \in Workers \cup {NoWorker}, pin' = q,
               UNCHANGED <<workerVars, conn, declared, file>>
        PROVE  TransferInv'
    <2> DEFINE r == Settled([call[c] EXCEPT !.phase = "done", !.told = told])
    <2>1. GoodCall(r, proc, limits)
      BY <1>1
    <2>2. call' = [call EXCEPT ![c] = r]
      BY <1>2 DEF Return
    <2> HIDE DEF r
    <2> QED BY <2>1, <2>2, <1>0, <1>2, OneCall DEF TypeOK
  <1>3. ASSUME NEW op \in Ops, NEW body \in Contents \cup {NoFile}, Request(c, op, body),
               op = "write" => body \in Contents, call[c].job = "none"
        PROVE  TransferInv'
    <2>1. CASE Routes = {} /\ Return(c, "no_worker") /\ UNCHANGED pin
      BY <2>1, <1>0, <1>2, <1>3 DEF Request, Told, TypeOK
    <2>2. ASSUME NEW w \in Routes, pin' = w, Payload(body) > MaxPayloadBytes(declared[w]),
                 Return(c, "payload_too_large")
          PROVE  TransferInv'
      BY <2>2, <1>0, <1>2, <1>3 DEF Request, Told, Answers, Routes, TypeOK
    <2>3. ASSUME NEW w \in Routes, pin' = w, ~(Payload(body) > MaxPayloadBytes(declared[w])),
                 Send(c, w, op, body)
          PROVE  TransferInv'
      <3> DEFINE r == [call[c] EXCEPT !.op = op, !.body = body, !.at = w, !.size = Payload(body),
                         !.phase = "waiting", !.told = "nothing",
                         !.job = IF conn[w] = "live" THEN "sent" ELSE "none"]
      <3>1. w \in Workers /\ Payload(body) \in Nat /\ MaxPayloadBytes(declared[w]) \in Int
        BY <1>0, PayloadType, FrameType DEF Routes, TypeOK, Ints
      <3>2. conn[w] = "live" => proc[w] # "off" /\ Payload(body) <= MaxPayloadBytes(limits[w])
        BY <3>1, <2>3 DEF TransferInv, WorkerInv
      <3>3. r \in CallRecords
        BY <1>0, <1>3, <3>1 DEF GoodCall, CallRecords, Told
      <3>4. GoodCall(r, proc, limits)
        BY <1>0, <1>3, <3>1, <3>2, <3>3 DEF GoodCall, CallRecords
      <3>5. call' = [call EXCEPT ![c] = r]
        BY <2>3 DEF Send
      <3> HIDE DEF r
      <3> QED BY <3>1, <3>4, <3>5, <1>0, <1>3, <2>3, OneCall DEF Request, TypeOK
    <2> QED BY <2>1, <2>2, <2>3, <1>3 DEF Request
  <1>4. CASE CheckWrite(c)
    <2>1. CASE Routes = {} /\ Return(c, "no_worker") /\ UNCHANGED pin
      BY <2>1, <1>0, <1>2, <1>4 DEF CheckWrite, Told, TypeOK
    <2>2. ASSUME NEW w \in Routes, NEW body \in Contents, pin' = w, Return(c, "file_too_large")
          PROVE  TransferInv'
      BY <2>2, <1>0, <1>2, <1>4 DEF CheckWrite, Told, Answers, Routes, TypeOK
    <2>3. ASSUME NEW w \in Routes, NEW body \in Contents, pin' = w,
                 call' = [call EXCEPT ![c] = [@ EXCEPT !.phase = "checked", !.body = body,
                                                       !.told = "nothing"]]
          PROVE  TransferInv'
      <3> DEFINE r == [call[c] EXCEPT !.phase = "checked", !.body = body, !.told = "nothing"]
      <3>1. GoodCall(r, proc, limits)
        BY <1>0, <1>4 DEF CheckWrite, Free, GoodCall, CallRecords, Told
      <3>2. call' = [call EXCEPT ![c] = r] /\ w \in Workers
        BY <2>3, <1>0 DEF Routes, TypeOK
      <3> HIDE DEF r
      <3> QED BY <3>1, <3>2, <1>0, <1>4, <2>3, OneCall DEF CheckWrite, TypeOK
    <2> QED BY <2>1, <2>2, <2>3, <1>4 DEF CheckWrite
  <1>5. CASE Ask(c)
    BY <1>3, <1>5 DEF Ask, Free, Ops
  <1>6. CASE AskWrite(c)
    <2>1. call[c].body \in Contents /\ call[c].job = "none"
      BY <1>0, <1>6 DEF AskWrite, GoodCall
    <2> QED BY <2>1, <1>3, <1>6 DEF AskWrite, Ops
  <1>7. CASE Abandon(c)
    BY <1>0, <1>2, <1>7 DEF Abandon, Told, TypeOK
  <1>8. CASE Deliver(c)
    <2> DEFINE told == IF call[c].phase = "waiting" THEN call[c].ans ELSE call[c].told
               r == Ended(told)
    <2>1. told \in Told
      BY <1>0 DEF GoodCall, CallRecords, Told
    <2>2. GoodCall(r, proc, limits)
      BY <2>1, EndedGood
    <2>3. call' = [call EXCEPT ![c] = r]
      BY <1>8 DEF Deliver
    <2> HIDE DEF r
    <2> QED BY <2>2, <2>3, <1>0, <1>8, OneCall DEF Deliver, TypeOK
  <1> QED BY <1>4, <1>5, <1>6, <1>7, <1>8 DEF CallStep

LEMMA HandlerSteps == ASSUME TransferInv, NEW c \in Calls, HandlerStep(c) PROVE TransferInv'
  <1> USE DEF workerVars, hubVars
  <1>0. GoodCall(call[c], proc, limits) /\ TypeOK
    BY DEF TransferInv, CallInv
  <1>1. ASSUME NEW r, GoodCall(r, proc, limits), call' = [call EXCEPT ![c] = r],
               \/ \E op \in Ops : Dispatched(c, op)
               \/ \E job : Running(c, job),
               file' \in [Workers -> Contents \cup {Cut, NoFile}]
        PROVE  TransferInv'
    <2>1. mine' \in [Workers -> BOOLEAN] /\ UNCHANGED <<proc, limits, others, conn, declared, pin>>
      BY <1>0, <1>1 DEF TypeOK, Dispatched, Running
    <2> QED BY <2>1, <1>0, <1>1, OneCall DEF TypeOK
  <1>2. call[c].job # "none" /\ call[c].phase # "checked" /\ call[c].at \in Workers
    BY <1>0 DEF HandlerStep, FailEarly, Stat, ReadFile, Open, Fill, BreakOff, ListDir, DeleteFile,
           StartCommand, CommandWrites, CommandEnds, Dispatched, Running, GoodCall
  <1>3. \A ans \in Answers : GoodCall(Failure(call[c], ans), proc, limits)
    BY <1>0, <1>2, FailureGood
  <1>4. \A body \in Contents \cup {Cut, NoFile} : GoodCall(Result(call[c], body), proc, limits)
    BY <1>0, <1>2, ResultGood
  <1>5. FileOf(c) \in Contents \cup {Cut, NoFile} /\ file \in [Workers -> Contents \cup {Cut, NoFile}]
    BY <1>0, <1>2 DEF FileOf, TypeOK
  <1>6. CASE FailEarly(c)
    BY <1>1, <1>3, <1>5, <1>6 DEF FailEarly, Answers
  <1>7. CASE Stat(c)
    <2> DEFINE s == [call[c] EXCEPT !.job = "statted"]
    <2>1. GoodCall(s, proc, limits)
      BY <1>0, <1>2 DEF GoodCall, CallRecords
    <2> HIDE DEF s
    <2>2. CASE call' = [call EXCEPT ![c] = s]
      BY <2>1, <2>2, <1>1, <1>5, <1>7 DEF Stat, Ops
    <2>3. CASE call' = [call EXCEPT ![c] = Failure(call[c], "file_too_large")]
      BY <2>3, <1>1, <1>3, <1>5, <1>7 DEF Stat, Ops, Answers
    <2> QED BY <2>2, <2>3, <1>7 DEF Stat, s
  <1>8. CASE ReadFile(c)
    BY <1>1, <1>3, <1>4, <1>5, <1>8 DEF ReadFile, Answers
  <1>9. CASE Open(c)
    <2>1. CASE call' = [call EXCEPT ![c] = Failure(call[c], "file_too_large")] /\ UNCHANGED file
      BY <2>1, <1>1, <1>3, <1>5, <1>9 DEF Open, Ops, Answers
    <2>2. CASE /\ ~Over(c, call[c].body)
               /\ call' = [call EXCEPT ![c].job = "cut"]
               /\ Becomes(c, Cut)
      <3> DEFINE s == [call[c] EXCEPT !.job = "cut"]
      <3>1. call[c].body \in Contents
        BY <1>0, <1>9 DEF Open, Dispatched, GoodCall
      <3>2. call[c].body.size <= limits[call[c].at].file
        BY <3>1, <1>0, <1>2, <2>2, TransferAssumption DEF Over, TypeOK, CapPairs, Ints
      <3>3. GoodCall(s, proc, limits)
        BY <3>1, <3>2, <1>0, <1>2 DEF GoodCall, CallRecords
      <3>4. call' = [call EXCEPT ![c] = s] /\ file' \in [Workers -> Contents \cup {Cut, NoFile}]
        BY <2>2, <1>5 DEF Becomes
      <3> HIDE DEF s
      <3> QED BY <3>3, <3>4, <1>1, <1>9 DEF Open, Ops
    <2> QED BY <2>1, <2>2, <1>9 DEF Open
  <1>10. CASE Fill(c)
    <2>1. call[c].body \in Contents
      BY <1>0, <1>10 DEF Fill, Running, GoodCall
    <2>2. file' \in [Workers -> Contents \cup {Cut, NoFile}]
      BY <2>1, <1>5, <1>10 DEF Fill, Becomes
    <2> QED BY <2>2, <1>1, <1>4, <1>10 DEF Fill
  <1>11. CASE BreakOff(c)
    BY <1>1, <1>3, <1>5, <1>11 DEF BreakOff, Answers
  <1>12. CASE ListDir(c)
    BY <1>1, <1>4, <1>5, <1>12 DEF ListDir, Ops
  <1>13. CASE DeleteFile(c)
    <2>1. file' \in [Workers -> Contents \cup {Cut, NoFile}]
      BY <1>5, <1>13 DEF DeleteFile, Becomes
    <2> QED BY <2>1, <1>1, <1>4, <1>13 DEF DeleteFile, Ops
  <1>14. CASE StartCommand(c)
    <2> DEFINE s == [call[c] EXCEPT !.job = "running"]
    <2>1. GoodCall(s, proc, limits) /\ call' = [call EXCEPT ![c] = s]
      BY <1>0, <1>2, <1>14 DEF GoodCall, CallRecords, StartCommand
    <2> HIDE DEF s
    <2> QED BY <2>1, <1>1, <1>5, <1>14 DEF StartCommand, Ops
  <1>15. CASE CommandWrites(c)
    <2>1. file' \in [Workers -> Contents \cup {Cut, NoFile}]
      BY <1>5, <1>15 DEF CommandWrites, Becomes
    <2>2. call' = [call EXCEPT ![c] = call[c]]
      BY <1>0, <1>15 DEF CommandWrites, TypeOK
    <2> QED BY <2>1, <2>2, <1>0, <1>1, <1>15 DEF CommandWrites
  <1>16. CASE CommandEnds(c)
    <2> PICK output \in Contents :
          call' = [call EXCEPT ![c] = Result([call[c] EXCEPT !.body = output], output)]
      BY <1>16 DEF CommandEnds
    <2> DEFINE s == [call[c] EXCEPT !.body = output]
    <2>1. GoodCall(s, proc, limits) /\ s.job # "none" /\ s.phase # "checked"
      BY <1>0, <1>2, <1>16 DEF GoodCall, CallRecords, CommandEnds, Running
    <2>2. GoodCall(Result(s, output), proc, limits)
      BY <2>1, ResultGood
    <2> HIDE DEF s
    <2> QED BY <2>2, <1>1, <1>5, <1>16 DEF CommandEnds, s
  <1> QED BY <1>6, <1>7, <1>8, <1>9, <1>10, <1>11, <1>12, <1>13, <1>14, <1>15, <1>16 DEF HandlerStep

LEMMA WorkerSteps == ASSUME TransferInv, NEW w \in Workers, WorkerStep(w) PROVE TransferInv'
  <1> USE DEF workerVars, hubVars
  <1>0. TypeOK /\ WorkerInv /\ \A c \in Calls : GoodCall(call[c], proc, limits)
    BY DEF TransferInv, CallInv
  <1>1. ASSUME NEW c \in Calls, NEW r, r = Settled([call[c] EXCEPT !.job = "none"])
        PROVE  GoodCall(r, proc', limits')
    <2> DEFINE s == [call[c] EXCEPT !.job = "none"]
    <2>1. GoodCall(s, proc', limits')
      BY <1>0, <1>1 DEF GoodCall, CallRecords
    <2> QED BY <2>1, <1>1, SettledGood
  <1>2. ASSUME NEW c \in Calls, \A v \in Workers : proc[v] # "off" => proc'[v] # "off" /\ limits'[v] = limits[v]
        PROVE  GoodCall(call[c], proc', limits')
    BY <1>0, <1>2 DEF GoodCall
  <1>3. CASE Start(w)
    <2>1. PICK flags \in Flags : /\ Usable(WithDefaults(flags))
                                 /\ limits' = [limits EXCEPT ![w] = WithDefaults(flags)]
      BY <1>3 DEF Start
    <2>2. TypeOK'
      BY <2>1, <1>0, <1>3, CapsType DEF Start, TypeOK
    <2>3. WorkerInv'
      BY <2>1, <1>0, <1>3 DEF Start, WorkerInv, TypeOK
    <2>4. CallInv'
      BY <2>1, <1>0, <1>2, <1>3 DEF Start, CallInv, TypeOK
    <2> QED BY <2>2, <2>3, <2>4 DEF TransferInv
  <1>4. CASE Dial(w)
    <2>1. TypeOK' /\ WorkerInv'
      BY <1>0, <1>4 DEF Dial, TypeOK, WorkerInv
    <2>2. CallInv'
      BY <1>0, <1>2, <1>4 DEF Dial, CallInv, TypeOK
    <2> QED BY <2>1, <2>2 DEF TransferInv
  <1>5. CASE Accept(w)
    <2>1. TypeOK' /\ WorkerInv'
      BY <1>0, <1>5 DEF Accept, TypeOK, WorkerInv
    <2>2. CallInv'
      BY <1>0, <1>2, <1>5 DEF Accept, CallInv, TypeOK
    <2> QED BY <2>1, <2>2 DEF TransferInv
  <1>6. CASE Refuse(w) \/ Break(w)
    <2>1. proc' = [proc EXCEPT ![w] = "apart"] /\ proc[w] # "off" /\ limits' = limits /\ call' = Lost(w)
          /\ conn' \in {conn, Severed(w)} /\ UNCHANGED <<mine, others, declared, pin, file>>
      BY <1>6 DEF Refuse, Break
    <2>2. CallInv'
      <3> SUFFICES ASSUME NEW c \in Calls PROVE GoodCall(call'[c], proc', limits')
        BY DEF CallInv
      <3>1. CASE call[c].at = w /\ call[c].job \in {"sent", "answered"}
        BY <3>1, <2>1, <1>0, <1>1 DEF Lost, TypeOK
      <3>2. CASE ~(call[c].at = w /\ call[c].job \in {"sent", "answered"})
        BY <3>2, <2>1, <1>0, <1>2 DEF Lost, TypeOK
      <3> QED BY <3>1, <3>2
    <2>3. TypeOK'
      <3>1. call' \in [Calls -> CallRecords]
        BY <2>1, <2>2 DEF CallInv, GoodCall, Lost
      <3> QED BY <3>1, <2>1, <1>0 DEF TypeOK, Severed
    <2>4. WorkerInv'
      <3>1. conn'[w] # "live"
        BY <2>1, <1>0, <1>6 DEF Refuse, Break, Severed, WorkerInv, TypeOK
      <3> QED BY <3>1, <2>1, <1>0 DEF WorkerInv, TypeOK, Severed
    <2> QED BY <2>2, <2>3, <2>4 DEF TransferInv
  <1>7. CASE Crash(w)
    <2>1. CallInv'
      <3> SUFFICES ASSUME NEW c \in Calls PROVE GoodCall(call'[c], proc', limits')
        BY DEF CallInv
      <3>1. CASE call[c].at = w
        <4> DEFINE s == [call[c] EXCEPT !.job = "none"]
        <4>1. call'[c] = Settled(s)
          BY <3>1, <1>7 DEF Crash
        <4>2. GoodCall(s, proc', limits')
          BY <1>0 DEF GoodCall, CallRecords
        <4> HIDE DEF s
        <4> QED BY <4>1, <4>2, SettledGood
      <3>2. CASE call[c].at # w
        <4>1. call'[c] = call[c]
          BY <3>2, <1>7 DEF Crash
        <4> QED BY <4>1, <3>2, <1>0, <1>7 DEF Crash, GoodCall, TypeOK
      <3> QED BY <3>1, <3>2
    <2>2. TypeOK'
      <3>1. call' \in [Calls -> CallRecords]
        BY <1>7, <2>1 DEF CallInv, GoodCall, Crash
      <3>2. conn' \in [Workers -> {"none", "live", "dead"}]
        BY <1>0, <1>7 DEF TypeOK, Severed, Crash
      <3>3. limits' \in [Workers -> CapPairs] /\ others' \in [Workers -> 0..MaxOthers]
        BY <1>0, <1>7, CapsType, TransferAssumption DEF TypeOK, Crash
      <3> QED BY <3>1, <3>2, <3>3, <1>0, <1>7 DEF TypeOK, Crash
    <2>3. WorkerInv'
      BY <1>0, <1>7 DEF Crash, WorkerInv, TypeOK, Severed
    <2> QED BY <2>1, <2>2, <2>3 DEF TransferInv
  <1>8. CASE Drop(w)
    <2>1. CallInv'
      <3> SUFFICES ASSUME NEW c \in Calls PROVE GoodCall(call'[c], proc, limits)
        BY <1>8 DEF CallInv, Drop
      <3>1. CASE call[c].at = w /\ call[c].phase = "waiting"
        <4> DEFINE s == [call[c] EXCEPT !.phase = "done", !.told = "disconnected"]
        <4>1. GoodCall(s, proc, limits)
          BY <3>1, <1>0 DEF GoodCall, CallRecords, Told
        <4>2. call'[c] = Settled(s)
          BY <3>1, <1>8 DEF Drop
        <4> QED BY <4>1, <4>2, SettledGood
      <3>2. CASE ~(call[c].at = w /\ call[c].phase = "waiting")
        BY <3>2, <1>0, <1>8 DEF Drop
      <3> QED BY <3>1, <3>2
    <2>2. TypeOK'
      <3>1. call' \in [Calls -> CallRecords]
        BY <1>8, <2>1 DEF CallInv, GoodCall, Drop
      <3> QED BY <3>1, <1>0, <1>8, CapsType DEF TypeOK, Drop
    <2>3. WorkerInv'
      BY <1>0, <1>8 DEF Drop, WorkerInv, TypeOK
    <2> QED BY <2>1, <2>2, <2>3 DEF TransferInv
  <1>9. CASE OtherAgent(w)
    <2>1. TypeOK' /\ WorkerInv'
      BY <1>0, <1>9, TransferAssumption DEF OtherAgent, TypeOK, WorkerInv
    <2>2. CallInv'
      BY <1>0, <1>9 DEF OtherAgent, CallInv
    <2> QED BY <2>1, <2>2 DEF TransferInv
  <1> QED BY <1>3, <1>4, <1>5, <1>6, <1>7, <1>8, <1>9 DEF WorkerStep

LEMMA Inductive == Spec => []TransferInv
  <1>1. Init => TransferInv
    <2> SUFFICES ASSUME Init PROVE TransferInv
      OBVIOUS
    <2>1. \A c \in Calls : GoodCall(call[c], proc, limits)
      BY EndedGood DEF Init, Told
    <2>2. call \in [Calls -> CallRecords]
      BY <2>1 DEF Init, GoodCall
    <2>3. TypeOK
      BY <2>2, CapsType, TransferAssumption DEF Init, TypeOK
    <2>4. WorkerInv
      BY DEF Init, WorkerInv
    <2> QED BY <2>1, <2>3, <2>4 DEF TransferInv, CallInv
  <1>2. TransferInv /\ [Next]_vars => TransferInv'
    <2>1. TransferInv /\ UNCHANGED vars => TransferInv'
      BY DEF TransferInv, TypeOK, WorkerInv, CallInv, vars, workerVars, hubVars
    <2> QED BY <2>1, WorkerSteps, CallSteps, HandlerSteps DEF Next
  <1> QED BY <1>1, <1>2, PTL DEF Spec
-----------------------------------------------------------------------------
\* The variables keep their types.
THEOREM TransferTypeCorrect == Spec => []TypeOK
  <1>1. TransferInv => TypeOK
    BY DEF TransferInv
  <1> QED BY <1>1, Inductive, PTL

\* No request and no answer is larger than its receiver reads.
THEOREM FramesAlwaysFit == Spec => []FramesFit
  <1>1. TransferInv => FramesFit
    <2> SUFFICES ASSUME TransferInv, NEW c \in Calls, call[c].job \in {"sent", "answered"}
                 PROVE  Admits(FrameBytes(limits[call[c].at]), call[c].size + FrameFields)
      BY DEF FramesFit
    <2>1. /\ call[c].at \in Workers
          /\ call[c].size \in Nat
          /\ call[c].size <= MaxPayloadBytes(limits[call[c].at])
      BY DEF TransferInv, CallInv, GoodCall, CallRecords
    <2>2. limits[call[c].at] \in CapPairs
      BY <2>1 DEF TransferInv, TypeOK
    <2> QED BY <2>1, <2>2, PayloadFits
  <1> QED BY <1>1, Inductive, PTL

\* write_file leaves nothing over the cap of the worker that holds it.
THEOREM FileCapIsKept == Spec => FileCapHolds
  <1>1. TransferInv /\ [Next]_vars =>
          [\A c \in Calls :
             (call[c].job = "cut" /\ file'[call[c].at] = call[c].body /\ file' # file)
               => call[c].body.size <= limits[call[c].at].file]_vars
    BY DEF TransferInv, CallInv, GoodCall
  <1> QED BY <1>1, Inductive, PTL DEF Spec, FileCapHolds
-----------------------------------------------------------------------------
\* Caps whose sums are exact: the read limit is what FrameBytes says it is.
LEMMA ModestFrame ==
  ASSUME NEW l \in CapPairs, Modest(l)
  PROVE  FrameBytes(l) = 2 * (IF 2 * l.out > l.file THEN 2 * l.out ELSE l.file) + EnvelopeBytes
  <1> DEFINE payload == IF 2 * l.out > l.file THEN 2 * l.out ELSE l.file
  <1>1. /\ l.out \in Int /\ l.file \in Int /\ Half \in Nat /\ EnvelopeBytes \in Nat /\ Wrapper \in Nat
        /\ 0 < EnvelopeBytes /\ EnvelopeBytes < Half
    BY SizesAssumption, TransferAssumption DEF CapPairs, Ints
  <1>2. Wrap(2 * l.out) = 2 * l.out
    BY <1>1 DEF Modest, Wrap
  <1>3. Wrap(Wrap(2 * payload) + EnvelopeBytes) = 2 * payload + EnvelopeBytes
    BY <1>1 DEF Modest, Wrap
  <1> QED BY <1>2, <1>3 DEF FrameBytes, escapeAllowance

\* What such caps leave room for.
LEMMA ModestRoom == ASSUME NEW l \in CapPairs, Modest(l)
                    PROVE  4 * l.out <= MaxPayloadBytes(l) /\ 2 * l.file <= MaxPayloadBytes(l)
  <1> DEFINE payload == IF 2 * l.out > l.file THEN 2 * l.out ELSE l.file
  <1>1. /\ l.out \in Int /\ l.file \in Int /\ Half \in Nat /\ EnvelopeBytes \in Nat /\ Wrapper \in Nat
        /\ 0 < EnvelopeBytes /\ EnvelopeBytes < Half
    BY SizesAssumption, TransferAssumption DEF CapPairs, Ints
  <1>2. FrameBytes(l) = 2 * payload + EnvelopeBytes
    BY ModestFrame
  <1>3. MaxPayloadBytes(l) = 2 * payload
    BY <1>1, <1>2 DEF MaxPayloadBytes, Wrap, Modest
  <1> QED BY <1>1, <1>3

\* A plain payload that is turned away is over the cap that bounds its content.
LEMMA PlainRoom ==
  ASSUME NEW l \in CapPairs, Modest(l), NEW body \in Contents, body.weight = 1,
         Payload(body) > MaxPayloadBytes(l)
  PROVE  body.size > l.file /\ body.size > 2 * l.out
  <1>1. body.size \in Nat /\ Payload(body) = Wrapper + body.size /\ Wrapper \in Nat
    BY TransferAssumption DEF Payload
  <1>2. l.out \in Int /\ l.file \in Int /\ Wrapper <= l.file /\ MaxPayloadBytes(l) \in Int
    BY FrameType DEF CapPairs, Ints, Modest
  <1> QED BY <1>1, <1>2, ModestRoom

\* A step of one call leaves the others as they are; a step of a worker ends calls.
LEMMA OthersStay ==
  ASSUME TransferInv, NEW c \in Calls, NEW d \in Calls, CallStep(d) \/ HandlerStep(d), c # d
  PROVE  call'[c] = call[c]
  BY DEF CallStep, CheckWrite, Ask, AskWrite, Request, Send, Return, Abandon, Deliver, HandlerStep,
         FailEarly, Stat, ReadFile, Open, Fill, BreakOff, ListDir, DeleteFile, StartCommand,
         CommandWrites, CommandEnds, TransferInv, TypeOK

LEMMA WorkersOnlyEnd ==
  ASSUME TransferInv, NEW c \in Calls, NEW w \in Workers, WorkerStep(w)
  PROVE  /\ call'[c].told \in {call[c].told, "disconnected"}
         /\ call'[c].job \in {call[c].job, "none"}
  <1>1. call[c] \in CallRecords
    BY DEF TransferInv, TypeOK
  <1>2. CASE UNCHANGED call
    BY <1>2
  <1>3. CASE call'[c] \in {call[c], Settled([call[c] EXCEPT !.job = "none"])}
    <2> DEFINE s == [call[c] EXCEPT !.job = "none"]
    <2>1. Settled(s).told = call[c].told /\ Settled(s).job = "none"
      BY <1>1 DEF Settled, Ended, CallRecords
    <2> QED BY <1>3, <2>1
  <1>4. CASE call'[c] \in {call[c], Settled([call[c] EXCEPT !.phase = "done", !.told = "disconnected"])}
    <2> DEFINE s == [call[c] EXCEPT !.phase = "done", !.told = "disconnected"]
    <2>1. Settled(s).told = "disconnected" /\ Settled(s).job = call[c].job
      BY <1>1 DEF Settled, Ended, CallRecords
    <2> QED BY <1>4, <2>1
  <1>5. CASE Start(w) \/ Dial(w) \/ Accept(w) \/ OtherAgent(w)
    BY <1>2, <1>5 DEF Start, Dial, Accept, OtherAgent
  <1>6. CASE Refuse(w) \/ Break(w) \/ Crash(w)
    BY <1>3, <1>6 DEF Refuse, Break, Crash, Lost
  <1>7. CASE Drop(w)
    BY <1>4, <1>7 DEF Drop
  <1> QED BY <1>5, <1>6, <1>7 DEF WorkerStep

LEMMA CallsCarry ==
  ASSUME TransferInv, NEW c \in Calls, CallStep(c)
  PROVE  WriteCarried(c) /\ ReadCarried(c) /\ OutputCarried(c)
  <1>0. TypeOK /\ GoodCall(call[c], proc, limits) /\ call[c] \in CallRecords
    BY DEF TransferInv, CallInv, TypeOK
  <1>1. CASE AskWrite(c)
    <2>1. call[c].job = "none" /\ call[c].body \in Contents
      BY <1>0, <1>1 DEF AskWrite, GoodCall
    <2>2. WriteCarried(c)
      <3> SUFFICES ASSUME call'[c].told = "payload_too_large", call[c].body.weight = 1,
                          Modest(declared[pin'])
                   PROVE  call[c].body.size > declared[pin'].file
        BY DEF WriteCarried
      <3>1. Routes # {}
        <4>1. SUFFICES ASSUME Routes = {} PROVE FALSE
          OBVIOUS
        <4>2. Return(c, "no_worker")
          BY <4>1, <1>1 DEF AskWrite, Request
        <4> DEFINE s == [call[c] EXCEPT !.phase = "done", !.told = "no_worker"]
        <4>3. call'[c] = Settled(s) /\ s.told = "no_worker"
          BY <4>2, <1>0 DEF Return, CallRecords, TypeOK
        <4> HIDE DEF s
        <4>4. call'[c].told = "no_worker"
          BY <4>3 DEF Settled, Ended
        <4> QED BY <4>4
      <3>2. PICK w \in Routes :
              /\ pin' = w
              /\ IF Payload(call[c].body) > MaxPayloadBytes(declared[w])
                   THEN Return(c, "payload_too_large")
                   ELSE Send(c, w, "write", call[c].body)
        BY <3>1, <1>1 DEF AskWrite, Request
      <3>3. Payload(call[c].body) > MaxPayloadBytes(declared[w])
        <4>1. SUFFICES ASSUME Send(c, w, "write", call[c].body) PROVE FALSE
          BY <3>2
        <4>2. call'[c].told = "nothing"
          BY <4>1, <1>0 DEF Send, CallRecords, TypeOK
        <4> QED BY <4>2
      <3>4. declared[w] \in CapPairs
        BY <1>0 DEF Routes, TypeOK
      <3> QED BY <2>1, <3>2, <3>3, <3>4, PlainRoom
    <2> QED BY <2>1, <2>2 DEF ReadCarried, OutputCarried
  <1>2. CASE CheckWrite(c) \/ Ask(c)
    BY <1>2 DEF CheckWrite, Ask, Free, WriteCarried, ReadCarried, OutputCarried
  <1>3. CASE Abandon(c)
    <2> DEFINE s == [call[c] EXCEPT !.phase = "done", !.told = "cancelled"]
    <2>1. call'[c] = Settled(s) /\ s.job = call[c].job
      BY <1>0, <1>3 DEF Abandon, Return, CallRecords, TypeOK
    <2> HIDE DEF s
    <2>2. call'[c].job \in {call[c].job, "none"}
      BY <2>1 DEF Settled, Ended
    <2> QED BY <2>2, <1>3 DEF Abandon, WriteCarried, ReadCarried, OutputCarried
  <1>4. CASE Deliver(c)
    BY <1>0, <1>4 DEF Deliver, GoodCall, WriteCarried, ReadCarried, OutputCarried
  <1> QED BY <1>1, <1>2, <1>3, <1>4 DEF CallStep

LEMMA HandlersCarry ==
  ASSUME TransferInv, NEW c \in Calls, HandlerStep(c)
  PROVE  WriteCarried(c) /\ ReadCarried(c) /\ OutputCarried(c)
  <1>0. TypeOK /\ GoodCall(call[c], proc, limits) /\ call[c] \in CallRecords
    BY DEF TransferInv, CallInv, TypeOK
  <1>1. call[c].job # "none" /\ call[c].phase # "checked" /\ call[c].at \in Workers
    BY <1>0 DEF HandlerStep, FailEarly, Stat, ReadFile, Open, Fill, BreakOff, ListDir, DeleteFile,
           StartCommand, CommandWrites, CommandEnds, Dispatched, Running, GoodCall
  <1>2. limits[call[c].at] \in CapPairs /\ FileOf(c) \in Contents \cup {Cut, NoFile}
    BY <1>0, <1>1 DEF TypeOK, FileOf
  <1>3. ASSUME NEW r \in CallRecords, NEW ans, NEW n, r.phase = call[c].phase
        PROVE  /\ Answered(r, ans, n).job = "answered" => Answered(r, ans, n).ans = ans
               /\ Answered(r, ans, n).job = "answered" => Answered(r, ans, n).body = r.body
    BY <1>3 DEF Answered, Settled, Ended, CallRecords
  <1>4. ASSUME NEW r \in CallRecords, NEW body, r.phase = call[c].phase, r.at = call[c].at,
               Result(r, body).job = "answered", Result(r, body).ans = "payload_too_large"
        PROVE  Payload(body) > MaxPayloadBytes(limits[call[c].at]) /\ Result(r, body).body = r.body
    BY <1>3, <1>4 DEF Result
  <1>5. ReadCarried(c)
    <2> SUFFICES ASSUME call[c].job = "statted", call'[c].job = "answered",
                        call'[c].ans = "payload_too_large", FileOf(c).weight = 1,
                        Modest(limits[call[c].at])
                 PROVE  Over(c, FileOf(c))
      BY DEF ReadCarried
    <2>1. ReadFile(c) \/ BreakOff(c)
      BY DEF HandlerStep, FailEarly, Stat, Open, Fill, ListDir, DeleteFile, StartCommand,
             CommandWrites, CommandEnds, Dispatched, Running
    <2>2. call'[c] # Failure(call[c], "failed")
      BY <1>0, <1>3 DEF Failure
    <2>3. FileOf(c) # NoFile /\ call'[c] = Result(call[c], FileOf(c))
      BY <2>1, <2>2, <1>0 DEF ReadFile, BreakOff, TypeOK
    <2>4. Payload(FileOf(c)) > MaxPayloadBytes(limits[call[c].at])
      BY <2>3, <1>0, <1>4
    <2>5. CASE FileOf(c) \in Contents
      BY <2>4, <2>5, <1>2, PlainRoom DEF Over
    <2>6. CASE FileOf(c) = Cut
      <3>1. Payload(Cut) = Wrapper
        BY <2>3, <2>6, TransferAssumption DEF Payload, Cut
      <3>2. Wrapper \in Nat /\ limits[call[c].at].file \in Int /\ limits[call[c].at].out \in Int
            /\ MaxPayloadBytes(limits[call[c].at]) \in Int
        BY <1>2, FrameType, TransferAssumption DEF CapPairs, Ints
      <3>3. Wrapper <= limits[call[c].at].file
        BY DEF Modest
      <3> QED BY <2>4, <2>6, <3>1, <3>2, <3>3, <1>2, ModestRoom
    <2> QED BY <2>3, <2>5, <2>6, <1>2
  <1>6. OutputCarried(c)
    <2> SUFFICES ASSUME call[c].job = "running", call'[c].job = "answered",
                        call'[c].ans = "payload_too_large", ~(call'[c].body.weight > 1),
                        Modest(limits[call[c].at])
                 PROVE  FALSE
      BY DEF OutputCarried
    <2>1. CommandEnds(c)
      BY DEF HandlerStep, FailEarly, Stat, ReadFile, Open, Fill, BreakOff, ListDir, DeleteFile,
             StartCommand, CommandWrites, Dispatched, Running
    <2> PICK output \in Contents :
          /\ output.size <= 2 * limits[call[c].at].out
          /\ call' = [call EXCEPT ![c] = Result([call[c] EXCEPT !.body = output], output)]
      BY <2>1 DEF CommandEnds
    <2> DEFINE r == [call[c] EXCEPT !.body = output]
    <2>2. r \in CallRecords /\ r.phase = call[c].phase /\ r.at = call[c].at /\ r.body = output
      BY <1>0 DEF CallRecords
    <2>3. call'[c] = Result(r, output)
      BY <1>0 DEF TypeOK
    <2> HIDE DEF r
    <2>4. Payload(output) > MaxPayloadBytes(limits[call[c].at]) /\ call'[c].body = output
      BY <2>2, <2>3, <1>4
    <2>5. output.weight = 1 /\ output.size \in Nat
      BY <2>4, TransferAssumption
    <2>6. output.size > 2 * limits[call[c].at].out
      BY <2>4, <2>5, <1>2, PlainRoom
    <2>7. limits[call[c].at].out \in Int
      BY <1>2 DEF CapPairs, Ints
    <2> QED BY <2>5, <2>6, <2>7
  <1>7. WriteCarried(c)
    BY <1>1 DEF WriteCarried
  <1> QED BY <1>5, <1>6, <1>7

\* Plain content within a worker's caps is never turned away for its payload.
THEOREM CapsAreCarried == Spec => PlainIsCarried
  <1>1. ASSUME TransferInv, Next, NEW c \in Calls
        PROVE  WriteCarried(c) /\ ReadCarried(c) /\ OutputCarried(c)
    <2>0. GoodCall(call[c], proc, limits)
      BY <1>1 DEF TransferInv, CallInv
    <2>1. ASSUME NEW w \in Workers, WorkerStep(w)
          PROVE  WriteCarried(c) /\ ReadCarried(c) /\ OutputCarried(c)
      BY <2>0, <2>1, <1>1, WorkersOnlyEnd DEF WriteCarried, ReadCarried, OutputCarried, GoodCall
    <2>2. ASSUME NEW d \in Calls, CallStep(d) \/ HandlerStep(d), c # d
          PROVE  WriteCarried(c) /\ ReadCarried(c) /\ OutputCarried(c)
      BY <2>0, <2>2, <1>1, OthersStay DEF WriteCarried, ReadCarried, OutputCarried, GoodCall
    <2> QED BY <1>1, <2>1, <2>2, CallsCarry, HandlersCarry DEF Next
  <1>2. TransferInv /\ [Next]_vars =>
          [\A c \in Calls : WriteCarried(c) /\ ReadCarried(c) /\ OutputCarried(c)]_vars
    BY <1>1
  <1> QED BY <1>2, Inductive, PTL DEF Spec, PlainIsCarried
-----------------------------------------------------------------------------
\* The other half of ReadLimitIsBounded: where the sums are exact the ceiling of the
\* negotiation holds, and no frame's own fields are shut out.
THEOREM ModestReadLimits == Spec => []ModestReadsAreBounded
  <1>1. TransferInv => ModestReadsAreBounded
    <2> SUFFICES ASSUME TransferInv, NEW w \in Workers, conn[w] = "live", Modest(declared[w])
                 PROVE  FrameBytes(declared[w]) \in EnvelopeBytes..MaxNegotiatedFrameBytes
      BY DEF ModestReadsAreBounded
    <2> DEFINE l == declared[w]
               payload == IF 2 * l.out > l.file THEN 2 * l.out ELSE l.file
    <2>1. l \in CapPairs /\ Usable(l)
      BY DEF TransferInv, TypeOK, WorkerInv
    <2>2. FrameBytes(l) <= MaxNegotiatedFrameBytes /\ 0 < l.file
      BY <2>1 DEF Usable, Validate
    <2>3. FrameBytes(l) = 2 * payload + EnvelopeBytes
      BY <2>1, ModestFrame
    <2>4. l.out \in Int /\ l.file \in Int /\ EnvelopeBytes \in Nat /\ MaxNegotiatedFrameBytes \in Nat
      BY <2>1, SizesAssumption DEF CapPairs, Ints
    <2> HIDE DEF l
    <2>5. EnvelopeBytes <= FrameBytes(l) /\ FrameBytes(l) \in Int
      BY <2>2, <2>3, <2>4
    <2>6. FrameBytes(l) \in EnvelopeBytes..MaxNegotiatedFrameBytes
      BY <2>2, <2>4, <2>5
    <2> QED BY <2>6 DEF l
  <1> QED BY <1>1, Inductive, PTL

LEMMA HelloSizeType == ASSUME TransferInv, NEW w \in Workers PROVE HelloSize(w) \in Int
  <1>1. others[w] \in 0..MaxOthers /\ MaxOthers \in Nat
    BY TransferAssumption DEF TransferInv, TypeOK
  <1>2. Held(w) \in Int
    BY <1>1 DEF Held
  <1>3. \A m, n \in Int : m * n \in Int
    OBVIOUS
  <1> QED BY <1>2, <1>3, TransferAssumption DEF HelloSize

\* A worker that redials is turned away for its old connection or for its size: the
\* limits that let its process start are the ones it declares for ever after.
THEOREM LimitsNeverTurnAway == Spec => []TurnedAwayForCause
  <1>1. TransferInv => TurnedAwayForCause
    <2> SUFFICES ASSUME TransferInv, NEW w \in Workers, proc[w] = "dialed", ~Acceptable(w),
                        HelloSize(w) <= HelloFrameBytes
                 PROVE  conn[w] = "dead"
      BY HelloSizeType, SizesAssumption DEF TurnedAwayForCause
    <2>1. Validate(limits[w])
      BY DEF TransferInv, WorkerInv, Usable
    <2>2. conn[w] # "none"
      BY <2>1 DEF Acceptable, Admits
    <2>3. conn[w] # "live"
      BY DEF TransferInv, WorkerInv
    <2> QED BY <2>2, <2>3 DEF TransferInv, TypeOK
  <1> QED BY <1>1, Inductive, PTL
=============================================================================
