---------------------------- MODULE FileTransfer ----------------------------
(***************************************************************************)
(* File operations and command output on their way between an agent's tool *)
(* call and its sandbox, and the sizes that bound them: Hub.WriteFile and  *)
(* Hub.call on the server, Link.dispatch and Link.handle on the worker,    *)
(* the file operations of internal/sandbox and their helper process        *)
(* (internal/sandboxop), and the handshake that sizes the connection.      *)
(*                                                                         *)
(* One agent, one file of its sandbox per worker, several workers started  *)
(* with flags of their own.  Both ways of touching a file, by the worker   *)
(* and by a helper running as the agent, are these steps; only the helper  *)
(* can be killed between two of them.  Request ids, waiters and routing by *)
(* load are WorkerHub.tla's; running a command is SandboxExec.tla's.       *)
(***************************************************************************)
EXTENDS FrameLimits

CONSTANTS
  Workers, Calls,
  Flags,         \* [out, file]: --max-output-bytes and --max-file-bytes
  Contents,      \* [size, weight]: bytes, and what JSON makes of each of them
  MaxOthers,     \* bound: sandboxes of other agents one worker comes to hold
  HelloFields, IdBytes,  \* the encoded size of a hello without agents, and of one agent id
  Wrapper,       \* the encoded size of a payload without its content
  FrameFields,   \* the encoded size of a frame without its payload
  NoFile, NoWorker

ASSUME TransferAssumption ==
  /\ Flags \subseteq CapPairs
  /\ Contents \subseteq [size : Nat, weight : 1..6]
  /\ {MaxOthers, HelloFields, IdBytes, Wrapper, FrameFields} \subseteq Nat
  /\ FrameFields <= EnvelopeBytes
  /\ NoFile \notin [size : Nat, weight : 1..6]
  /\ NoWorker \notin Workers

VARIABLES
  proc,      \* the worker's process: off, apart (no connection), dialed, up
  limits,    \* Link.limits
  mine,      \* whether the process holds the agent's sandbox
  others,    \* how many sandboxes of other agents it holds
  conn,      \* the server's connection to it: none, live, dead (not noticed yet)
  declared,  \* worker.limits, on the server
  pin,       \* Hub.assignments of the agent
  file,      \* the file on the worker's volume
  call       \* the calls made for the agent, and the worker's handlers

workerVars == <<proc, limits, mine, others>>
hubVars == <<conn, declared, pin>>
vars == <<workerVars, hubVars, file, call>>

Cut == [size |-> 0, weight |-> 1]      \* a file opened with O_TRUNC and not yet filled
Ops == {"exec", "read", "write", "list", "delete"}
Answers == {"ok", "failed", "file_too_large", "payload_too_large"}
Told == Answers \cup {"nothing", "no_worker", "disconnected", "cancelled"}

CallRecords ==
  [phase : {"checked", "waiting", "done"},                  \* the caller, in the server
   job   : {"none", "sent", "statted", "cut", "running", "answered"},  \* its handler
   op : Ops, body : Contents \cup {Cut, NoFile}, at : Workers \cup {NoWorker},
   size  : Nat,                        \* the payload of the frame under way
   ans   : Answers, told : Told]

TypeOK ==
  /\ proc \in [Workers -> {"off", "apart", "dialed", "up"}]
  /\ limits \in [Workers -> CapPairs]
  /\ mine \in [Workers -> BOOLEAN]
  /\ others \in [Workers -> 0..MaxOthers]
  /\ conn \in [Workers -> {"none", "live", "dead"}]
  /\ declared \in [Workers -> CapPairs]
  /\ pin \in Workers \cup {NoWorker}
  /\ file \in [Workers -> Contents \cup {Cut, NoFile}]
  /\ call \in [Calls -> CallRecords]

NoLimits == [out |-> 0, file |-> 0]

\* A call nobody works on: its invocation can be used for the next one.
Ended(told) == [phase |-> "done", job |-> "none", op |-> "exec", body |-> NoFile,
                at |-> NoWorker, size |-> 0, ans |-> "failed", told |-> told]

\* What is left of a call, once neither its caller nor its handler needs the rest.
Settled(r) == IF r.phase = "done" /\ r.job = "none" THEN Ended(r.told) ELSE r

Init ==
  /\ proc = [w \in Workers |-> "off"]
  /\ limits = [w \in Workers |-> NoLimits]
  /\ mine = [w \in Workers |-> FALSE]
  /\ others = [w \in Workers |-> 0]
  /\ conn = [w \in Workers |-> "none"]
  /\ declared = [w \in Workers |-> NoLimits]
  /\ pin = NoWorker
  /\ file = [w \in Workers |-> NoFile]
  /\ call = [c \in Calls |-> Ended("nothing")]
-----------------------------------------------------------------------------
(***************************************************************************)
(* Connecting.                                                             *)
(***************************************************************************)

\* The worker's main and New: the process starts if its flags are usable.
Start(w) ==
  /\ proc[w] = "off"
  /\ \E flags \in Flags :
       /\ Usable(WithDefaults(flags))
       /\ limits' = [limits EXCEPT ![w] = WithDefaults(flags)]
  /\ proc' = [proc EXCEPT ![w] = "apart"]
  /\ UNCHANGED <<mine, others, hubVars, file, call>>

\* session: dial, size the worker's end and write the hello.
Dial(w) ==
  /\ proc[w] = "apart"
  /\ proc' = [proc EXCEPT ![w] = "dialed"]
  /\ UNCHANGED <<limits, mine, others, hubVars, file, call>>

\* The hello names every sandbox the process holds; none ever leaves its manager.
Held(w) == others[w] + IF mine[w] THEN 1 ELSE 0
HelloSize(w) == HelloFields + IdBytes * Held(w)

\* serve accepts this hello: it came under the bootstrap limit, the limits are
\* usable and no connection of that name is registered.
Acceptable(w) ==
  /\ Admits(HelloFrameBytes, HelloSize(w))
  /\ Validate(limits[w])
  /\ conn[w] = "none"

Accept(w) ==
  /\ proc[w] = "dialed"
  /\ Acceptable(w)
  /\ proc' = [proc EXCEPT ![w] = "up"]
  /\ conn' = [conn EXCEPT ![w] = "live"]
  /\ declared' = [declared EXCEPT ![w] = limits[w]]
  /\ pin' = IF mine[w] /\ pin = NoWorker THEN w ELSE pin
  /\ UNCHANGED <<limits, mine, others, file, call>>

\* Frames the connection of w carries and no reader has taken yet, lost with it.
Lost(w) == [c \in Calls |-> IF call[c].at = w /\ call[c].job \in {"sent", "answered"}
                            THEN Settled([call[c] EXCEPT !.job = "none"]) ELSE call[c]]

Refuse(w) ==
  /\ proc[w] = "dialed"
  /\ ~Acceptable(w)
  /\ proc' = [proc EXCEPT ![w] = "apart"]
  /\ call' = Lost(w)
  /\ UNCHANGED <<limits, mine, others, hubVars, file>>

Severed(w) == [conn EXCEPT ![w] = IF @ = "live" THEN "dead" ELSE @]

\* The network drops the connection; the worker's process lives and will redial.
Break(w) ==
  /\ proc[w] \in {"dialed", "up"}
  /\ proc' = [proc EXCEPT ![w] = "apart"]
  /\ conn' = Severed(w)
  /\ call' = Lost(w)
  /\ UNCHANGED <<limits, mine, others, declared, pin, file>>

\* The process ends, and its handlers with it; its volume stays.
Crash(w) ==
  /\ proc[w] # "off"
  /\ proc' = [proc EXCEPT ![w] = "off"]
  /\ conn' = Severed(w)
  /\ mine' = [mine EXCEPT ![w] = FALSE]
  /\ others' = [others EXCEPT ![w] = 0]
  /\ limits' = [limits EXCEPT ![w] = NoLimits]
  /\ call' = [c \in Calls |-> IF call[c].at = w
                              THEN Settled([call[c] EXCEPT !.job = "none"]) ELSE call[c]]
  /\ UNCHANGED <<declared, pin, file>>

\* A slip in drop: the callers fail and the pins go, the worker stays registered.
DropCallersOnly(w) ==
  /\ conn[w] = "dead"
  /\ pin' = IF pin = w THEN NoWorker ELSE pin
  /\ call' = [c \in Calls |-> IF call[c].at = w /\ call[c].phase = "waiting"
                              THEN Settled([call[c] EXCEPT !.phase = "done", !.told = "disconnected"])
                              ELSE call[c]]
  /\ UNCHANGED <<workerVars, conn, declared, file>>

\* The server notices: drop fails the callers and forgets the pins.
Drop(w) ==
  /\ conn[w] = "dead"
  /\ conn' = [conn EXCEPT ![w] = "none"]
  /\ declared' = [declared EXCEPT ![w] = NoLimits]
  /\ pin' = IF pin = w THEN NoWorker ELSE pin
  /\ call' = [c \in Calls |-> IF call[c].at = w /\ call[c].phase = "waiting"
                              THEN Settled([call[c] EXCEPT !.phase = "done", !.told = "disconnected"])
                              ELSE call[c]]
  /\ UNCHANGED <<workerVars, file>>

\* Another agent's first call on this worker: GetSandbox adds its sandbox.
OtherAgent(w) ==
  /\ proc[w] = "up"
  /\ others[w] < MaxOthers
  /\ others' = [others EXCEPT ![w] = @ + 1]
  /\ UNCHANGED <<proc, limits, mine, hubVars, file, call>>
-----------------------------------------------------------------------------
(***************************************************************************)
(* The server's side of a call: the methods of ops.go, and Hub.call.       *)
(***************************************************************************)

\* A payload: JSON escapes some bytes of the content into several.
Payload(body) == Wrapper + IF body = NoFile THEN 0 ELSE body.size * body.weight

\* workerFor: the pin, or any registered worker, which becomes the pin.
Routes == IF pin # NoWorker THEN {pin} ELSE {w \in Workers : conn[w] # "none"}

Free(c) == call[c].phase = "done" /\ call[c].job = "none"

Return(c, with) == call' = [call EXCEPT ![c] = Settled([@ EXCEPT !.phase = "done", !.told = with])]

\* WriteFile, first half: the content against the file cap of the worker the
\* agent is pinned to now; the call routes anew.
CheckWrite(c) ==
  /\ Free(c)
  /\ UNCHANGED <<workerVars, conn, declared, file>>
  /\ \/ /\ Routes = {}
        /\ Return(c, "no_worker")
        /\ UNCHANGED pin
     \/ \E w \in Routes, body \in Contents :
          /\ pin' = w
          /\ \/ body.size > declared[w].file /\ Return(c, "file_too_large")
             \/ /\ body.size <= declared[w].file
                /\ call' = [call EXCEPT ![c] = [@ EXCEPT !.phase = "checked", !.body = body,
                                                         !.told = "nothing"]]

Send(c, w, op, body) ==
  call' = [call EXCEPT ![c] =
             [@ EXCEPT !.op = op, !.body = body, !.at = w, !.size = Payload(body),
                       !.phase = "waiting", !.told = "nothing",
                       !.job = IF conn[w] = "live" THEN "sent" ELSE "none"]]

\* call: route, weigh the payload against what that worker declared, register
\* and send. On a connection that is dead already the frame goes nowhere.
Request(c, op, body) ==
  /\ UNCHANGED <<workerVars, conn, declared, file>>
  /\ \/ /\ Routes = {}
        /\ Return(c, "no_worker")
        /\ UNCHANGED pin
     \/ \E w \in Routes :
          /\ pin' = w
          /\ IF Payload(body) > MaxPayloadBytes(declared[w])
               THEN Return(c, "payload_too_large")
               ELSE Send(c, w, op, body)

\* Exec, ReadFile, ListDir and DeleteFile: nothing is asked before the call.
Ask(c) == Free(c) /\ \E op \in Ops \ {"write"} : Request(c, op, NoFile)

\* WriteFile, second half.
AskWrite(c) == call[c].phase = "checked" /\ Request(c, "write", call[c].body)

\* The caller's context ends; the handler is told to cancel, which a file
\* operation does not listen to.
Abandon(c) ==
  /\ call[c].phase = "waiting"
  /\ Return(c, "cancelled")
  /\ UNCHANGED <<workerVars, hubVars, file>>

\* serve and deliver: the answer reaches its caller, if there still is one.
Deliver(c) ==
  /\ call[c].job = "answered"
  /\ conn[call[c].at] = "live"
  /\ call' = [call EXCEPT ![c] =
                Ended(IF call[c].phase = "waiting" THEN call[c].ans ELSE call[c].told)]
  /\ UNCHANGED <<workerVars, hubVars, file>>
-----------------------------------------------------------------------------
(***************************************************************************)
(* The worker's side: dispatch and handle, and the file operations.        *)
(***************************************************************************)

\* handle, once dispatch has returned: the frame it writes, on whatever
\* connection the link has by then. An error's text travels in the envelope.
Answered(r, ans, size) ==
  Settled([r EXCEPT !.ans = ans, !.size = size,
                    !.job = IF proc[r.at] = "apart" THEN "none" ELSE "answered"])

\* A slip in handle: a result is weighed before it is encoded.
ResultRaw(r, body) ==
  IF body # NoFile /\ body.size > MaxPayloadBytes(limits[r.at])
    THEN Answered(r, "payload_too_large", 0)
    ELSE Answered(r, "ok", Payload(body))

\* A result: weighed once it is encoded.
Result(r, body) ==
  IF Payload(body) > MaxPayloadBytes(limits[r.at])
    THEN Answered(r, "payload_too_large", 0)
    ELSE Answered(r, "ok", Payload(body))

Failure(r, ans) == Answered(r, ans, 0)

\* dispatch: a request of that operation starts, and the sandbox exists from now on.
Dispatched(c, op) ==
  /\ call[c].job = "sent"
  /\ call[c].op = op
  /\ mine' = [mine EXCEPT ![call[c].at] = TRUE]
  /\ UNCHANGED <<proc, limits, others, hubVars>>

\* A handler takes its next step.
Running(c, job) ==
  /\ call[c].job = job
  /\ UNCHANGED <<workerVars, hubVars>>

FileOf(c) == file[call[c].at]
Becomes(c, body) == file' = [file EXCEPT ![call[c].at] = body]
Over(c, body) == body.size > limits[call[c].at].file

\* The sandbox cannot be made (no user id is left, or its directory cannot be had);
\* or it is there, and the path leads outside it, the file system refuses, or the
\* helper process does not start.
FailEarly(c) ==
  /\ Running(c, "sent") \/ (\E op \in Ops : Dispatched(c, op))
  /\ call' = [call EXCEPT ![c] = Failure(@, "failed")]
  /\ UNCHANGED file

\* read_file: Stat comes before the read; a file it cannot find is left to the read.
Stat(c) ==
  /\ Dispatched(c, "read")
  /\ call' = [call EXCEPT ![c] = IF FileOf(c) # NoFile /\ Over(c, FileOf(c))
                                   THEN Failure(@, "file_too_large")
                                   ELSE [@ EXCEPT !.job = "statted"]]
  /\ UNCHANGED file

\* ReadFile: what the file holds now.
ReadFile(c) ==
  /\ Running(c, "statted")
  /\ call' = [call EXCEPT ![c] = IF FileOf(c) = NoFile THEN Failure(@, "failed")
                                                       ELSE Result(@, FileOf(c))]
  /\ UNCHANGED file

\* A slip in dispatch: the worker leaves its file cap to the server.
OpenUnchecked(c) ==
  /\ Dispatched(c, "write")
  /\ call' = [call EXCEPT ![c].job = "cut"]
  /\ Becomes(c, Cut)

\* write_file: the worker's own look at its file cap, then WriteFile opens and
\* truncates.
Open(c) ==
  /\ Dispatched(c, "write")
  /\ \/ /\ Over(c, call[c].body)
        /\ call' = [call EXCEPT ![c] = Failure(@, "file_too_large")]
        /\ UNCHANGED file
     \/ /\ ~Over(c, call[c].body)
        /\ call' = [call EXCEPT ![c].job = "cut"]
        /\ Becomes(c, Cut)

\* WriteFile has written the content.
Fill(c) ==
  /\ Running(c, "cut")
  /\ Becomes(c, call[c].body)
  /\ call' = [call EXCEPT ![c] = Result(@, NoFile)]

\* The helper runs into its timeout, or the file system refuses in the middle.
BreakOff(c) ==
  /\ \E job \in {"statted", "cut"} : Running(c, job)
  /\ call' = [call EXCEPT ![c] = Failure(@, "failed")]
  /\ UNCHANGED file

\* list_dir: a listing has no cap of its own.
ListDir(c) ==
  /\ Dispatched(c, "list")
  /\ \E listing \in Contents : call' = [call EXCEPT ![c] = Result(@, listing)]
  /\ UNCHANGED file

DeleteFile(c) ==
  /\ Dispatched(c, "delete")
  /\ Becomes(c, NoFile)
  /\ call' = [call EXCEPT ![c] = Result(@, NoFile)]

StartCommand(c) ==
  /\ Dispatched(c, "exec")
  /\ call' = [call EXCEPT ![c].job = "running"]
  /\ UNCHANGED file

\* The command makes what it likes of the agent's files.
CommandWrites(c) ==
  /\ Running(c, "running")
  /\ \E body \in Contents \cup {NoFile} : Becomes(c, body)
  /\ UNCHANGED call

\* It ends, in time or not: each of its two streams was collected up to the output cap.
CommandEnds(c) ==
  /\ Running(c, "running")
  /\ \E output \in Contents :
       /\ output.size <= 2 * limits[call[c].at].out
       /\ call' = [call EXCEPT ![c] = Result([@ EXCEPT !.body = output], output)]
  /\ UNCHANGED file
-----------------------------------------------------------------------------
WorkerStep(w) == Start(w) \/ Dial(w) \/ Accept(w) \/ Refuse(w) \/ Break(w) \/ Crash(w)
                 \/ Drop(w) \/ OtherAgent(w)

CallStep(c) == CheckWrite(c) \/ Ask(c) \/ AskWrite(c) \/ Abandon(c) \/ Deliver(c)

HandlerStep(c) == FailEarly(c) \/ Stat(c) \/ ReadFile(c) \/ Open(c) \/ Fill(c) \/ BreakOff(c)
                  \/ ListDir(c) \/ DeleteFile(c) \/ StartCommand(c) \/ CommandWrites(c)
                  \/ CommandEnds(c)

Next == (\E w \in Workers : WorkerStep(w)) \/ (\E c \in Calls : CallStep(c) \/ HandlerStep(c))

Spec == Init /\ [][Next]_vars

(***************************************************************************)
(* Run redials for ever and a dead connection's serve returns; and some    *)
(* redial is not cut off before the server has read its hello.             *)
(***************************************************************************)
Fairness == \A w \in Workers :
  /\ WF_vars(Dial(w))
  /\ WF_vars(Refuse(w))
  /\ WF_vars(Drop(w))
  /\ SF_vars(Accept(w))

FairSpec == Spec /\ Fairness
-----------------------------------------------------------------------------
\* No frame, whichever way it goes, is larger than its receiver reads: a frame
\* that is would close the connection and take every other agent on the worker
\* with it. Whatever the flags, wrapped sums and restarts with other flags
\* included, the limit each end checks against is the one the other end reads under.
FramesFit == \A c \in Calls :
  call[c].job \in {"sent", "answered"} =>
    Admits(FrameBytes(limits[call[c].at]), call[c].size + FrameFields)

\* The ceiling of the negotiation, which sums that wrap walk past: a file cap just
\* under half the largest int passes Validate with a negative frame size, and
\* the connection is read without any limit. No run checks this; see the README.
ReadLimitIsBounded == \A w \in Workers :
  conn[w] = "live" => FrameBytes(declared[w]) \in 1..MaxNegotiatedFrameBytes

\* Caps small enough for their sums to be exact, and for a payload's own fields.
Modest(l) == /\ l.out > 0 /\ 4 * l.out + EnvelopeBytes < Half
             /\ l.file >= Wrapper /\ 2 * l.file + EnvelopeBytes < Half

\* The ceiling where the sums are exact: with such caps every read limit is one.
ModestReadsAreBounded == \A w \in Workers :
  conn[w] = "live" /\ Modest(declared[w]) =>
    FrameBytes(declared[w]) \in EnvelopeBytes..MaxNegotiatedFrameBytes

\* A worker that dials again is turned away for the connection it had before, which
\* the server has yet to notice the end of, or for holding more agents than a
\* hello has room for; never for the limits its process once started with.
TurnedAwayForCause == \A w \in Workers :
  proc[w] = "dialed" /\ ~Acceptable(w) =>
    conn[w] = "dead" \/ HelloSize(w) > HelloFrameBytes

\* A payload refused although nothing in it is escaped: what it carried is over the
\* cap of the worker that was asked. For what the server sends, what a file held,
\* and what a command printed, which its cap has bounded already.
WriteCarried(c) ==
  (call[c].phase = "checked" /\ call'[c].told = "payload_too_large"
     /\ call[c].body.weight = 1 /\ Modest(declared[pin']))
    => call[c].body.size > declared[pin'].file

ReadCarried(c) ==
  (call[c].job = "statted" /\ call'[c].job = "answered" /\ call'[c].ans = "payload_too_large"
     /\ FileOf(c).weight = 1 /\ Modest(limits[call[c].at]))
    => Over(c, FileOf(c))

OutputCarried(c) ==
  (call[c].job = "running" /\ call'[c].job = "answered" /\ call'[c].ans = "payload_too_large")
    => (call'[c].body.weight > 1 \/ ~Modest(limits[call[c].at]))

\* A worker carries what its caps allow: content in which nothing is escaped is
\* turned away for the size of its payload only when it is over the worker's cap:
\* a file's by the file cap, a command's two streams, never.
PlainIsCarried == [][\A c \in Calls : WriteCarried(c) /\ ReadCarried(c) /\ OutputCarried(c)]_vars

\* A worker that is up and loses its connection is served again, or ends: the
\* hello it comes back with, naming every sandbox it holds, can be read.
ComesBack == \A w \in Workers : proc[w] = "apart" ~> proc[w] \in {"up", "off"}

\* Nothing write_file leaves in a sandbox is over the file cap of the worker
\* that holds it, although the server measured it for the worker the agent was
\* pinned to before.
FileCapHolds == [][\A c \in Calls :
  (call[c].job = "cut" /\ file'[call[c].at] = call[c].body /\ file' # file)
    => call[c].body.size <= limits[call[c].at].file]_vars
=============================================================================
