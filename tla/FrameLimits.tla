----------------------------- MODULE FrameLimits -----------------------------
(***************************************************************************)
(* The sizes the two ends of a worker link agree on: workerproto.Limits,   *)
(* what it derives from a worker's two caps, and where a worker's flags    *)
(* are refused.  Sizes are Go ints, which wrap; Half is 2^63 in the build. *)
(***************************************************************************)
EXTENDS Integers

CONSTANTS
  Half,                     \* ints run from -Half to Half - 1
  EnvelopeBytes,            \* room for a frame's own fields
  HelloFrameBytes,          \* the server's read limit until a worker said hello
  MaxNegotiatedFrameBytes,  \* the largest read limit a worker may ask for
  ChunkSize,                \* sandbox.ChunkSize
  DefaultMaxFileBytes, DefaultMaxOutputBytes

Ints == (-Half) .. (Half - 1)
CapPairs == [out : Ints, file : Ints]

ASSUME SizesAssumption ==
  /\ Half \in Nat
  /\ \A n \in {EnvelopeBytes, HelloFrameBytes, MaxNegotiatedFrameBytes, ChunkSize,
               DefaultMaxFileBytes, DefaultMaxOutputBytes} : n \in Nat /\ 0 < n /\ n < Half

escapeAllowance == 2

\* What an int holds after one addition or doubling of ints: at most one turn off.
Wrap(x) == IF x < -Half THEN x + 2 * Half ELSE IF x >= Half THEN x - 2 * Half ELSE x

\* A slip in FrameBytes: the output cap counted once.
FrameBytesOnce(l) == Wrap(escapeAllowance * (IF l.out > l.file THEN l.out ELSE l.file) + EnvelopeBytes)

\* The largest single payload, what escaping makes of it, and the envelope; the
\* output cap bounds two streams.
FrameBytes(l) ==
  LET both    == Wrap(2 * l.out)
      payload == IF both > l.file THEN both ELSE l.file
  IN  Wrap(Wrap(escapeAllowance * payload) + EnvelopeBytes)

MaxPayloadBytes(l) == Wrap(FrameBytes(l) - EnvelopeBytes)

Validate(l) == l.out > 0 /\ l.file > 0 /\ FrameBytes(l) <= MaxNegotiatedFrameBytes

\* New and sandbox.Config.WithDefaults: what a worker started with these flags declares.
WithDefaults(flags) ==
  [out  |-> IF flags.out <= 0 THEN DefaultMaxOutputBytes ELSE flags.out,
   file |-> IF flags.file = 0 THEN DefaultMaxFileBytes ELSE flags.file]

\* New: flags a worker starts with.
Usable(l) == Validate(l) /\ ChunkSize <= MaxPayloadBytes(l)

\* SetReadLimit of the websocket library: a negative limit is no limit.
Admits(limit, size) == limit < 0 \/ size <= limit
=============================================================================
