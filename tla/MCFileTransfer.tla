--------------------------- MODULE MCFileTransfer ---------------------------
(***************************************************************************)
(* Instances of FileTransfer for TLC: sizes that keep the order of the     *)
(* real ones (the README has the table).                                   *)
(***************************************************************************)
EXTENDS FileTransfer

Caps(o, f) == [out |-> o, file |-> f]
Text(n) == [size |-> n, weight |-> 1]

\* Bound by the output cap, by the file cap, sums that wrap, refused by New.
MCFlags == {Caps(3, 2), Caps(0, 5), Caps(1, 62), Caps(1, 64)}

\* Within some caps and over others; as it is, and all escaped.
MCContents == {Text(5), [size |-> 5, weight |-> 6]}
==============================================================================
