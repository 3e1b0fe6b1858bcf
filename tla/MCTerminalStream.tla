-------------------------- MODULE MCTerminalStream --------------------------
(* Finite instances of the terminal stream: events that fit the budget two  *)
(* at a time, and one that fits it alone.                                    *)
EXTENDS TerminalStream, TLC

CONSTANTS w1, w2

MCSizes == {1, 3}

Symmetry == Permutations(Watchers)
=============================================================================
