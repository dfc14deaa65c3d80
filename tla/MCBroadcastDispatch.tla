------------------------ MODULE MCBroadcastDispatch ------------------------
(* Overlapping ticks are interchangeable. *)
EXTENDS BroadcastDispatch, TLC

CONSTANTS w1, w2

TickSymmetry == Permutations(Workers)
=============================================================================
