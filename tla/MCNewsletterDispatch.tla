------------------------ MODULE MCNewsletterDispatch ------------------------
(* Overlapping ticks are interchangeable. *)
EXTENDS NewsletterDispatch, TLC

CONSTANTS w1, w2

TickSymmetry == Permutations(Workers)
=============================================================================
