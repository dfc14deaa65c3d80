---------------------------- MODULE MCSendEngine ----------------------------
(* Values for the constants of SendEngine that a cfg file cannot write. *)
EXTENDS SendEngineRefinement, TLC

CONSTANTS r1, r2, s1, s2, w1, w2

OneSend == [r \in Rows |-> s1]
NoPlan == [s \in Sends |-> 0]
AllPlanned == [s \in Sends |-> Cardinality(RowsOf(s) \ Late)]
TickSymmetry == Permutations(Workers)
RowSymmetry == Permutations(Rows)
TickAndRowSymmetry == Permutations(Workers) \cup Permutations(Rows)
=============================================================================
