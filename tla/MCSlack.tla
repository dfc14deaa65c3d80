------------------------------ MODULE MCSlack -------------------------------
(* The paced engine under three budgets that are each small enough for    *)
(* TLC: two ticks at once, with one click or one fault; one tick at a time *)
(* with both; or one tick at a time and no click, with the faults it takes *)
(* to give a row up.                                                       *)
EXTENDS MCSendEngine

Busy == {w \in Workers : pc[w] # "idle"}

TwoBatches == \A b \in Batches : b > 2 => batchStatus[b] = "none"

WithinBudget ==
  \/ admins + faults <= 1 /\ TwoBatches
  \/ /\ Cardinality(Busy) <= 1
     /\ \/ faults <= 1 /\ TwoBatches
        \/ admins = 0 /\ \E r \in Rows : faults <= tries[r] + 1
=============================================================================
