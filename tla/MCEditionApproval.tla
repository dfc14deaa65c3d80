------------------------- MODULE MCEditionApproval --------------------------
(* Two pages, an approver each, one of them a super admin, under two       *)
(* budgets: saves, research and lost replies before anything is asked, or  *)
(* requests and decisions with no lost reply and no panel refetch.         *)
EXTENDS EditionApproval

CONSTANTS editor, approver

WithinBudget ==
  \/ /\ approvals = <<>> /\ version + changes + lost <= 4
     /\ \A p \in Pages : /\ pc[p] \notin {"request", "decide"}
                         /\ then[p] \in {"idle", "panel"}
  \/ /\ lost = 0 /\ changes <= 1 /\ version <= 2
     /\ \A p \in Pages : then[p] # "panel"
=============================================================================
