------------------------ MODULE SendEngineRefinement ------------------------
(* How the tables of SendEngine show the promise of SendLifecycle. *)
EXTENDS SendEngineInvariant

PhaseOf(status) ==
  CASE status = "sending" -> "running"
    [] status = "paused" -> "held"
    [] status = "cancelling" -> "stopping"
    [] status = "cancelled" -> "stopped"
    [] OTHER -> "done"

RecordOf(status) ==
  CASE status \in Outstanding -> "open"
    [] status = "sent" -> "sent"
    [] OTHER -> "dropped"

Lifecycle == INSTANCE SendLifecycle WITH
  phase  <- [s \in Sends |-> PhaseOf(sendStatus[s])],
  record <- [r \in Rows |-> RecordOf(rowStatus[r])]

(* What the refinement needs beyond the invariants of the engine: no send   *)
(* is ever found to have ended too early, and a row that a cancel sweep    *)
(* takes from under a tick belongs to a send that stays stopped.           *)
Stopping == {"cancelling", "cancelled"}

NothingReopens == \A w \in Workers : ~At(w, "reopen")
CancelsStopped == \A w \in Workers : \A s \in cancels[w] : sendStatus[s] \in Stopping
SkippedStopped ==
  \A w \in Workers : \A r \in Held(w) :
     rowStatus[r] = "skipped" => sendStatus[SendOf[r]] \in Stopping

StopInv == NothingReopens /\ CancelsStopped /\ SkippedStopped

(* The engine implements the lifecycle: whatever ticks overlap, crash or   *)
(* are paused and stopped under them, what the tables say changes only as  *)
(* the lifecycle allows.  For the paced binding, whose writes of a send's  *)
(* status are all compare-and-swaps, and without late rows or hazards.     *)
ImplementsLifecycle == Lifecycle!Spec
=============================================================================
