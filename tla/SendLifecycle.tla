---------------------------- MODULE SendLifecycle ----------------------------
(***************************************************************************)
(* What the sending service promises about a send, with no ticks, claims,  *)
(* batches or time: every person on it gets the message at most once, what *)
(* is recorded about a person is decided once, Pause holds a send, Stop is *)
(* final, and a send is over only when everyone on it is decided.          *)
(* SendEngine implements it (see SendEngineRefinement).                    *)
(***************************************************************************)
EXTENDS Naturals

CONSTANTS Rows, Sends, SendOf

VARIABLES
  phase,     \* phase[s]: the send as its owner sees it
  record,    \* record[r]: what the service says became of the person
  copies     \* copies[r]: messages the person really got

vars == <<phase, record, copies>>

Phases  == {"running", "held", "stopping", "stopped", "done"}
Records == {"open", "sent", "dropped"}
OpenRows == {r \in Rows : record[r] = "open"}
OpenOf(s) == {r \in OpenRows : SendOf[r] = s}

Init ==
  /\ phase = [s \in Sends |-> "running"]
  /\ record = [r \in Rows |-> "open"]
  /\ copies = [r \in Rows |-> 0]

Become(s, from, to) ==
  /\ phase[s] \in from
  /\ phase' = [phase EXCEPT ![s] = to]
  /\ UNCHANGED <<record, copies>>

Pause(s)  == Become(s, {"running"}, "held")
Resume(s) == Become(s, {"held"}, "running")
Stop(s)   == Become(s, {"running", "held"}, "stopping")
Finish(s) ==
  /\ OpenOf(s) = {}
  /\ \/ Become(s, {"running", "held"}, "done")
     \/ Become(s, {"stopping"}, "stopped")

(* Nobody is mailed twice; once dropped, a person is mailed only by a call *)
(* that was already on its way when the send was stopped.                  *)
MayDeliver(r) ==
  /\ copies[r] = 0
  /\ \/ record[r] = "open"
     \/ record[r] = "dropped" /\ phase[SendOf[r]] \in {"stopping", "stopped"}

Deliver(R) ==
  /\ \A r \in R : MayDeliver(r)
  /\ copies' = [r \in Rows |-> IF r \in R THEN copies[r] + 1 ELSE copies[r]]
  /\ UNCHANGED <<phase, record>>

RecordAs(R, what) ==
  /\ record' = [r \in Rows |-> IF r \in R THEN what ELSE record[r]]
  /\ UNCHANGED <<phase, copies>>

(* Only what was delivered is recorded as sent; only who is open is dropped. *)
RecordSent(R) == (\A r \in R : copies[r] > 0) /\ RecordAs(R, "sent")
Drop(R) == R \subseteq OpenRows /\ RecordAs(R, "dropped")

Next ==
  \/ \E s \in Sends : Pause(s) \/ Resume(s) \/ Stop(s) \/ Finish(s)
  \/ \E R \in SUBSET Rows : Deliver(R) \/ RecordSent(R) \/ Drop(R)

Spec == Init /\ [][Next]_vars

-----------------------------------------------------------------------------
TypeOK ==
  /\ phase \in [Sends -> Phases]
  /\ record \in [Rows -> Records]
  /\ copies \in [Rows -> {0, 1}]

(* What is recorded as sent was received, and a send that is over has      *)
(* nobody left waiting.                                                    *)
Settlement ==
  /\ \A r \in Rows : record[r] = "sent" => copies[r] = 1
  /\ \A s \in Sends : phase[s] \in {"stopped", "done"} => OpenOf(s) = {}

(* The promise to the owner of a send, as one invariant: at most one copy  *)
(* each (in the types), true records, and nobody forgotten at the end.     *)
Promise == TypeOK /\ Settlement
=============================================================================
