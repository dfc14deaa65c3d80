-------------------------- MODULE BroadcastDispatch --------------------------
(***************************************************************************)
(* One broadcast that has come due, and the overlapping dispatch ticks     *)
(* that prepare it: refresh the segment (prepareSend), fan the audience    *)
(* out page by page, count the rows, and decide in one conditional write   *)
(* whether the send starts, waits for the next tick, or fails.  Each       *)
(* awaited call is a step; people come and go between any two of them.     *)
(***************************************************************************)
EXTENDS KeysetPages

CONSTANTS
  N,          \* people 1..N, in the order of their addresses
  Workers,    \* ticks that may overlap
  MaxDrift,   \* bound: people joining, leaving or being suppressed
  MaxFaults   \* bound: crashes and failed calls, the refresh not counted

ASSUME DispatchAssumption == N \in Nat /\ MaxDrift \in Nat /\ MaxFaults \in Nat

People == 1..N

VARIABLES
  audience,   \* audience_type
  members,    \* people who satisfy the segment, or subscribe to the list
  stored,     \* segments_memberships: the members as last calculated
  fresh,      \* last_calculated_at is within SEGMENT_FRESHNESS_MS
  suppressed, \* broadcast_suppressions
  inWindow,   \* scheduled_at is within REFRESH_RETRY_WINDOW_MS
  status,     \* status of the send
  refresh,    \* metadata.audience_refresh.status of the send
  rows,       \* broadcast_send_recipients of the send
  pc, after,  \* per tick: the call it makes next; the cursor of its fan-out,
  note,       \*   the audience_refresh it will write,
  action,     \*   and what prepareSend has decided
  loyal,      \* history: members all along who were never suppressed
  drift, faults

sendVars  == <<status, refresh>>
worldVars == <<audience, members, stored, fresh, suppressed, inWindow, loyal, drift>>
tickVars  == <<pc, after, note, action>>
vars == <<worldVars, sendVars, rows, tickVars, faults>>

Statuses == {"scheduled", "sending", "failed", "cancelled"}
Notes    == {"none", "skipped", "refreshed", "retrying", "failed"}
Actions  == {"start", "retry", "fail"}
Labels   == {"idle", "freshness", "recalculate", "fanout", "count", "write"}

Init ==
  /\ audience \in {"segment", "list"}
  /\ members = People /\ stored \in SUBSET People /\ fresh \in BOOLEAN
  /\ suppressed \in SUBSET People
  /\ loyal = members \ suppressed
  /\ inWindow = TRUE /\ status = "scheduled" /\ refresh = "none" /\ rows = {}
  /\ pc = [w \in Workers |-> "idle"] /\ after = [w \in Workers |-> 0]
  /\ note = [w \in Workers |-> "none"]
  /\ action = [w \in Workers |-> "retry"]
  /\ drift = 0 /\ faults = 0

At(w, label) == pc[w] = label
Goto(w, label) == pc' = [pc EXCEPT ![w] = label]
Fault == faults < MaxFaults /\ faults' = faults + 1

-----------------------------------------------------------------------------
(* prepareSend                                                             *)

(* The due send is read; a list has no segment to refresh.                 *)
Select(w) ==
  /\ At(w, "idle") /\ status = "scheduled"
  /\ Goto(w, IF audience = "segment" THEN "freshness" ELSE "fanout")
  /\ after' = [after EXCEPT ![w] = 0]
  /\ note' = [note EXCEPT ![w] = refresh]
  /\ UNCHANGED <<worldVars, sendVars, rows, action, faults>>

(* A failed read counts as "never calculated".                             *)
ReadFreshness(w) ==
  /\ At(w, "freshness")
  /\ \/ /\ fresh /\ note' = [note EXCEPT ![w] = "skipped"] /\ Goto(w, "fanout")
        /\ UNCHANGED faults
     \/ /\ ~fresh /\ Goto(w, "recalculate") /\ UNCHANGED <<note, faults>>
     \/ /\ Fault /\ Goto(w, "recalculate") /\ UNCHANGED note
  /\ UNCHANGED <<worldVars, sendVars, rows, after, action>>

RecalculatedNothing == stored
Recalculated == members

Recalculate(w) ==
  /\ At(w, "recalculate")
  /\ stored' = Recalculated /\ fresh' = TRUE
  /\ note' = [note EXCEPT ![w] = "refreshed"]
  /\ Goto(w, "fanout")
  /\ UNCHANGED <<audience, members, suppressed, inWindow, loyal, drift, sendVars,
                 rows, after, action, faults>>

MayRetryForever == TRUE
MayRetry == inWindow

(* The refresh may fail on every tick: no bound, no fairness, helps here.  *)
RefreshFails(w) ==
  /\ At(w, "recalculate")
  /\ \/ /\ MayRetry
        /\ note' = [note EXCEPT ![w] = "retrying"]
        /\ action' = [action EXCEPT ![w] = "retry"] /\ Goto(w, "write")
     \/ /\ ~MayRetry
        /\ note' = [note EXCEPT ![w] = "failed"]
        /\ Goto(w, "fanout") /\ UNCHANGED action
  /\ UNCHANGED <<worldVars, sendVars, rows, after, faults>>

Audience == IF audience = "segment" THEN stored ELSE members

(* Suppressed people take a place on the page but get no row.              *)
FannedOut(page) == rows \cup (page \ suppressed)

MoreUnlessFiltered(page) == Cardinality(page \ suppressed) = PageSize
More(page) == Remaining(page)

FanOut(w) ==
  /\ At(w, "fanout")
  /\ \E page \in FirstPages(Beyond(Audience, after[w])) :
       /\ rows' = FannedOut(page)
       /\ \E c \in Cursors(page, after[w]) : after' = [after EXCEPT ![w] = c]
       /\ Goto(w, IF More(page) THEN "fanout" ELSE "count")
  /\ UNCHANGED <<worldVars, sendVars, note, action, faults>>

FanOutFails(w) ==
  /\ At(w, "fanout") /\ Fault
  /\ action' = [action EXCEPT ![w] = "fail"] /\ Goto(w, "write")
  /\ UNCHANGED <<worldVars, sendVars, rows, after, note>>

CountedAnyway == "start"
Counted == IF rows = {} THEN "fail" ELSE "start"

Count(w) ==
  /\ At(w, "count")
  /\ action' = [action EXCEPT ![w] = Counted] /\ Goto(w, "write")
  /\ UNCHANGED <<worldVars, sendVars, rows, after, note, faults>>

(* countRecipients throws: the tick logs it and leaves the send alone.     *)
CountFails(w) ==
  /\ At(w, "count") /\ Fault /\ Goto(w, "idle")
  /\ UNCHANGED <<worldVars, sendVars, rows, after, note, action>>

-----------------------------------------------------------------------------
(* The conditional status write of the dispatcher, and the rest            *)

MayDecideUnlessCancelled == status # "cancelled"
MayDecide == status = "scheduled"

Decide(w) ==
  \/ action[w] = "start" /\ status' = "sending"
  \/ action[w] = "fail" /\ status' = "failed"
  \/ action[w] = "retry" /\ UNCHANGED status

Write(w) ==
  /\ At(w, "write") /\ Goto(w, "idle")
  /\ \/ MayDecide /\ Decide(w) /\ refresh' = note[w]
     \/ ~MayDecide /\ UNCHANGED sendVars
  /\ UNCHANGED <<worldVars, rows, after, note, action, faults>>

WriteFails(w) ==
  /\ At(w, "write") /\ Fault /\ Goto(w, "idle")
  /\ UNCHANGED <<worldVars, sendVars, rows, after, note, action>>

Crash(w) ==
  /\ pc[w] # "idle" /\ Fault /\ Goto(w, "idle")
  /\ UNCHANGED <<worldVars, sendVars, rows, after, note, action>>

(* setSlackSendStatus(..., 'cancel', 'scheduled').                         *)
Cancel ==
  /\ status = "scheduled" /\ status' = "cancelled"
  /\ UNCHANGED <<worldVars, refresh, rows, tickVars, faults>>

Moves(p) ==
  \/ /\ p \notin members /\ members' = members \cup {p}
     /\ UNCHANGED <<suppressed, loyal>>
  \/ /\ p \in members /\ members' = members \ {p} /\ loyal' = loyal \ {p}
     /\ UNCHANGED suppressed
  \/ /\ p \notin suppressed /\ suppressed' = suppressed \cup {p}
     /\ loyal' = loyal \ {p} /\ UNCHANGED members

Drift ==
  /\ drift < MaxDrift /\ drift' = drift + 1
  /\ \E p \in People : Moves(p)
  /\ UNCHANGED <<audience, stored, fresh, inWindow, sendVars, rows, tickVars, faults>>

(* An hour passes since the segment was calculated.                        *)
Age ==
  /\ fresh /\ fresh' = FALSE
  /\ UNCHANGED <<audience, members, stored, suppressed, inWindow, loyal, drift,
                 sendVars, rows, tickVars, faults>>

(* Ten minutes pass since the send came due.                               *)
WindowCloses ==
  /\ inWindow /\ inWindow' = FALSE
  /\ UNCHANGED <<audience, members, stored, fresh, suppressed, loyal, drift,
                 sendVars, rows, tickVars, faults>>

Tick(w) ==
  \/ Select(w) \/ ReadFreshness(w) \/ Recalculate(w) \/ RefreshFails(w)
  \/ FanOut(w) \/ FanOutFails(w) \/ Count(w) \/ CountFails(w)
  \/ Write(w) \/ WriteFails(w)

Next ==
  \/ \E w \in Workers : Tick(w) \/ Crash(w)
  \/ Cancel \/ Drift \/ Age \/ WindowCloses

Spec == Init /\ [][Next]_vars

(* The heartbeat fires every minute and its calls return; time passes.     *)
FairSpec == Spec /\ (\A w \in Workers : WF_vars(Tick(w))) /\ WF_vars(WindowCloses)

-----------------------------------------------------------------------------
TypeOK ==
  /\ audience \in {"segment", "list"}
  /\ members \subseteq People /\ stored \subseteq People /\ suppressed \subseteq People
  /\ rows \subseteq People /\ loyal \subseteq members \ suppressed
  /\ fresh \in BOOLEAN /\ inWindow \in BOOLEAN
  /\ status \in Statuses /\ refresh \in Notes
  /\ pc \in [Workers -> Labels] /\ after \in [Workers -> 0..N]
  /\ note \in [Workers -> Notes] /\ action \in [Workers -> Actions]
  /\ drift \in 0..MaxDrift /\ faults \in 0..MaxFaults

(* The notes with which the audience that was fanned out was up to date.   *)
Assured == {"refreshed"} \cup (IF audience = "list" THEN {"none"} ELSE {})

(* A send that says it started from a refreshed segment, or from a list,   *)
(* has a row for everyone who was in the audience all along and never      *)
(* suppressed: however people came and went between the pages, and however *)
(* many ticks recalculated and fanned out at once (send-prep.ts).          *)
AudienceCovered ==
  status = "sending" /\ refresh \in Assured => loyal \subseteq rows

(* No send starts with nobody to send to (EMPTY_AUDIENCE_REASON), though   *)
(* the rows are counted in one call and the send started in another.       *)
NeverStartsEmpty == status = "sending" => rows # {}

(* Why: what a tick knows at each of its calls.  Its fan-out has covered   *)
(* everyone up to its cursor, because what it pages through holds all who  *)
(* stayed; once past the last page that is everyone, and it starts the     *)
(* send only with a row to mail.                                           *)
TickKnows(w) ==
  /\ At(w, "freshness") \/ At(w, "recalculate") => after[w] = 0
  /\ At(w, "fanout") /\ note[w] \in Assured =>
       /\ loyal \subseteq Audience
       /\ {p \in loyal : p <= after[w]} \subseteq rows
  /\ (At(w, "count") \/ (At(w, "write") /\ action[w] = "start")) /\ note[w] \in Assured =>
       loyal \subseteq rows
  /\ At(w, "write") /\ action[w] = "start" => rows # {}

(* The inductive invariant: the types, what each tick knows, and the two   *)
(* properties above.                                                       *)
DispatchInv ==
  /\ TypeOK
  /\ \A w \in Workers : TickKnows(w)
  /\ AudienceCovered
  /\ NeverStartsEmpty

(* "Every status write is conditional on status still being 'scheduled'":  *)
(* a send cancelled mid-refresh stays cancelled, and one tick's decision   *)
(* is never overwritten by an overlapping tick.                            *)
DecidedOnce == [][status # "scheduled" => UNCHANGED sendVars]_vars

(* A due send does not wait forever, even if its segment can never be      *)
(* refreshed: after the retry window it goes to the stored audience.       *)
DueSendDecided == status = "scheduled" ~> status # "scheduled"
=============================================================================
