------------------------- MODULE NewsletterDispatch -------------------------
(***************************************************************************)
(* One scheduled newsletter send that has come due: the overlapping        *)
(* dispatch ticks that check the send gate, fan the list out page by page  *)
(* and flip the send to 'sending'; the database trigger that checks the    *)
(* gate again; the admin page that cancels and retries; and, in outline,   *)
(* the send engine that mails the rows (SendEngine has its detail).        *)
(***************************************************************************)
EXTENDS KeysetPages

CONSTANTS
  N,             \* subscribers 1..N, in the order of their addresses
  Workers,       \* ticks that may overlap
  MaxGateMoves,  \* bound: times the gate closes
  MaxDrift,      \* bound: people subscribing or leaving
  MaxFaults,     \* bound: crashes and failed calls
  MaxClicks      \* bound: Cancel and Retry clicks

ASSUME NewsletterAssumption ==
  N \in Nat /\ MaxGateMoves \in Nat /\ MaxDrift \in Nat /\ MaxFaults \in Nat
  /\ MaxClicks \in Nat

People == 1..N

VARIABLES
  status,     \* status of the send
  lastError,  \* last_error: none, why it is held, or that dispatch failed
  open,       \* what newsletters_send_gate answers: TRUE is "allowed"
  subs,       \* subscribers of the list
  row,        \* row[p]: newsletter_send_recipients of the send
  touched,    \* an engine tick has dealt with a row and will finalize the send
  pc, after,  \* per tick: the call it makes next; the cursor of its fan-out
  shown,      \* the status the admin's page has loaded
  copies,     \* history: messages sent to a person,
  loyal,      \*   the subscribers who were there all along,
  stopped,    \*   and whether an admin ever cancelled the send
  gateMoves, drift, faults, clicks

sendVars  == <<status, lastError>>
listVars  == <<subs, loyal, drift>>
gateVars  == <<open, gateMoves>>
mailVars  == <<row, copies, touched>>
tickVars  == <<pc, after>>
pageVars  == <<shown, clicks, stopped>>
vars == <<sendVars, listVars, gateVars, mailVars, tickVars, pageVars, faults>>

Statuses == {"scheduled", "sending", "paused", "sent", "failed", "cancelled"}
Settled  == {"sent", "failed", "skipped"}
Outstanding == {"pending", "sending"}
Labels   == {"idle", "gate", "hold", "fanout", "flip", "fail"}

Init ==
  /\ status = "scheduled" /\ lastError = "none" /\ open \in BOOLEAN
  /\ subs \in SUBSET People /\ loyal = subs
  /\ row = [p \in People |-> "absent"] /\ copies = [p \in People |-> 0]
  /\ pc = [w \in Workers |-> "idle"] /\ after = [w \in Workers |-> 0]
  /\ touched = FALSE /\ shown = "none" /\ stopped = FALSE
  /\ gateMoves = 0 /\ drift = 0 /\ faults = 0 /\ clicks = 0

At(w, label) == pc[w] = label
Goto(w, label) == pc' = [pc EXCEPT ![w] = label]
Fault == faults < MaxFaults /\ faults' = faults + 1

(* newsletter_sends_research_gate: the trigger on every status write.      *)
GatedStatusAtInsert == {"scheduled"}
GatedStatus == {"scheduled", "sending"}
Refuses(to) == to \in GatedStatus /\ to # status /\ ~open

-----------------------------------------------------------------------------
(* handleDispatchScheduled, for this send                                  *)

Select(w) ==
  /\ At(w, "idle") /\ status = "scheduled"
  /\ Goto(w, "gate") /\ after' = [after EXCEPT ![w] = 0]
  /\ UNCHANGED <<sendVars, listVars, gateVars, mailVars, pageVars, faults>>

CheckGate(w) ==
  /\ At(w, "gate")
  /\ \/ Goto(w, IF open THEN "fanout" ELSE "hold") /\ UNCHANGED faults
     \/ Goto(w, "fail") /\ Fault
  /\ UNCHANGED <<sendVars, listVars, gateVars, mailVars, after, pageVars>>

(* The reason is recorded only while the send is still scheduled; a failed *)
(* write of it is only logged.                                             *)
Hold(w) ==
  /\ At(w, "hold") /\ Goto(w, "idle")
  /\ \/ /\ lastError' = IF status = "scheduled" THEN "gate" ELSE lastError
        /\ UNCHANGED faults
     \/ Fault /\ UNCHANGED lastError
  /\ UNCHANGED <<status, listVars, gateVars, mailVars, after, pageVars>>

(* ON CONFLICT (send_id, email) DO NOTHING.                                *)
Overwritten(page) == page
Inserted(page) == {p \in page : row[p] = "absent"}

MoreThanOnePage(page) == FALSE
More(page) == Remaining(page)

FanOut(w) ==
  /\ At(w, "fanout")
  /\ \E page \in FirstPages(Beyond(subs, after[w])) :
       /\ row' = [p \in People |-> IF p \in Inserted(page) THEN "pending" ELSE row[p]]
       /\ \E c \in Cursors(page, after[w]) : after' = [after EXCEPT ![w] = c]
       /\ Goto(w, IF More(page) THEN "fanout" ELSE "flip")
  /\ UNCHANGED <<sendVars, listVars, gateVars, copies, touched, pageVars, faults>>

FanOutFails(w) ==
  /\ At(w, "fanout") /\ Fault /\ Goto(w, "fail")
  /\ UNCHANGED <<sendVars, listVars, gateVars, mailVars, after, pageVars>>

AfterAnyError == "fail"
AfterRefusal == "hold"

(* The rows are counted, and the flip is written whatever the status has   *)
(* become since Select; only the trigger stands in its way.                *)
Flip(w) ==
  /\ At(w, "flip")
  /\ \/ ~Refuses("sending") /\ status' = "sending" /\ lastError' = "none" /\ Goto(w, "idle")
     \/ Refuses("sending") /\ Goto(w, AfterRefusal) /\ UNCHANGED sendVars
  /\ UNCHANGED <<listVars, gateVars, mailVars, after, pageVars, faults>>

FlipFails(w) ==
  /\ At(w, "flip") /\ Fault /\ Goto(w, "fail")
  /\ UNCHANGED <<sendVars, listVars, gateVars, mailVars, after, pageVars>>

(* Neither is this write conditional.                                      *)
MarkFailed(w) ==
  /\ At(w, "fail") /\ Goto(w, "idle")
  /\ \/ status' = "failed" /\ lastError' = "failed" /\ UNCHANGED faults
     \/ Fault /\ UNCHANGED sendVars
  /\ UNCHANGED <<listVars, gateVars, mailVars, after, pageVars>>

Crash(w) ==
  /\ pc[w] # "idle" /\ Fault /\ Goto(w, "idle")
  /\ UNCHANGED <<sendVars, listVars, gateVars, mailVars, after, pageVars>>

-----------------------------------------------------------------------------
(* runDripTick, in outline: what overlapping engine ticks do to each row   *)
(* and to the send.  The status of the send is read between the claim of a *)
(* row and its post, and by finalizeSend; SendEngine has every call apart. *)

RowBecomes(p, to) == row' = [row EXCEPT ![p] = to] /\ touched' = TRUE
Going == status \notin {"paused", "cancelled"}

(* The claim skips who has unsubscribed since the fan-out.                 *)
SkipUnsubscribed(p) ==
  /\ status = "sending" /\ row[p] = "pending" /\ p \notin subs
  /\ row' = [row EXCEPT ![p] = "skipped"]
  /\ UNCHANGED <<copies, touched, sendVars, listVars, gateVars, tickVars, pageVars, faults>>

ClaimRow(p) ==
  /\ status = "sending" /\ row[p] = "pending" /\ p \in subs
  /\ row' = [row EXCEPT ![p] = "sending"]
  /\ UNCHANGED <<copies, touched, sendVars, listVars, gateVars, tickVars, pageVars, faults>>

(* A claimed address may have been erased, and is then skipped.            *)
SkipErased(p) ==
  /\ row[p] = "sending" /\ p \notin subs /\ RowBecomes(p, "skipped")
  /\ UNCHANGED <<copies, sendVars, listVars, gateVars, tickVars, pageVars, faults>>

(* The send is found 'cancelled' after the claim.                          *)
SkipStopped(p) ==
  /\ row[p] = "sending" /\ status = "cancelled" /\ RowBecomes(p, "skipped")
  /\ UNCHANGED <<copies, sendVars, listVars, gateVars, tickVars, pageVars, faults>>

(* It is found paused; or the budget or the quota is spent, a lookup fails, *)
(* the provider asks to try again later, or the tick dies and the row is   *)
(* swept back.                                                             *)
PutBack(p) ==
  /\ row[p] = "sending" /\ RowBecomes(p, "pending")
  /\ (status = "paused" /\ UNCHANGED faults) \/ Fault
  /\ UNCHANGED <<copies, sendVars, listVars, gateVars, tickVars, pageVars>>

(* Any other status lets the claimed row go out, also 'failed'.            *)
Mail(p) ==
  /\ row[p] = "sending" /\ Going /\ RowBecomes(p, "sent")
  /\ copies' = [copies EXCEPT ![p] = @ + 1]
  /\ UNCHANGED <<sendVars, listVars, gateVars, tickVars, pageVars, faults>>

(* The provider refuses it for good.                                       *)
Refuse(p) ==
  /\ row[p] = "sending" /\ Going /\ Fault /\ RowBecomes(p, "failed")
  /\ UNCHANGED <<copies, sendVars, listVars, gateVars, tickVars, pageVars>>

(* The reputation gate's pause, whatever the status has become.            *)
TripPause ==
  /\ \E p \in People : row[p] = "sending"
  /\ Fault /\ status' = "paused"
  /\ UNCHANGED <<lastError, listVars, gateVars, mailVars, tickVars, pageVars>>

OpenPending == {p \in People : row[p] = "pending"}
Open == {p \in People : row[p] \in Outstanding}
Rows(what) == {p \in People : row[p] = what}
Verdict == IF Rows("sent") = {} /\ Rows("failed") # {} THEN "failed" ELSE "sent"

(* finalizeSend, for a send a tick has touched or found stranded.          *)
Finalize ==
  /\ touched \/ (status = "sending" /\ Open = {})
  /\ touched' = FALSE
  /\ \/ /\ status' = IF Open = {} /\ status # "cancelled" THEN Verdict ELSE status
        /\ UNCHANGED faults
     \/ Fault /\ UNCHANGED status
  /\ UNCHANGED <<lastError, row, copies, listVars, gateVars, tickVars, pageVars>>

(* A send finished too early is reopened, which the trigger may refuse.    *)
Reopen ==
  /\ status = "sent" /\ Open # {} /\ ~Refuses("sending") /\ status' = "sending"
  /\ UNCHANGED <<lastError, listVars, gateVars, mailVars, tickVars, pageVars, faults>>

-----------------------------------------------------------------------------
(* The send's admin page, the edition, and the list                        *)

LoadSend ==
  /\ shown # status /\ shown' = status
  /\ UNCHANGED <<sendVars, listVars, gateVars, mailVars, tickVars, clicks, stopped, faults>>

Click == clicks < MaxClicks /\ clicks' = clicks + 1

(* handleCancel: a button of a page that showed 'scheduled' when loaded.   *)
Cancel ==
  /\ shown = "scheduled" /\ Click /\ status' = "cancelled" /\ shown' = "cancelled"
  /\ stopped' = TRUE
  /\ UNCHANGED <<lastError, listVars, gateVars, mailVars, tickVars, faults>>

(* handleRetry: likewise 'failed'; the trigger may refuse it.              *)
Retry ==
  /\ shown = "failed" /\ Click /\ ~Refuses("scheduled")
  /\ status' = "scheduled" /\ shown' = "scheduled"
  /\ UNCHANGED <<stopped, lastError, listVars, gateVars, mailVars, tickVars, faults>>

(* A research run starts, or an approved edition is edited.                *)
CloseGate ==
  /\ open /\ gateMoves < MaxGateMoves
  /\ open' = FALSE /\ gateMoves' = gateMoves + 1
  /\ UNCHANGED <<sendVars, listVars, mailVars, tickVars, pageVars, faults>>

(* The run completes, or the edition is approved again.                    *)
OpenGate ==
  /\ ~open /\ open' = TRUE
  /\ UNCHANGED <<sendVars, listVars, gateMoves, mailVars, tickVars, pageVars, faults>>

(* People subscribe; they unsubscribe or have their address erased.        *)
Drift ==
  /\ drift < MaxDrift /\ drift' = drift + 1
  /\ \E p \in People :
       \/ p \notin subs /\ subs' = subs \cup {p} /\ UNCHANGED loyal
       \/ p \in subs /\ subs' = subs \ {p} /\ loyal' = loyal \ {p}
  /\ UNCHANGED <<sendVars, gateVars, mailVars, tickVars, pageVars, faults>>

Tick(w) ==
  \/ Select(w) \/ CheckGate(w) \/ Hold(w) \/ FanOut(w) \/ FanOutFails(w)
  \/ Flip(w) \/ FlipFails(w) \/ MarkFailed(w)

DealsWith(p) ==
  \/ SkipUnsubscribed(p) \/ ClaimRow(p) \/ SkipErased(p) \/ SkipStopped(p)
  \/ PutBack(p) \/ Mail(p) \/ Refuse(p)

Engine == (\E p \in People : DealsWith(p)) \/ TripPause \/ Finalize \/ Reopen

Next ==
  \/ \E w \in Workers : Tick(w) \/ Crash(w)
  \/ Engine \/ LoadSend \/ Cancel \/ Retry \/ CloseGate \/ OpenGate \/ Drift

Spec == Init /\ [][Next]_vars

(* The heartbeat and the engine keep running, and every research run ends  *)
(* and every edition is approved in the end.                               *)
FairSpec ==
  Spec /\ (\A w \in Workers : WF_vars(Tick(w))) /\ WF_vars(Engine) /\ WF_vars(OpenGate)

-----------------------------------------------------------------------------
TypeOK ==
  /\ status \in Statuses /\ lastError \in {"none", "gate", "failed"}
  /\ open \in BOOLEAN /\ subs \subseteq People /\ loyal \subseteq subs
  /\ row \in [People -> {"absent"} \cup Outstanding \cup Settled]
  /\ copies \in [People -> Nat] /\ touched \in BOOLEAN /\ stopped \in BOOLEAN
  /\ pc \in [Workers -> Labels] /\ after \in [Workers -> 0..N]
  /\ shown \in Statuses \cup {"none"}
  /\ gateMoves \in 0..MaxGateMoves /\ drift \in 0..MaxDrift
  /\ faults \in 0..MaxFaults /\ clicks \in 0..MaxClicks

HasRow(p) == row[p] # "absent"

Begun == status \in {"sending", "paused", "sent"} \/ \E p \in People : row[p] \in Settled

(* A send that has begun has a row for everyone who was subscribed all     *)
(* along, over failed and interrupted fan-outs, overlapping ticks, people  *)
(* coming and going between pages, cancels and retries.  Once it is 'sent' *)
(* each of them was mailed, or refused by the provider; they are skipped   *)
(* only by a tick that found the send cancelled.  (fanout_..._batch, flip, *)
(* finalizeSend)                                                           *)
CompleteAudience ==
  /\ Begun => \A p \in loyal : HasRow(p)
  /\ status = "sent" => \A p \in loyal : row[p] \in Settled
  /\ ~stopped => \A p \in loyal : row[p] # "skipped"

(* Nobody is mailed twice, though a retried send fans out over the rows    *)
(* that the first attempt has mailed ("Idempotent").                       *)
OneCopyEach == \A p \in People : copies[p] <= (IF row[p] = "sent" THEN 1 ELSE 0)

(* What a tick past a page knows of the people before its cursor.          *)
TickKnows(w) ==
  /\ At(w, "gate") => after[w] = 0
  /\ At(w, "fanout") => \A p \in loyal : p <= after[w] => HasRow(p)
  /\ At(w, "flip") => \A p \in loyal : HasRow(p)

(* Rows are claimed only once the send has begun.                          *)
ClaimedBegun ==
  touched \/ (\E p \in People : row[p] = "sending") => \A p \in loyal : HasRow(p)

NewsletterInv ==
  /\ TypeOK
  /\ \A w \in Workers : TickKnows(w)
  /\ ClaimedBegun /\ (status = "cancelled" => stopped)
  /\ CompleteAudience
  /\ OneCopyEach

(* Nothing starts or restarts a send while the gate refuses: neither the   *)
(* flip of a tick that checked it earlier, nor the engine's reopening, nor *)
(* an admin's retry.                                                       *)
GateNeverBypassed ==
  [][status' # status /\ status' \in {"scheduled", "sending"} => open]_vars

(* A refusal leaves the send scheduled, and it goes out once the gate      *)
(* opens, also when the gate closes between the check and the flip: unless *)
(* a call fails (which fails the send) or an admin clicks.                 *)
HeldSendGoesOut ==
  [](faults = 0 /\ clicks = 0) => (status = "scheduled" ~> status = "sent")

(* "Overlapping ticks are safe" (dispatch-scheduled.ts:59): without an     *)
(* admin's click and without the reputation gate, nothing stops a send     *)
(* that has started.                                                       *)
OverlapHarmless ==
  [][status = "sending" => status' \in {"sending", "sent"} \/ TripPause]_vars

(* "an in-flight tick that finishes after the cancel must not relabel it"  *)
(* (engine.ts:552): only an admin's Retry takes a cancel back.             *)
CancelStands == [][status = "cancelled" => status' \in {"cancelled", "scheduled"}]_vars
=============================================================================
