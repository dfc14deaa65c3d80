----------------------------- MODULE SendEngine -----------------------------
(***************************************************************************)
(* The Central Sending Service drip engine (runDripTick) over the Postgres *)
(* tables it shares with the admin pages and with other replicas: sends,   *)
(* a queue of recipient rows, and batches.  A worker is one tick in        *)
(* progress.  Every database or provider call the tick awaits is one step, *)
(* so another tick, an admin or time may come between any two of them.     *)
(***************************************************************************)
EXTENDS Integers, FiniteSets

CONSTANTS
  Rows,         \* recipient rows (<domain>_send_recipients)
  Sends,        \* parent sends (<domain>_sends)
  SendOf,       \* SendOf[r]: the send of row r (send_id)
  Late,         \* rows an overlapping dispatch tick inserts after the flip
  Planned,      \* Planned[s]: total_recipients (0 where dispatch leaves it)
  Erasable,     \* addresses compliance may erase during a behaviour
  Workers,      \* ticks that may overlap
  Paced,        \* TRUE: the Slack binding (minIntervalMs > 0, one message
                \* per call, no email_send_log); FALSE: the email bindings
  BatchSize,    \* recipients per provider call
  ClaimLimit,   \* config.claimBatch
  MaxAttempts,  \* config.maxAttempts; 0 is the email default, no cap
  Hazards,      \* which of HazardKinds may happen
  MaxBatches,   \* bound: provider calls in a behaviour
  MaxFaults,    \* bound: crashes, failed calls, short quota grants
  MaxAdmin      \* bound: clicks of Pause, Resume and Stop, blind writes, erasures

(* "window": a crash after the provider accepted a batch and before its    *)
(* rows are marked; "lost_reply": the provider delivered but the reply was *)
(* an error; "slow_tick": a live tick holds rows past the sweeper's age;   *)
(* "lost_update": the UPDATE that marks rows 'sent' fails (it is logged);  *)
(* "blind_write": a newsletter page or dispatcher sets the status of a     *)
(* send whatever it is.                                                    *)
HazardKinds == {"window", "lost_reply", "slow_tick", "lost_update", "blind_write"}

Batches == 1..MaxBatches
NoBatch == 0

ASSUME RowsAssumption ==
  /\ IsFiniteSet(Rows) /\ Sends # {} /\ SendOf \in [Rows -> Sends]
  /\ Late \subseteq Rows /\ Erasable \subseteq Rows
  /\ Planned \in [Sends -> Nat]
ASSUME ConfigAssumption ==
  /\ Paced \in BOOLEAN /\ Hazards \subseteq HazardKinds
  /\ BatchSize \in Nat \ {0} /\ ClaimLimit \in Nat \ {0} /\ MaxAttempts \in Nat
  /\ MaxBatches \in Nat /\ MaxFaults \in Nat /\ MaxAdmin \in Nat

VARIABLES
  rowStatus,    \* "absent" until fanned out
  rowAttempts,  \* attempts, kept only where MaxAttempts reads it
  rowBatch,     \* batch_id
  rowStale,     \* 'sending' rows whose updated_at is over 15 minutes old
  sendStatus,
  reported,     \* sent_count and failed_count of a send
  sendIdle,     \* updated_at is over STRANDED_AFTER_MS (10 minutes) old
  sendRecent,   \* completed_at is within REOPEN_WINDOW_MS (20 minutes)
  batchStatus,
  batchOld,     \* 'posting' batches whose posted_at is over 60 seconds old
  erased,       \* addresses on the compliance suppression list
  barred,       \* of those, the ones erased while their row was unclaimed
  blind,        \* history: sends whose status was ever set blindly
  todo,         \* per tick: claimed rows not yet grouped under a send,
  grp,          \*   rows of the current send still to post,
  slice,        \*   rows of the batch being posted,
  rel,          \*   rows about to be released or skipped,
  pc, next,     \*   the call it makes next; where it goes on after a helper,
  cur, batch,   \*   the send and the batch row it works on,
  touched,      \*   sends to finalize,
  cancels,      \*   sends found 'cancelling', not yet swept,
  budget,       \*   "fresh": surely not spent; "stop": the tick must end,
  reply,        \*   the provider's reply to the batch,
  read,         \*   and what finalizeSend has read so far
  copies,       \* history: messages the provider delivered for a row,
  tries,        \*   calls made for a row, but for those that halt its send,
  lost,         \*   of these, the ones whose outcome was never recorded,
  late,         \*   calls tick w made for send s since s left 'sending'
  faults, admins

rowVars   == <<rowStatus, rowAttempts, rowBatch, rowStale>>
sendVars  == <<sendStatus, reported, sendIdle, sendRecent>>
batchVars == <<batchStatus, batchOld>>
dbVars    == <<rowVars, sendVars, batchVars>>
eraseVars == <<erased, barred, blind>>
heldVars  == <<todo, grp, slice, rel>>
jobVars   == <<cur, touched, cancels, budget, read>>
callVars  == <<batch, reply>>
memVars   == <<next, jobVars, callVars>>
tickVars  == <<heldVars, pc, memVars>>
histVars  == <<copies, tries, lost, late>>
boundVars == <<faults, admins>>
envVars   == <<eraseVars, histVars, boundVars>>
vars == <<dbVars, tickVars, envVars>>

RowStatus   == {"absent", "pending", "sending", "sent", "failed", "skipped"}
SendStatus  == {"sending", "paused", "cancelling", "cancelled", "sent", "failed"}
BatchStatus == {"none", "posting", "accepted", "failed", "rejected"}
Replies     == {"none", "accepted", "retry", "backoff", "terminal", "halt"}
Settled     == {"sent", "failed", "skipped"}
Queries     == {"open"} \cup Settled
Labels == {"idle", "stuck", "recover", "recent", "reopen", "stranded",
           "claim", "gate", "group", "pace", "quota", "insert", "post", "mark",
           "haltPause", "close", "pauseSend", "release", "skip", "cancelling",
           "sweepCancelled", "finalize", "counts", "readSend", "write"}
AfterHelper == {"idle", "stranded", "group", "insert", "pauseSend", "cancelling", "finalize"}

Outstanding == {"pending", "sending"}
RowsOf(s) == {r \in Rows : SendOf[r] = s}
With(s, S) == {r \in RowsOf(s) : rowStatus[r] \in S}
Open(s) == With(s, Outstanding)
Held(w) == todo[w] \cup grp[w] \cup slice[w] \cup rel[w]
Least(a, b) == IF a < b THEN a ELSE b

Budgets == {"fresh", "unsure", "stop"}
NothingRead == [unread |-> {}, count |-> [q \in Queries |-> 0], seen |-> "sending"]
Reads == [unread : SUBSET Queries, count : [Queries -> Nat], seen : SendStatus]
AnySend == CHOOSE s \in Sends : TRUE
Calls == Workers \X Sends

(* The tables as a dispatch tick leaves them: every row fanned out except  *)
(* the late ones, and the send flipped to 'sending'.                       *)
Init ==
  /\ rowStatus = [r \in Rows |-> IF r \in Late THEN "absent" ELSE "pending"]
  /\ rowAttempts = [r \in Rows |-> 0] /\ rowBatch = [r \in Rows |-> NoBatch]
  /\ rowStale = {}
  /\ sendStatus = [s \in Sends |-> "sending"]
  /\ reported = [s \in Sends |-> [sent |-> 0, failed |-> 0]]
  /\ sendIdle = {} /\ sendRecent = {}
  /\ batchStatus = [b \in Batches |-> "none"] /\ batchOld = {}
  /\ erased = {} /\ barred = {} /\ blind = {}
  /\ todo = [w \in Workers |-> {}] /\ grp = [w \in Workers |-> {}]
  /\ slice = [w \in Workers |-> {}] /\ rel = [w \in Workers |-> {}]
  /\ pc = [w \in Workers |-> "idle"] /\ next = [w \in Workers |-> "idle"]
  /\ cur = [w \in Workers |-> AnySend] /\ batch = [w \in Workers |-> NoBatch]
  /\ touched = [w \in Workers |-> {}] /\ cancels = [w \in Workers |-> {}]
  /\ budget = [w \in Workers |-> "fresh"] /\ reply = [w \in Workers |-> "none"]
  /\ read = [w \in Workers |-> NothingRead]
  /\ copies = [r \in Rows |-> 0] /\ tries = [r \in Rows |-> 0]
  /\ lost = [r \in Rows |-> 0] /\ late = [k \in Calls |-> 0]
  /\ faults = 0 /\ admins = 0

At(w, label) == pc[w] = label
Goto(w, label) == pc' = [pc EXCEPT ![w] = label]
(* Go to a helper, and on to then when it is done. *)
GotoVia(w, label, then) == Goto(w, label) /\ next' = [next EXCEPT ![w] = then]
Return(w) == GotoVia(w, next[w], "idle")
(* The memory of a tick that is over, or has crashed. *)
Forget(w) ==
  /\ GotoVia(w, "idle", "idle")
  /\ cur' = [cur EXCEPT ![w] = AnySend] /\ batch' = [batch EXCEPT ![w] = NoBatch]
  /\ touched' = [touched EXCEPT ![w] = {}] /\ cancels' = [cancels EXCEPT ![w] = {}]
  /\ budget' = [budget EXCEPT ![w] = "fresh"] /\ reply' = [reply EXCEPT ![w] = "none"]
  /\ read' = [read EXCEPT ![w] = NothingRead]
Fault == faults < MaxFaults /\ faults' = faults + 1 /\ UNCHANGED admins
NoFault == UNCHANGED boundVars

(* One UPDATE of the recipients table; it renews updated_at. *)
SetRows(R, status) ==
  /\ rowStatus' = [r \in Rows |-> IF r \in R THEN status ELSE rowStatus[r]]
  /\ rowStale' = rowStale \ R

(* One UPDATE of a send's status; it renews updated_at. *)
SetSend(s, status) ==
  /\ sendStatus' = [sendStatus EXCEPT ![s] = status]
  /\ sendIdle' = sendIdle \ {s}
  /\ late' = IF status = "sending" THEN [k \in Calls |-> IF k[2] = s THEN 0 ELSE late[k]] ELSE late

(* The same under a compare-and-swap condition. *)
SetSendIf(ok, s, status) ==
  IF ok THEN SetSend(s, status) ELSE UNCHANGED <<sendStatus, sendIdle, late>>

(* The filter .eq('status', 'sending') of the writes that put rows back or *)
(* fail them: a cancel sweep that marked a row 'skipped' meanwhile stands. *)
StillSendingDropped(R) == R
StillSending(R) == {r \in R : rowStatus[r] = "sending"}

-----------------------------------------------------------------------------
(* Before the claim loop: sweeper, batch recovery, reopen, stranded sends. *)

(* release_stuck_send_rows: 'sending' rows older than 15 minutes go back. *)
Sweep(w) ==
  /\ At(w, "idle")
  /\ SetRows(rowStale, "pending")
  /\ Goto(w, "stuck")
  /\ UNCHANGED <<rowAttempts, rowBatch, sendVars, batchVars, heldVars, memVars, envVars>>

FindStuckBatch(w) ==
  LET stuck == {b \in batchOld : batchStatus[b] = "posting"}
  IN  /\ At(w, "stuck")
      /\ \/ stuck = {} /\ Goto(w, "recent") /\ UNCHANGED batch
         \/ \E b \in stuck : Goto(w, "recover") /\ batch' = [batch EXCEPT ![w] = b]
      /\ UNCHANGED <<dbVars, heldVars, next, jobVars, reply, envVars>>

BatchRowsAnyStatus(b) == {r \in Rows : rowBatch[r] = b}
BatchRows(b) == {r \in Rows : rowBatch[r] = b /\ rowStatus[r] = "sending"}

(* A 'posting' batch has no provider_batch_id: only the write that makes   *)
(* it 'accepted' sets one.  So recoverPostingBatches always takes its      *)
(* "never reached the provider" branch and calls releaseBatchRecipients.   *)
RecoverBatch(w) ==
  LET b == batch[w] IN
  /\ At(w, "recover")
  /\ SetRows(BatchRows(b), "pending")
  /\ rowBatch' = [r \in Rows |-> IF r \in BatchRows(b) THEN NoBatch ELSE rowBatch[r]]
  /\ batchStatus' = [batchStatus EXCEPT ![b] = "failed"]
  /\ batchOld' = batchOld \ {b}
  /\ Goto(w, "stuck") /\ batch' = [batch EXCEPT ![w] = NoBatch]
  /\ UNCHANGED <<rowAttempts, sendVars, heldVars, next, jobVars, reply, envVars>>

(* reopenPrematurelyCompleted: a recent 'sent' send with rows outstanding. *)
FindPremature(w) ==
  LET early == {s \in sendRecent : sendStatus[s] = "sent" /\ Open(s) # {}}
  IN  /\ At(w, "recent")
      /\ \/ early = {} /\ Goto(w, "stranded") /\ UNCHANGED cur
         \/ \E s \in early : Goto(w, "reopen") /\ cur' = [cur EXCEPT ![w] = s]
      /\ UNCHANGED <<dbVars, heldVars, next, touched, cancels, budget, read, callVars,
                     envVars>>

(* Compare-and-swap 'sent' -> 'sending'; completed_at is cleared. *)
Reopen(w) ==
  LET s == cur[w] IN
  /\ At(w, "reopen")
  /\ SetSendIf(sendStatus[s] = "sent", s, "sending")
  /\ sendRecent' = IF sendStatus[s] = "sent" THEN sendRecent \ {s} ELSE sendRecent
  /\ Goto(w, "recent")
  /\ UNCHANGED <<rowVars, reported, batchVars, eraseVars, heldVars, memVars, copies,
                 tries, lost, boundVars>>

(* Start finalizeSend(s): concurrent counts, then the send, then the write. *)
BeginFinalize(w, s, then) ==
  /\ GotoVia(w, "counts", then)
  /\ cur' = [cur EXCEPT ![w] = s]
  /\ touched' = [touched EXCEPT ![w] = @ \ {s}]
  /\ read' = [read EXCEPT ![w] = [unread |-> Queries, count |-> NothingRead.count,
                                  seen |-> "sending"]]

(* finalizeStranded: 'sending' for 10 minutes with nothing outstanding. *)
StrandedNever == {}
Stranded == {s \in sendIdle : sendStatus[s] = "sending" /\ Open(s) = {}}

FindStranded(w) ==
  /\ At(w, "stranded")
  /\ \/ Stranded = {} /\ Goto(w, "claim") /\ UNCHANGED <<next, cur, touched, read>>
     \/ \E s \in Stranded : BeginFinalize(w, s, "stranded")
  /\ UNCHANGED <<dbVars, heldVars, cancels, budget, callVars, envVars>>

-----------------------------------------------------------------------------
(* The claim loop. *)

(* claim_due_*_recipients: pending, due, under a send being sent. *)
DueOrSending == {r \in Rows : rowStatus[r] \in Outstanding /\ sendStatus[SendOf[r]] = "sending"}
Due == {r \in Rows : rowStatus[r] = "pending" /\ sendStatus[SendOf[r]] = "sending"}

(* FOR UPDATE SKIP LOCKED gives up to ClaimLimit due rows, to this tick    *)
(* only; the claim adds one to attempts.                                   *)
Claim(w) ==
  /\ At(w, "claim")
  /\ \E C \in SUBSET Due \ {{}} :
       /\ Cardinality(C) <= ClaimLimit
       /\ SetRows(C, "sending")
       /\ rowAttempts' = [r \in Rows |-> IF r \in C /\ MaxAttempts > 0
                                         THEN rowAttempts[r] + 1 ELSE rowAttempts[r]]
       /\ todo' = [todo EXCEPT ![w] = C]
  /\ Goto(w, "gate")
  /\ UNCHANGED <<rowBatch, sendVars, batchVars, grp, slice, rel, memVars, envVars>>

(* The loop ends: nothing due, or the budget is spent. *)
EndLoop(w) ==
  /\ At(w, "claim")
  /\ Due = {} \/ budget[w] # "fresh"
  /\ Goto(w, "cancelling")
  /\ UNCHANGED <<dbVars, heldVars, memVars, envVars>>

(* splitSuppressed: erased addresses are marked 'skipped', never mailed. *)
SuppressionGate(w) ==
  LET hit == todo[w] \cap erased IN
  /\ At(w, "gate")
  /\ todo' = [todo EXCEPT ![w] = @ \ hit]
  /\ rel' = [rel EXCEPT ![w] = hit]
  /\ touched' = [touched EXCEPT ![w] = @ \cup {SendOf[r] : r \in hit}]
  /\ GotoVia(w, "skip", "group")
  /\ UNCHANGED <<dbVars, grp, slice, cur, cancels, budget, read, callVars, envVars>>

GateErrorIgnored(w) ==
  /\ At(w, "gate") /\ Fault
  /\ Goto(w, "group")
  /\ UNCHANGED <<dbVars, heldVars, memVars, eraseVars, histVars>>

(* The lookup failed: hold the whole claim rather than risk an erased one. *)
GateError(w) ==
  /\ At(w, "gate") /\ Fault
  /\ todo' = [todo EXCEPT ![w] = {}]
  /\ rel' = [rel EXCEPT ![w] = todo[w]]
  /\ GotoVia(w, "release", "cancelling")
  /\ UNCHANGED <<dbVars, grp, slice, jobVars, callVars, eraseVars, histVars>>

OneLessUnchecked(n) == n - 1
OneLess(n) == IF n > 0 THEN n - 1 ELSE 0

(* releaseUntried: the rows go back and, under a cap, lose the claim's attempt. *)
Release(w) ==
  LET back == StillSending(rel[w]) IN
  /\ At(w, "release")
  /\ SetRows(back, "pending")
  /\ rowAttempts' = [r \in Rows |-> IF r \in back THEN OneLess(rowAttempts[r])
                                                  ELSE rowAttempts[r]]
  /\ rel' = [rel EXCEPT ![w] = {}]
  /\ Return(w)
  /\ UNCHANGED <<rowBatch, sendVars, batchVars, todo, grp, slice, jobVars, callVars,
                 envVars>>

(* markRows(..., 'skipped'): not guarded by the rows' status. *)
Skip(w) ==
  /\ At(w, "skip")
  /\ SetRows(rel[w], "skipped")
  /\ rel' = [rel EXCEPT ![w] = {}]
  /\ Return(w)
  /\ UNCHANGED <<rowAttempts, rowBatch, sendVars, batchVars, todo, grp, slice, jobVars,
                 callVars, envVars>>

(* Time passes; the budget may be spent from here on. *)
Spend(w) ==
  budget' = IF budget[w] = "fresh" THEN [budget EXCEPT ![w] = "unsure"] ELSE budget

(* All groups of the claim are dealt with: claim again, or stop. *)
NextClaim(w) ==
  /\ At(w, "group") /\ todo[w] = {}
  /\ Goto(w, IF budget[w] = "stop" THEN "cancelling" ELSE "claim")
  /\ Spend(w)
  /\ UNCHANGED <<dbVars, heldVars, next, cur, touched, cancels, read, callVars, envVars>>

(* Take the rows of one send and read its status.  A tick that is stopping *)
(* puts them back, as it does for a paused send and for one that has no    *)
(* content yet (buildSendContext gives null); a stopped send's are skipped. *)
OpenGroup(w) ==
  /\ At(w, "group")
  /\ \E s \in {SendOf[r] : r \in todo[w]} :
       LET g == todo[w] \cap RowsOf(s)
           back == budget[w] = "stop" \/ sendStatus[s] = "paused"
           cancel == ~back /\ sendStatus[s] \in {"cancelling", "cancelled"}
       IN  /\ todo' = [todo EXCEPT ![w] = @ \ g]
           /\ touched' = [touched EXCEPT ![w] = @ \cup {s}]
           /\ cur' = [cur EXCEPT ![w] = s]
           /\ \/ /\ ~back /\ ~cancel
                 /\ grp' = [grp EXCEPT ![w] = g]
                 /\ GotoVia(w, IF Paced THEN "pace" ELSE "quota", "group")
                 /\ NoFault /\ UNCHANGED rel
              \/ /\ IF back \/ cancel THEN NoFault ELSE Fault
                 /\ rel' = [rel EXCEPT ![w] = g]
                 /\ GotoVia(w, IF cancel THEN "skip" ELSE "release", "group")
                 /\ UNCHANGED grp
  /\ UNCHANGED <<dbVars, slice, cancels, budget, read, callVars, eraseVars, histVars>>

(* Put back the rest of the current group, then go on. *)
LeaveGroup(w, then) ==
  /\ rel' = [rel EXCEPT ![w] = grp[w]]
  /\ grp' = [grp EXCEPT ![w] = {}]
  /\ GotoVia(w, "release", then)
  /\ UNCHANGED <<todo, slice>>

(* Paced: no message is started past the budget; the whole tick stops. *)
PaceStop(w) ==
  /\ At(w, "pace") /\ budget[w] # "fresh"
  /\ LeaveGroup(w, "group")
  /\ budget' = [budget EXCEPT ![w] = "stop"]
  /\ UNCHANGED <<dbVars, cur, touched, cancels, read, callVars, envVars>>

MayGoOnUnlessStopped(s) == sendStatus[s] \in {"sending", "paused"}
MayGoOn(s) == sendStatus[s] = "sending"

(* Paced: between messages the send is read again; Pause and Stop land here. *)
PaceRead(w) ==
  /\ At(w, "pace")
  /\ IF MayGoOn(cur[w]) THEN Goto(w, "quota") /\ UNCHANGED <<heldVars, next>>
                        ELSE LeaveGroup(w, "group")
  /\ UNCHANGED <<dbVars, jobVars, callVars, envVars>>

(* shouldAbortForReputation trips: bounces or spam reports of the last     *)
(* minute.  Only channels that write email_send_log have the gate.         *)
ReputationTrip(w) ==
  /\ At(w, "quota") /\ ~Paced /\ Fault
  /\ LeaveGroup(w, "pauseSend")
  /\ UNCHANGED <<dbVars, jobVars, callVars, eraseVars, histVars>>

(* The pause of the reputation gate is not a compare-and-swap. *)
PauseSend(w) ==
  /\ At(w, "pauseSend")
  /\ SetSend(cur[w], "paused")
  /\ Goto(w, "group")
  /\ UNCHANGED <<rowVars, reported, sendRecent, batchVars, eraseVars, heldVars, memVars,
                 copies, tries, lost, boundVars>>

(* claim_drip_quota grants all of the next batch or part of it; what is    *)
(* not granted goes back before the call.                                  *)
ClaimQuota(w) ==
  /\ At(w, "quota")
  /\ \E B \in SUBSET grp[w] : \E S \in SUBSET B \ {{}} :
       /\ Cardinality(B) = Least(BatchSize, Cardinality(grp[w]))
       /\ IF S = B THEN NoFault ELSE Fault
       /\ slice' = [slice EXCEPT ![w] = S]
       /\ grp' = [grp EXCEPT ![w] = @ \ B]
       /\ rel' = [rel EXCEPT ![w] = B \ S]
  /\ GotoVia(w, "release", "insert")
  /\ UNCHANGED <<dbVars, todo, jobVars, callVars, eraseVars, histVars>>

(* Nothing granted: the group is left. *)
QuotaSpent(w) ==
  /\ At(w, "quota") /\ Fault
  /\ LeaveGroup(w, "group")
  /\ UNCHANGED <<dbVars, jobVars, callVars, eraseVars, histVars>>

-----------------------------------------------------------------------------
(* postBatch. *)

Unused == {b \in Batches : batchStatus[b] = "none"}

InsertBatch(w) ==
  /\ At(w, "insert")
  /\ \E b \in Unused :
       /\ \A c \in Unused : b <= c
       /\ batchStatus' = [batchStatus EXCEPT ![b] = "posting"]
       /\ batch' = [batch EXCEPT ![w] = b]
  /\ Goto(w, "post")
  /\ UNCHANGED <<rowVars, sendVars, batchOld, heldVars, next, jobVars, reply, envVars>>

(* A failed insert is not looked at: the batch is posted without a row.    *)
InsertFails(w) ==
  /\ At(w, "insert") /\ Fault
  /\ Goto(w, "post")
  /\ UNCHANGED <<dbVars, heldVars, memVars, eraseVars, histVars>>

(* One provider call for the slice: D is what it delivers, answer what the *)
(* tick sees of it.  A person is tried by the call, unless it halts the    *)
(* send: then the person is not at fault.                                  *)
ProviderCall(w, D, answer) ==
  LET s == cur[w]
      tried == IF answer = "halt" THEN {} ELSE slice[w] IN
  /\ At(w, "post")
  /\ tries' = [r \in Rows |-> IF r \in tried THEN tries[r] + 1 ELSE tries[r]]
  /\ copies' = [r \in Rows |-> IF r \in D THEN copies[r] + 1 ELSE copies[r]]
  /\ late' = [late EXCEPT ![<<w, s>>] = IF sendStatus[s] = "sending" THEN @ ELSE @ + 1]
  /\ reply' = [reply EXCEPT ![w] = answer]
  /\ Goto(w, "mark") /\ Spend(w)
  /\ UNCHANGED <<dbVars, eraseVars, heldVars, next, cur, batch, touched, cancels, read,
                 lost>>

PostAccepted(w) == ProviderCall(w, slice[w], "accepted") /\ NoFault

(* Refusals.  Only the Slack provider asks to halt the send or back off.   *)
PostRefused(w) ==
  /\ Fault
  /\ \E answer \in {"retry", "terminal"} \cup (IF Paced THEN {"halt", "backoff"} ELSE {}) :
       ProviderCall(w, {}, answer)

(* The message went out but the reply did not come back.  Without any      *)
(* response Slack gives up on the row; but it retries it after a response  *)
(* that is no JSON, as of a 5xx, or breaks off.  SendGrid and Twilio report *)
(* the whole batch retryable, also when Twilio delivered part of it; then  *)
(* it is terminal if all that was refused was refused for good.            *)
PostLostReply(w) ==
  /\ Fault
  /\ \/ Paced /\ ProviderCall(w, slice[w], "terminal")
     \/ /\ "lost_reply" \in Hazards
        /\ \E D \in SUBSET slice[w] \ {{}} : ProviderCall(w, D, "retry")
     \/ /\ ~Paced /\ "lost_reply" \in Hazards
        /\ \E D \in SUBSET slice[w] \ {{}, slice[w]} : ProviderCall(w, D, "terminal")

(* The rows one accepted call is credited with. *)
PostedWithRest(w) == slice[w] \cup grp[w]
Posted(w) == slice[w]

(* Accepted: the rows become 'sent' whatever their status is by now, and   *)
(* are linked to the batch, if it has a row.                               *)
MarkSent(w) ==
  /\ At(w, "mark") /\ reply[w] = "accepted"
  /\ SetRows(Posted(w), "sent")
  /\ rowBatch' = [r \in Rows |-> IF r \in Posted(w) /\ batch[w] # NoBatch THEN batch[w]
                                                                        ELSE rowBatch[r]]
  /\ slice' = [slice EXCEPT ![w] = {}]
  /\ Goto(w, "close")
  /\ UNCHANGED <<rowAttempts, sendVars, batchVars, todo, grp, rel, memVars, envVars>>

(* What delivery leaves to be marked: if it never is, nothing on record     *)
(* tells that the person got the message.                                  *)
InWindow(w) ==
  At(w, "mark") /\ (reply[w] = "accepted" \/ (Paced /\ reply[w] = "terminal"))

(* The slice is let go and its outcome is recorded nowhere. *)
LoseOutcome(w) ==
  LET tried == IF At(w, "mark") /\ reply[w] # "halt" THEN slice[w] ELSE {} IN
  /\ lost' = [r \in Rows |-> IF r \in tried THEN lost[r] + 1 ELSE lost[r]]
  /\ slice' = [slice EXCEPT ![w] = {}]

AfterMark(w) == IF reply[w] = "halt" THEN "haltPause" ELSE "close"

(* updateRowsByIds only logs a failed UPDATE, and the tick goes on. *)
MarkLost(w) ==
  /\ At(w, "mark") /\ Fault
  /\ InWindow(w) => "lost_update" \in Hazards
  /\ LoseOutcome(w)
  /\ Goto(w, AfterMark(w))
  /\ UNCHANGED <<dbVars, todo, grp, rel, memVars, eraseVars, copies, tries, late>>

ExhaustedLater(r) == MaxAttempts > 0 /\ rowAttempts[r] > MaxAttempts
Exhausted(r) == MaxAttempts > 0 /\ rowAttempts[r] >= MaxAttempts

(* Refused: retryable rows go back unless their attempts are used up,      *)
(* a halted send's rows always go back; only rows still 'sending' change.  *)
MarkRefused(w) ==
  LET mine == StillSending(slice[w])
      dead == {r \in mine : reply[w] = "terminal" \/ (reply[w] # "halt" /\ Exhausted(r))}
  IN  /\ At(w, "mark") /\ reply[w] # "accepted"
      /\ rowStatus' = [r \in Rows |-> IF r \in dead THEN "failed"
                                      ELSE IF r \in mine THEN "pending" ELSE rowStatus[r]]
      /\ rowStale' = rowStale \ mine
      /\ slice' = [slice EXCEPT ![w] = {}]
      /\ Goto(w, AfterMark(w))
      /\ UNCHANGED <<rowAttempts, rowBatch, sendVars, batchVars, todo, grp, rel, memVars,
                     envVars>>

MayHaltAny(s) == TRUE
MayHalt(s) == sendStatus[s] = "sending"

(* A halted send is paused, unless a cancel got there first. *)
HaltPause(w) ==
  /\ At(w, "haltPause")
  /\ SetSendIf(MayHalt(cur[w]), cur[w], "paused")
  /\ Goto(w, "close")
  /\ UNCHANGED <<rowVars, reported, sendRecent, batchVars, eraseVars, heldVars, memVars,
                 copies, tries, lost, boundVars>>

Outcome(answer) ==
  IF answer = "accepted" THEN "accepted"
  ELSE IF answer = "terminal" THEN "rejected" ELSE "failed"

(* Close the batch row, then post the next batch of the group, or put the  *)
(* group back after a halt or a back-off; a back-off stops the tick.       *)
CloseBatch(w) ==
  /\ At(w, "close")
  /\ batchStatus' = [b \in Batches |-> IF b = batch[w] THEN Outcome(reply[w])
                                                        ELSE batchStatus[b]]
  /\ batchOld' = batchOld \ {batch[w]}
  /\ batch' = [batch EXCEPT ![w] = NoBatch]
  /\ reply' = [reply EXCEPT ![w] = "none"]
  /\ budget' = IF reply[w] = "backoff" THEN [budget EXCEPT ![w] = "stop"] ELSE budget
  /\ IF reply[w] \in {"halt", "backoff"} \/ grp[w] = {}
       THEN LeaveGroup(w, "group")
       ELSE /\ GotoVia(w, IF Paced THEN "pace" ELSE "quota", "group")
            /\ UNCHANGED heldVars
  /\ UNCHANGED <<rowVars, sendVars, cur, touched, cancels, read, envVars>>

-----------------------------------------------------------------------------
(* After the loop: cancellation, then finalizeSend for every send touched. *)

ListCancelling(w) ==
  LET stopping == {s \in Sends : sendStatus[s] = "cancelling"}
  IN  /\ At(w, "cancelling")
      /\ cancels' = [cancels EXCEPT ![w] = stopping]
      /\ Goto(w, IF stopping = {} THEN "finalize" ELSE "sweepCancelled")
      /\ UNCHANGED <<dbVars, heldVars, next, cur, touched, budget, read, callVars, envVars>>

(* One UPDATE per stopped send, each by send_id and status. *)
SweepCancelled(w) ==
  /\ At(w, "sweepCancelled")
  /\ \E s \in cancels[w] :
       /\ SetRows(Open(s), "skipped")
       /\ cancels' = [cancels EXCEPT ![w] = @ \ {s}]
       /\ touched' = [touched EXCEPT ![w] = @ \cup {s}]
       /\ Goto(w, IF cancels[w] = {s} THEN "finalize" ELSE "sweepCancelled")
  /\ UNCHANGED <<rowAttempts, rowBatch, sendVars, batchVars, heldVars, next, cur, budget,
                 read, callVars, envVars>>

Finalize(w) ==
  /\ At(w, "finalize")
  /\ \/ touched[w] = {} /\ Forget(w)
     \/ /\ \E s \in touched[w] : BeginFinalize(w, s, "finalize")
        /\ UNCHANGED <<cancels, budget, callVars>>
  /\ UNCHANGED <<dbVars, heldVars, envVars>>

CountOf(s, q) == Cardinality(IF q = "open" THEN Open(s) ELSE With(s, {q}))

(* The counts are concurrent queries, answered in any order, at different  *)
(* moments.                                                                *)
ReadCount(w) ==
  /\ At(w, "counts")
  /\ \E q \in read[w].unread :
       /\ read' = [read EXCEPT ![w].unread = @ \ {q},
                              ![w].count = [@ EXCEPT ![q] = CountOf(cur[w], q)]]
       /\ Goto(w, IF read[w].unread = {q} THEN "readSend" ELSE "counts")
  /\ UNCHANGED <<dbVars, heldVars, next, cur, touched, cancels, budget, callVars, envVars>>

ReadSend(w) ==
  /\ At(w, "readSend")
  /\ read' = [read EXCEPT ![w].seen = sendStatus[cur[w]]]
  /\ Goto(w, "write")
  /\ UNCHANGED <<dbVars, heldVars, next, cur, touched, cancels, budget, callVars, envVars>>

EndFinalize(w) ==
  /\ read' = [read EXCEPT ![w] = NothingRead]
  /\ Return(w)
  /\ UNCHANGED <<heldVars, cur, touched, cancels, budget, callVars>>

(* What finalizeSend decides from its reads: the send is over when nothing *)
(* is outstanding and every planned row is terminal, or it was stopped.    *)
Settles(s, c, seen) ==
  /\ c["open"] = 0 /\ seen # "cancelled"
  /\ \/ seen = "cancelling" \/ Planned[s] = 0
     \/ c["sent"] + c["failed"] + c["skipped"] >= Planned[s]

Verdict(c, seen) ==
  IF seen = "cancelling" THEN "cancelled"
  ELSE IF c["sent"] = 0 /\ c["failed"] > 0 THEN "failed" ELSE "sent"

(* The write.  A change of status is a compare-and-swap on the status      *)
(* read; a write of the counts alone is not.                               *)
WriteFinal(w) ==
  LET s == cur[w]
      c == read[w].count
      seen == read[w].seen
      settles == Settles(s, c, seen)
      status == IF settles THEN Verdict(c, seen) ELSE sendStatus[s]
  IN  /\ At(w, "write")
      /\ IF settles /\ sendStatus[s] # seen
           THEN UNCHANGED sendVars
           ELSE /\ reported' = [reported EXCEPT ![s] =
                                  [sent |-> c["sent"], failed |-> c["failed"]]]
                /\ sendIdle' = sendIdle \ {s}
                /\ sendStatus' = [sendStatus EXCEPT ![s] = status]
                /\ sendRecent' = IF settles THEN sendRecent \cup {s} ELSE sendRecent
      /\ EndFinalize(w)
      /\ UNCHANGED <<rowVars, batchVars, envVars>>

FinalizeErrorAsZero(w) ==
  /\ At(w, "counts") /\ Fault
  /\ read' = [read EXCEPT ![w].unread = {}]
  /\ Goto(w, "readSend")
  /\ UNCHANGED <<dbVars, heldVars, next, cur, touched, cancels, budget, callVars,
                 eraseVars, histVars>>

(* A failed read or write throws; the tick logs it and goes on. *)
FinalizeError(w) ==
  /\ pc[w] \in {"counts", "readSend", "write"} /\ Fault
  /\ EndFinalize(w)
  /\ UNCHANGED <<dbVars, eraseVars, histVars>>

-----------------------------------------------------------------------------
(* The environment: crashes, time, admins, compliance, other dispatchers.  *)

(* The process dies: only what the tick kept in memory is lost. *)
Crash(w) ==
  /\ ~At(w, "idle")
  /\ InWindow(w) => "window" \in Hazards
  /\ Fault
  /\ todo' = [todo EXCEPT ![w] = {}] /\ grp' = [grp EXCEPT ![w] = {}]
  /\ LoseOutcome(w) /\ rel' = [rel EXCEPT ![w] = {}]
  /\ Forget(w)
  /\ UNCHANGED <<dbVars, eraseVars, copies, tries, late>>

(* A 'sending' row turns 15 minutes old.  A live tick is over long before, *)
(* unless it is slow.                                                      *)
AgeRow(r) ==
  /\ rowStatus[r] = "sending" /\ r \notin rowStale
  /\ "slow_tick" \in Hazards \/ \A w \in Workers : r \notin Held(w)
  /\ rowStale' = rowStale \cup {r}
  /\ UNCHANGED <<rowStatus, rowAttempts, rowBatch, sendVars, batchVars, tickVars,
                 envVars>>

AgeBatch(b) ==
  /\ batchStatus[b] = "posting" /\ b \notin batchOld
  /\ batchOld' = batchOld \cup {b}
  /\ UNCHANGED <<rowVars, sendVars, batchStatus, tickVars, envVars>>

AgeSend(s) ==
  /\ sendStatus[s] = "sending" /\ s \notin sendIdle
  /\ sendIdle' = sendIdle \cup {s}
  /\ UNCHANGED <<rowVars, sendStatus, reported, sendRecent, batchVars, tickVars,
                 envVars>>

ForgetSend(s) ==
  /\ s \in sendRecent
  /\ sendRecent' = sendRecent \ {s}
  /\ UNCHANGED <<rowVars, sendStatus, reported, sendIdle, batchVars, tickVars,
                 envVars>>

(* The admin page's buttons: compare-and-swap on the status they start from. *)
AdminSets(s, from, to) ==
  /\ admins < MaxAdmin /\ admins' = admins + 1
  /\ sendStatus[s] \in from
  /\ SetSend(s, to)
  /\ UNCHANGED <<rowVars, reported, sendRecent, batchVars, eraseVars, tickVars,
                 copies, tries, lost, faults>>

Pause(s)  == AdminSets(s, {"sending"}, "paused")
Resume(s) == AdminSets(s, {"paused"}, "sending")
Stop(s)   == AdminSets(s, {"sending", "paused"}, "cancelling")

(* What the newsletter binding allows besides: its dispatch tick flips the *)
(* send or marks it failed late, and a page that is behind cancels it,     *)
(* whatever its status is by then.                                         *)
BlindWrite(s, to) ==
  /\ ~Paced /\ "blind_write" \in Hazards
  /\ admins < MaxAdmin /\ admins' = admins + 1
  /\ SetSend(s, to) /\ blind' = blind \cup {s}
  /\ UNCHANGED <<rowVars, reported, sendRecent, batchVars, erased, barred, tickVars,
                 copies, tries, lost, faults>>

(* The compliance module suppresses an address. *)
Erase(r) ==
  /\ r \in Erasable \ erased
  /\ admins < MaxAdmin /\ admins' = admins + 1
  /\ erased' = erased \cup {r}
  /\ barred' = IF rowStatus[r] \in {"absent", "pending"} THEN barred \cup {r} ELSE barred
  /\ UNCHANGED <<dbVars, tickVars, blind, histVars, faults>>

(* An overlapping dispatch tick, still fanning out, inserts a row. *)
LateInsert(r) ==
  /\ rowStatus[r] = "absent"
  /\ SetRows({r}, "pending")
  /\ UNCHANGED <<rowAttempts, rowBatch, sendVars, batchVars, tickVars, envVars>>

-----------------------------------------------------------------------------
Tick(w) ==
  \/ Sweep(w) \/ FindStuckBatch(w) \/ RecoverBatch(w)
  \/ FindPremature(w) \/ Reopen(w) \/ FindStranded(w)
  \/ Claim(w) \/ EndLoop(w) \/ SuppressionGate(w) \/ Release(w) \/ Skip(w)
  \/ NextClaim(w) \/ OpenGroup(w) \/ PaceStop(w) \/ PaceRead(w)
  \/ PauseSend(w) \/ ClaimQuota(w) \/ InsertBatch(w) \/ PostAccepted(w)
  \/ MarkSent(w) \/ MarkRefused(w) \/ HaltPause(w) \/ CloseBatch(w)
  \/ ListCancelling(w) \/ SweepCancelled(w) \/ Finalize(w)
  \/ ReadCount(w) \/ ReadSend(w) \/ WriteFinal(w)

Mishap(w) ==
  \/ GateError(w) \/ ReputationTrip(w) \/ QuotaSpent(w) \/ InsertFails(w)
  \/ PostRefused(w) \/ PostLostReply(w) \/ MarkLost(w) \/ FinalizeError(w) \/ Crash(w)

Environment ==
  \/ \E r \in Rows : AgeRow(r) \/ Erase(r) \/ LateInsert(r)
  \/ \E b \in Batches : AgeBatch(b)
  \/ \E s \in Sends : AgeSend(s) \/ ForgetSend(s) \/ Pause(s) \/ Resume(s) \/ Stop(s)
  \/ \E s \in Sends, to \in {"sending", "failed", "cancelled"} : BlindWrite(s, to)

Next == Environment \/ \E w \in Workers : Tick(w) \/ Mishap(w)

Spec == Init /\ [][Next]_vars

(* The 60s heartbeat keeps starting ticks and a tick that does not crash   *)
(* goes on; time passes.  Nothing forces an admin or a fault.              *)
Fairness ==
  /\ \A w \in Workers : WF_vars(Tick(w))
  /\ \A r \in Rows : WF_vars(AgeRow(r))
  /\ \A s \in Sends : WF_vars(AgeSend(s))

FairSpec == Spec /\ Fairness

-----------------------------------------------------------------------------
RowTypes ==
  /\ rowStatus \in [Rows -> RowStatus] /\ rowAttempts \in [Rows -> Nat]
  /\ rowBatch \in [Rows -> Batches \cup {NoBatch}] /\ rowStale \subseteq Rows
SendTypes ==
  /\ sendStatus \in [Sends -> SendStatus]
  /\ reported \in [Sends -> [sent : Nat, failed : Nat]]
  /\ sendIdle \subseteq Sends /\ sendRecent \subseteq Sends
BatchTypes == batchStatus \in [Batches -> BatchStatus] /\ batchOld \subseteq Batches
HeldTypes ==
  /\ todo \in [Workers -> SUBSET Rows] /\ grp \in [Workers -> SUBSET Rows]
  /\ slice \in [Workers -> SUBSET Rows] /\ rel \in [Workers -> SUBSET Rows]
MemTypes ==
  /\ pc \in [Workers -> Labels] /\ next \in [Workers -> AfterHelper]
  /\ cur \in [Workers -> Sends] /\ batch \in [Workers -> Batches \cup {NoBatch}]
  /\ touched \in [Workers -> SUBSET Sends] /\ cancels \in [Workers -> SUBSET Sends]
  /\ budget \in [Workers -> Budgets] /\ reply \in [Workers -> Replies]
  /\ read \in [Workers -> Reads]
EnvTypes ==
  /\ erased \subseteq Rows /\ barred \subseteq Rows /\ blind \subseteq Sends
  /\ copies \in [Rows -> Nat] /\ tries \in [Rows -> Nat] /\ lost \in [Rows -> Nat]
  /\ late \in [Calls -> Nat]
  /\ faults \in Nat /\ admins \in Nat

(* Every table and every tick hold values of their type. *)
TypeOK == RowTypes /\ SendTypes /\ BatchTypes /\ HeldTypes /\ MemTypes /\ EnvTypes

(* No person is mailed twice by one send, whatever ticks overlap, crash,   *)
(* retry or are stopped.  It needs the hazards switched off: each of them  *)
(* breaks it.  (claim SQL, postBatch, release_stuck_send_rows)             *)
AtMostOneCopy == \A r \in Rows : copies[r] <= 1

(* A row recorded as 'sent' was delivered.  (postBatch, recovery)          *)
SentMeansDelivered == \A r \in Rows : rowStatus[r] = "sent" => copies[r] >= 1

(* A send that is over has no row left that someone still waits for: such  *)
(* a row would be stranded, since only 'sending' sends are claimed from.   *)
(* Releases must not bring a skipped row back, and finalizeSend must not   *)
(* conclude from reads that are out of date.  Only a blind write ends a    *)
(* send over open rows, and none makes it 'sent'.                          *)
Ends(s) == sendStatus[s] = "sent" \/ (sendStatus[s] \in {"failed", "cancelled"} /\ s \notin blind)

EndedMeansSettled == \A s \in Sends : Ends(s) => Open(s) = {}

(* Stop is final: a send that was asked to stop goes to 'cancelled' and    *)
(* stays there, whatever tick or halt is still in flight.                  *)
StopStands ==
  [][\A s \in Sends :
       /\ sendStatus[s] = "cancelling" => sendStatus'[s] \in {"cancelling", "cancelled"}
       /\ sendStatus[s] = "cancelled" => sendStatus'[s] = "cancelled"]_vars

(* A paced tick notices Pause and Stop between messages: after a send has  *)
(* left 'sending', a tick under way starts at most one more message for    *)
(* it, and no later tick starts any.                                       *)
PauseTakesHold == Paced => \A k \in Calls : late[k] <= 1

(* An address erased before its row was claimed is never mailed, not by    *)
(* any retry, sweep or later tick either.  (splitSuppressed)               *)
ErasedNotMailed == [][\A r \in barred : copies'[r] = copies[r]]_vars

(* "a person is tried this many times before being marked failed"          *)
(* (dispatch-slack.ts:21), counting the calls themselves: a call beyond    *)
(* the cap makes up for one whose outcome a crash or a failed UPDATE kept  *)
(* from being recorded, however often the claim's attempt is taken back.   *)
TriesCapped == MaxAttempts > 0 => \A r \in Rows : tries[r] <= MaxAttempts + lost[r]

(* A row that reached the person, or was given up, is never queued again.  *)
SettledRowsStay ==
  [][\A r \in Rows : rowStatus[r] \in Settled => rowStatus'[r] \notin Outstanding]_vars

(* Once no tick is running, a finished send reports the number of rows     *)
(* that were sent: no write of older counts came last.  (finalizeSend)     *)
ReportedCountIsTrue ==
  \A s \in Sends \ blind :
     (sendStatus[s] \in {"sent", "failed"} /\ \A w \in Workers : At(w, "idle"))
     => reported[s].sent = Cardinality(With(s, {"sent"}))

(* Every send in progress comes to an end or waits, paused, for an admin:  *)
(* crashed ticks, failed finalizes and lost rows are all picked up again.  *)
EverySendSettles ==
  \A s \in Sends : sendStatus[s] \in {"sending", "cancelling"}
     ~> sendStatus[s] \in {"sent", "failed", "cancelled", "paused"}
=============================================================================
