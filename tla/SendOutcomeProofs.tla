-------------------------- MODULE SendOutcomeProofs --------------------------
(***************************************************************************)
(* What becomes of a row, of a send and of the counts it reports, and that *)
(* the engine implements SendLifecycle.  First come lemmas on what any     *)
(* step may do to one part of the state; the invariants follow from those. *)
(***************************************************************************)
EXTENDS SendEngineRefinement, SendEngineProofs

USE DEF rowVars, sendVars, batchVars, dbVars, eraseVars, heldVars, jobVars, callVars,
        memVars, tickVars, histVars, boundVars, envVars

(* How the status of a row may change: nothing that is settled is queued   *)
(* again, and no row leaves the table.                                     *)
RowMove(r) ==
  \/ rowStatus'[r] = rowStatus[r]
  \/ rowStatus'[r] \in Settled
  \/ rowStatus[r] \notin Settled /\ rowStatus'[r] \in Outstanding

(* An UPDATE of rows that are not settled yet, or to a settled status.     *)
LEMMA SetRowsMoves ==
  ASSUME TypeOK, StaleSending, NEW R \in SUBSET Rows, NEW status, SetRows(R, status),
         \/ status \in Settled
         \/ status \in Outstanding /\ \A r \in R : rowStatus[r] \notin Settled
  PROVE  (\A r \in Rows : RowMove(r)) /\ StaleSending'
BY DEF SetRows, RowMove, StaleSending, TypeOK, RowTypes

(* Only these steps of a tick write rows.                                  *)
LEMMA RowWriters ==
  ASSUME NEW w \in Workers, Tick(w) \/ Mishap(w),
         ~(Sweep(w) \/ RecoverBatch(w) \/ Claim(w) \/ Release(w) \/ Skip(w)),
         ~(MarkSent(w) \/ MarkRefused(w) \/ SweepCancelled(w))
  PROVE  UNCHANGED <<rowStatus, rowStale>>
<1>1. CASE Tick(w)
  BY <1>1
  DEF Tick, FindStuckBatch, FindPremature, Reopen, FindStranded, EndLoop, SuppressionGate,
      NextClaim, OpenGroup, PaceStop, PaceRead, PauseSend, ClaimQuota, InsertBatch,
      PostAccepted, ProviderCall, HaltPause, CloseBatch, ListCancelling, Finalize, ReadCount,
      ReadSend, WriteFinal
<1>2. CASE Mishap(w)
  BY <1>2
  DEF Mishap, GateError, ReputationTrip, QuotaSpent, InsertFails, PostRefused, PostLostReply,
      ProviderCall, MarkLost, FinalizeError, Crash
<1> QED BY <1>1, <1>2

(* Every step moves rows only so, and leaves only 'sending' rows stale.    *)
LEMMA RowMoves ==
  ASSUME TypeOK, StaleSending, [Next]_vars
  PROVE  (\A r \in Rows : RowMove(r)) /\ StaleSending'
<1> USE DEF TypeOK, RowTypes, HeldTypes
<1>1. CASE UNCHANGED vars BY <1>1 DEF vars, RowMove, StaleSending
<1>2. CASE Environment
  <2>1. \A r \in Rows : RowMove(r) BY <1>2, EnvironmentFrame DEF RowMove, Settled, Outstanding
  <2>2. rowStale' \subseteq Rows BY <1>2, TypeEnvironment
  <2> QED BY <1>2, <2>1, <2>2, EnvironmentFrame DEF StaleSending
<1>3. ASSUME NEW w \in Workers, Tick(w) \/ Mishap(w)
      PROVE  (\A r \in Rows : RowMove(r)) /\ StaleSending'
  <2> USE <1>3, SetRowsMoves DEF Settled, Outstanding
  <2>1. CASE Sweep(w)
    <3>1. \A r \in rowStale : rowStatus[r] \notin Settled BY DEF StaleSending
    <3> QED BY <2>1, <3>1 DEF Sweep
  <2>2. CASE RecoverBatch(w)
    <3>1. \A r \in BatchRows(batch[w]) : r \in Rows /\ rowStatus[r] \notin Settled
      BY DEF BatchRows
    <3> QED BY <2>2, <3>1 DEF RecoverBatch
  <2>3. CASE Claim(w)
    <3>1. PICK C \in SUBSET Due : SetRows(C, "sending") BY <2>3 DEF Claim
    <3>2. \A r \in C : r \in Rows /\ rowStatus[r] \notin Settled BY DEF Due
    <3> QED BY <3>1, <3>2
  <2>4. CASE Release(w)
    <3>1. \A r \in StillSending(rel[w]) : r \in Rows /\ rowStatus[r] \notin Settled
      BY DEF StillSending
    <3> QED BY <2>4, <3>1 DEF Release
  <2>5. CASE Skip(w) BY <2>5 DEF Skip
  <2>6. CASE MarkSent(w)
    <3>1. slice[w] \in SUBSET Rows OBVIOUS
    <3> QED BY <2>6, <3>1 DEF MarkSent, Posted
  <2>7. CASE MarkRefused(w)
    BY <2>7 DEF MarkRefused, StillSending, RowMove, StaleSending
  <2>8. CASE SweepCancelled(w)
    <3>1. PICK s : SetRows(Open(s), "skipped") BY <2>8 DEF SweepCancelled
    <3>2. Open(s) \in SUBSET Rows BY DEF Open, With, RowsOf
    <3> QED BY <3>1, <3>2
  <2>9. CASE UNCHANGED <<rowStatus, rowStale>> BY <2>9 DEF RowMove, StaleSending
  <2> QED BY <2>1, <2>2, <2>3, <2>4, <2>5, <2>6, <2>7, <2>8, <2>9, RowWriters
<1> QED BY <1>1, <1>2, <1>3 DEF Next

(* A row that reached the person, or was given up, is never queued again,  *)
(* whatever goes wrong: the sweeper, batch recovery, releases and refusals *)
(* only ever write rows that are 'sending'.                                *)
THEOREM SettledIsFinal == Spec => SettledRowsStay
<1> DEFINE Stays == \A r \in Rows : rowStatus[r] \in Settled => rowStatus'[r] \notin Outstanding
<1>1. Init => TypeOK /\ StaleSending BY TypeInit DEF Init, StaleSending
<1>2. (TypeOK /\ StaleSending) /\ [Next]_vars => (TypeOK /\ StaleSending)'
  BY TypeStep, RowMoves
<1>3. TypeOK /\ StaleSending /\ [Next]_vars => [Stays]_vars
  BY RowMoves DEF RowMove, Settled, Outstanding
<1> QED BY <1>1, <1>2, <1>3, PTL DEF Spec, SettledRowsStay

-----------------------------------------------------------------------------
(***************************************************************************)
(* What may become of a send, and of what a tick remembers of it.          *)
(***************************************************************************)

(* The verdict that finalizeSend of tick w writes over what it has read.   *)
Decides(w, s) ==
  LET c == read[w].count
      seen == read[w].seen
  IN  /\ WriteFinal(w) /\ cur[w] = s
      /\ Settles(s, c, seen) /\ sendStatus[s] = seen /\ sendStatus'[s] = Verdict(c, seen)

(* How the status of a send may change: by a click or a halt, both of      *)
(* which compare and swap; by the reopen of a send that ended too early;   *)
(* by the pause of the reputation gate, which does not look; by a verdict; *)
(* blindly, outside the engine, but not to 'sent'.                         *)
StatusMove(s) ==
  \/ sendStatus[s] = "sending" /\ sendStatus'[s] = "paused"
  \/ sendStatus[s] = "paused" /\ sendStatus'[s] = "sending"
  \/ sendStatus[s] \in {"sending", "paused"} /\ sendStatus'[s] = "cancelling"
  \/ /\ sendStatus[s] = "sent" /\ sendStatus'[s] = "sending"
     /\ \E w \in Workers : Reopen(w) /\ cur[w] = s
  \/ sendStatus'[s] = "paused" /\ \E w \in Workers : PauseSend(w)
  \/ \E w \in Workers : Decides(w, s)
  \/ ~Paced /\ s \in blind' /\ sendStatus'[s] \in {"sending", "failed", "cancelled"}

(* Only these steps of a tick write the status of a send.                  *)
LEMMA StatusWriters ==
  ASSUME NEW w \in Workers, Tick(w) \/ Mishap(w),
         ~(Reopen(w) \/ PauseSend(w) \/ HaltPause(w) \/ WriteFinal(w))
  PROVE  UNCHANGED sendStatus
<1>1. CASE Tick(w)
  BY <1>1
  DEF Tick, Sweep, FindStuckBatch, RecoverBatch, FindPremature, FindStranded, Claim, EndLoop,
      SuppressionGate, Release, Skip, NextClaim, OpenGroup, PaceStop, PaceRead, ClaimQuota,
      InsertBatch, PostAccepted, ProviderCall, MarkSent, MarkRefused, CloseBatch,
      ListCancelling, SweepCancelled, Finalize, ReadCount, ReadSend
<1>2. CASE Mishap(w)
  BY <1>2
  DEF Mishap, GateError, ReputationTrip, QuotaSpent, InsertFails, PostRefused, PostLostReply,
      ProviderCall, MarkLost, FinalizeError, Crash
<1> QED BY <1>1, <1>2

(* One UPDATE of one send touches no other.                                *)
LEMMA SetSendMoves ==
  ASSUME TypeOK, NEW s \in Sends, NEW status, SetSend(s, status)
  PROVE  \A z \in Sends : sendStatus'[z] = IF z = s THEN status ELSE sendStatus[z]
BY DEF SetSend, TypeOK, SendTypes

(* A write of finalizeSend changes a status only by a verdict.             *)
LEMMA WriteFinalMoves ==
  ASSUME TypeOK, NEW w \in Workers, WriteFinal(w), NEW z \in Sends,
         sendStatus'[z] # sendStatus[z]
  PROVE  Decides(w, z)
<1> DEFINE s == cur[w]
           c == read[w].count
           seen == read[w].seen
           status == IF Settles(s, c, seen) THEN Verdict(c, seen) ELSE sendStatus[s]
<1>1. s \in Sends /\ sendStatus \in [Sends -> SendStatus]
  BY DEF TypeOK, MemTypes, SendTypes
<1>2. /\ ~(Settles(s, c, seen) /\ sendStatus[s] # seen)
      /\ sendStatus' = [sendStatus EXCEPT ![s] = status]
  BY DEF WriteFinal
<1>3. z = s /\ sendStatus'[z] = status BY <1>1, <1>2
<1> QED BY <1>2, <1>3 DEF Decides

(* A status changes only so.                                               *)
LEMMA StatusMoves ==
  ASSUME TypeOK, [Next]_vars, NEW s \in Sends, sendStatus'[s] # sendStatus[s]
  PROVE  StatusMove(s)
<1>0. ~UNCHANGED vars BY DEF vars
<1>1. CASE Environment
  <2>1. CASE \E z \in Sends : Pause(z) \/ Resume(z) \/ Stop(z)
    <3>1. PICK z \in Sends : Pause(z) \/ Resume(z) \/ Stop(z) BY <2>1
    <3>2. PICK from, to :
            /\ AdminSets(z, from, to)
            /\ \/ from = {"sending"} /\ to = "paused"
               \/ from = {"paused"} /\ to = "sending"
               \/ from = {"sending", "paused"} /\ to = "cancelling"
      BY <3>1 DEF Pause, Resume, Stop
    <3>3. s = z /\ sendStatus[s] \in from /\ sendStatus'[s] = to
      BY <3>2, SetSendMoves DEF AdminSets
    <3> QED BY <3>2, <3>3 DEF StatusMove
  <2>2. CASE \E z \in Sends, to \in {"sending", "failed", "cancelled"} : BlindWrite(z, to)
    <3>1. PICK z \in Sends, to \in {"sending", "failed", "cancelled"} : BlindWrite(z, to)
      BY <2>2
    <3>2. s = z /\ sendStatus'[s] = to BY <3>1, SetSendMoves DEF BlindWrite
    <3> QED BY <3>1, <3>2 DEF StatusMove, BlindWrite
  <2> QED BY <1>1, <2>1, <2>2
    DEF Environment, AgeRow, Erase, LateInsert, AgeBatch, AgeSend, ForgetSend
<1>2. ASSUME NEW w \in Workers, Tick(w) \/ Mishap(w) PROVE StatusMove(s)
  <2>0. cur[w] \in Sends BY DEF TypeOK, MemTypes
  <2>1. CASE Reopen(w) BY <2>0, <2>1, SetSendMoves DEF Reopen, SetSendIf, StatusMove
  <2>2. CASE PauseSend(w) BY <2>0, <2>2, SetSendMoves DEF PauseSend, StatusMove
  <2>3. CASE HaltPause(w) BY <2>0, <2>3, SetSendMoves DEF HaltPause, SetSendIf, MayHalt, StatusMove
  <2>4. CASE WriteFinal(w) BY <2>4, WriteFinalMoves DEF StatusMove
  <2> QED BY <1>2, <2>1, <2>2, <2>3, <2>4, StatusWriters
<1> QED BY <1>0, <1>1, <1>2 DEF Next

(* A step of one tick leaves what the others hold and remember.            *)
OthersUntouched(w) ==
  \A v \in Workers \ {w} :
    /\ todo'[v] = todo[v] /\ grp'[v] = grp[v] /\ slice'[v] = slice[v] /\ rel'[v] = rel[v]
    /\ pc'[v] = pc[v] /\ next'[v] = next[v] /\ cur'[v] = cur[v] /\ read'[v] = read[v]
    /\ cancels'[v] = cancels[v]

LEMMA OthersApart ==
  ASSUME TypeOK, NEW w \in Workers, Tick(w) \/ Mishap(w)
  PROVE  OthersUntouched(w)
<1> USE DEF TypeOK, MemTypes, HeldTypes, Goto, GotoVia, Return, OthersUntouched
<1>1. CASE \/ Sweep(w) \/ FindStuckBatch(w) \/ RecoverBatch(w) \/ FindPremature(w) \/ Reopen(w)
           \/ FindStranded(w) \/ EndLoop(w)
  BY <1>1
  DEF Sweep, FindStuckBatch, RecoverBatch, FindPremature, Reopen, FindStranded, BeginFinalize,
      EndLoop
<1>2. CASE \/ Claim(w) \/ SuppressionGate(w) \/ Release(w) \/ Skip(w) \/ NextClaim(w)
  BY <1>2 DEF Claim, SuppressionGate, Release, Skip, NextClaim
<1>3. CASE \/ PaceStop(w) \/ PaceRead(w) \/ PauseSend(w) \/ InsertBatch(w) \/ PostAccepted(w)
           \/ MarkSent(w) \/ MarkRefused(w) \/ HaltPause(w) \/ CloseBatch(w)
  BY <1>3
  DEF PaceStop, PaceRead, LeaveGroup, PauseSend, InsertBatch, PostAccepted, ProviderCall,
      MarkSent, MarkRefused, HaltPause, CloseBatch
<1>4. CASE OpenGroup(w) BY <1>4 DEF OpenGroup
<1>5. CASE ClaimQuota(w) BY <1>5 DEF ClaimQuota
<1>6. CASE ListCancelling(w) \/ SweepCancelled(w) BY <1>6 DEF ListCancelling, SweepCancelled
<1>7. CASE Finalize(w) \/ ReadCount(w) \/ ReadSend(w) \/ WriteFinal(w)
  BY <1>7 DEF Finalize, BeginFinalize, Forget, ReadCount, ReadSend, WriteFinal, EndFinalize
<1>8. CASE Mishap(w)
  BY <1>8
  DEF Mishap, GateError, ReputationTrip, QuotaSpent, LeaveGroup, InsertFails, PostRefused,
      PostLostReply, ProviderCall, MarkLost, LoseOutcome, AfterMark, FinalizeError, EndFinalize,
      Crash, Forget
<1> QED BY <1>1, <1>2, <1>3, <1>4, <1>5, <1>6, <1>7, <1>8 DEF Tick

(* finalizeSend starts with everything unread, reads one step at a time,   *)
(* and nothing else leads into it.                                         *)
LEMMA FinalizeMoves ==
  ASSUME TypeOK, NEW w \in Workers, Tick(w) \/ Mishap(w), pc'[w] \in Finalizing
  PROVE  \/ pc'[w] = "counts" /\ read'[w].unread = Queries
         \/ ReadCount(w) \/ ReadSend(w)
<1> USE DEF TypeOK, MemTypes, Goto, GotoVia, Return, AfterHelper, Finalizing, Labels
<1>1. CASE FindStranded(w) \/ Finalize(w)
  BY <1>1 DEF FindStranded, Finalize, BeginFinalize, Forget
<1>2. CASE Tick(w) /\ ~(FindStranded(w) \/ Finalize(w) \/ ReadCount(w) \/ ReadSend(w))
  <2>1. pc'[w] \notin Finalizing
    <3>1. CASE \/ Sweep(w) \/ FindStuckBatch(w) \/ RecoverBatch(w) \/ FindPremature(w)
               \/ Reopen(w) \/ Claim(w) \/ EndLoop(w) \/ SuppressionGate(w) \/ Release(w)
               \/ Skip(w) \/ NextClaim(w)
      BY <3>1
      DEF Sweep, FindStuckBatch, RecoverBatch, FindPremature, Reopen, Claim, EndLoop,
          SuppressionGate, Release, Skip, NextClaim
    <3>2. CASE OpenGroup(w) BY <3>2 DEF OpenGroup
    <3>3. CASE ClaimQuota(w) BY <3>3 DEF ClaimQuota
    <3>4. CASE \/ PaceStop(w) \/ PaceRead(w) \/ PauseSend(w) \/ InsertBatch(w)
               \/ PostAccepted(w) \/ MarkSent(w) \/ MarkRefused(w) \/ HaltPause(w)
      BY <3>4
      DEF PaceStop, PaceRead, LeaveGroup, PauseSend, InsertBatch, PostAccepted, ProviderCall,
          MarkSent, MarkRefused, AfterMark, HaltPause
    <3>5. CASE CloseBatch(w) \/ ListCancelling(w) \/ SweepCancelled(w) \/ WriteFinal(w)
      BY <3>5 DEF CloseBatch, LeaveGroup, ListCancelling, SweepCancelled, WriteFinal, EndFinalize
    <3> QED BY <1>2, <3>1, <3>2, <3>3, <3>4, <3>5 DEF Tick
  <2> QED BY <2>1
<1>3. CASE Mishap(w)
  BY <1>3
  DEF Mishap, GateError, ReputationTrip, QuotaSpent, LeaveGroup, InsertFails, PostRefused,
      PostLostReply, ProviderCall, MarkLost, LoseOutcome, AfterMark, FinalizeError, EndFinalize,
      Crash, Forget
<1> QED BY <1>1, <1>2, <1>3

(* All counts are in before the send is read, and stay in.                 *)
LEMMA ReadInFullStep ==
  ASSUME TypeOK, ReadInFull, [Next]_vars
  PROVE  ReadInFull'
<1>1. CASE UNCHANGED vars BY <1>1 DEF vars, ReadInFull
<1>2. CASE Environment BY <1>2, EnvironmentFrame DEF ReadInFull
<1>3. ASSUME NEW w \in Workers, Tick(w) \/ Mishap(w) PROVE ReadInFull'
  <2> SUFFICES ASSUME NEW v \in Workers, pc'[v] \in {"readSend", "write"}
               PROVE  read'[v].unread = {}
    BY DEF ReadInFull
  <2>1. CASE v # w BY <1>3, <2>1, OthersApart DEF OthersUntouched, ReadInFull
  <2>2. CASE v = w
    <3> USE DEF TypeOK, MemTypes, At, Goto
    <3>1. CASE ReadCount(w) BY <2>2, <3>1 DEF ReadCount, Settled
    <3>2. CASE ReadSend(w) BY <2>2, <3>2 DEF ReadSend, ReadInFull
    <3> QED BY <1>3, <2>2, <3>1, <3>2, FinalizeMoves DEF Finalizing
  <2> QED BY <2>1, <2>2
<1> QED BY <1>1, <1>2, <1>3 DEF Next

-----------------------------------------------------------------------------
(***************************************************************************)
(* A send that is over has nobody waiting, whatever ticks overlap, crash   *)
(* or lose, as long as no dispatch tick inserts rows late: a settled row   *)
(* is never queued again, so a count of zero outstanding rows stays true.  *)
(***************************************************************************)

(* Where no row comes late, a send that nobody waits for stays so.         *)
LEMMA OpenStaysEmpty ==
  ASSUME TypeOK, StaleSending, AbsentLate, Late = {}, [Next]_vars, NEW s, Open(s) = {}
  PROVE  Open(s)' = {}
<1> SUFFICES ASSUME NEW r \in RowsOf(s), rowStatus'[r] \in Outstanding
             PROVE  FALSE
  BY DEF Open, With
<1>1. r \in Rows /\ rowStatus[r] \in RowStatus /\ rowStatus[r] # "absent"
  BY DEF RowsOf, AbsentLate, TypeOK, RowTypes
<1>2. rowStatus[r] \in Outstanding
  BY <1>1, RowMoves DEF RowMove, RowStatus, Settled, Outstanding
<1> QED BY <1>2 DEF Open, With

(* No row becomes absent.                                                  *)
LEMMA AbsentLateStep ==
  ASSUME TypeOK, StaleSending, AbsentLate, [Next]_vars
  PROVE  AbsentLate'
BY RowMoves DEF AbsentLate, RowMove, Settled, Outstanding

(* A count of zero means that nobody is waiting.                           *)
LEMMA ZeroIsEmpty == ASSUME NEW s, CountOf(s, "open") = 0 PROVE Open(s) = {}
<1>1. Open(s) \subseteq Rows BY DEF Open, With, RowsOf
<1>2. IsFiniteSet(Open(s)) BY <1>1, FS_Subset, RowsAssumption
<1> QED BY <1>2, FS_EmptySet DEF CountOf

(* A zero that finalizeSend has counted stays true until it writes.        *)
LEMMA ZeroStep ==
  ASSUME TypeOK, SettleInv, Late = {}, [Next]_vars
  PROVE  ZeroStaysTrue'
<1> USE DEF SettleInv
<1>0. \A s : Open(s) = {} => Open(s)' = {} BY OpenStaysEmpty
<1>1. CASE UNCHANGED vars BY <1>0, <1>1 DEF vars, ZeroStaysTrue
<1>2. CASE Environment BY <1>0, <1>2, EnvironmentFrame DEF ZeroStaysTrue
<1>3. ASSUME NEW w \in Workers, Tick(w) \/ Mishap(w) PROVE ZeroStaysTrue'
  <2> SUFFICES ASSUME NEW v \in Workers, pc'[v] \in Finalizing,
                      "open" \notin read'[v].unread, read'[v].count["open"] = 0
               PROVE  {r \in RowsOf(cur'[v]) : rowStatus'[r] \in Outstanding} = {}
    BY DEF ZeroStaysTrue, Open, With
  <2>1. CASE v # w
    <3>1. Open(cur[v]) = {} /\ cur'[v] = cur[v]
      BY <1>3, <2>1, OthersApart DEF OthersUntouched, ZeroStaysTrue
    <3> QED BY <1>0, <3>1 DEF Open, With
  <2>2. CASE v = w
    <3> USE DEF TypeOK, MemTypes, Reads, At, Goto
    <3>1. CASE ReadCount(w)
      <4>1. cur' = cur /\ rowStatus' = rowStatus BY <3>1 DEF ReadCount
      <4>2. PICK q \in read[w].unread :
              /\ read'[w].unread = read[w].unread \ {q}
              /\ "open" \in Queries => read'[w].count["open"] =
                   IF q = "open" THEN CountOf(cur[w], "open") ELSE read[w].count["open"]
        BY <3>1 DEF ReadCount
      <4>3. CASE q = "open"
        <5>1. Open(cur[w]) = {} BY <2>2, <4>2, <4>3, ZeroIsEmpty DEF Queries
        <5> QED BY <2>2, <4>1, <5>1 DEF Open, With
      <4>4. CASE q # "open"
        <5>1. Open(cur[w]) = {}
          BY <2>2, <3>1, <4>2, <4>4 DEF ReadCount, ZeroStaysTrue, Finalizing, Queries
        <5> QED BY <2>2, <4>1, <5>1 DEF Open, With
      <4> QED BY <4>3, <4>4
    <3>2. CASE ReadSend(w)
      <4>1. /\ cur' = cur /\ rowStatus' = rowStatus /\ pc[w] \in Finalizing
            /\ read'[w].unread = read[w].unread /\ read'[w].count = read[w].count
        BY <3>2 DEF ReadSend, Finalizing
      <4>2. Open(cur[w]) = {} BY <2>2, <4>1 DEF ZeroStaysTrue
      <4> QED BY <2>2, <4>1, <4>2 DEF Open, With
    <3>3. CASE read'[w].unread = Queries BY <2>2, <3>3 DEF Queries
    <3> QED BY <1>3, <2>2, <3>1, <3>2, <3>3, FinalizeMoves
  <2> QED BY <2>1, <2>2
<1> QED BY <1>1, <1>2, <1>3 DEF Next

(* No step of a tick erases or writes blindly, and only a provider call    *)
(* mails: its slice.                                                       *)
LEMMA MailsSlice ==
  ASSUME TypeOK, NEW w \in Workers, Tick(w) \/ Mishap(w)
  PROVE  /\ UNCHANGED eraseVars
         /\ \A r \in Rows : copies'[r] # copies[r] => r \in slice[w] /\ At(w, "post")
<1>1. CASE PostAccepted(w) \/ PostRefused(w) \/ PostLostReply(w)
  <2>1. PICK D, answer : D \subseteq slice[w] /\ ProviderCall(w, D, answer)
    BY <1>1 DEF PostAccepted, PostRefused, PostLostReply
  <2> QED BY <2>1 DEF ProviderCall
<1>2. CASE ~(PostAccepted(w) \/ PostRefused(w) \/ PostLostReply(w))
  <2>1. UNCHANGED <<eraseVars, copies>>
    <3>1. CASE Tick(w)
      BY <1>2, <3>1
      DEF Tick, Sweep, FindStuckBatch, RecoverBatch, FindPremature, Reopen, FindStranded, Claim,
          EndLoop, SuppressionGate, Release, Skip, NextClaim, OpenGroup, PaceStop, PaceRead,
          PauseSend, ClaimQuota, InsertBatch, MarkSent, MarkRefused, HaltPause, CloseBatch,
          ListCancelling, SweepCancelled, Finalize, ReadCount, ReadSend, WriteFinal
    <3>2. CASE Mishap(w)
      BY <1>2, <3>2
      DEF Mishap, GateError, ReputationTrip, QuotaSpent, InsertFails, MarkLost,
          FinalizeError, Crash
    <3> QED BY <3>1, <3>2
  <2> QED BY <2>1
<1> QED BY <1>1, <1>2

(* What was set blindly stays known.                                       *)
LEMMA BlindStays == ASSUME TypeOK, [Next]_vars PROVE blind \subseteq blind'
<1>1. CASE UNCHANGED vars BY <1>1 DEF vars
<1>2. CASE Environment
  BY <1>2
  DEF Environment, AgeRow, Erase, LateInsert, AgeBatch, AgeSend, ForgetSend, Pause, Resume, Stop,
      AdminSets, BlindWrite
<1>3. ASSUME NEW w \in Workers, Tick(w) \/ Mishap(w) PROVE UNCHANGED blind
  BY <1>3, MailsSlice
<1> QED BY <1>1, <1>2, <1>3 DEF Next

(* Only a verdict ends a send, other than blindly, and it has counted zero. *)
LEMMA EndedStep ==
  ASSUME TypeOK, SettleInv, Late = {}, [Next]_vars
  PROVE  EndedMeansSettled'
<1> USE DEF SettleInv
<1> SUFFICES ASSUME NEW s \in Sends, Ends(s)' PROVE Open(s) = {}
  BY OpenStaysEmpty DEF EndedMeansSettled
<1>0. blind \subseteq blind' BY BlindStays
<1>1. CASE sendStatus'[s] = sendStatus[s] BY <1>0, <1>1 DEF EndedMeansSettled, Ends
<1>2. CASE sendStatus'[s] # sendStatus[s]
  <2>1. PICK w \in Workers : Decides(w, s) BY <1>2, StatusMoves DEF StatusMove, Ends
  <2>2. At(w, "write") /\ cur[w] = s /\ read[w].count["open"] = 0
    BY <2>1 DEF Decides, WriteFinal, Settles
  <2>3. read[w].unread = {} BY <2>2 DEF At, ReadInFull
  <2> QED BY <2>2, <2>3 DEF At, ZeroStaysTrue, Finalizing
<1> QED BY <1>1, <1>2

(* The bookkeeping of finalizeSend is inductive, given the types.          *)
LEMMA SettleStep == Late = {} /\ TypeOK /\ SettleInv /\ [Next]_vars => SettleInv'
<1> SUFFICES ASSUME Late = {}, TypeOK, SettleInv, [Next]_vars PROVE SettleInv' OBVIOUS
<1>1. StaleSending' /\ AbsentLate' BY RowMoves, AbsentLateStep DEF SettleInv
<1>2. ReadInFull' BY ReadInFullStep DEF SettleInv
<1> QED BY <1>1, <1>2, ZeroStep, EndedStep DEF SettleInv

LEMMA SettleInit == Init => SettleInv
BY DEF Init, SettleInv, StaleSending, AbsentLate, ReadInFull, ZeroStaysTrue,
       EndedMeansSettled, Ends, Finalizing

(* Without late inserts a zero that finalizeSend has counted stays true    *)
(* until its verdict is written, with every hazard.                        *)
THEOREM SettleHolds == ASSUME Late = {} PROVE Spec => []SettleInv
<1>1. Init => TypeOK /\ SettleInv BY TypeInit, SettleInit
<1>2. (TypeOK /\ SettleInv) /\ [Next]_vars => (TypeOK /\ SettleInv)'
  BY TypeStep, SettleStep
<1> QED BY <1>1, <1>2, PTL DEF Spec

(* Nobody is left waiting on a send that is over, whatever ticks overlap,  *)
(* crash, lose a reply or an update, and whatever is paused or stopped.    *)
THEOREM NobodyStranded == ASSUME Late = {} PROVE Spec => []EndedMeansSettled
<1>1. SettleInv => EndedMeansSettled BY DEF SettleInv
<1> QED BY SettleHolds, <1>1, PTL

-----------------------------------------------------------------------------
(***************************************************************************)
(* Pause and Stop take hold in the paced binding, with every hazard.  A    *)
(* tick that is committed to a call saw its send 'sending', and since then *)
(* has made no call for it.                                                *)
(***************************************************************************)

(* "insert" is where only the release after a quota claim returns to.      *)
LEMMA InsertStep ==
  ASSUME TypeOK, InsertAfterRelease, NEW w \in Workers, Tick(w) \/ Mishap(w),
         next'[w] = "insert"
  PROVE  ClaimQuota(w) /\ pc'[w] = "release"
<1> USE DEF TypeOK, MemTypes, InsertAfterRelease, At, Goto, GotoVia, Return, AfterHelper
<1>1. CASE ClaimQuota(w) BY <1>1 DEF ClaimQuota
<1>2. CASE OpenGroup(w) BY <1>2 DEF OpenGroup
<1>3. CASE \/ Sweep(w) \/ FindStuckBatch(w) \/ RecoverBatch(w) \/ FindPremature(w) \/ Reopen(w)
           \/ FindStranded(w) \/ Claim(w) \/ EndLoop(w) \/ SuppressionGate(w) \/ Release(w)
           \/ Skip(w) \/ NextClaim(w)
  BY <1>3
  DEF Sweep, FindStuckBatch, RecoverBatch, FindPremature, Reopen, FindStranded, BeginFinalize,
      Claim, EndLoop, SuppressionGate, Release, Skip, NextClaim
<1>4. CASE \/ PaceStop(w) \/ PaceRead(w) \/ PauseSend(w) \/ InsertBatch(w) \/ PostAccepted(w)
           \/ MarkSent(w) \/ MarkRefused(w) \/ HaltPause(w) \/ CloseBatch(w)
  BY <1>4
  DEF PaceStop, PaceRead, LeaveGroup, PauseSend, InsertBatch, PostAccepted, ProviderCall,
      MarkSent, MarkRefused, HaltPause, CloseBatch
<1>5. CASE \/ ListCancelling(w) \/ SweepCancelled(w) \/ Finalize(w) \/ ReadCount(w)
           \/ ReadSend(w) \/ WriteFinal(w)
  BY <1>5
  DEF ListCancelling, SweepCancelled, Finalize, BeginFinalize, Forget, ReadCount, ReadSend,
      WriteFinal, EndFinalize
<1>6. CASE Mishap(w)
  BY <1>6
  DEF Mishap, GateError, ReputationTrip, QuotaSpent, LeaveGroup, InsertFails, PostRefused,
      PostLostReply, ProviderCall, MarkLost, FinalizeError, EndFinalize, Crash, Forget
<1> QED BY <1>1, <1>2, <1>3, <1>4, <1>5, <1>6 DEF Tick

(* The paced binding never gets to the pause of the reputation gate.       *)
LEMMA NoTrip ==
  ASSUME TypeOK, Paced, NeverTrips, NEW w \in Workers, Tick(w) \/ Mishap(w)
  PROVE  "pauseSend" \notin {pc'[w], next'[w]}
<1> USE DEF TypeOK, MemTypes, NeverTrips, At, Goto, GotoVia, Return
<1>1. CASE ClaimQuota(w) BY <1>1 DEF ClaimQuota
<1>2. CASE OpenGroup(w) BY <1>2 DEF OpenGroup
<1>3. CASE \/ Sweep(w) \/ FindStuckBatch(w) \/ RecoverBatch(w) \/ FindPremature(w) \/ Reopen(w)
           \/ FindStranded(w) \/ Claim(w) \/ EndLoop(w) \/ SuppressionGate(w) \/ Release(w)
           \/ Skip(w) \/ NextClaim(w)
  BY <1>3
  DEF Sweep, FindStuckBatch, RecoverBatch, FindPremature, Reopen, FindStranded, BeginFinalize,
      Claim, EndLoop, SuppressionGate, Release, Skip, NextClaim
<1>4. CASE \/ PaceStop(w) \/ PaceRead(w) \/ PauseSend(w) \/ InsertBatch(w) \/ PostAccepted(w)
           \/ MarkSent(w) \/ MarkRefused(w) \/ HaltPause(w) \/ CloseBatch(w)
  BY <1>4
  DEF PaceStop, PaceRead, LeaveGroup, PauseSend, InsertBatch, PostAccepted, ProviderCall,
      MarkSent, MarkRefused, AfterMark, HaltPause, CloseBatch
<1>5. CASE \/ ListCancelling(w) \/ SweepCancelled(w) \/ Finalize(w) \/ ReadCount(w)
           \/ ReadSend(w) \/ WriteFinal(w)
  BY <1>5
  DEF ListCancelling, SweepCancelled, Finalize, BeginFinalize, Forget, ReadCount, ReadSend,
      WriteFinal, EndFinalize
<1>6. CASE Mishap(w)
  BY <1>6
  DEF Mishap, GateError, ReputationTrip, QuotaSpent, LeaveGroup, InsertFails, PostRefused,
      PostLostReply, ProviderCall, MarkLost, LoseOutcome, AfterMark, FinalizeError, EndFinalize,
      Crash, Forget
<1> QED BY <1>1, <1>2, <1>3, <1>4, <1>5, <1>6 DEF Tick

(* A tick gets committed to a call only by reading that its send is being  *)
(* sent, and stays committed only until the call.                          *)
LEMMA CommitMoves ==
  ASSUME TypeOK, Paced, InsertAfterRelease, NEW w \in Workers, Tick(w) \/ Mishap(w),
         Committed(w)'
  PROVE  /\ cur'[w] = cur[w] /\ ~At(w, "post")
         /\ Committed(w) \/ (PaceRead(w) /\ MayGoOn(cur[w]))
<1> USE DEF TypeOK, MemTypes, InsertAfterRelease, Committed, At, Goto, GotoVia, Return, AfterHelper
<1>1. CASE ClaimQuota(w) BY <1>1 DEF ClaimQuota
<1>2. CASE OpenGroup(w) BY <1>2 DEF OpenGroup
<1>3. CASE \/ Sweep(w) \/ FindStuckBatch(w) \/ RecoverBatch(w) \/ FindPremature(w) \/ Reopen(w)
           \/ FindStranded(w) \/ Claim(w) \/ EndLoop(w) \/ SuppressionGate(w) \/ Release(w)
           \/ Skip(w) \/ NextClaim(w)
  BY <1>3
  DEF Sweep, FindStuckBatch, RecoverBatch, FindPremature, Reopen, FindStranded, BeginFinalize,
      Claim, EndLoop, SuppressionGate, Release, Skip, NextClaim
<1>4. CASE \/ PaceStop(w) \/ PaceRead(w) \/ PauseSend(w) \/ InsertBatch(w) \/ PostAccepted(w)
           \/ MarkSent(w) \/ MarkRefused(w) \/ HaltPause(w) \/ CloseBatch(w)
  BY <1>4
  DEF PaceStop, PaceRead, LeaveGroup, PauseSend, InsertBatch, PostAccepted, ProviderCall,
      MarkSent, MarkRefused, AfterMark, HaltPause, CloseBatch
<1>5. CASE \/ ListCancelling(w) \/ SweepCancelled(w) \/ Finalize(w) \/ ReadCount(w)
           \/ ReadSend(w) \/ WriteFinal(w)
  BY <1>5
  DEF ListCancelling, SweepCancelled, Finalize, BeginFinalize, Forget, ReadCount, ReadSend,
      WriteFinal, EndFinalize
<1>6. CASE Mishap(w)
  BY <1>6
  DEF Mishap, GateError, ReputationTrip, QuotaSpent, LeaveGroup, InsertFails, PostRefused,
      PostLostReply, ProviderCall, MarkLost, LoseOutcome, AfterMark, FinalizeError, EndFinalize,
      Crash, Forget
<1> QED BY <1>1, <1>2, <1>3, <1>4, <1>5, <1>6 DEF Tick

(* A call that starts after its send has left 'sending'.                   *)
LateCall(w, s) == At(w, "post") /\ cur[w] = s /\ sendStatus[s] # "sending"

(* The late calls of a tick go up by such a call, or start from zero when  *)
(* the send is being sent again.                                           *)
LateMove(w, s) ==
  /\ \/ late'[<<w, s>>] \in {0, late[<<w, s>>]}
     \/ /\ LateCall(w, s) /\ pc'[w] = "mark"
        /\ late'[<<w, s>>] = late[<<w, s>>] + 1
  /\ sendStatus[s] # "sending" /\ sendStatus'[s] = "sending" => late'[<<w, s>>] = 0

(* Only these steps of a tick count calls or start a count again.          *)
LEMMA LateWriters ==
  ASSUME NEW w \in Workers, Tick(w) \/ Mishap(w),
         ~(Reopen(w) \/ PauseSend(w) \/ HaltPause(w)),
         ~(PostAccepted(w) \/ PostRefused(w) \/ PostLostReply(w))
  PROVE  UNCHANGED late
<1>1. CASE Tick(w)
  BY <1>1
  DEF Tick, Sweep, FindStuckBatch, RecoverBatch, FindPremature, FindStranded, Claim, EndLoop,
      SuppressionGate, Release, Skip, NextClaim, OpenGroup, PaceStop, PaceRead, ClaimQuota,
      InsertBatch, MarkSent, MarkRefused, CloseBatch, ListCancelling, SweepCancelled, Finalize,
      ReadCount, ReadSend, WriteFinal
<1>2. CASE Mishap(w)
  BY <1>2
  DEF Mishap, GateError, ReputationTrip, QuotaSpent, InsertFails, MarkLost, FinalizeError,
      Crash
<1> QED BY <1>1, <1>2

(* A write of a send's status starts the counts of that send again when it *)
(* is being sent.                                                          *)
LEMMA SetSendLate ==
  ASSUME TypeOK, NEW s \in Sends, NEW status, SetSend(s, status)
  PROVE  \A v \in Workers, z \in Sends : LateMove(v, z)
<1> SUFFICES ASSUME NEW v \in Workers, NEW z \in Sends PROVE LateMove(v, z) OBVIOUS
<1>1. <<v, z>> \in Calls BY DEF Calls
<1>2. late'[<<v, z>>] = IF status = "sending" /\ z = s THEN 0 ELSE late[<<v, z>>]
  BY <1>1 DEF SetSend
<1> QED BY <1>2, SetSendMoves DEF LateMove

(* A provider call counts for its tick and its send only.                  *)
LEMMA CallLate ==
  ASSUME TypeOK, NEW w \in Workers, NEW D, NEW answer, ProviderCall(w, D, answer)
  PROVE  \A v \in Workers, z \in Sends : LateMove(v, z)
<1> SUFFICES ASSUME NEW v \in Workers, NEW z \in Sends PROVE LateMove(v, z) OBVIOUS
<1> DEFINE k == <<w, cur[w]>>
<1>1. <<v, z>> \in Calls /\ k \in Calls BY DEF Calls, TypeOK, MemTypes
<1>2. late' = [late EXCEPT ![k] = IF sendStatus[cur[w]] = "sending" THEN @ ELSE @ + 1]
  BY DEF ProviderCall
<1>3. late'[<<v, z>>] = IF v = w /\ z = cur[w] /\ sendStatus[z] # "sending"
                        THEN late[<<v, z>>] + 1 ELSE late[<<v, z>>]
  BY <1>1, <1>2 DEF TypeOK, EnvTypes
<1>4. At(w, "post") /\ pc'[w] = "mark" /\ sendStatus' = sendStatus
  BY DEF ProviderCall, Goto, TypeOK, MemTypes
<1> QED BY <1>3, <1>4 DEF LateMove, LateCall

(* Every step counts late calls so.                                        *)
LEMMA LateMoves ==
  ASSUME TypeOK, [Next]_vars
  PROVE  \A v \in Workers, z \in Sends : LateMove(v, z)
<1>0. UNCHANGED <<late, sendStatus>> => \A v \in Workers, z \in Sends : LateMove(v, z)
  BY DEF LateMove
<1>1. CASE UNCHANGED vars BY <1>0, <1>1 DEF vars
<1>2. CASE Environment
  <2>1. CASE \E s \in Sends : Pause(s) \/ Resume(s) \/ Stop(s)
    BY <2>1, SetSendLate DEF Pause, Resume, Stop, AdminSets
  <2>2. CASE \E s \in Sends, to \in {"sending", "failed", "cancelled"} : BlindWrite(s, to)
    BY <2>2, SetSendLate DEF BlindWrite
  <2>3. CASE UNCHANGED <<late, sendStatus>> BY <1>0, <2>3
  <2> QED BY <1>2, <2>1, <2>2, <2>3
    DEF Environment, AgeRow, Erase, LateInsert, AgeBatch, AgeSend, ForgetSend
<1>3. ASSUME NEW w \in Workers, Tick(w) \/ Mishap(w)
      PROVE  \A v \in Workers, z \in Sends : LateMove(v, z)
  <2>0. cur[w] \in Sends BY DEF TypeOK, MemTypes
  <2>1. CASE Reopen(w) \/ PauseSend(w) \/ HaltPause(w)
    BY <1>0, <2>0, <2>1, SetSendLate DEF Reopen, PauseSend, HaltPause, SetSendIf
  <2>2. CASE PostAccepted(w) \/ PostRefused(w) \/ PostLostReply(w)
    BY <2>2, CallLate DEF PostAccepted, PostRefused, PostLostReply
  <2>3. CASE WriteFinal(w)
    <3>1. \A z \in Sends : sendStatus'[z] = "sending" => sendStatus[z] = "sending"
      BY <2>3, WriteFinalMoves DEF Decides, Verdict
    <3>2. UNCHANGED late BY <2>3 DEF WriteFinal
    <3> QED BY <3>1, <3>2 DEF LateMove
  <2>4. CASE ~(Reopen(w) \/ PauseSend(w) \/ HaltPause(w) \/ WriteFinal(w)) /\
             ~(PostAccepted(w) \/ PostRefused(w) \/ PostLostReply(w))
    BY <1>0, <1>3, <2>4, LateWriters, StatusWriters
  <2> QED BY <2>1, <2>2, <2>3, <2>4
<1> QED BY <1>1, <1>2, <1>3 DEF Next

(* How a step leaves a tick committed to a call, of this tick or another's. *)
LEMMA CommitKeeps ==
  ASSUME TypeOK, Paced, InsertAfterRelease, [Next]_vars, NEW v \in Workers, Committed(v)'
  PROVE  /\ cur'[v] = cur[v] /\ pc'[v] # "mark"
         /\ Committed(v) \/ sendStatus[cur[v]] = "sending"
<1>0. Committed(v) => pc[v] # "mark" BY DEF Committed, InsertAfterRelease, At
<1>1. CASE UNCHANGED vars BY <1>0, <1>1 DEF vars, Committed
<1>2. CASE Environment BY <1>0, <1>2, EnvironmentFrame DEF Committed
<1>3. ASSUME NEW w \in Workers, Tick(w) \/ Mishap(w), v # w
      PROVE  /\ cur'[v] = cur[v] /\ pc'[v] # "mark"
             /\ Committed(v)
  BY <1>0, <1>3, OthersApart DEF OthersUntouched, Committed
<1>4. CASE Tick(v) \/ Mishap(v)
  <2>1. next'[v] = "insert" => pc'[v] = "release" BY <1>4, InsertStep
  <2>2. pc'[v] # "mark" BY <2>1 DEF Committed
  <2> QED BY <1>4, <2>2, CommitMoves DEF MayGoOn
<1> QED BY <1>1, <1>2, <1>3, <1>4 DEF Next

(* No tick calls twice for a send that has left 'sending'.                 *)
LEMMA LateOnceStep ==
  ASSUME TypeOK, PaceInv, Paced, [Next]_vars
  PROVE  LateOnce'
<1> USE DEF PaceInv
<1>0. \A v \in Workers, z \in Sends :
        /\ <<v, z>> \in Calls /\ late[<<v, z>>] \in {0, 1}
        /\ sendStatus[z] = "sending" => late[<<v, z>>] = 0
        /\ LateCall(v, z) => late[<<v, z>>] = 0
  <2> TAKE v \in Workers, z \in Sends
  <2>1. <<v, z>> \in Calls /\ <<v, z>>[2] = z BY DEF Calls
  <2>2. late[<<v, z>>] \in Nat BY <2>1 DEF TypeOK, EnvTypes
  <2>3. late[<<v, z>>] <= 1 /\ (sendStatus[z] = "sending" => late[<<v, z>>] = 0)
    BY <2>1 DEF LateOnce
  <2>4. LateCall(v, z) => late[<<v, z>>] = 0 BY DEF LateOnce, LateCall, Committed, At
  <2> QED BY <2>1, <2>2, <2>3, <2>4
<1>1. \A v \in Workers, z \in Sends :
        late'[<<v, z>>] <= 1 /\ (sendStatus'[z] = "sending" => late'[<<v, z>>] = 0)
  <2> SUFFICES ASSUME NEW v \in Workers, NEW z \in Sends
               PROVE  /\ late'[<<v, z>>] <= 1
                      /\ sendStatus'[z] = "sending" => late'[<<v, z>>] = 0
    OBVIOUS
  <2> QED BY <1>0, LateMoves DEF LateMove, LateCall
<1>2. \A k \in Calls : \E v \in Workers, z \in Sends : k = <<v, z>> /\ k[2] = z
  BY DEF Calls
<1>3. \A v \in Workers : Committed(v)' => late'[<<v, cur'[v]>>] = 0
  <2> SUFFICES ASSUME NEW v \in Workers, Committed(v)' PROVE late'[<<v, cur'[v]>>] = 0
    OBVIOUS
  <2>1. cur[v] \in Sends BY DEF TypeOK, MemTypes
  <2>2. cur'[v] = cur[v] /\ late'[<<v, cur[v]>>] \in {0, late[<<v, cur[v]>>]}
    BY <2>1, CommitKeeps, LateMoves DEF LateMove
  <2>3. late[<<v, cur[v]>>] = 0 BY <1>0, <2>1, CommitKeeps DEF LateOnce
  <2> QED BY <2>2, <2>3
<1> QED BY <1>1, <1>2, <1>3 DEF LateOnce

(* The paced binding's bookkeeping is inductive, given the types.          *)
LEMMA PaceStep == TypeOK /\ PaceInv /\ [Next]_vars => PaceInv'
<1> SUFFICES ASSUME TypeOK, PaceInv, [Next]_vars PROVE PaceInv' OBVIOUS
<1> USE DEF PaceInv
<1>1. NeverTrips' /\ InsertAfterRelease'
  <2>1. CASE UNCHANGED vars BY <2>1 DEF vars, NeverTrips, InsertAfterRelease, At
  <2>2. CASE Environment BY <2>2, EnvironmentFrame DEF NeverTrips, InsertAfterRelease, At
  <2>3. ASSUME NEW w \in Workers, Tick(w) \/ Mishap(w)
        PROVE  NeverTrips' /\ InsertAfterRelease'
    BY <2>3, OthersApart, NoTrip, InsertStep
    DEF OthersUntouched, NeverTrips, InsertAfterRelease, At
  <2> QED BY <2>1, <2>2, <2>3 DEF Next
<1>2. LateOnce' BY LateOnceStep DEF LateOnce
<1> QED BY <1>1, <1>2

LEMMA PaceInit == Init => PaceInv
<1>1. \A k \in Calls : k[2] \in Sends BY DEF Calls
<1> QED BY <1>1, AnySendType
    DEF Init, PaceInv, NeverTrips, InsertAfterRelease, LateOnce, Committed, Calls

(* The bookkeeping behind Pause and Stop of the paced binding always holds. *)
THEOREM PaceHolds == Spec => []PaceInv
<1>1. Init => TypeOK /\ PaceInv BY TypeInit, PaceInit
<1>2. (TypeOK /\ PaceInv) /\ [Next]_vars => (TypeOK /\ PaceInv)'
  BY TypeStep, PaceStep
<1> QED BY <1>1, <1>2, PTL DEF Spec

(* After Pause or Stop a paced tick under way starts at most one more      *)
(* message for the send, and no later tick any: with every hazard, for any *)
(* number of ticks, sends and clicks.                                      *)
THEOREM PauseIsObeyed == Spec => []PauseTakesHold
<1>1. PaceInv => PauseTakesHold BY DEF PaceInv, LateOnce, PauseTakesHold
<1> QED BY PaceHolds, <1>1, PTL

(* Stop is final in the paced binding, whatever tick, halt or verdict is   *)
(* still under way: its writes of a status compare and swap.               *)
THEOREM StopIsFinal == ASSUME Paced PROVE Spec => StopStands
<1> DEFINE Stands ==
      \A s \in Sends :
        /\ sendStatus[s] = "cancelling" => sendStatus'[s] \in {"cancelling", "cancelled"}
        /\ sendStatus[s] = "cancelled" => sendStatus'[s] = "cancelled"
<1>1. ASSUME TypeOK, NeverTrips, [Next]_vars PROVE Stands
  <2> SUFFICES ASSUME NEW s \in Sends, sendStatus'[s] # sendStatus[s]
               PROVE  /\ sendStatus[s] = "cancelling" => sendStatus'[s] = "cancelled"
                      /\ sendStatus[s] # "cancelled"
    OBVIOUS
  <2>1. StatusMove(s) BY <1>1, StatusMoves
  <2>2. \A w \in Workers : ~PauseSend(w) BY <1>1 DEF PauseSend, NeverTrips, At
  <2>3. \A w \in Workers : Decides(w, s) =>
          /\ sendStatus[s] # "cancelled"
          /\ sendStatus[s] = "cancelling" => sendStatus'[s] = "cancelled"
    BY DEF Decides, Settles, Verdict
  <2> QED BY <2>1, <2>2, <2>3 DEF StatusMove
<1>2. TypeOK /\ PaceInv /\ [Next]_vars => [Stands]_vars BY <1>1 DEF PaceInv
<1> QED BY TypeCorrect, PaceHolds, <1>2, PTL DEF Spec, StopStands

-----------------------------------------------------------------------------
(***************************************************************************)
(* Where attempts are capped no person is tried more often than the cap,   *)
(* but for the tries whose outcome was lost, as long as no live tick is    *)
(* slow: while a tick holds a row it has not tried, the row's attempts are *)
(* ahead of its tries by the claim's one, and a release takes back no more *)
(* than that.                                                              *)
(***************************************************************************)

(* Only claims and releases count attempts, calls count tries, and a try   *)
(* is lost with the slice.                                                 *)
LEMMA TriesWriters ==
  ASSUME NEW w \in Workers, Tick(w) \/ Mishap(w),
         ~(Claim(w) \/ Release(w) \/ MarkLost(w) \/ Crash(w)),
         ~(PostAccepted(w) \/ PostRefused(w) \/ PostLostReply(w))
  PROVE  UNCHANGED <<tries, rowAttempts, lost>>
<1>1. CASE Tick(w)
  BY <1>1
  DEF Tick, Sweep, FindStuckBatch, RecoverBatch, FindPremature, Reopen, FindStranded, EndLoop,
      SuppressionGate, Skip, NextClaim, OpenGroup, PaceStop, PaceRead, PauseSend, ClaimQuota,
      InsertBatch, MarkSent, MarkRefused, HaltPause, CloseBatch, ListCancelling, SweepCancelled,
      Finalize, ReadCount, ReadSend, WriteFinal
<1>2. CASE Mishap(w)
  BY <1>2
  DEF Mishap, GateError, ReputationTrip, QuotaSpent, InsertFails, FinalizeError
<1> QED BY <1>1, <1>2

(* Only a provider call leads to the mark, and a mark or a crash ends it.  *)
LEMMA MarkMoves ==
  ASSUME TypeOK, NEW w \in Workers, Tick(w) \/ Mishap(w),
         ~(PostAccepted(w) \/ PostRefused(w) \/ PostLostReply(w))
  PROVE  /\ pc'[w] # "mark"
         /\ At(w, "mark") => MarkSent(w) \/ MarkRefused(w) \/ MarkLost(w) \/ Crash(w)
<1> USE DEF TypeOK, MemTypes, At, Goto, GotoVia, Return, AfterHelper
<1>1. CASE ClaimQuota(w) BY <1>1 DEF ClaimQuota
<1>2. CASE OpenGroup(w) BY <1>2 DEF OpenGroup
<1>3. CASE \/ Sweep(w) \/ FindStuckBatch(w) \/ RecoverBatch(w) \/ FindPremature(w) \/ Reopen(w)
           \/ FindStranded(w) \/ Claim(w) \/ EndLoop(w) \/ SuppressionGate(w) \/ Release(w)
           \/ Skip(w) \/ NextClaim(w)
  BY <1>3
  DEF Sweep, FindStuckBatch, RecoverBatch, FindPremature, Reopen, FindStranded, BeginFinalize,
      Claim, EndLoop, SuppressionGate, Release, Skip, NextClaim
<1>4. CASE \/ PaceStop(w) \/ PaceRead(w) \/ PauseSend(w) \/ InsertBatch(w) \/ MarkSent(w)
           \/ MarkRefused(w) \/ HaltPause(w) \/ CloseBatch(w)
  BY <1>4
  DEF PaceStop, PaceRead, LeaveGroup, PauseSend, InsertBatch, MarkSent, MarkRefused, AfterMark,
      HaltPause, CloseBatch
<1>5. CASE \/ ListCancelling(w) \/ SweepCancelled(w) \/ Finalize(w) \/ ReadCount(w)
           \/ ReadSend(w) \/ WriteFinal(w)
  BY <1>5
  DEF ListCancelling, SweepCancelled, Finalize, BeginFinalize, Forget, ReadCount, ReadSend,
      WriteFinal, EndFinalize
<1>6. CASE Mishap(w)
  BY <1>6
  DEF Mishap, GateError, ReputationTrip, QuotaSpent, LeaveGroup, InsertFails, MarkLost,
      AfterMark, FinalizeError, EndFinalize, Crash, Forget
<1> QED BY <1>1, <1>2, <1>3, <1>4, <1>5, <1>6 DEF Tick

(* The tries that other ticks have not marked yet stay what they are, and  *)
(* after any step but a call this tick has none.                           *)
LEMMA TryingMoves ==
  ASSUME TypeOK, ClaimInv, NEW w \in Workers, Tick(w) \/ Mishap(w)
  PROVE  /\ \A v \in Workers \ {w} : \A r \in Rows : Trying(v, r)' = Trying(v, r)
         /\ ~(PostAccepted(w) \/ PostRefused(w) \/ PostLostReply(w)) =>
              \A r \in Rows : ~Trying(w, r)'
<1>1. \A v \in Workers \ {w} : slice'[v] = slice[v] /\ pc'[v] = pc[v] /\ reply'[v] = reply[v]
  <2>1. CASE Claim(w) BY <2>1, ClaimTakes DEF TypeOK, MemTypes
  <2>2. CASE ~Claim(w) BY <2>2, FrameStep DEF Frame, OthersStand
  <2> QED BY <2>1, <2>2
<1> QED BY <1>1, MarkMoves DEF Trying, At

(* There is room for another try of the row.                               *)
Room(r) == tries[r] < MaxAttempts + lost[r]

(* A step of a tick takes no new row but by a claim, and makes no row      *)
(* 'sending' otherwise.                                                    *)
LEMMA FrameHolds ==
  ASSUME TypeOK, NEW w \in Workers, Frame(w)
  PROVE  /\ \A v \in Workers : Held(v)' \subseteq Held(v) /\ Held(v) \subseteq Rows
         /\ \A r \in Rows : rowStatus'[r] = "sending" => rowStatus[r] = "sending"
         /\ \A r \in Rows : rowStatus'[r] \notin Settled => rowStatus[r] \notin Settled
<1>1. \A v \in Workers : Held(v)' \subseteq Held(v) /\ Held(v) \subseteq Rows
  BY OthersKeep DEF TypeOK, HeldTypes, Held, Frame
<1> QED BY <1>1 DEF Frame, RowStepOK, Settled

(* A mark or a crash lets the slice go, and no other tick holds its rows.  *)
LEMMA SliceLeaves ==
  ASSUME TypeOK, ClaimInv, NEW w \in Workers,
         MarkSent(w) \/ MarkRefused(w) \/ MarkLost(w) \/ Crash(w)
  PROVE  \A v \in Workers : \A r \in Held(v)' : r \in Rows /\ r \in Held(v) /\ r \notin slice[w]
<1>1. Frame(w) BY FrameMark, FrameHandOn
<1>2. PartsApartAt(w) BY DEF ClaimInv, PartsApart, PartsApartAt
<1>3. \A r \in slice[w] : r \notin Held(w)'
  BY <1>2
  DEF MarkSent, MarkRefused, MarkLost, Crash, LoseOutcome, Held, PartsApartAt, TypeOK, HeldTypes
<1>4. \A v \in Workers \ {w} : \A r \in slice[w] : r \notin Held(v)
  BY DEF ClaimInv, HeldApart, Held
<1> QED BY <1>1, <1>3, <1>4, FrameHolds

(* What the invariant says of the rows a tick has not tried.               *)
LEMMA UntriedHeld ==
  ASSUME TypeOK, ClaimInv, TriesInv, MaxAttempts > 0, NEW w \in Workers, NEW r \in Held(w),
         ~Trying(w, r)
  PROVE  /\ r \in Rows /\ rowStatus[r] \in {"sending", "skipped"} /\ Room(r)
         /\ rowStatus[r] = "sending" => tries[r] < rowAttempts[r]
BY DEF TypeOK, HeldTypes, Held, ClaimInv, HeldClaimed, TriesInv, HeldHasTry, Room

(* A step that counts nothing and settles what it has tried.               *)
LEMMA TriesKeep ==
  ASSUME TypeOK, TriesInv, MaxAttempts > 0, UNCHANGED <<tries, rowAttempts, lost>>,
         \A v \in Workers : Held(v)' \subseteq Held(v) /\ Held(v) \subseteq Rows,
         \A r \in Rows : rowStatus'[r] = "sending" => rowStatus[r] = "sending",
         \A r \in Rows : rowStatus'[r] \notin Settled => rowStatus[r] \notin Settled,
         \A v \in Workers : \A r \in Rows : Trying(v, r) =>
            Trying(v, r)' \/ (rowStatus'[r] \in Settled /\ r \notin Held(v)')
  PROVE  TriesLeft' /\ HeldHasTry' /\ TriesCapped'
<1> USE DEF TriesInv
<1>1. TriesLeft'
  <2> SUFFICES ASSUME NEW r \in Rows, rowStatus'[r] \notin Settled
               PROVE  /\ tries[r] <= rowAttempts[r]
                      /\ Room(r) \/ \E v \in Workers : Trying(v, r)'
    BY DEF TriesLeft, Room
  <2> QED BY DEF TriesLeft, Room
<1>2. HeldHasTry'
  <2> SUFFICES ASSUME NEW v \in Workers, NEW r \in Held(v)', ~Trying(v, r)'
               PROVE  Room(r) /\ (rowStatus'[r] = "sending" => tries[r] < rowAttempts[r])
    BY DEF HeldHasTry, Room
  <2> QED BY DEF HeldHasTry, Room
<1>3. TriesCapped' BY DEF TriesCapped
<1> QED BY <1>1, <1>2, <1>3

(* A release takes back the attempt of the claim, and of rows it holds.    *)
LEMMA TriesRelease ==
  ASSUME TypeOK, ClaimInv, TriesInv, MaxAttempts > 0, NEW w \in Workers, Release(w)
  PROVE  TriesLeft' /\ HeldHasTry' /\ TriesCapped'
<1> USE DEF TypeOK, RowTypes, EnvTypes, TriesInv
<1> DEFINE back == StillSending(rel[w])
<1>1. Frame(w) BY FrameRewrite
<1>2. ~At(w, "mark") /\ At(w, "release") BY DEF Release, At
<1>3. \A r \in back : /\ r \in Rows /\ rowStatus[r] = "sending"
                      /\ tries[r] < rowAttempts[r] /\ Room(r)
  BY <1>2, UntriedHeld DEF StillSending, Held, Trying
<1>4. /\ \A r \in Rows : rowStatus'[r] = IF r \in back THEN "pending" ELSE rowStatus[r]
      /\ \A r \in Rows : rowAttempts'[r] = IF r \in back THEN OneLess(rowAttempts[r])
                                                         ELSE rowAttempts[r]
      /\ UNCHANGED <<tries, lost>>
  BY DEF Release, SetRows
<1>5. \A r \in back : tries[r] <= OneLess(rowAttempts[r])
  BY <1>3, ConfigAssumption DEF OneLess
<1>6. \A v \in Workers : \A r \in Rows : Trying(v, r)' = Trying(v, r)
  <2>1. ~(PostAccepted(w) \/ PostRefused(w) \/ PostLostReply(w))
    BY <1>2 DEF PostAccepted, PostRefused, PostLostReply, ProviderCall, At
  <2>2. Tick(w) BY DEF Tick
  <2> QED BY <1>2, <2>1, <2>2, TryingMoves DEF Trying
<1> HIDE DEF back
<1>7. TriesLeft' BY <1>3, <1>4, <1>5, <1>6 DEF TriesLeft, Room
<1>8. HeldHasTry'
  <2> SUFFICES ASSUME NEW v \in Workers, NEW r \in Held(v)', ~Trying(v, r)'
               PROVE  Room(r) /\ (rowStatus'[r] = "sending" => tries[r] < rowAttempts'[r])
    BY <1>4 DEF HeldHasTry, Room
  <2>1. r \in Rows /\ r \in Held(v) /\ ~Trying(v, r) BY <1>1, <1>6, FrameHolds
  <2> QED BY <1>4, <2>1 DEF HeldHasTry, Room
<1>9. TriesCapped' BY <1>4 DEF TriesCapped
<1> QED BY <1>7, <1>8, <1>9

(* A refused row goes back only if its attempts, and so its tries, are not *)
(* used up, or if it was not tried.                                        *)
LEMMA TriesRefused ==
  ASSUME TypeOK, ClaimInv, TriesInv, MaxAttempts > 0, NEW w \in Workers, MarkRefused(w)
  PROVE  TriesLeft' /\ HeldHasTry' /\ TriesCapped'
<1> USE DEF TypeOK, RowTypes, EnvTypes, TriesInv
<1>1. UNCHANGED <<tries, rowAttempts, lost>> BY DEF MarkRefused
<1>2. \A v \in Workers : \A r \in Held(v)' : r \in Rows /\ r \in Held(v) /\ r \notin slice[w]
  BY SliceLeaves
<1>3. \A v \in Workers \ {w} : \A r \in Rows : Trying(v, r)' = Trying(v, r)
  BY TryingMoves DEF Tick
<1>4. \A r \in Rows \ slice[w] : rowStatus'[r] = rowStatus[r]
  BY DEF MarkRefused, StillSending
<1>5. \A r \in slice[w] : r \in Rows /\ (rowStatus'[r] \notin Settled =>
        rowStatus[r] = "sending" /\ (Trying(w, r) => rowAttempts[r] < MaxAttempts))
  <2> SUFFICES ASSUME NEW r \in slice[w]
               PROVE  r \in Rows /\ (rowStatus'[r] \notin Settled =>
                        rowStatus[r] = "sending" /\ (Trying(w, r) => rowAttempts[r] < MaxAttempts))
    OBVIOUS
  <2>1. r \in Rows /\ rowAttempts[r] \in Nat /\ MaxAttempts \in Nat
    BY ConfigAssumption DEF HeldTypes
  <2>2. rowStatus[r] \in {"sending", "skipped"} BY DEF ClaimInv, HeldClaimed, Held
  <2> QED BY <2>1, <2>2 DEF MarkRefused, StillSending, Exhausted, Settled, Trying
<1>6. TriesLeft'
  <2> SUFFICES ASSUME NEW r \in Rows, rowStatus'[r] \notin Settled
               PROVE  /\ tries[r] <= rowAttempts[r]
                      /\ Room(r) \/ \E v \in Workers : Trying(v, r)'
    BY <1>1 DEF TriesLeft, Room
  <2>0. /\ tries[r] \in Nat /\ rowAttempts[r] \in Nat /\ lost[r] \in Nat
        /\ MaxAttempts \in Nat
    BY ConfigAssumption
  <2>1. CASE r \in slice[w]
    <3>1. rowStatus[r] = "sending" /\ tries[r] <= rowAttempts[r]
      BY <1>5, <2>1 DEF TriesLeft, Settled
    <3>2. CASE Trying(w, r) BY <1>5, <2>0, <2>1, <3>1, <3>2 DEF Room
    <3>3. CASE ~Trying(w, r) BY <2>1, <3>1, <3>3, UntriedHeld DEF Held
    <3> QED BY <3>1, <3>2, <3>3
  <2>2. CASE r \notin slice[w]
    <3>1. ~Trying(w, r) BY <2>2 DEF Trying
    <3> QED BY <1>3, <1>4, <2>2, <3>1 DEF TriesLeft, Room
  <2> QED BY <2>1, <2>2
<1>7. HeldHasTry'
  <2> SUFFICES ASSUME NEW v \in Workers, NEW r \in Held(v)', ~Trying(v, r)'
               PROVE  Room(r) /\ (rowStatus'[r] = "sending" => tries[r] < rowAttempts[r])
    BY <1>1 DEF HeldHasTry, Room
  <2>1. r \in Rows \ slice[w] /\ r \in Held(v) BY <1>2
  <2>2. ~Trying(v, r) BY <1>3, <2>1 DEF Trying
  <2> QED BY <1>4, <2>1, <2>2 DEF HeldHasTry, Room
<1>8. TriesCapped' BY <1>1 DEF TriesCapped
<1> QED BY <1>6, <1>7, <1>8

(* Where the slice is let go unmarked, its tries are known to be lost.     *)
LEMMA TriesLost ==
  ASSUME TypeOK, ClaimInv, TriesInv, MaxAttempts > 0, NEW w \in Workers, MarkLost(w) \/ Crash(w)
  PROVE  TriesLeft' /\ HeldHasTry' /\ TriesCapped'
<1> USE DEF TypeOK, RowTypes, EnvTypes, TriesInv
<1>1. UNCHANGED <<tries, rowAttempts, rowStatus>> BY DEF MarkLost, Crash
<1>2. \A v \in Workers : \A r \in Held(v)' : r \in Rows /\ r \in Held(v) /\ r \notin slice[w]
  BY SliceLeaves
<1>3. \A v \in Workers \ {w} : \A r \in Rows : Trying(v, r)' = Trying(v, r)
  BY TryingMoves DEF Mishap
<1>4. \A r \in Rows : lost'[r] = IF Trying(w, r) THEN lost[r] + 1 ELSE lost[r]
  BY DEF MarkLost, Crash, LoseOutcome, Trying
<1>5. \A r \in Rows : tries[r] <= MaxAttempts + lost[r] BY DEF TriesCapped
<1>6. \A r \in Rows : Room(r) \/ Trying(w, r) => tries[r] < MaxAttempts + lost'[r]
  <2> SUFFICES ASSUME NEW r \in Rows, Room(r) \/ Trying(w, r)
               PROVE  tries[r] < MaxAttempts + lost'[r]
    OBVIOUS
  <2>0. tries[r] \in Nat /\ lost[r] \in Nat /\ MaxAttempts \in Nat BY ConfigAssumption
  <2>1. CASE Trying(w, r)
    <3>1. lost'[r] = lost[r] + 1 BY <1>4, <2>1
    <3> QED BY <1>5, <2>0, <3>1
  <2>2. CASE Room(r) /\ ~Trying(w, r) BY <1>4, <2>2 DEF Room
  <2> QED BY <2>1, <2>2
<1>7. TriesLeft'
  <2> SUFFICES ASSUME NEW r \in Rows, rowStatus[r] \notin Settled
               PROVE  /\ tries[r] <= rowAttempts[r]
                      /\ \/ tries[r] < MaxAttempts + lost'[r]
                         \/ \E v \in Workers : Trying(v, r)'
    BY <1>1 DEF TriesLeft
  <2>1. tries[r] <= rowAttempts[r] /\ (Room(r) \/ \E v \in Workers : Trying(v, r))
    BY DEF TriesLeft, Room
  <2> QED BY <1>3, <1>6, <2>1
<1>8. HeldHasTry'
  <2> SUFFICES ASSUME NEW v \in Workers, NEW r \in Held(v)', ~Trying(v, r)'
               PROVE  /\ tries[r] < MaxAttempts + lost'[r]
                      /\ rowStatus[r] = "sending" => tries[r] < rowAttempts[r]
    BY <1>1 DEF HeldHasTry
  <2>1. r \in Rows \ slice[w] /\ r \in Held(v) BY <1>2
  <2>2. ~Trying(v, r) BY <1>3, <2>1 DEF Trying
  <2> QED BY <1>6, <2>1, <2>2 DEF HeldHasTry, Room
<1>9. TriesCapped'
  <2> SUFFICES ASSUME NEW r \in Rows PROVE tries[r] <= MaxAttempts + lost'[r]
    BY <1>1 DEF TriesCapped
  <2>0. tries[r] \in Nat /\ lost[r] \in Nat /\ MaxAttempts \in Nat BY ConfigAssumption
  <2>1. lost'[r] \in {lost[r], lost[r] + 1} BY <1>4
  <2> QED BY <1>5, <2>0, <2>1
<1> QED BY <1>7, <1>8, <1>9

(* A call tries the rows of its slice once more, and each of them had room *)
(* and an attempt for it; a call that halts the send tries nobody.         *)
LEMMA TriesPost ==
  ASSUME TypeOK, ClaimInv, TriesInv, MaxAttempts > 0, NEW w \in Workers,
         PostAccepted(w) \/ PostRefused(w) \/ PostLostReply(w)
  PROVE  TriesLeft' /\ HeldHasTry' /\ TriesCapped'
<1> USE DEF TypeOK, RowTypes, EnvTypes, HeldTypes, TriesInv
<1>1. PICK D, answer : ProviderCall(w, D, answer)
  BY DEF PostAccepted, PostRefused, PostLostReply
<1>2. /\ UNCHANGED <<heldVars, rowStatus, rowAttempts, lost>>
      /\ At(w, "post") /\ pc' = [pc EXCEPT ![w] = "mark"]
      /\ reply' = [reply EXCEPT ![w] = answer]
  BY <1>1 DEF ProviderCall, Goto
<1> DEFINE tried == IF answer = "halt" THEN {} ELSE slice[w]
<1>3. \A r \in Rows : tries'[r] = IF r \in tried THEN tries[r] + 1 ELSE tries[r]
  BY <1>1 DEF ProviderCall
<1>4. \A v \in Workers \ {w} : \A r \in Rows : Trying(v, r)' = Trying(v, r)
  BY TryingMoves DEF Tick, Mishap
<1>5. \A r \in Rows : ~Trying(w, r) /\ (Trying(w, r)' <=> r \in tried)
  BY <1>2 DEF Trying, At, MemTypes
<1>6. \A r \in tried : /\ r \in Rows /\ Room(r) /\ rowStatus[r] \in {"sending", "skipped"}
                       /\ rowStatus[r] = "sending" => tries[r] < rowAttempts[r]
  BY <1>5, UntriedHeld DEF Held
<1>7. \A v \in Workers : Held(v)' = Held(v) /\ Held(v) \subseteq Rows BY <1>2 DEF Held
<1>8. \A v \in Workers : \A r \in Held(v) : r \in tried => v = w
  BY DEF ClaimInv, HeldApart, Held
<1> HIDE DEF tried
<1>9. TriesLeft'
  <2> SUFFICES ASSUME NEW r \in Rows, rowStatus[r] \notin Settled
               PROVE  /\ tries'[r] <= rowAttempts[r]
                      /\ \/ tries'[r] < MaxAttempts + lost[r]
                         \/ \E v \in Workers : Trying(v, r)'
    BY <1>2 DEF TriesLeft
  <2>0. tries[r] \in Nat /\ rowAttempts[r] \in Nat OBVIOUS
  <2>1. CASE r \in tried
    <3>1. rowStatus[r] = "sending" BY <1>6, <2>1 DEF Settled
    <3>2. tries'[r] <= rowAttempts[r] BY <1>3, <1>6, <2>0, <2>1, <3>1
    <3> QED BY <1>5, <2>1, <3>2
  <2>2. CASE r \notin tried
    <3>1. tries'[r] = tries[r] BY <1>3, <2>2
    <3> QED BY <1>4, <1>5, <3>1 DEF TriesLeft
  <2> QED BY <2>1, <2>2
<1>10. HeldHasTry'
  <2> SUFFICES ASSUME NEW v \in Workers, NEW r \in Held(v), ~Trying(v, r)'
               PROVE  /\ tries'[r] < MaxAttempts + lost[r]
                      /\ rowStatus[r] = "sending" => tries'[r] < rowAttempts[r]
    BY <1>2, <1>7 DEF HeldHasTry
  <2>1. r \in Rows /\ r \notin tried BY <1>5, <1>7, <1>8
  <2>2. ~Trying(v, r) BY <1>4, <1>5, <2>1
  <2> QED BY <1>3, <2>1, <2>2 DEF HeldHasTry
<1>11. TriesCapped'
  <2> SUFFICES ASSUME NEW r \in Rows PROVE tries'[r] <= MaxAttempts + lost[r]
    BY <1>2 DEF TriesCapped
  <2>0. tries[r] \in Nat /\ lost[r] \in Nat /\ MaxAttempts \in Nat BY ConfigAssumption
  <2>1. CASE r \in tried BY <1>3, <1>6, <2>0, <2>1 DEF Room
  <2>2. CASE r \notin tried BY <1>3, <2>2 DEF TriesCapped
  <2> QED BY <2>1, <2>2
<1> QED BY <1>9, <1>10, <1>11

(* A claim takes rows with room for a try and counts the attempt.          *)
LEMMA TriesClaim ==
  ASSUME TypeOK, ClaimInv, TriesInv, MaxAttempts > 0, NEW w \in Workers, Claim(w)
  PROVE  TriesLeft' /\ HeldHasTry' /\ TriesCapped'
<1> USE DEF TypeOK, RowTypes, EnvTypes, HeldTypes, TriesInv
<1>1. PICK C \in SUBSET Due :
        /\ \A r \in C : r \in Rows /\ rowStatus[r] = "pending"
        /\ \A r \in C : \A v \in Workers : r \notin Held(v)
        /\ \A r \in Rows : rowStatus'[r] = IF r \in C THEN "sending" ELSE rowStatus[r]
        /\ \A r \in Rows : rowAttempts'[r] = IF r \in C /\ MaxAttempts > 0
                                             THEN rowAttempts[r] + 1 ELSE rowAttempts[r]
        /\ todo' = [todo EXCEPT ![w] = C]
        /\ UNCHANGED <<grp, slice, rel, tries, lost>>
        /\ At(w, "claim")
  BY ClaimTakes
<1>2. \A v \in Workers : Held(v)' \subseteq Held(v) \cup C /\ Held(v) \subseteq Rows
  BY <1>1 DEF Held
<1>3. \A v \in Workers : \A r \in Rows : Trying(v, r)' = Trying(v, r)
  <2>1. ~(PostAccepted(w) \/ PostRefused(w) \/ PostLostReply(w))
    BY <1>1 DEF PostAccepted, PostRefused, PostLostReply, ProviderCall, At
  <2> QED BY <1>1, <2>1, TryingMoves DEF Tick, Trying, At
<1>4. \A r \in C : Room(r) /\ tries[r] <= rowAttempts[r]
  <2> SUFFICES ASSUME NEW r \in C PROVE Room(r) /\ tries[r] <= rowAttempts[r] OBVIOUS
  <2>1. \A v \in Workers : ~Trying(v, r) BY <1>1 DEF Trying, Held
  <2>2. r \in Rows /\ rowStatus[r] \notin Settled BY <1>1 DEF Settled
  <2> QED BY <2>1, <2>2 DEF TriesLeft, Room
<1>5. TriesLeft'
  <2> SUFFICES ASSUME NEW r \in Rows, rowStatus'[r] \notin Settled
               PROVE  /\ tries[r] <= rowAttempts'[r]
                      /\ Room(r) \/ \E v \in Workers : Trying(v, r)'
    BY <1>1 DEF TriesLeft, Room
  <2>1. CASE r \in C BY <1>1, <1>4, <2>1
  <2>2. CASE r \notin C
    <3>1. rowStatus[r] \notin Settled /\ rowAttempts'[r] = rowAttempts[r] BY <1>1, <2>2
    <3> QED BY <1>3, <3>1 DEF TriesLeft, Room
  <2> QED BY <2>1, <2>2
<1>6. HeldHasTry'
  <2> SUFFICES ASSUME NEW v \in Workers, NEW r \in Held(v) \cup C, ~Trying(v, r)'
               PROVE  Room(r) /\ (rowStatus'[r] = "sending" => tries[r] < rowAttempts'[r])
    BY <1>1, <1>2 DEF HeldHasTry, Room
  <2>0. r \in Rows BY <1>1, <1>2
  <2>1. CASE r \in C
    <3>1. tries[r] \in Nat /\ rowAttempts[r] \in Nat BY <2>0
    <3> QED BY <1>1, <1>4, <2>0, <2>1, <3>1
  <2>2. CASE r \notin C BY <1>1, <1>3, <2>0, <2>2 DEF HeldHasTry, Room
  <2> QED BY <2>1, <2>2
<1>7. TriesCapped' BY <1>1 DEF TriesCapped
<1> QED BY <1>5, <1>6, <1>7

(* The bookkeeping of attempts is inductive, given types and claims.       *)
LEMMA TriesStep ==
  TypeOK /\ ClaimInv /\ TriesInv /\ [Next]_vars => TriesInv'
<1> SUFFICES ASSUME TypeOK, ClaimInv, TriesInv, [Next]_vars, MaxAttempts > 0
             PROVE  TriesLeft' /\ HeldHasTry' /\ TriesCapped'
  BY DEF TriesInv
<1>0. \A v \in Workers : Held(v) \subseteq Rows BY DEF Held, TypeOK, HeldTypes
<1>1. CASE UNCHANGED vars
  <2>1. \A v \in Workers : Held(v)' = Held(v) BY <1>1 DEF vars, Held
  <2>2. \A v \in Workers : \A r \in Rows : Trying(v, r)' = Trying(v, r)
    BY <1>1 DEF vars, Trying, At
  <2> QED BY <1>0, <1>1, <2>1, <2>2, TriesKeep DEF vars
<1>2. CASE Environment
  <2>1. \A v \in Workers : Held(v)' = Held(v) BY <1>2, EnvironmentFrame DEF Held
  <2>2. \A r \in Rows : /\ rowStatus'[r] = "sending" => rowStatus[r] = "sending"
                        /\ rowStatus'[r] \notin Settled => rowStatus[r] \notin Settled
    BY <1>2, EnvironmentFrame DEF Settled
  <2>3. \A v \in Workers : \A r \in Rows : Trying(v, r)' = Trying(v, r)
    BY <1>2, EnvironmentFrame DEF Trying, At
  <2> QED BY <1>0, <1>2, <2>1, <2>2, <2>3, EnvironmentFrame, TriesKeep
<1>3. ASSUME NEW w \in Workers, Tick(w) \/ Mishap(w)
      PROVE  TriesLeft' /\ HeldHasTry' /\ TriesCapped'
  <2>1. CASE ~(Claim(w) \/ Release(w) \/ MarkRefused(w) \/ MarkLost(w) \/ Crash(w)) /\
             ~(PostAccepted(w) \/ PostRefused(w) \/ PostLostReply(w))
    <3>1. \A r \in Rows : Trying(w, r) => rowStatus'[r] \in Settled /\ r \notin Held(w)'
      <4> SUFFICES ASSUME NEW r \in Rows, Trying(w, r)
                   PROVE  rowStatus'[r] \in Settled /\ r \notin Held(w)'
        OBVIOUS
      <4>1. MarkSent(w) /\ r \in slice[w] BY <1>3, <2>1, MarkMoves DEF Trying
      <4>2. rowStatus'[r] = "sent" BY <4>1 DEF MarkSent, Posted, SetRows
      <4> QED BY <4>1, <4>2, SliceLeaves DEF Settled
    <3>2. Frame(w) /\ UNCHANGED <<tries, rowAttempts, lost>>
      BY <1>3, <2>1, FrameStep, TriesWriters
    <3> QED BY <1>3, <3>1, <3>2, FrameHolds, TryingMoves, TriesKeep
  <2> QED BY <2>1, TriesClaim, TriesRelease, TriesRefused, TriesLost, TriesPost
<1> QED BY <1>1, <1>2, <1>3 DEF Next

LEMMA TriesInit == Init => TriesInv
BY ConfigAssumption DEF Init, TriesInv, TriesLeft, HeldHasTry, TriesCapped, Held

(* Attempts run ahead of tries, whatever else goes wrong.                  *)
THEOREM TriesHold == ASSUME "slow_tick" \notin Hazards PROVE Spec => []TriesInv
<1>1. Init => TypeOK /\ ClaimInv /\ TriesInv BY TypeInit, ClaimInit, TriesInit
<1>2. (TypeOK /\ ClaimInv /\ TriesInv) /\ [Next]_vars => (TypeOK /\ ClaimInv /\ TriesInv)'
  BY TypeStep, ClaimStep, TriesStep
<1> QED BY <1>1, <1>2, PTL DEF Spec

(* Nobody is called more often than the cap and once for each try whose    *)
(* outcome a crash or a failed UPDATE kept from being recorded.            *)
THEOREM TriesAreCapped == ASSUME "slow_tick" \notin Hazards PROVE Spec => []TriesCapped
<1>1. TriesInv => TriesCapped BY DEF TriesInv, TriesCapped
<1> QED BY TriesHold, <1>1, PTL

-----------------------------------------------------------------------------
(***************************************************************************)
(* An address erased before its row was claimed is not mailed, as long as  *)
(* no live tick is slow: whatever a tick posts has passed its gate.        *)
(***************************************************************************)

(* Only the claim fills todo, and only what left todo past the gate gets   *)
(* to a group and a slice.                                                 *)
LEMMA GateMoves ==
  ASSUME TypeOK, NEW w \in Workers, Tick(w) \/ Mishap(w), ~Claim(w)
  PROVE  /\ todo'[w] \subseteq todo[w]
         /\ At(w, "gate") => /\ todo'[w] \cap erased = {}
                             /\ grp'[w] \cup slice'[w] \subseteq grp[w] \cup slice[w]
         /\ grp'[w] \cup slice'[w] \subseteq todo[w] \cup grp[w] \cup slice[w]
<1> USE DEF TypeOK, HeldTypes, At
<1>1. CASE SuppressionGate(w) \/ GateError(w) \/ Crash(w)
  BY <1>1 DEF SuppressionGate, GateError, Crash, LoseOutcome
<1>2. CASE OpenGroup(w)
  <2>1. PICK s :
          /\ todo' = [todo EXCEPT ![w] = @ \ (todo[w] \cap RowsOf(s))]
          /\ grp' = [grp EXCEPT ![w] = todo[w] \cap RowsOf(s)] \/ UNCHANGED grp
    BY <1>2, Zenon DEF OpenGroup
  <2>2. slice' = slice /\ ~At(w, "gate") BY <1>2 DEF OpenGroup
  <2> QED BY <2>1, <2>2
<1>3. CASE ClaimQuota(w)
  <2>1. PICK B \in SUBSET grp[w] : \E S \in SUBSET B :
          slice' = [slice EXCEPT ![w] = S] /\ grp' = [grp EXCEPT ![w] = @ \ B]
    BY <1>3 DEF ClaimQuota
  <2>2. todo' = todo /\ ~At(w, "gate") BY <1>3 DEF ClaimQuota
  <2> QED BY <2>1, <2>2
<1>4. CASE \/ PaceStop(w) \/ PaceRead(w) \/ CloseBatch(w) \/ ReputationTrip(w) \/ QuotaSpent(w)
           \/ MarkSent(w) \/ MarkRefused(w) \/ MarkLost(w)
  BY <1>4
  DEF PaceStop, PaceRead, CloseBatch, ReputationTrip, QuotaSpent, LeaveGroup, MarkSent,
      MarkRefused, MarkLost, LoseOutcome
<1>5. CASE /\ Tick(w)
           /\ ~(SuppressionGate(w) \/ OpenGroup(w) \/ ClaimQuota(w) \/ PaceStop(w) \/ PaceRead(w))
           /\ ~(CloseBatch(w) \/ MarkSent(w) \/ MarkRefused(w))
  <2>1. UNCHANGED <<todo, grp, slice>> /\ ~At(w, "gate")
    BY <1>5
    DEF Tick, Sweep, FindStuckBatch, RecoverBatch, FindPremature, Reopen, FindStranded, EndLoop,
        Release, Skip, NextClaim, PauseSend, InsertBatch, PostAccepted, ProviderCall, HaltPause,
        ListCancelling, SweepCancelled, Finalize, ReadCount, ReadSend, WriteFinal, EndFinalize
  <2> QED BY <2>1
<1>6. CASE /\ Mishap(w)
           /\ ~(GateError(w) \/ Crash(w) \/ ReputationTrip(w) \/ QuotaSpent(w) \/ MarkLost(w))
  <2>1. UNCHANGED <<todo, grp, slice>> /\ ~At(w, "gate")
    BY <1>6 DEF Mishap, InsertFails, PostRefused, PostLostReply, ProviderCall, FinalizeError,
                EndFinalize
  <2> QED BY <2>1
<1> QED BY <1>1, <1>2, <1>3, <1>4, <1>5, <1>6

(* An address counts as barred only while no tick holds its row.           *)
LEMMA EraseEnvironment ==
  ASSUME TypeOK, ClaimInv, EraseInv, Environment
  PROVE  EraseInv'
<1>1. UNCHANGED <<todo, grp, slice, pc>> BY EnvironmentFrame
<1>2. CASE \E r \in Rows : Erase(r)
  <2>1. PICK r \in Rows : Erase(r) BY <1>2
  <2>2. \A w \in Workers : r \in Held(w) => rowStatus[r] \in {"sending", "skipped"}
    BY DEF ClaimInv, HeldClaimed
  <2>3. \A q \in barred' : q \in barred \/ (q = r /\ \A w \in Workers : r \notin Held(w))
    BY <2>1, <2>2 DEF Erase
  <2>4. barred' \subseteq erased' BY <2>1 DEF Erase, EraseInv
  <2> QED BY <1>1, <2>3, <2>4 DEF EraseInv, Held, At
<1>3. CASE UNCHANGED <<erased, barred>> BY <1>1, <1>3 DEF EraseInv, At
<1> QED BY <1>2, <1>3
  DEF Environment, AgeRow, LateInsert, AgeBatch, AgeSend, ForgetSend, Pause, Resume, Stop,
      AdminSets, BlindWrite

(* The bookkeeping of erased addresses is inductive, given types and claims. *)
LEMMA EraseStep == TypeOK /\ ClaimInv /\ EraseInv /\ [Next]_vars => EraseInv'
<1> SUFFICES ASSUME TypeOK, ClaimInv, EraseInv, [Next]_vars PROVE EraseInv' OBVIOUS
<1>1. CASE UNCHANGED vars BY <1>1 DEF vars, EraseInv, At
<1>2. CASE Environment BY <1>2, EraseEnvironment
<1>3. ASSUME NEW w \in Workers, Tick(w) \/ Mishap(w) PROVE EraseInv'
  <2>1. UNCHANGED eraseVars BY <1>3, MailsSlice
  <2>2. \A v \in Workers \ {w} : \A r \in barred :
          r \notin grp'[v] \cup slice'[v] /\ (r \in todo'[v] => pc'[v] = "gate")
    BY <1>3, OthersApart DEF OthersUntouched, EraseInv, At
  <2>3. \A r \in barred : r \notin grp'[w] \cup slice'[w] /\ (r \in todo'[w] => pc'[w] = "gate")
    <3>1. CASE Claim(w)
      <4>1. UNCHANGED <<grp, slice>> /\ pc'[w] = "gate"
        BY <3>1, ClaimTakes DEF TypeOK, MemTypes
      <4> QED BY <4>1 DEF EraseInv
    <3>2. CASE ~Claim(w) BY <1>3, <3>2, GateMoves DEF EraseInv
    <3> QED BY <3>1, <3>2
  <2> QED BY <2>1, <2>2, <2>3 DEF EraseInv, At
<1> QED BY <1>1, <1>2, <1>3 DEF Next

LEMMA EraseInit == Init => EraseInv
BY DEF Init, EraseInv

(* An erased address that no tick holds never gets past a gate.            *)
THEOREM EraseHolds == ASSUME "slow_tick" \notin Hazards PROVE Spec => []EraseInv
<1>1. Init => TypeOK /\ ClaimInv /\ EraseInv BY TypeInit, ClaimInit, EraseInit
<1>2. (TypeOK /\ ClaimInv /\ EraseInv) /\ [Next]_vars => (TypeOK /\ ClaimInv /\ EraseInv)'
  BY TypeStep, ClaimStep, EraseStep
<1> QED BY <1>1, <1>2, PTL DEF Spec

(* An address erased before its row was claimed is never mailed, by any    *)
(* retry, sweep or later tick.                                             *)
THEOREM ErasedAreSpared == ASSUME "slow_tick" \notin Hazards PROVE Spec => ErasedNotMailed
<1> DEFINE Spared == \A r \in barred : copies'[r] = copies[r]
<1>1. ASSUME TypeOK, EraseInv, Next PROVE Spared
  <2>0. barred \subseteq Rows BY <1>1 DEF TypeOK, EnvTypes
  <2>1. CASE Environment BY <2>1, <1>1, EnvironmentFrame
  <2>2. ASSUME NEW w \in Workers, Tick(w) \/ Mishap(w) PROVE Spared
    BY <1>1, <2>0, <2>2, MailsSlice DEF EraseInv
  <2> QED BY <1>1, <2>1, <2>2 DEF Next
<1>2. TypeOK /\ EraseInv /\ [Next]_vars => [Spared]_vars BY <1>1
<1> QED BY TypeCorrect, EraseHolds, <1>2, PTL DEF Spec, ErasedNotMailed

-----------------------------------------------------------------------------
(***************************************************************************)
(* A lone replica reports the true number of rows that were sent: it ends  *)
(* a send only while it holds no row, and marks 'sent' only rows it holds. *)
(***************************************************************************)

(* HeldByStep of one tick.                                                 *)
HeldByStepAt(w) ==
  /\ pc[w] \in HandsEmpty => Held(w) = {}
  /\ pc[w] \in {"gate", "group", "pauseSend"} => grp[w] \cup slice[w] \cup rel[w] = {}
  /\ pc[w] \in {"pace", "quota", "close", "haltPause"} => slice[w] \cup rel[w] = {}
  /\ pc[w] \in {"insert", "post", "mark"} => rel[w] = {}
  /\ pc[w] = "release" => /\ next[w] \in {"group", "pauseSend", "cancelling", "insert"}
                          /\ next[w] # "insert" => grp[w] \cup slice[w] = {}
                          /\ next[w] = "cancelling" => todo[w] = {}
  /\ pc[w] = "skip" => next[w] = "group" /\ grp[w] \cup slice[w] = {}
  /\ pc[w] \in Finalizing => next[w] \in {"stranded", "finalize"}

(* What a tick holds follows from where it is, step by step.               *)
LEMMA HeldAtStep ==
  ASSUME TypeOK, NEW w \in Workers, HeldByStepAt(w), Tick(w) \/ Mishap(w)
  PROVE  HeldByStepAt(w)'
<1> USE DEF TypeOK, MemTypes, HeldTypes, HeldByStepAt, HandsEmpty, Labels, Finalizing, Held,
            At, Goto, GotoVia, Return, AfterHelper
<1>1. CASE Sweep(w) \/ FindStuckBatch(w) \/ RecoverBatch(w) \/ FindPremature(w) \/ Reopen(w)
  BY <1>1 DEF Sweep, FindStuckBatch, RecoverBatch, FindPremature, Reopen
<1>2. CASE FindStranded(w) \/ EndLoop(w) \/ NextClaim(w)
  BY <1>2 DEF FindStranded, BeginFinalize, EndLoop, NextClaim
<1>3. CASE Claim(w)
  <2>1. /\ At(w, "claim") /\ pc' = [pc EXCEPT ![w] = "gate"] /\ UNCHANGED <<grp, slice, rel>>
    BY <1>3 DEF Claim
  <2> QED BY <2>1
<1>4. CASE SuppressionGate(w) BY <1>4 DEF SuppressionGate
<1>5. CASE Release(w) \/ Skip(w) BY <1>5 DEF Release, Skip
<1>6. CASE OpenGroup(w) BY <1>6 DEF OpenGroup
<1>7. CASE PaceStop(w) \/ PaceRead(w) BY <1>7 DEF PaceStop, PaceRead, LeaveGroup
<1>8. CASE PauseSend(w) \/ InsertBatch(w) \/ PostAccepted(w)
  BY <1>8 DEF PauseSend, InsertBatch, PostAccepted, ProviderCall
<1>9. CASE ClaimQuota(w)
  <2>1. /\ pc' = [pc EXCEPT ![w] = "release"] /\ next' = [next EXCEPT ![w] = "insert"]
    BY <1>9 DEF ClaimQuota
  <2> QED BY <2>1
<1>10. CASE MarkSent(w) \/ MarkRefused(w) \/ HaltPause(w)
  BY <1>10 DEF MarkSent, MarkRefused, AfterMark, HaltPause
<1>11. CASE CloseBatch(w) BY <1>11 DEF CloseBatch, LeaveGroup
<1>12. CASE ListCancelling(w) \/ SweepCancelled(w) BY <1>12 DEF ListCancelling, SweepCancelled
<1>13. CASE Finalize(w) \/ ReadCount(w) \/ ReadSend(w) \/ WriteFinal(w)
  BY <1>13 DEF Finalize, BeginFinalize, Forget, ReadCount, ReadSend, WriteFinal, EndFinalize
<1>14. CASE GateError(w) \/ ReputationTrip(w) \/ QuotaSpent(w) \/ InsertFails(w)
  BY <1>14 DEF GateError, ReputationTrip, QuotaSpent, InsertFails, LeaveGroup
<1>15. CASE PostRefused(w) \/ PostLostReply(w)
  BY <1>15 DEF PostRefused, PostLostReply, ProviderCall
<1>16. CASE MarkLost(w) \/ FinalizeError(w) \/ Crash(w)
  BY <1>16 DEF MarkLost, LoseOutcome, AfterMark, FinalizeError, EndFinalize, Crash, Forget
<1> QED BY <1>1, <1>2, <1>3, <1>4, <1>5, <1>6, <1>7, <1>8, <1>9, <1>10, <1>11, <1>12, <1>13,
           <1>14, <1>15, <1>16 DEF Tick, Mishap

(* HeldByStep is inductive, given the types, for any number of ticks.      *)
LEMMA HeldByStepStep == TypeOK /\ HeldByStep /\ [Next]_vars => HeldByStep'
<1> SUFFICES ASSUME TypeOK, HeldByStep, [Next]_vars PROVE HeldByStep' OBVIOUS
<1>0. \A v \in Workers : HeldByStepAt(v) BY DEF HeldByStep, HeldByStepAt
<1>1. SUFFICES ASSUME NEW v \in Workers PROVE HeldByStepAt(v)' BY DEF HeldByStep, HeldByStepAt
<1>2. CASE UNCHANGED vars BY <1>0, <1>2 DEF vars, HeldByStepAt, Held
<1>3. CASE Environment BY <1>0, <1>3, EnvironmentFrame DEF HeldByStepAt, Held
<1>4. ASSUME NEW w \in Workers, Tick(w) \/ Mishap(w), v # w PROVE HeldByStepAt(v)'
  BY <1>0, <1>4, OthersApart DEF OthersUntouched, HeldByStepAt, Held
<1>5. CASE Tick(v) \/ Mishap(v) BY <1>0, <1>5, HeldAtStep
<1> QED BY <1>2, <1>3, <1>4, <1>5 DEF Next

LEMMA HeldByStepInit == Init => HeldByStep
BY DEF Init, HeldByStep, HandsEmpty, Labels, Finalizing, Held

(* Sent rows stay sent, and a row becomes 'sent' only in the hands of the  *)
(* tick that marks it.                                                     *)
LEMMA SentMoves ==
  ASSUME TypeOK, ClaimInv, [Next]_vars, NEW r \in Rows,
         (rowStatus'[r] = "sent") # (rowStatus[r] = "sent")
  PROVE  \E w \in Workers : r \in Held(w) /\ MarkSent(w)
<1>0. ~UNCHANGED vars BY DEF vars
<1>1. CASE Environment BY <1>1, EnvironmentFrame
<1>2. ASSUME NEW w \in Workers, Tick(w) \/ Mishap(w)
      PROVE  r \in Held(w) /\ MarkSent(w)
  <2>1. ~Claim(w)
    <3>1. SUFFICES ASSUME Claim(w) PROVE FALSE OBVIOUS
    <3>2. PICK C \in SUBSET Due :
            /\ \A q \in C : rowStatus[q] = "pending"
            /\ \A q \in Rows : rowStatus'[q] = IF q \in C THEN "sending" ELSE rowStatus[q]
      BY <3>1, ClaimTakes
    <3> QED BY <3>2
  <2>2. /\ rowStatus'[r] # rowStatus[r]
        /\ At(w, "mark") /\ reply[w] = "accepted" /\ r \in slice[w]
    BY <1>2, <2>1, FrameStep DEF Frame, RowStepOK
  <2>3. MarkSent(w)
    <3>1. ~UNCHANGED <<rowStatus, rowStale>> BY <2>2
    <3>2. ~(Sweep(w) \/ RecoverBatch(w) \/ Claim(w) \/ Release(w) \/ Skip(w))
      BY <2>2 DEF At, Sweep, RecoverBatch, Claim, Release, Skip
    <3>3. ~(MarkRefused(w) \/ SweepCancelled(w))
      BY <2>2 DEF At, MarkRefused, SweepCancelled
    <3> QED BY <1>2, <3>1, <3>2, <3>3, RowWriters
  <2> QED BY <2>2, <2>3 DEF Held
<1> QED BY <1>0, <1>1, <1>2 DEF Next

(* Where no row of a send changes so, its count of sent rows stands.       *)
LEMMA SentCountStands ==
  ASSUME NEW s,
         \A r \in Rows : SendOf[r] = s => (rowStatus'[r] = "sent") = (rowStatus[r] = "sent")
  PROVE  CountOf(s, "sent")' = CountOf(s, "sent")
<1>1. With(s, {"sent"})' = With(s, {"sent"}) BY DEF With, RowsOf
<1> QED BY <1>1 DEF CountOf

(* Only finalizeSend writes the counts of a send.                          *)
LEMMA ReportWriters ==
  ASSUME NEW w \in Workers, Tick(w) \/ Mishap(w), ~WriteFinal(w)
  PROVE  UNCHANGED reported
<1>1. CASE Tick(w)
  BY <1>1
  DEF Tick, Sweep, FindStuckBatch, RecoverBatch, FindPremature, Reopen, FindStranded, Claim,
      EndLoop, SuppressionGate, Release, Skip, NextClaim, OpenGroup, PaceStop, PaceRead,
      PauseSend, ClaimQuota, InsertBatch, PostAccepted, ProviderCall, MarkSent, MarkRefused,
      HaltPause, CloseBatch, ListCancelling, SweepCancelled, Finalize, ReadCount, ReadSend
<1>2. CASE Mishap(w)
  BY <1>2
  DEF Mishap, GateError, ReputationTrip, QuotaSpent, InsertFails, PostRefused, PostLostReply,
      ProviderCall, MarkLost, FinalizeError, Crash
<1> QED BY <1>1, <1>2

(* At most one tick runs at a time: one replica, one heartbeat.            *)
Alone == \A v, w \in Workers : v = w

(* The lone tick ends no send while it holds a row.                        *)
LEMMA NotEndedStep ==
  ASSUME Alone, TypeOK, ClaimInv, ReportInv, [Next]_vars
  PROVE  HeldNotEnded'
<1> USE DEF ReportInv
<1>0. \A v \in Workers : Held(v) \subseteq Rows BY DEF Held, TypeOK, HeldTypes
<1> SUFFICES ASSUME NEW v \in Workers, NEW r \in Held(v)', SendOf[r] \notin blind'
             PROVE  sendStatus'[SendOf[r]] \notin {"sent", "failed"}
  BY DEF HeldNotEnded
<1>3. SendOf[r] \notin blind BY BlindStays
<1>1. CASE \E w \in Workers : Claim(w)
  <2>1. PICK w \in Workers : Claim(w) BY <1>1
  <2>2. PICK C \in SUBSET Due :
          todo' = [todo EXCEPT ![w] = C] /\ UNCHANGED <<grp, slice, rel>>
    BY <2>1, ClaimTakes
  <2>3. r \in Held(v) \/ r \in Due BY <2>2 DEF Held, TypeOK, HeldTypes
  <2>4. sendStatus' = sendStatus BY <2>1 DEF Claim
  <2> QED BY <1>3, <2>3, <2>4 DEF Due, HeldNotEnded
<1>2. CASE ~(\E w \in Workers : Claim(w))
  <2>1. r \in Held(v)
    <3>1. CASE UNCHANGED vars BY <3>1 DEF vars, Held
    <3>2. CASE Environment BY <3>2, EnvironmentFrame DEF Held
    <3>3. CASE \E w \in Workers : Tick(w) \/ Mishap(w)
      BY <1>2, <3>3, FrameStep, FrameHolds
    <3> QED BY <3>1, <3>2, <3>3 DEF Next
  <2>2. r \in Rows /\ SendOf[r] \in Sends BY <1>0, <2>1, RowsAssumption
  <2>3. CASE sendStatus'[SendOf[r]] = sendStatus[SendOf[r]] BY <1>3, <2>1, <2>3 DEF HeldNotEnded
  <2>4. CASE sendStatus'[SendOf[r]] # sendStatus[SendOf[r]]
    <3>1. SUFFICES ASSUME NEW w \in Workers, Decides(w, SendOf[r]) PROVE FALSE
      BY <2>2, <2>4, StatusMoves DEF StatusMove
    <3>2. w = v /\ pc[v] = "write" BY <3>1 DEF Alone, Decides, WriteFinal, At
    <3> QED BY <2>1, <3>2 DEF HeldByStep, HandsEmpty, Labels
  <2> QED BY <2>3, <2>4
<1> QED BY <1>1, <1>2

(* Nobody changes the sent rows of a send between the lone tick's count    *)
(* and its write: while it finalizes it holds nothing.                     *)
LEMMA SentCountStep ==
  ASSUME Alone, TypeOK, ClaimInv, ReportInv, [Next]_vars
  PROVE  SentCountTrue'
<1> USE DEF ReportInv
<1> SUFFICES ASSUME NEW v \in Workers, pc'[v] \in Finalizing, "sent" \notin read'[v].unread
             PROVE  read'[v].count["sent"] = CountOf(cur[v], "sent")'
  BY DEF SentCountTrue
<1>1. /\ cur'[v] = cur[v] /\ pc[v] \in Finalizing
      /\ read'[v].count["sent"] = CountOf(cur[v], "sent")
  <2>1. CASE UNCHANGED <<pc, cur, read>> BY <2>1 DEF SentCountTrue
  <2>2. ASSUME NEW w \in Workers, Tick(w) \/ Mishap(w)
        PROVE  /\ cur'[v] = cur[v] /\ pc[v] \in Finalizing
               /\ read'[v].count["sent"] = CountOf(cur[v], "sent")
    <3> USE DEF TypeOK, MemTypes, Reads, At, Goto
    <3>0. w = v BY DEF Alone
    <3>1. CASE ReadCount(v)
      <4>1. PICK q \in read[v].unread :
              /\ read'[v].unread = read[v].unread \ {q}
              /\ "sent" \in Queries => read'[v].count["sent"] =
                   IF q = "sent" THEN CountOf(cur[v], "sent") ELSE read[v].count["sent"]
        BY <3>1 DEF ReadCount
      <4>2. cur' = cur /\ pc[v] \in Finalizing BY <3>1 DEF ReadCount, Finalizing
      <4> QED BY <4>1, <4>2 DEF SentCountTrue, Queries, Settled
    <3>2. CASE ReadSend(v)
      <4>1. /\ cur' = cur /\ pc[v] \in Finalizing
            /\ read'[v].unread = read[v].unread /\ read'[v].count = read[v].count
        BY <3>2 DEF ReadSend, Finalizing
      <4> QED BY <4>1 DEF SentCountTrue
    <3>3. CASE read'[v].unread = Queries BY <3>3 DEF Queries, Settled
    <3> QED BY <2>2, <3>0, <3>1, <3>2, <3>3, FinalizeMoves
  <2> QED BY <2>1, <2>2, EnvironmentFrame DEF Next, vars
<1>2. \A w \in Workers : Held(w) = {}
  BY <1>1 DEF Alone, HeldByStep, Finalizing, HandsEmpty, Labels
<1>3. \A r \in Rows : (rowStatus'[r] = "sent") = (rowStatus[r] = "sent")
  BY <1>2, SentMoves
<1>4. With(cur[v], {"sent"})' = With(cur[v], {"sent"}) BY <1>1, <1>3 DEF With, RowsOf
<1> QED BY <1>1, <1>4 DEF CountOf

(* What the lone tick reports is true, and stays so while the send is over. *)
LEMMA ReportTrueStep ==
  ASSUME Alone, TypeOK, ClaimInv, ReportInv, [Next]_vars
  PROVE  ReportTrue'
<1> USE DEF ReportInv
<1> SUFFICES ASSUME NEW s \in Sends \ blind', sendStatus'[s] \in {"sent", "failed"}
             PROVE  reported'[s].sent = CountOf(s, "sent")'
  BY DEF ReportTrue
<1>0. s \notin blind BY BlindStays
<1>1. CASE \E w \in Workers : WriteFinal(w) /\ cur[w] = s /\ ~UNCHANGED sendVars
  <2>1. PICK w \in Workers : WriteFinal(w) /\ cur[w] = s /\ ~UNCHANGED sendVars BY <1>1
  <2>2. reported' = [reported EXCEPT ![s] = [sent |-> read[w].count["sent"],
                                             failed |-> read[w].count["failed"]]]
    BY <2>1 DEF WriteFinal
  <2>3. reported'[s].sent = read[w].count["sent"] BY <2>2 DEF TypeOK, SendTypes
  <2>4. pc[w] = "write" /\ rowStatus' = rowStatus BY <2>1 DEF WriteFinal, At
  <2>5. read[w].count["sent"] = CountOf(s, "sent")
    BY <2>1, <2>4 DEF ReadInFull, SentCountTrue, Finalizing
  <2>6. CountOf(s, "sent")' = CountOf(s, "sent") BY <2>4, SentCountStands
  <2> QED BY <2>3, <2>5, <2>6
<1>2. CASE ~(\E w \in Workers : WriteFinal(w) /\ cur[w] = s /\ ~UNCHANGED sendVars)
  <2>1. reported'[s] = reported[s]
    <3>1. CASE \E w \in Workers : WriteFinal(w)
      <4>1. PICK w \in Workers : WriteFinal(w) BY <3>1
      <4>2. reported' = reported \/ cur[w] # s BY <1>2, <4>1 DEF sendVars
      <4>3. UNCHANGED reported \/ \E entry : reported' = [reported EXCEPT ![cur[w]] = entry]
        BY <4>1 DEF WriteFinal
      <4> QED BY <4>2, <4>3 DEF TypeOK, SendTypes, MemTypes
    <3>2. CASE ~(\E w \in Workers : WriteFinal(w))
      <4>1. UNCHANGED reported BY <3>2, ReportWriters, EnvironmentFrame DEF Next, vars
      <4> QED BY <4>1
    <3> QED BY <3>1, <3>2
  <2>2. sendStatus'[s] = sendStatus[s]
    <3>1. SUFFICES ASSUME sendStatus'[s] # sendStatus[s] PROVE FALSE OBVIOUS
    <3>2. PICK w \in Workers : Decides(w, s) BY <3>1, StatusMoves DEF StatusMove
    <3>3. cur[w] = s /\ WriteFinal(w) BY <3>2 DEF Decides
    <3> QED BY <1>2, <3>1, <3>3
  <2>3. \A r \in Rows : SendOf[r] = s => (rowStatus'[r] = "sent") = (rowStatus[r] = "sent")
    BY <1>0, <2>2, SentMoves DEF HeldNotEnded
  <2>4. CountOf(s, "sent")' = CountOf(s, "sent") BY <2>3, SentCountStands
  <2> QED BY <1>0, <2>1, <2>2, <2>4 DEF ReportTrue
<1> QED BY <1>1, <1>2

(* The bookkeeping of a lone replica is inductive, given types and claims. *)
LEMMA ReportStep == Alone /\ TypeOK /\ ClaimInv /\ ReportInv /\ [Next]_vars => ReportInv'
<1> SUFFICES ASSUME Alone, TypeOK, ClaimInv, ReportInv, [Next]_vars PROVE ReportInv' OBVIOUS
<1>1. HeldByStep' BY HeldByStepStep DEF ReportInv
<1>2. ReadInFull' BY ReadInFullStep DEF ReportInv
<1> QED BY <1>1, <1>2, NotEndedStep, SentCountStep, ReportTrueStep DEF ReportInv

LEMMA ReportInit == Init => ReportInv
BY HeldByStepInit
DEF Init, ReportInv, ReadInFull, HeldNotEnded, SentCountTrue, ReportTrue, Finalizing, Held

(* A lone replica never shows a finished send with a count that is not the *)
(* number of its rows that were sent.                                      *)
THEOREM ReportHolds ==
  ASSUME Alone, "slow_tick" \notin Hazards PROVE Spec => []ReportInv
<1>1. Init => TypeOK /\ ClaimInv /\ ReportInv BY TypeInit, ClaimInit, ReportInit
<1>2. (TypeOK /\ ClaimInv /\ ReportInv) /\ [Next]_vars => (TypeOK /\ ClaimInv /\ ReportInv)'
  BY TypeStep, ClaimStep, ReportStep
<1> QED BY <1>1, <1>2, PTL DEF Spec

(* So the count is true once no tick is running.                           *)
THEOREM ReportIsTrue ==
  ASSUME Alone, "slow_tick" \notin Hazards PROVE Spec => []ReportedCountIsTrue
<1>1. ReportInv => ReportedCountIsTrue
  BY DEF ReportInv, ReportTrue, ReportedCountIsTrue, CountOf
<1> QED BY ReportHolds, <1>1, PTL

-----------------------------------------------------------------------------
(***************************************************************************)
(* The engine implements SendLifecycle in the paced binding, without late  *)
(* rows or hazards.  First what that needs beyond the invariants above:    *)
(* StopInv.                                                                *)
(***************************************************************************)

(* A send that was asked to stop stays stopped.                            *)
LEMMA StoppingStays ==
  ASSUME TypeOK, Paced, NeverTrips, [Next]_vars, NEW s \in Sends, sendStatus[s] \in Stopping
  PROVE  sendStatus'[s] \in Stopping
<1>1. SUFFICES ASSUME sendStatus'[s] # sendStatus[s] PROVE sendStatus'[s] \in Stopping OBVIOUS
<1>2. StatusMove(s) BY <1>1, StatusMoves
<1>3. \A w \in Workers : ~PauseSend(w) BY DEF PauseSend, NeverTrips, At
<1>4. \A w \in Workers : Decides(w, s) => sendStatus'[s] = "cancelled"
  BY DEF Decides, Settles, Verdict, Stopping
<1> QED BY <1>2, <1>3, <1>4 DEF StatusMove, Stopping

(* Only a send found to have ended too early leads to the reopen.          *)
LEMMA ReopenMoves ==
  ASSUME TypeOK, NEW w \in Workers, Tick(w) \/ Mishap(w), pc'[w] = "reopen"
  PROVE  \/ At(w, "reopen")
         \/ \E s \in Sends : sendStatus[s] = "sent" /\ Open(s) # {}
<1> USE DEF TypeOK, MemTypes, At, Goto, GotoVia, Return, AfterHelper
<1>1. CASE ClaimQuota(w) BY <1>1 DEF ClaimQuota
<1>2. CASE OpenGroup(w) BY <1>2 DEF OpenGroup
<1>3. CASE FindPremature(w) BY <1>3 DEF FindPremature, SendTypes
<1>4. CASE \/ Sweep(w) \/ FindStuckBatch(w) \/ RecoverBatch(w) \/ Reopen(w) \/ FindStranded(w)
           \/ Claim(w) \/ EndLoop(w) \/ SuppressionGate(w) \/ Release(w) \/ Skip(w)
           \/ NextClaim(w)
  BY <1>4
  DEF Sweep, FindStuckBatch, RecoverBatch, Reopen, FindStranded, BeginFinalize, Claim, EndLoop,
      SuppressionGate, Release, Skip, NextClaim
<1>5. CASE \/ PaceStop(w) \/ PaceRead(w) \/ PauseSend(w) \/ InsertBatch(w) \/ PostAccepted(w)
           \/ MarkSent(w) \/ MarkRefused(w) \/ HaltPause(w) \/ CloseBatch(w)
  BY <1>5
  DEF PaceStop, PaceRead, LeaveGroup, PauseSend, InsertBatch, PostAccepted, ProviderCall,
      MarkSent, MarkRefused, AfterMark, HaltPause, CloseBatch
<1>6. CASE \/ ListCancelling(w) \/ SweepCancelled(w) \/ Finalize(w) \/ ReadCount(w)
           \/ ReadSend(w) \/ WriteFinal(w)
  BY <1>6
  DEF ListCancelling, SweepCancelled, Finalize, BeginFinalize, Forget, ReadCount, ReadSend,
      WriteFinal, EndFinalize
<1>7. CASE Mishap(w)
  BY <1>7
  DEF Mishap, GateError, ReputationTrip, QuotaSpent, LeaveGroup, InsertFails, PostRefused,
      PostLostReply, ProviderCall, MarkLost, LoseOutcome, AfterMark, FinalizeError, EndFinalize,
      Crash, Forget
<1> QED BY <1>1, <1>2, <1>3, <1>4, <1>5, <1>6, <1>7 DEF Tick

(* A tick lists the sends to sweep once, when they are 'cancelling'.       *)
LEMMA CancelMoves ==
  ASSUME TypeOK, NEW w \in Workers, Tick(w) \/ Mishap(w), NEW s \in cancels'[w]
  PROVE  s \in Sends /\ (s \in cancels[w] \/ sendStatus[s] \in Stopping)
<1> USE DEF TypeOK, MemTypes
<1>1. CASE ListCancelling(w) BY <1>1 DEF ListCancelling, Stopping
<1>2. CASE SweepCancelled(w) BY <1>2 DEF SweepCancelled
<1>3. CASE Finalize(w) \/ Crash(w) BY <1>3 DEF Finalize, Crash, Forget
<1>4. CASE ~(ListCancelling(w) \/ SweepCancelled(w) \/ Finalize(w) \/ Crash(w))
  <2>1. UNCHANGED cancels
    <3>1. CASE Tick(w)
      BY <1>4, <3>1
      DEF Tick, Sweep, FindStuckBatch, RecoverBatch, FindPremature, Reopen, FindStranded, Claim,
          EndLoop, SuppressionGate, Release, Skip, NextClaim, OpenGroup, PaceStop, PaceRead,
          PauseSend, ClaimQuota, InsertBatch, PostAccepted, ProviderCall, MarkSent, MarkRefused,
          HaltPause, CloseBatch, ReadCount, ReadSend, WriteFinal, EndFinalize
    <3>2. CASE Mishap(w)
      BY <1>4, <3>2
      DEF Mishap, GateError, ReputationTrip, QuotaSpent, InsertFails, PostRefused,
          PostLostReply, ProviderCall, MarkLost, FinalizeError, EndFinalize
    <3> QED BY <3>1, <3>2
  <2> QED BY <2>1
<1> QED BY <1>1, <1>2, <1>3, <1>4

(* A row that is skipped while a tick holds it belongs to a stopped send.  *)
LEMMA SkippedStep ==
  ASSUME TypeOK, ClaimInv, Paced, NeverTrips, StopInv, [Next]_vars
  PROVE  SkippedStopped'
<1> USE DEF StopInv
<1>0. \A v \in Workers : Held(v) \subseteq Rows BY DEF Held, TypeOK, HeldTypes
<1> SUFFICES ASSUME NEW v \in Workers, NEW r \in Held(v)', rowStatus'[r] = "skipped"
             PROVE  r \in Rows /\ sendStatus[SendOf[r]] \in Stopping
  <2>1. \A r \in Rows : SendOf[r] \in Sends BY RowsAssumption
  <2> QED BY <2>1, StoppingStays DEF SkippedStopped
<1>1. CASE UNCHANGED vars
  <2>1. r \in Held(v) /\ rowStatus[r] = "skipped" BY <1>1 DEF vars, Held
  <2> QED BY <1>0, <2>1 DEF SkippedStopped
<1>2. CASE Environment
  <2>1. r \in Held(v) BY <1>2, EnvironmentFrame DEF Held
  <2>2. rowStatus[r] = "skipped" BY <1>0, <1>2, <2>1, EnvironmentFrame
  <2> QED BY <1>0, <2>1, <2>2 DEF SkippedStopped
<1>3. ASSUME NEW w \in Workers, Claim(w)
      PROVE  r \in Rows /\ sendStatus[SendOf[r]] \in Stopping
  <2>1. PICK C \in SUBSET Due :
          /\ \A q \in C : q \in Rows
          /\ \A q \in Rows : rowStatus'[q] = IF q \in C THEN "sending" ELSE rowStatus[q]
          /\ todo' = [todo EXCEPT ![w] = C] /\ UNCHANGED <<grp, slice, rel>>
    BY <1>3, ClaimTakes
  <2>2. r \notin C /\ r \in Held(v) BY <2>1 DEF Held, TypeOK, HeldTypes
  <2>3. rowStatus[r] = "skipped" BY <1>0, <2>1, <2>2
  <2> QED BY <1>0, <2>2, <2>3 DEF SkippedStopped
<1>4. ASSUME NEW w \in Workers, Tick(w) \/ Mishap(w), ~Claim(w)
      PROVE  r \in Rows /\ sendStatus[SendOf[r]] \in Stopping
  <2>1. Frame(w) BY <1>4, FrameStep
  <2>2. r \in Held(v) /\ r \in Rows BY <2>1, FrameHolds
  <2>3. CASE rowStatus[r] = "skipped" BY <2>2, <2>3 DEF SkippedStopped
  <2>4. CASE Skip(w)
    <3>1. PartsApartAt(w) BY DEF ClaimInv, PartsApart, PartsApartAt
    <3>2. r \notin rel[w]
      <4>1. CASE v = w BY <2>4, <3>1, <4>1 DEF Skip, Held, PartsApartAt, TypeOK, HeldTypes
      <4>2. CASE v # w BY <2>2, <4>2 DEF ClaimInv, HeldApart, Held
      <4> QED BY <4>1, <4>2
    <3>3. rowStatus[r] = "skipped" BY <2>2, <2>4, <3>2 DEF Skip, SetRows
    <3> QED BY <2>2, <3>3 DEF SkippedStopped
  <2>5. CASE SweepCancelled(w)
    <3>1. PICK s \in cancels[w] : SetRows(Open(s), "skipped") BY <2>5 DEF SweepCancelled
    <3>2. r \in Open(s) \/ rowStatus[r] = "skipped" BY <2>2, <3>1 DEF SetRows
    <3>3. r \in Open(s) => SendOf[r] = s BY DEF Open, With, RowsOf
    <3> QED BY <2>2, <2>3, <3>2, <3>3 DEF CancelsStopped
  <2>6. CASE rowStatus[r] # "skipped" /\ ~Skip(w) /\ ~SweepCancelled(w)
    <3>1. Sweep(w) \/ RecoverBatch(w) \/ Release(w) \/ MarkSent(w) \/ MarkRefused(w)
      BY <1>4, <2>6, RowWriters
    <3> QED BY <2>2, <2>6, <3>1
      DEF Sweep, RecoverBatch, Release, MarkSent, MarkRefused, SetRows
  <2> QED BY <2>3, <2>4, <2>5, <2>6
<1> QED BY <1>1, <1>2, <1>3, <1>4 DEF Next

(* StopInv is inductive, given types, claims and that nothing ends early.  *)
LEMMA StopStep ==
  ASSUME Paced, TypeOK, ClaimInv, NeverTrips, EndedMeansSettled, StopInv, [Next]_vars
  PROVE  StopInv'
<1> USE DEF StopInv
<1>1. NothingReopens' /\ CancelsStopped'
  <2>0. \A v \in Workers : cancels[v] \subseteq Sends BY DEF TypeOK, MemTypes
  <2>1. CASE UNCHANGED vars BY <2>1 DEF vars, NothingReopens, CancelsStopped, At
  <2>2. CASE Environment
    BY <2>0, <2>2, EnvironmentFrame, StoppingStays DEF NothingReopens, CancelsStopped, At
  <2>3. ASSUME NEW w \in Workers, Tick(w) \/ Mishap(w)
        PROVE  NothingReopens' /\ CancelsStopped'
    <3>1. NothingReopens'
      BY <2>3, OthersApart, ReopenMoves
      DEF OthersUntouched, NothingReopens, EndedMeansSettled, Ends, At
    <3>2. \A v \in Workers : \A s \in cancels'[v] : s \in Sends /\ sendStatus[s] \in Stopping
      BY <2>0, <2>3, OthersApart, CancelMoves DEF OthersUntouched, CancelsStopped
    <3> QED BY <3>1, <3>2, StoppingStays DEF CancelsStopped
  <2> QED BY <2>1, <2>2, <2>3 DEF Next
<1> QED BY <1>1, SkippedStep

-----------------------------------------------------------------------------
(***************************************************************************)
(* The refinement, step by step.  A step changes the status of one send,   *)
(* or rows, or mails, and never two of these.                              *)
(***************************************************************************)
LifeInv == TypeOK /\ MailedOnce /\ SettleInv /\ PaceInv /\ StopInv

Phase == [s \in Sends |-> PhaseOf(sendStatus[s])]
Record == [r \in Rows |-> RecordOf(rowStatus[r])]

LEMMA PhaseFacts ==
  /\ PhaseOf("sending") = "running" /\ PhaseOf("paused") = "held"
  /\ PhaseOf("cancelling") = "stopping" /\ PhaseOf("cancelled") = "stopped"
  /\ PhaseOf("sent") = "done" /\ PhaseOf("failed") = "done"
BY DEF PhaseOf

LEMMA RecordFacts ==
  /\ RecordOf("pending") = "open" /\ RecordOf("sending") = "open"
  /\ RecordOf("sent") = "sent"
  /\ RecordOf("failed") = "dropped" /\ RecordOf("skipped") = "dropped"
BY DEF RecordOf, Outstanding

(* The rows without a record are the outstanding ones.                     *)
LEMMA OpenRecords ==
  ASSUME TypeOK, NEW r \in Rows
  PROVE  Record[r] = "open" <=> rowStatus[r] \in Outstanding
BY DEF Record, RecordOf, Outstanding

(* A step that leaves the tables' words and the mail alone is a stutter.   *)
LEMMA StillStutter ==
  ASSUME UNCHANGED <<sendStatus, copies>>,
         \A r \in Rows : RecordOf(rowStatus'[r]) = RecordOf(rowStatus[r])
  PROVE  UNCHANGED Lifecycle!vars
<1>1. Phase' = Phase BY DEF Phase
<1>2. Record' = Record BY DEF Record
<1> QED BY <1>1, <1>2 DEF Lifecycle!vars, Phase, Record

(* The rows of R, all without a record, get one.                           *)
LEMMA RowsRecorded ==
  ASSUME UNCHANGED <<sendStatus, copies>>, NEW R \in SUBSET Rows, NEW what,
         \A r \in R : RecordOf(rowStatus'[r]) = what,
         \A r \in Rows \ R : RecordOf(rowStatus'[r]) = RecordOf(rowStatus[r])
  PROVE  Lifecycle!RecordAs(R, what)
<1>1. Phase' = Phase BY DEF Phase
<1>2. Record' = [r \in Rows |-> IF r \in R THEN what ELSE Record[r]] BY DEF Record
<1> QED BY <1>1, <1>2 DEF Lifecycle!RecordAs, Phase, Record

(* Outstanding rows are failed or skipped.                                 *)
LEMMA RowsDropped ==
  ASSUME TypeOK, UNCHANGED <<sendStatus, copies>>, NEW R \in SUBSET Rows,
         \A r \in R : rowStatus[r] \in Outstanding /\ rowStatus'[r] \in {"failed", "skipped"},
         \A r \in Rows \ R : RecordOf(rowStatus'[r]) = RecordOf(rowStatus[r])
  PROVE  Lifecycle!Next
<1>1. Lifecycle!RecordAs(R, "dropped") BY RowsRecorded, RecordFacts
<1>2. R \subseteq Lifecycle!OpenRows BY OpenRecords DEF Lifecycle!OpenRows, Record
<1> QED BY <1>1, <1>2 DEF Lifecycle!Next, Lifecycle!Drop

(* The status of one send changes.                                         *)
LEMMA PhaseBecomes ==
  ASSUME TypeOK, UNCHANGED <<rowStatus, copies>>, NEW s \in Sends,
         \A z \in Sends \ {s} : sendStatus'[z] = sendStatus[z],
         NEW from, NEW to, PhaseOf(sendStatus[s]) \in from, PhaseOf(sendStatus'[s]) = to
  PROVE  Lifecycle!Become(s, from, to)
<1>1. Phase' = [Phase EXCEPT ![s] = to] BY DEF Phase
<1>2. Record' = Record BY DEF Record
<1>3. Phase[s] \in from BY DEF Phase
<1> QED BY <1>1, <1>2, <1>3 DEF Lifecycle!Become, Phase, Record

(* Clicks, halts and verdicts.                                             *)
LEMMA StatusRefines ==
  ASSUME Paced, LifeInv, [Next]_vars, UNCHANGED <<rowStatus, copies>>, NEW s \in Sends,
         sendStatus'[s] # sendStatus[s],
         \A z \in Sends \ {s} : sendStatus'[z] = sendStatus[z]
  PROVE  [Lifecycle!Next]_Lifecycle!vars
<1> USE DEF LifeInv
<1>1. StatusMove(s) BY StatusMoves
<1>2. ~(\E w \in Workers : PauseSend(w)) /\ ~(\E w \in Workers : Reopen(w))
  BY DEF PauseSend, Reopen, PaceInv, NeverTrips, StopInv, NothingReopens, At
<1>3. CASE sendStatus[s] = "sending" /\ sendStatus'[s] = "paused"
  <2>1. Lifecycle!Pause(s) BY <1>3, PhaseBecomes, PhaseFacts DEF Lifecycle!Pause
  <2> QED BY <2>1 DEF Lifecycle!Next
<1>4. CASE sendStatus[s] = "paused" /\ sendStatus'[s] = "sending"
  <2>1. Lifecycle!Resume(s) BY <1>4, PhaseBecomes, PhaseFacts DEF Lifecycle!Resume
  <2> QED BY <2>1 DEF Lifecycle!Next
<1>5. CASE sendStatus[s] \in {"sending", "paused"} /\ sendStatus'[s] = "cancelling"
  <2>1. Lifecycle!Stop(s) BY <1>5, PhaseBecomes, PhaseFacts DEF Lifecycle!Stop
  <2> QED BY <2>1 DEF Lifecycle!Next
<1>6. ASSUME NEW w \in Workers, Decides(w, s) PROVE [Lifecycle!Next]_Lifecycle!vars
  <2>1. /\ At(w, "write") /\ cur[w] = s /\ read[w].count["open"] = 0
        /\ sendStatus[s] # "cancelled"
        /\ sendStatus'[s] = IF sendStatus[s] = "cancelling" THEN "cancelled"
                            ELSE Verdict(read[w].count, sendStatus[s])
        /\ sendStatus[s] # "cancelling" => sendStatus'[s] \in {"sent", "failed"}
    BY <1>6 DEF Decides, WriteFinal, Settles, Verdict
  <2>2. Open(s) = {}
    BY <2>1 DEF SettleInv, ReadInFull, ZeroStaysTrue, Finalizing, At
  <2>3. Lifecycle!OpenOf(s) = {}
    <3>1. \A r \in Rows : SendOf[r] = s => Record[r] # "open"
      BY <2>2, OpenRecords DEF Open, With, RowsOf
    <3> QED BY <3>1 DEF Lifecycle!OpenOf, Lifecycle!OpenRows, Record
  <2>4. CASE sendStatus[s] = "cancelling"
    <3>1. Lifecycle!Become(s, {"stopping"}, "stopped") BY <2>1, <2>4, PhaseBecomes, PhaseFacts
    <3>2. Lifecycle!Finish(s) BY <2>3, <3>1 DEF Lifecycle!Finish
    <3> QED BY <3>2 DEF Lifecycle!Next
  <2>5. CASE sendStatus[s] \in {"sending", "paused"}
    <3>1. PhaseOf(sendStatus[s]) \in {"running", "held"} /\ PhaseOf(sendStatus'[s]) = "done"
      BY <2>1, <2>5, PhaseFacts
    <3>2. Lifecycle!Become(s, {"running", "held"}, "done") BY <3>1, PhaseBecomes
    <3>3. Lifecycle!Finish(s) BY <2>3, <3>2 DEF Lifecycle!Finish
    <3> QED BY <3>3 DEF Lifecycle!Next
  <2>6. CASE sendStatus[s] \in {"sent", "failed"}
    <3>1. PhaseOf(sendStatus'[s]) = PhaseOf(sendStatus[s]) BY <2>1, <2>6, PhaseFacts
    <3>2. Phase' = Phase BY <3>1 DEF Phase
    <3>3. Record' = Record BY DEF Record
    <3> QED BY <3>2, <3>3 DEF Lifecycle!vars, Phase, Record
  <2>7. sendStatus[s] \in SendStatus BY DEF TypeOK, SendTypes
  <2> QED BY <2>1, <2>4, <2>5, <2>6, <2>7 DEF SendStatus
<1> QED BY <1>1, <1>2, <1>3, <1>4, <1>5, <1>6 DEF StatusMove

(* A step that writes at most the status of one send.                      *)
LEMMA OneStatusRefines ==
  ASSUME Paced, LifeInv, [Next]_vars, UNCHANGED <<rowStatus, copies>>, NEW s \in Sends,
         NEW status, sendStatus' = [sendStatus EXCEPT ![s] = status]
  PROVE  [Lifecycle!Next]_Lifecycle!vars
<1>1. \A z \in Sends \ {s} : sendStatus'[z] = sendStatus[z]
  BY DEF LifeInv, TypeOK, SendTypes
<1>2. CASE sendStatus'[s] = sendStatus[s]
  <2>1. sendStatus' = sendStatus BY <1>2 DEF LifeInv, TypeOK, SendTypes
  <2> QED BY <2>1, StillStutter
<1>3. CASE sendStatus'[s] # sendStatus[s] BY <1>1, <1>3, StatusRefines
<1> QED BY <1>2, <1>3

(* Claims and what puts rows back are no business of the lifecycle.        *)
LEMMA QueueRefines ==
  ASSUME TypeOK, StaleSending, NEW w \in Workers,
         Sweep(w) \/ RecoverBatch(w) \/ Claim(w) \/ Release(w)
  PROVE  UNCHANGED Lifecycle!vars
<1>1. UNCHANGED <<sendStatus, copies>> BY DEF Sweep, RecoverBatch, Claim, Release
<1>2. PICK R \in SUBSET Rows, status \in Outstanding :
        SetRows(R, status) /\ \A r \in R : rowStatus[r] \in Outstanding
  <2> USE DEF TypeOK, RowTypes, HeldTypes, Outstanding
  <2>1. CASE Sweep(w)
    <3>1. SetRows(rowStale, "pending") BY <2>1 DEF Sweep
    <3> QED BY <3>1 DEF StaleSending
  <2>2. CASE RecoverBatch(w)
    <3>1. SetRows(BatchRows(batch[w]), "pending") BY <2>2 DEF RecoverBatch
    <3>2. \A r \in BatchRows(batch[w]) : r \in Rows /\ rowStatus[r] \in Outstanding
      BY DEF BatchRows
    <3> QED BY <3>1, <3>2
  <2>3. CASE Claim(w)
    <3>1. PICK C \in SUBSET Due : SetRows(C, "sending") BY <2>3 DEF Claim
    <3>2. \A r \in C : r \in Rows /\ rowStatus[r] \in Outstanding BY DEF Due
    <3> QED BY <3>1, <3>2
  <2>4. CASE Release(w)
    <3>1. SetRows(StillSending(rel[w]), "pending") BY <2>4 DEF Release
    <3>2. \A r \in StillSending(rel[w]) : r \in Rows /\ rowStatus[r] \in Outstanding
      BY DEF StillSending
    <3> QED BY <3>1, <3>2
  <2> QED BY <2>1, <2>2, <2>3, <2>4
<1>3. \A r \in Rows : RecordOf(rowStatus'[r]) = RecordOf(rowStatus[r])
  BY <1>2, RecordFacts DEF SetRows, Outstanding
<1> QED BY <1>1, <1>3, StillStutter

(* Skips, cancel sweeps and refusals drop people, deliveries are recorded. *)
LEMMA RecordRefines ==
  ASSUME LifeInv, NEW w \in Workers,
         Skip(w) \/ SweepCancelled(w) \/ MarkRefused(w) \/ MarkSent(w)
  PROVE  Lifecycle!Next
<1> USE DEF LifeInv, TypeOK, RowTypes, HeldTypes, Outstanding
<1>1. UNCHANGED <<sendStatus, copies>> BY DEF Skip, SweepCancelled, MarkRefused, MarkSent
<1>2. CASE Skip(w)
  <2> DEFINE R == StillSending(rel[w])
  <2>1. \A r \in rel[w] : r \in Rows /\ rowStatus[r] \in {"sending", "skipped"}
    BY DEF MailedOnce, ClaimInv, HeldClaimed, Held
  <2>2. \A r \in R : rowStatus[r] \in Outstanding /\ rowStatus'[r] \in {"failed", "skipped"}
    BY <1>2, <2>1 DEF Skip, SetRows, StillSending
  <2>3. \A r \in Rows \ R : rowStatus'[r] = rowStatus[r]
    BY <1>2, <2>1 DEF Skip, SetRows, StillSending
  <2>4. R \in SUBSET Rows BY <2>1 DEF StillSending
  <2> QED BY <1>1, <2>2, <2>3, <2>4, RowsDropped
<1>3. CASE SweepCancelled(w)
  <2>1. PICK s : SetRows(Open(s), "skipped") BY <1>3 DEF SweepCancelled
  <2>2. \A r \in Open(s) : r \in Rows /\ rowStatus[r] \in Outstanding
    BY DEF Open, With, RowsOf
  <2>3. /\ \A r \in Open(s) : rowStatus'[r] \in {"failed", "skipped"}
        /\ \A r \in Rows \ Open(s) : rowStatus'[r] = rowStatus[r]
    BY <2>1, <2>2 DEF SetRows
  <2>4. Open(s) \in SUBSET Rows BY <2>2
  <2> QED BY <1>1, <2>2, <2>3, <2>4, RowsDropped
<1>4. CASE MarkRefused(w)
  <2> DEFINE R == {r \in Rows : rowStatus'[r] = "failed" /\ rowStatus[r] = "sending"}
  <2>1. \A r \in Rows : \/ rowStatus'[r] = rowStatus[r]
                        \/ rowStatus[r] = "sending" /\ rowStatus'[r] \in {"failed", "pending"}
    BY <1>4 DEF MarkRefused, StillSending
  <2>2. \A r \in Rows \ R : RecordOf(rowStatus'[r]) = RecordOf(rowStatus[r])
    BY <2>1, RecordFacts
  <2>3. R \in SUBSET Rows OBVIOUS
  <2>4. \A r \in R : rowStatus[r] \in Outstanding /\ rowStatus'[r] \in {"failed", "skipped"}
    OBVIOUS
  <2> HIDE DEF R
  <2> QED BY <1>1, <2>2, <2>3, <2>4, RowsDropped
<1>5. CASE MarkSent(w)
  <2>1. \A r \in slice[w] : r \in Rows /\ copies[r] > 0
    BY <1>5 DEF MarkSent, MailedOnce, AcceptedDelivered
  <2>2. Lifecycle!RecordAs(slice[w], "sent")
    <3>1. /\ \A r \in slice[w] : RecordOf(rowStatus'[r]) = "sent"
          /\ \A r \in Rows \ slice[w] : RecordOf(rowStatus'[r]) = RecordOf(rowStatus[r])
      BY <1>5, <2>1, RecordFacts DEF MarkSent, Posted, SetRows
    <3> QED BY <1>1, <3>1, RowsRecorded
  <2>3. Lifecycle!RecordSent(slice[w]) BY <2>1, <2>2 DEF Lifecycle!RecordSent
  <2> QED BY <2>3 DEF Lifecycle!Next
<1> QED BY <1>2, <1>3, <1>4, <1>5

(* A provider call delivers to people who have nothing yet: those without  *)
(* a record, and those a cancel sweep took while the call was prepared.    *)
LEMMA CallRefines ==
  ASSUME LifeInv, Hazards = {}, NEW w \in Workers,
         PostAccepted(w) \/ PostRefused(w) \/ PostLostReply(w)
  PROVE  Lifecycle!Next
<1> USE DEF LifeInv, TypeOK, HeldTypes
<1>1. PICK D, answer : D \subseteq slice[w] /\ ProviderCall(w, D, answer)
  BY DEF PostAccepted, PostRefused, PostLostReply
<1>2. /\ At(w, "post") /\ UNCHANGED <<sendStatus, rowStatus>>
      /\ copies' = [r \in Rows |-> IF r \in D THEN copies[r] + 1 ELSE copies[r]]
  BY <1>1 DEF ProviderCall
<1>3. \A r \in D : r \in Rows /\ r \in Held(w) /\ copies[r] = 0
  BY <1>1, <1>2 DEF MailedOnce, HeldUnmailed, InFlight, InWindow, At, Held
<1>4. \A r \in D : \/ Record[r] = "open"
                   \/ Record[r] = "dropped" /\ Phase[SendOf[r]] \in {"stopping", "stopped"}
  <2> SUFFICES ASSUME NEW r \in D
               PROVE  \/ Record[r] = "open"
                      \/ Record[r] = "dropped" /\ Phase[SendOf[r]] \in {"stopping", "stopped"}
    OBVIOUS
  <2>0. r \in Rows /\ SendOf[r] \in Sends BY <1>3, RowsAssumption
  <2>1. rowStatus[r] \in {"sending", "skipped"}
    BY <1>3 DEF MailedOnce, ClaimInv, HeldClaimed
  <2>2. CASE rowStatus[r] = "sending" BY <2>0, <2>2, RecordFacts DEF Record
  <2>3. CASE rowStatus[r] = "skipped"
    <3>1. sendStatus[SendOf[r]] \in Stopping BY <1>3, <2>3 DEF StopInv, SkippedStopped
    <3> QED BY <2>0, <2>3, <3>1, RecordFacts, PhaseFacts DEF Record, Phase, Stopping
  <2> QED BY <2>1, <2>2, <2>3
<1>5. \A r \in D : Lifecycle!MayDeliver(r)
  BY <1>3, <1>4 DEF Lifecycle!MayDeliver, Record, Phase
<1>6. Lifecycle!Deliver(D)
  <2>1. Phase' = Phase /\ Record' = Record BY <1>2 DEF Phase, Record
  <2> QED BY <1>2, <1>5, <2>1 DEF Lifecycle!Deliver, Phase, Record
<1>7. D \in SUBSET Rows BY <1>3
<1> QED BY <1>6, <1>7 DEF Lifecycle!Next

(* Every other step of a tick writes neither rows nor a status and mails   *)
(* nobody, or it writes one status.                                        *)
LEMMA TickRefines ==
  ASSUME Paced, Hazards = {}, LifeInv, NEW w \in Workers, Tick(w) \/ Mishap(w)
  PROVE  [Lifecycle!Next]_Lifecycle!vars
<1> USE DEF LifeInv, OnlyBlindWrites
<1>0. [Next]_vars BY DEF Next
<1>1. CASE Sweep(w) \/ RecoverBatch(w) \/ Claim(w) \/ Release(w)
  BY <1>1, QueueRefines DEF SettleInv
<1>2. CASE Skip(w) \/ SweepCancelled(w) \/ MarkRefused(w) \/ MarkSent(w)
  BY <1>2, RecordRefines
<1>3. CASE PostAccepted(w) \/ PostRefused(w) \/ PostLostReply(w)
  BY <1>3, CallRefines
<1>4. CASE ~(Sweep(w) \/ RecoverBatch(w) \/ Claim(w) \/ Release(w)) /\
           ~(Skip(w) \/ SweepCancelled(w) \/ MarkRefused(w) \/ MarkSent(w)) /\
           ~(PostAccepted(w) \/ PostRefused(w) \/ PostLostReply(w))
  <2>1. UNCHANGED rowStatus BY <1>4, RowWriters
  <2>2. UNCHANGED copies BY <1>4, OutsideWindow
  <2>3. cur[w] \in Sends BY DEF TypeOK, MemTypes
  <2>4. ~Reopen(w) /\ ~PauseSend(w)
    BY DEF PauseSend, Reopen, PaceInv, NeverTrips, StopInv, NothingReopens, At
  <2>5. UNCHANGED sendStatus \/ \E status : sendStatus' = [sendStatus EXCEPT ![cur[w]] = status]
    <3>1. CASE HaltPause(w) BY <3>1 DEF HaltPause, SetSendIf, SetSend
    <3>2. CASE WriteFinal(w) BY <3>2 DEF WriteFinal
    <3> QED BY <2>4, <3>1, <3>2, StatusWriters
  <2>6. CASE UNCHANGED sendStatus BY <2>1, <2>2, <2>6, StillStutter
  <2>7. CASE ~UNCHANGED sendStatus
    <3>1. PICK status : sendStatus' = [sendStatus EXCEPT ![cur[w]] = status] BY <2>5, <2>7
    <3> QED BY <1>0, <2>1, <2>2, <2>3, <3>1, OneStatusRefines
  <2> QED BY <2>6, <2>7
<1> QED BY <1>1, <1>2, <1>3, <1>4

(* Clicks are clicks; time and compliance are no business of the lifecycle. *)
LEMMA EnvironmentRefines ==
  ASSUME Paced, Late = {}, LifeInv, Environment
  PROVE  [Lifecycle!Next]_Lifecycle!vars
<1> USE DEF LifeInv
<1>0. [Next]_vars BY DEF Next
<1>1. UNCHANGED copies BY EnvironmentFrame
<1>2. CASE \E s \in Sends : Pause(s) \/ Resume(s) \/ Stop(s)
  <2>1. PICK s, status : /\ s \in Sends
                         /\ sendStatus' = [sendStatus EXCEPT ![s] = status]
                         /\ UNCHANGED rowStatus
    BY <1>2 DEF Pause, Resume, Stop, AdminSets, SetSend
  <2> QED BY <1>0, <1>1, <2>1, OneStatusRefines
<1>3. CASE ~(\E s \in Sends : Pause(s) \/ Resume(s) \/ Stop(s))
  <2>1. UNCHANGED sendStatus
    BY <1>3
    DEF Environment, AgeRow, Erase, LateInsert, AgeBatch, AgeSend, ForgetSend, BlindWrite
  <2>2. \A r \in Rows : rowStatus[r] # "absent" BY DEF SettleInv, AbsentLate
  <2>3. \A r \in Rows : rowStatus'[r] = rowStatus[r] BY <2>2, EnvironmentFrame
  <2> QED BY <1>1, <2>1, <2>3, StillStutter
<1> QED BY <1>2, <1>3

(* The tables of a send start where the lifecycle starts.                  *)
LEMMA InitRefines == ASSUME Late = {}, Init PROVE Lifecycle!Init
<1>1. Phase = [s \in Sends |-> "running"] BY PhaseFacts DEF Init, Phase
<1>2. Record = [r \in Rows |-> "open"] BY RecordFacts DEF Init, Record
<1> QED BY <1>1, <1>2 DEF Init, Lifecycle!Init, Phase, Record

LEMMA StopInit == Init => StopInv
BY DEF Init, StopInv, NothingReopens, CancelsStopped, SkippedStopped, Held, At

(* Everything the refinement rests on is inductive.                        *)
LEMMA LifeStep ==
  ASSUME Paced, Hazards = {}, Late = {}
  PROVE  /\ Init => LifeInv
         /\ LifeInv /\ [Next]_vars => LifeInv'
<1>1. Init => LifeInv
  BY TypeInit, OnceInit, SettleInit, PaceInit, StopInit DEF LifeInv
<1>2. ASSUME LifeInv, [Next]_vars PROVE LifeInv'
  <2> USE <1>2 DEF LifeInv
  <2>1. TypeOK' /\ MailedOnce' BY TypeStep, OnceStep DEF OnlyBlindWrites
  <2>2. SettleInv' /\ PaceInv' BY SettleStep, PaceStep
  <2>3. StopInv' BY StopStep DEF MailedOnce, PaceInv, SettleInv
  <2> QED BY <2>1, <2>2, <2>3
<1> QED BY <1>1, <1>2

(* The writes of the paced binding stop what was stopped, reopen nothing   *)
(* and skip only rows of stopped sends.                                    *)
THEOREM StopHolds ==
  ASSUME Paced, Hazards = {}, Late = {} PROVE Spec => []StopInv
<1>1. LifeInv => StopInv BY DEF LifeInv
<1> QED BY LifeStep, <1>1, PTL DEF Spec

(* The engine implements the lifecycle its owners are promised, for any    *)
(* number of rows, sends, overlapping ticks, crashes and refusals: in the  *)
(* paced binding, whose writes of a status all compare and swap, without   *)
(* late rows and without hazards.                                          *)
THEOREM KeepsLifecycle ==
  ASSUME Paced, Hazards = {}, Late = {} PROVE Spec => ImplementsLifecycle
<1>1. Init => Lifecycle!Init BY InitRefines
<1>2. ASSUME LifeInv, [Next]_vars PROVE [Lifecycle!Next]_Lifecycle!vars
  <2>1. CASE UNCHANGED vars
    <3>1. UNCHANGED <<sendStatus, rowStatus, copies>> BY <2>1 DEF vars
    <3> QED BY <3>1, StillStutter
  <2> QED BY <1>2, <2>1, EnvironmentRefines, TickRefines DEF Next
<1>3. LifeInv /\ [Next]_vars => [Lifecycle!Next]_Lifecycle!vars BY <1>2
<1> QED BY LifeStep, <1>1, <1>3, PTL DEF Spec, ImplementsLifecycle, Lifecycle!Spec
=============================================================================
