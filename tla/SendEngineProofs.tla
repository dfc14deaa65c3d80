-------------------------- MODULE SendEngineProofs --------------------------
(***************************************************************************)
(* TypeOK is inductive as it stands: every step writes values of the type  *)
(* of what it writes, so the proof goes action by action.  The constants'  *)
(* assumptions are used for the counts (finitely many rows) and for the    *)
(* send a tick without work points to (there is a send).                   *)
(***************************************************************************)
EXTENDS SendEngineInvariant, FiniteSetTheorems, TLAPS

(* A tick that works on no send still points to one. *)
LEMMA AnySendType == AnySend \in Sends
  BY RowsAssumption DEF AnySend

(* finalizeSend counts finitely many rows. *)
LEMMA CountType == \A s, q : CountOf(s, q) \in Nat
  BY RowsAssumption, FS_Subset, FS_CardinalityType DEF CountOf, Open, With, RowsOf

(* An update of one send's status keeps the types of what it writes. *)
LEMMA SetSendType ==
  ASSUME SendTypes, EnvTypes, NEW s \in Sends, NEW status \in SendStatus,
         SetSend(s, status) \/ UNCHANGED <<sendStatus, sendIdle, late>>
  PROVE  /\ sendStatus' \in [Sends -> SendStatus]
         /\ sendIdle' \subseteq Sends
         /\ late' \in [Calls -> Nat]
<1>1. late \in [Calls -> Nat] BY DEF EnvTypes
<1>2. late' = late \/ late' = [k \in Calls |-> IF k[2] = s THEN 0 ELSE late[k]] BY DEF SetSend
<1>3. late' \in [Calls -> Nat] BY <1>1, <1>2
<1> QED BY <1>3 DEF SendTypes, SetSend

(* The tables as dispatch leaves them. *)
LEMMA TypeInit == Init => TypeOK
  BY AnySendType, ConfigAssumption
  DEF Init, TypeOK, RowTypes, SendTypes, BatchTypes, HeldTypes, MemTypes, EnvTypes,
      RowStatus, SendStatus, BatchStatus, Settled, NoBatch, Labels, AfterHelper, Budgets,
      Replies, Reads, NothingRead, Queries

USE DEF rowVars, sendVars, batchVars, dbVars, eraseVars, heldVars, jobVars, callVars,
        memVars, tickVars, histVars, boundVars, envVars

(* Starting finalizeSend for a send. *)
LEMMA BeginFinalizeType ==
  ASSUME MemTypes, NEW w \in Workers, NEW s \in Sends, NEW l \in AfterHelper,
         BeginFinalize(w, s, l)
  PROVE  /\ pc' \in [Workers -> Labels] /\ next' \in [Workers -> AfterHelper]
         /\ cur' \in [Workers -> Sends] /\ touched' \in [Workers -> SUBSET Sends]
         /\ read' \in [Workers -> Reads]
<1>1. "counts" \in Labels BY DEF Labels
<1>2. [unread |-> Queries, count |-> NothingRead.count, seen |-> "sending"] \in Reads
      BY DEF Reads, NothingRead, SendStatus
<1> QED BY <1>1, <1>2 DEF BeginFinalize, MemTypes, Goto, GotoVia

(* Putting back what is left of a group. *)
LEMMA LeaveGroupType ==
  ASSUME HeldTypes, MemTypes, NEW w \in Workers, NEW l \in AfterHelper, LeaveGroup(w, l)
  PROVE  HeldTypes' /\ pc' \in [Workers -> Labels] /\ next' \in [Workers -> AfterHelper]
<1>1. grp[w] \in SUBSET Rows BY DEF HeldTypes
<1>2. rel' \in [Workers -> SUBSET Rows] BY <1>1 DEF LeaveGroup, HeldTypes
<1>3. grp' \in [Workers -> SUBSET Rows] BY DEF LeaveGroup, HeldTypes
<1>4. "release" \in Labels BY DEF Labels
<1>5. pc' \in [Workers -> Labels] /\ next' \in [Workers -> AfterHelper]
      BY <1>4 DEF LeaveGroup, GotoVia, Goto, MemTypes
<1> QED BY <1>2, <1>3, <1>5 DEF LeaveGroup, HeldTypes

(* A provider call is counted for the tick and the send it is made for. *)
LEMMA CountedCallType ==
  ASSUME MemTypes, EnvTypes, NEW w \in Workers, NEW D, NEW a, ProviderCall(w, D, a)
  PROVE  late' \in [Calls -> Nat]
<1>1. <<w, cur[w]>> \in Calls BY DEF MemTypes, Calls
<1>2. late \in [Calls -> Nat] BY DEF EnvTypes
<1>3. late[<<w, cur[w]>>] \in Nat BY <1>1, <1>2
<1> DEFINE n == late[<<w, cur[w]>>]
           m == IF sendStatus[cur[w]] = "sending" THEN n ELSE n + 1
<1>4. m \in Nat BY <1>3
<1>5. late' = [late EXCEPT ![<<w, cur[w]>>] = m] BY DEF ProviderCall
<1> HIDE DEF m
<1> QED BY <1>1, <1>2, <1>4, <1>5

(* The steps of a tick in which nothing goes wrong. *)
LEMMA TypeTick == ASSUME TypeOK, NEW w \in Workers, Tick(w) PROVE TypeOK'
<1> USE DEF TypeOK, RowTypes, SendTypes, BatchTypes, HeldTypes, MemTypes, EnvTypes,
            At, Goto, GotoVia, Return, Labels, AfterHelper
<1>1. CASE Sweep(w) BY <1>1 DEF Sweep, SetRows, RowStatus
<1>2. CASE FindStuckBatch(w)
  <2>1. pc' \in [Workers -> Labels] BY <1>2 DEF FindStuckBatch
  <2>2. batch' \in [Workers -> Batches \cup {NoBatch}] BY <1>2 DEF FindStuckBatch
  <2> QED BY <1>2, <2>1, <2>2 DEF FindStuckBatch
<1>3. CASE RecoverBatch(w) BY <1>3 DEF RecoverBatch, SetRows, NoBatch, RowStatus, BatchStatus
<1>4. CASE FindPremature(w)
  <2>1. pc' \in [Workers -> Labels] BY <1>4 DEF FindPremature
  <2>2. cur' \in [Workers -> Sends] BY <1>4 DEF FindPremature
  <2> QED BY <1>4, <2>1, <2>2 DEF FindPremature
<1>5. CASE Reopen(w)
  <2>1. cur[w] \in Sends OBVIOUS
  <2>2. SetSend(cur[w], "sending") \/ UNCHANGED <<sendStatus, sendIdle, late>>
    BY <1>5 DEF Reopen, SetSendIf
  <2>3. /\ sendStatus' \in [Sends -> SendStatus]
        /\ sendIdle' \subseteq Sends
        /\ late' \in [Calls -> Nat]
    BY <2>1, <2>2, SetSendType DEF SendStatus
  <2> QED BY <1>5, <2>3 DEF Reopen
<1>6. CASE FindStranded(w)
  <2>1. CASE Stranded = {} BY <1>6, <2>1 DEF FindStranded
  <2>2. CASE Stranded # {}
    <3>1. PICK s \in Sends : BeginFinalize(w, s, "stranded")
      BY <1>6, <2>2 DEF FindStranded, Stranded
    <3> QED BY <1>6, <3>1, BeginFinalizeType DEF FindStranded
  <2> QED BY <2>1, <2>2
<1>7. CASE Claim(w) BY <1>7 DEF Claim, Due, SetRows, RowStatus
<1>8. CASE EndLoop(w) BY <1>8 DEF EndLoop
<1>9. CASE SuppressionGate(w) BY <1>9, RowsAssumption DEF SuppressionGate
<1>10. CASE Release(w) BY <1>10 DEF Release, SetRows, OneLess, RowStatus
<1>11. CASE Skip(w) BY <1>11 DEF Skip, SetRows, RowStatus
<1>12. CASE NextClaim(w) BY <1>12 DEF NextClaim, Spend, Budgets
<1>13. CASE OpenGroup(w)
  <2>1. pc' \in [Workers -> Labels] /\ next' \in [Workers -> AfterHelper]
    BY <1>13 DEF OpenGroup
  <2>2. cur' \in [Workers -> Sends] /\ touched' \in [Workers -> SUBSET Sends]
    BY <1>13, RowsAssumption DEF OpenGroup
  <2>3. HeldTypes'
    <3>1. PICK g \in SUBSET Rows : /\ todo' = [todo EXCEPT ![w] = @ \ g]
                  /\ \/ grp' = [grp EXCEPT ![w] = g] /\ UNCHANGED rel
                     \/ rel' = [rel EXCEPT ![w] = g] /\ UNCHANGED grp
      <4>1. \A s : todo[w] \cap RowsOf(s) \in SUBSET Rows BY DEF RowsOf
      <4> QED BY <1>13, <4>1 DEF OpenGroup
    <3>2. todo' \in [Workers -> SUBSET Rows] BY <3>1
    <3>3. grp' \in [Workers -> SUBSET Rows] /\ rel' \in [Workers -> SUBSET Rows] BY <3>1
    <3> QED BY <1>13, <3>2, <3>3 DEF OpenGroup
  <2>4. faults' \in Nat /\ admins' \in Nat BY <1>13 DEF OpenGroup, Fault, NoFault
  <2> QED BY <1>13, <2>1, <2>2, <2>3, <2>4 DEF OpenGroup
<1>14. CASE PaceStop(w) BY <1>14 DEF PaceStop, LeaveGroup, Budgets
<1>15. CASE PaceRead(w)
  <2>1. CASE LeaveGroup(w, "group") BY <1>15, <2>1, LeaveGroupType DEF PaceRead
  <2>2. CASE ~LeaveGroup(w, "group") BY <1>15, <2>2 DEF PaceRead
  <2> QED BY <2>1, <2>2
<1>16. CASE PauseSend(w) BY <1>16 DEF PauseSend, SetSend, SendStatus
<1>17. CASE ClaimQuota(w)
  <2>1. faults' \in Nat /\ admins' \in Nat BY <1>17 DEF ClaimQuota, Fault, NoFault
  <2>2. PICK B \in SUBSET grp[w] : \E S \in SUBSET B :
             /\ slice' = [slice EXCEPT ![w] = S]
             /\ grp' = [grp EXCEPT ![w] = @ \ B]
             /\ rel' = [rel EXCEPT ![w] = B \ S]
      BY <1>17 DEF ClaimQuota
  <2>3. PICK S \in SUBSET B :
             /\ slice' = [slice EXCEPT ![w] = S]
             /\ grp' = [grp EXCEPT ![w] = @ \ B]
             /\ rel' = [rel EXCEPT ![w] = B \ S]
      BY <2>2
  <2>5. slice' \in [Workers -> SUBSET Rows] BY <2>3
  <2>6. grp' \in [Workers -> SUBSET Rows] BY <2>3
  <2>7. rel' \in [Workers -> SUBSET Rows] BY <2>3
  <2>4. pc' \in [Workers -> Labels] /\ next' \in [Workers -> AfterHelper]
    BY <1>17 DEF ClaimQuota
  <2> QED BY <1>17, <2>1, <2>4, <2>5, <2>6, <2>7 DEF ClaimQuota
<1>18. CASE InsertBatch(w) BY <1>18 DEF InsertBatch, Unused, BatchStatus
<1>19. CASE PostAccepted(w)
  <2>1. late' \in [Calls -> Nat] BY <1>19, CountedCallType DEF PostAccepted
  <2> QED BY <1>19, <2>1 DEF PostAccepted, ProviderCall, NoFault, Replies, Spend, Budgets
<1>20. CASE MarkSent(w) BY <1>20 DEF MarkSent, Posted, SetRows, RowStatus
<1>21. CASE MarkRefused(w) BY <1>21 DEF MarkRefused, AfterMark, StillSending, RowStatus
<1>22. CASE HaltPause(w) BY <1>22 DEF HaltPause, SetSendIf, SetSend, SendStatus
<1>23. CASE CloseBatch(w)
  <2>1. /\ HeldTypes'
        /\ pc' \in [Workers -> Labels] /\ next' \in [Workers -> AfterHelper]
    <3>1. CASE LeaveGroup(w, "group") BY <3>1, LeaveGroupType
    <3>2. CASE ~LeaveGroup(w, "group") BY <1>23, <3>2 DEF CloseBatch
    <3> QED BY <3>1, <3>2
  <2>3. BatchTypes' BY <1>23 DEF CloseBatch, Outcome, BatchStatus
  <2>4. /\ batch' \in [Workers -> Batches \cup {NoBatch}]
        /\ reply' \in [Workers -> Replies] /\ budget' \in [Workers -> Budgets]
      BY <1>23 DEF CloseBatch, Replies, Budgets
  <2> QED BY <1>23, <2>1, <2>3, <2>4 DEF CloseBatch
<1>24. CASE ListCancelling(w) BY <1>24 DEF ListCancelling
<1>25. CASE SweepCancelled(w) BY <1>25 DEF SweepCancelled, SetRows, RowStatus
<1>26. CASE Finalize(w)
  <2>1. CASE Forget(w)
    BY <1>26, <2>1, AnySendType
    DEF Finalize, Forget, Reads, NothingRead, SendStatus, Budgets, Replies
  <2>2. CASE ~Forget(w)
    <3>1. PICK s \in Sends : BeginFinalize(w, s, "finalize") BY <1>26, <2>2 DEF Finalize
    <3> QED BY <1>26, <2>2, <3>1, BeginFinalizeType DEF Finalize
  <2> QED BY <2>1, <2>2
<1>27. CASE ReadCount(w)
  <2>1. PICK q \in read[w].unread :
          read' = [read EXCEPT ![w].unread = @ \ {q},
                              ![w].count = [@ EXCEPT ![q] = CountOf(cur[w], q)]]
    BY <1>27 DEF ReadCount
  <2>2. CountOf(cur[w], q) \in Nat BY CountType
  <2>3. read' \in [Workers -> Reads] BY <2>1, <2>2 DEF Reads
  <2> QED BY <1>27, <2>3 DEF ReadCount
<1>28. CASE ReadSend(w) BY <1>28 DEF ReadSend, Reads
<1>29. CASE WriteFinal(w)
  <2>1. NothingRead \in Reads BY DEF NothingRead, Reads, SendStatus
  <2>2. /\ pc' \in [Workers -> Labels] /\ next' \in [Workers -> AfterHelper]
        /\ read' \in [Workers -> Reads]
    BY <1>29, <2>1 DEF WriteFinal, EndFinalize
  <2>3. read[w].count["sent"] \in Nat /\ read[w].count["failed"] \in Nat
    BY DEF Reads, Queries, Settled
  <2>4. \A c, q : Verdict(c, q) \in SendStatus BY DEF Verdict, SendStatus
  <2>5. SendTypes'
    <3> DEFINE s == cur[w]
               c == read[w].count
               settles == Settles(s, c, read[w].seen)
               status == IF settles THEN Verdict(c, read[w].seen) ELSE sendStatus[s]
               entry == [sent |-> c["sent"], failed |-> c["failed"]]
    <3>1. s \in Sends /\ status \in SendStatus /\ entry \in [sent : Nat, failed : Nat]
      BY <2>3, <2>4
    <3>2. \/ UNCHANGED sendVars
          \/ /\ reported' = [reported EXCEPT ![s] = entry]
             /\ sendIdle' = sendIdle \ {s}
             /\ sendStatus' = [sendStatus EXCEPT ![s] = status]
             /\ sendRecent' = IF settles THEN sendRecent \cup {s} ELSE sendRecent
        BY <1>29 DEF WriteFinal
    <3> HIDE DEF s, c, settles, status, entry
    <3>3. reported' \in [Sends -> [sent : Nat, failed : Nat]] BY <3>1, <3>2
    <3>4. sendStatus' \in [Sends -> SendStatus] BY <3>1, <3>2
    <3>5. sendIdle' \subseteq Sends /\ sendRecent' \subseteq Sends BY <3>1, <3>2
    <3> QED BY <3>3, <3>4, <3>5
  <2> QED BY <1>29, <2>2, <2>5 DEF WriteFinal, EndFinalize
<1> QED BY <1>1, <1>2, <1>3, <1>4, <1>5, <1>6, <1>7, <1>8, <1>9, <1>10, <1>11, <1>12,
           <1>13, <1>14, <1>15, <1>16, <1>17, <1>18, <1>19, <1>20, <1>21, <1>22, <1>23,
           <1>24, <1>25, <1>26, <1>27, <1>28, <1>29, Zenon DEF Tick

(* The steps of a tick in which something does. *)
LEMMA TypeMishap == ASSUME TypeOK, NEW w \in Workers, Mishap(w) PROVE TypeOK'
<1> USE DEF TypeOK, RowTypes, SendTypes, BatchTypes, HeldTypes, MemTypes, EnvTypes,
            At, Goto, GotoVia, Return, Labels, AfterHelper, Fault
<1>1. CASE GateError(w)      BY <1>1 DEF GateError
<1>2. CASE ReputationTrip(w) BY <1>2, LeaveGroupType DEF ReputationTrip
<1>3. CASE QuotaSpent(w)     BY <1>3, LeaveGroupType DEF QuotaSpent
<1>4. CASE PostRefused(w)
  <2>1. late' \in [Calls -> Nat] BY <1>4, CountedCallType DEF PostRefused
  <2> QED BY <1>4, <2>1 DEF PostRefused, ProviderCall, Replies, Spend, Budgets
<1>5. CASE PostLostReply(w)
  <2>1. PICK D \in SUBSET Rows, answer \in Replies : ProviderCall(w, D, answer)
        BY <1>5 DEF PostLostReply, Replies
  <2>2. late' \in [Calls -> Nat] BY <2>1, CountedCallType
  <2> QED BY <1>5, <2>1, <2>2 DEF PostLostReply, ProviderCall, Spend, Budgets
<1>6. CASE MarkLost(w)
  <2>1. AfterMark(w) \in Labels BY DEF AfterMark
  <2> QED BY <1>6, <2>1 DEF MarkLost, LoseOutcome
<1>7. CASE FinalizeError(w)
  BY <1>7 DEF FinalizeError, EndFinalize, NothingRead, Reads, SendStatus
<1>8. CASE Crash(w)
  <2>1. NothingRead \in Reads BY DEF NothingRead, Reads, SendStatus
  <2> QED BY <1>8, <2>1, AnySendType DEF Crash, LoseOutcome, Forget, Budgets, Replies
<1>9. CASE InsertFails(w)    BY <1>9 DEF InsertFails
<1> QED BY <1>1, <1>2, <1>3, <1>4, <1>5, <1>6, <1>7, <1>8, <1>9 DEF Mishap

(* Time, admins, compliance and other dispatch ticks. *)
LEMMA TypeEnvironment == ASSUME TypeOK, Environment PROVE TypeOK'
<1> USE DEF TypeOK, RowTypes, SendTypes, BatchTypes, HeldTypes, MemTypes, EnvTypes
<1>1. CASE \E r \in Rows : AgeRow(r)      BY <1>1 DEF AgeRow
<1>2. CASE \E r \in Rows : Erase(r)       BY <1>2 DEF Erase
<1>3. CASE \E r \in Rows : LateInsert(r)  BY <1>3 DEF LateInsert, SetRows, RowStatus
<1>4. CASE \E b \in Batches : AgeBatch(b) BY <1>4 DEF AgeBatch
<1>5. CASE \E s \in Sends : AgeSend(s)    BY <1>5 DEF AgeSend
<1>6. CASE \E s \in Sends : ForgetSend(s) BY <1>6 DEF ForgetSend
<1>7. CASE \E s \in Sends : Pause(s) \/ Resume(s) \/ Stop(s)
  <2>1. PICK s \in Sends, status \in SendStatus, from \in SUBSET SendStatus :
            AdminSets(s, from, status)
        BY <1>7 DEF Pause, Resume, Stop, SendStatus
  <2>2. SetSend(s, status) BY <2>1 DEF AdminSets
  <2> QED BY <2>1, <2>2, SetSendType DEF AdminSets
<1>8. CASE \E s \in Sends, to \in {"sending", "failed", "cancelled"} : BlindWrite(s, to)
  <2>1. PICK s \in Sends, to \in SendStatus : BlindWrite(s, to) BY <1>8 DEF SendStatus
  <2> QED BY <2>1, SetSendType DEF BlindWrite
<1> QED BY <1>1, <1>2, <1>3, <1>4, <1>5, <1>6, <1>7, <1>8 DEF Environment

(* Every step keeps the types. *)
LEMMA TypeStep == TypeOK /\ [Next]_vars => TypeOK'
<1> SUFFICES ASSUME TypeOK, [Next]_vars PROVE TypeOK' OBVIOUS
<1>1. CASE UNCHANGED vars
  BY <1>1 DEF vars, TypeOK, RowTypes, SendTypes, BatchTypes, HeldTypes, MemTypes, EnvTypes
<1>2. CASE Environment BY <1>2, TypeEnvironment
<1>3. CASE \E w \in Workers : Tick(w) \/ Mishap(w) BY <1>3, TypeTick, TypeMishap
<1> QED BY <1>1, <1>2, <1>3 DEF Next

(* Every table and every tick hold values of their type, for any number of *)
(* rows, sends, overlapping ticks and batches, and with every hazard.      *)
THEOREM TypeCorrect == Spec => []TypeOK
BY TypeInit, TypeStep, PTL DEF Spec

-----------------------------------------------------------------------------
(***************************************************************************)
(* Who holds what.  Every step of a tick but the claim keeps ClaimInv for  *)
(* the same reason, stated once as Frame: it leaves the other ticks alone, *)
(* takes no new rows, and writes none that a tick holds afterwards, unless *)
(* to skip it.  Each step has the frame; the frame keeps the invariant.    *)
(***************************************************************************)
PartsApartAt(w) ==
  /\ todo[w] \cap (grp[w] \cup slice[w] \cup rel[w]) = {}
  /\ grp[w] \cap (slice[w] \cup rel[w]) = {}
  /\ slice[w] \cap rel[w] = {}

OthersStand(w) ==
  \A v \in Workers \ {w} :
    /\ todo'[v] = todo[v] /\ grp'[v] = grp[v] /\ slice'[v] = slice[v] /\ rel'[v] = rel[v]
    /\ pc'[v] = pc[v] /\ reply'[v] = reply[v] /\ batch'[v] = batch[v]

RecoverHasBatchAt(w) == At(w, "recover") => batch[w] # NoBatch

(* What a step may make of a row: it may skip any, but queue, fail or mark *)
(* 'sent' only rows that no tick holds afterwards.                         *)
RowStepOK(w, r) ==
  \/ rowStatus'[r] = rowStatus[r]
  \/ rowStatus[r] \in {"sending", "pending", "skipped"} /\ rowStatus'[r] = "skipped"
  \/ /\ \A v \in Workers : r \notin Held(v)'
     /\ \/ rowStatus[r] = "sending" /\ rowStatus'[r] \in {"pending", "failed"}
        \/ /\ At(w, "mark") /\ reply[w] = "accepted" /\ r \in slice[w]
           /\ rowStatus'[r] = "sent"

Frame(w) ==
  /\ OthersStand(w) /\ Held(w)' \subseteq Held(w)
  /\ PartsApartAt(w)' /\ RecoverHasBatchAt(w)'
  /\ \A r \in Rows : RowStepOK(w, r)
  /\ \A r \in rowStale' : r \in rowStale /\ rowStatus'[r] = rowStatus[r]
  /\ \A r \in Rows : rowBatch'[r] # NoBatch => rowStatus'[r] = "sent"

(* What the other ticks hold and have in flight is what it was. *)
LEMMA OthersKeep ==
  ASSUME NEW w \in Workers, OthersStand(w)
  PROVE  /\ \A v \in Workers \ {w} : Held(v)' = Held(v) /\ InWindow(v)' = InWindow(v)
         /\ \A v \in Workers \ {w} : \A r \in Rows : InFlight(v, r)' = InFlight(v, r)
         /\ \A v \in Workers \ {w} : RecoverHasBatchAt(v)' = RecoverHasBatchAt(v)
BY DEF OthersStand, Held, InWindow, At, InFlight, RecoverHasBatchAt

(* The frame keeps the invariant.                                          *)
LEMMA FrameKeeps ==
  ASSUME TypeOK, ClaimInv, NEW w \in Workers, Frame(w)
  PROVE  ClaimInv'
<1> USE DEF ClaimInv, Frame
<1>1. \A v \in Workers : Held(v)' \subseteq Held(v) /\ Held(v) \subseteq Rows
  BY OthersKeep DEF TypeOK, HeldTypes, Held
<1>2. HeldApart' BY <1>1 DEF HeldApart
<1>3. PartsApart'
  <2>1. \A v \in Workers \ {w} : PartsApartAt(v)'
    BY DEF OthersStand, PartsApart, PartsApartAt
  <2> QED BY <2>1 DEF PartsApart, PartsApartAt
<1>4. HeldClaimed' BY <1>1 DEF HeldClaimed, RowStepOK
<1>5. StaleAbandoned' BY <1>1 DEF StaleAbandoned
<1>6. LinkedSent' BY DEF LinkedSent
<1>7. RecoverHasBatch' BY OthersKeep DEF RecoverHasBatch, RecoverHasBatchAt
<1> QED BY <1>2, <1>3, <1>4, <1>5, <1>6, <1>7

(* A step that writes no row and moves rows only within the tick.          *)
LEMMA HandOnFrame ==
  ASSUME TypeOK, ClaimInv, NEW w \in Workers,
         OthersStand(w), Held(w)' \subseteq Held(w), PartsApartAt(w)',
         UNCHANGED <<rowStatus, rowBatch, rowStale>>, RecoverHasBatchAt(w)'
  PROVE  Frame(w)
BY DEF Frame, RowStepOK, ClaimInv, LinkedSent

(* A step that neither moves rows nor writes any.                          *)
LEMMA StillFrame ==
  ASSUME TypeOK, ClaimInv, NEW w \in Workers, UNCHANGED heldVars,
         UNCHANGED <<rowStatus, rowBatch, rowStale>>,
         \A v \in Workers \ {w} : pc'[v] = pc[v] /\ reply'[v] = reply[v] /\ batch'[v] = batch[v],
         RecoverHasBatchAt(w)'
  PROVE  Frame(w)
<1>1. OthersStand(w) BY DEF OthersStand
<1>2. Held(w)' \subseteq Held(w) BY DEF Held
<1>3. PartsApartAt(w)' BY DEF ClaimInv, PartsApart, PartsApartAt
<1> QED BY <1>1, <1>2, <1>3, HandOnFrame

(* The steps that neither move rows nor write any.                         *)
LEMMA FrameStill ==
  ASSUME TypeOK, ClaimInv, NEW w \in Workers,
         \/ FindStuckBatch(w) \/ FindPremature(w) \/ Reopen(w) \/ FindStranded(w)
         \/ EndLoop(w) \/ NextClaim(w) \/ PauseSend(w) \/ InsertBatch(w) \/ HaltPause(w)
         \/ ListCancelling(w) \/ Finalize(w) \/ ReadCount(w) \/ ReadSend(w)
         \/ WriteFinal(w) \/ FinalizeError(w) \/ InsertFails(w)
         \/ PostAccepted(w) \/ PostRefused(w) \/ PostLostReply(w)
  PROVE  Frame(w)
<1> USE StillFrame DEF TypeOK, MemTypes, At, Goto, GotoVia, Return, RecoverHasBatchAt, AfterHelper
<1>1. CASE FindStuckBatch(w) BY <1>1 DEF FindStuckBatch, BatchTypes, Batches, NoBatch
<1>2. CASE FindPremature(w) BY <1>2 DEF FindPremature
<1>3. CASE Reopen(w) BY <1>3 DEF Reopen
<1>4. CASE FindStranded(w) BY <1>4 DEF FindStranded, BeginFinalize
<1>5. CASE EndLoop(w) BY <1>5 DEF EndLoop
<1>6. CASE NextClaim(w) BY <1>6 DEF NextClaim
<1>7. CASE PauseSend(w) BY <1>7 DEF PauseSend
<1>8. CASE InsertBatch(w) BY <1>8 DEF InsertBatch
<1>9. CASE HaltPause(w) BY <1>9 DEF HaltPause
<1>10. CASE ListCancelling(w) BY <1>10 DEF ListCancelling
<1>11. CASE Finalize(w) BY <1>11 DEF Finalize, Forget, BeginFinalize
<1>12. CASE ReadCount(w) BY <1>12 DEF ReadCount
<1>13. CASE ReadSend(w) BY <1>13 DEF ReadSend
<1>14. CASE WriteFinal(w) BY <1>14 DEF WriteFinal, EndFinalize
<1>15. CASE FinalizeError(w) BY <1>15 DEF FinalizeError, EndFinalize
<1>16. CASE InsertFails(w) BY <1>16 DEF InsertFails
<1>17. CASE PostAccepted(w) BY <1>17 DEF PostAccepted, ProviderCall
<1>18. CASE PostRefused(w)
  <2>1. PICK D, answer : ProviderCall(w, D, answer) BY <1>18 DEF PostRefused
  <2> QED BY <2>1 DEF ProviderCall
<1>19. CASE PostLostReply(w)
  <2>1. PICK D, answer : ProviderCall(w, D, answer) BY <1>19 DEF PostLostReply
  <2> QED BY <2>1 DEF ProviderCall
<1> QED BY <1>1, <1>2, <1>3, <1>4, <1>5, <1>6, <1>7, <1>8, <1>9, <1>10, <1>11, <1>12,
           <1>13, <1>14, <1>15, <1>16, <1>17, <1>18, <1>19

(* Putting back a group hands its rows on. *)
LEMMA LeaveGroupHandsOn ==
  ASSUME TypeOK, ClaimInv, NEW w \in Workers, NEW l \in Labels, LeaveGroup(w, l),
         \A v \in Workers \ {w} : reply'[v] = reply[v] /\ batch'[v] = batch[v]
  PROVE  /\ OthersStand(w) /\ Held(w)' \subseteq Held(w) /\ PartsApartAt(w)'
         /\ At(w, "release")'
<1> USE DEF TypeOK, MemTypes, HeldTypes, LeaveGroup
<1>1. pc' = [pc EXCEPT ![w] = "release"] BY DEF Goto, GotoVia
<1>2. OthersStand(w) BY <1>1 DEF OthersStand
<1>3. Held(w)' \subseteq Held(w) BY DEF Held
<1>4. PartsApartAt(w)' BY DEF ClaimInv, PartsApart, PartsApartAt
<1> QED BY <1>1, <1>2, <1>3, <1>4 DEF At

(* The steps that hand rows on within a tick, or let go of them unwritten. *)
LEMMA FrameHandOn ==
  ASSUME TypeOK, ClaimInv, NEW w \in Workers,
         \/ SuppressionGate(w) \/ OpenGroup(w) \/ PaceStop(w) \/ PaceRead(w)
         \/ ClaimQuota(w) \/ CloseBatch(w) \/ GateError(w) \/ ReputationTrip(w)
         \/ QuotaSpent(w) \/ MarkLost(w) \/ Crash(w)
  PROVE  Frame(w)
<1> USE DEF TypeOK, MemTypes, HeldTypes, At, Goto, GotoVia, Labels, RecoverHasBatchAt
<1>0. PartsApartAt(w) BY DEF ClaimInv, PartsApart, PartsApartAt
<1>1. CASE SuppressionGate(w)
  <2> USE <1>1 DEF SuppressionGate
  <2>1. OthersStand(w) BY DEF OthersStand
  <2>2. rel' = [rel EXCEPT ![w] = todo[w] \cap erased] /\ todo' = [todo EXCEPT ![w] = @ \ erased]
    OBVIOUS
  <2>3. Held(w)' \subseteq Held(w) BY <2>2 DEF Held
  <2>4. PartsApartAt(w)' BY <1>0, <2>2 DEF PartsApartAt
  <2> QED BY <2>1, <2>3, <2>4, HandOnFrame
<1>2. CASE OpenGroup(w)
  <2> USE <1>2 DEF OpenGroup
  <2>1. PICK g \in SUBSET todo[w] :
             /\ todo' = [todo EXCEPT ![w] = @ \ g]
             /\ \/ grp' = [grp EXCEPT ![w] = g] /\ UNCHANGED rel
                \/ rel' = [rel EXCEPT ![w] = g] /\ UNCHANGED grp
    BY DEF RowsOf
  <2>2. OthersStand(w) BY <2>1 DEF OthersStand
  <2>3. Held(w)' \subseteq Held(w) BY <2>1 DEF Held
  <2>4. PartsApartAt(w)' BY <1>0, <2>1 DEF PartsApartAt
  <2> QED BY <2>2, <2>3, <2>4, HandOnFrame
<1>3. CASE PaceStop(w)
  BY <1>3, LeaveGroupHandsOn, HandOnFrame DEF PaceStop
<1>4. CASE PaceRead(w)
  <2>1. CASE LeaveGroup(w, "group")
    BY <1>4, <2>1, LeaveGroupHandsOn, HandOnFrame DEF PaceRead
  <2>2. CASE ~LeaveGroup(w, "group")
    BY <1>4, <2>2, StillFrame DEF PaceRead, RecoverHasBatchAt
  <2> QED BY <2>1, <2>2
<1>5. CASE ClaimQuota(w)
  <2> USE <1>5 DEF ClaimQuota
  <2>1. PICK B \in SUBSET grp[w] : \E S \in SUBSET B :
             /\ slice' = [slice EXCEPT ![w] = S]
             /\ grp' = [grp EXCEPT ![w] = @ \ B]
             /\ rel' = [rel EXCEPT ![w] = B \ S]
    OBVIOUS
  <2>2. PICK S \in SUBSET B :
             /\ slice' = [slice EXCEPT ![w] = S]
             /\ grp' = [grp EXCEPT ![w] = @ \ B]
             /\ rel' = [rel EXCEPT ![w] = B \ S]
    BY <2>1
  <2>3. OthersStand(w) BY <2>2 DEF OthersStand
  <2>4. Held(w)' \subseteq Held(w) BY <2>2 DEF Held
  <2>5. PartsApartAt(w)' BY <1>0, <2>2 DEF PartsApartAt
  <2> QED BY <2>3, <2>4, <2>5, HandOnFrame
<1>6. CASE CloseBatch(w)
  <2>1. CASE LeaveGroup(w, "group")
    BY <1>6, <2>1, LeaveGroupHandsOn, HandOnFrame DEF CloseBatch
  <2>2. CASE ~LeaveGroup(w, "group")
    BY <1>6, <2>2, StillFrame DEF CloseBatch, RecoverHasBatchAt
  <2> QED BY <2>1, <2>2
<1>7. CASE GateError(w)
  <2> USE <1>7 DEF GateError
  <2>1. OthersStand(w) BY DEF OthersStand
  <2>2. Held(w)' \subseteq Held(w) BY DEF Held
  <2>3. PartsApartAt(w)' BY <1>0 DEF PartsApartAt
  <2> QED BY <2>1, <2>2, <2>3, HandOnFrame
<1>8. CASE ReputationTrip(w)
  BY <1>8, LeaveGroupHandsOn, HandOnFrame DEF ReputationTrip
<1>9. CASE QuotaSpent(w)
  BY <1>9, LeaveGroupHandsOn, HandOnFrame DEF QuotaSpent
<1>10. CASE Crash(w)
  <2> USE <1>10 DEF Crash, LoseOutcome, Forget
  <2>1. OthersStand(w) BY DEF OthersStand
  <2>2. Held(w)' \subseteq Held(w) BY DEF Held
  <2>3. PartsApartAt(w)' BY DEF PartsApartAt
  <2> QED BY <2>1, <2>2, <2>3, HandOnFrame
<1>11. CASE MarkLost(w)
  <2> USE <1>11 DEF MarkLost, LoseOutcome, AfterMark
  <2>1. OthersStand(w) BY DEF OthersStand
  <2>2. Held(w)' \subseteq Held(w) BY DEF Held
  <2>3. PartsApartAt(w)' BY <1>0 DEF PartsApartAt
  <2> QED BY <2>1, <2>2, <2>3, HandOnFrame
<1> QED BY <1>1, <1>2, <1>3, <1>4, <1>5, <1>6, <1>7, <1>8, <1>9, <1>10, <1>11

(* Putting back rows that no tick holds afterwards, or skipping any.       *)
LEMMA RewriteFrame ==
  ASSUME TypeOK, ClaimInv, NEW w \in Workers, NEW R \in SUBSET Rows,
         NEW status \in {"pending", "skipped"}, SetRows(R, status),
         OthersStand(w), Held(w)' \subseteq Held(w), PartsApartAt(w)', RecoverHasBatchAt(w)',
         \A r \in Rows : rowBatch'[r] \in {rowBatch[r], NoBatch},
         \A r \in R : rowStatus[r] \in {"sending", "pending", "skipped"},
         status = "pending" =>
           \A r \in R : rowStatus[r] = "sending" /\ \A v \in Workers : r \notin Held(v)'
  PROVE  Frame(w)
<1>1. \A r \in Rows : rowStatus'[r] = IF r \in R THEN status ELSE rowStatus[r]
  BY DEF SetRows
<1>2. \A r \in Rows : RowStepOK(w, r) BY <1>1 DEF RowStepOK
<1>3. \A r \in Rows : rowBatch'[r] # NoBatch => rowStatus'[r] = "sent"
  BY <1>1 DEF ClaimInv, LinkedSent
<1>4. \A r \in rowStale' : r \in rowStale /\ rowStatus'[r] = rowStatus[r]
  BY <1>1 DEF SetRows, TypeOK, RowTypes
<1> QED BY <1>2, <1>3, <1>4 DEF Frame

(* Sweeper, batch recovery, releases, skips and cancel sweep: a release     *)
(* puts back only rows that are still sending, the sweeper only abandoned  *)
(* ones, and batch recovery finds none at all.                             *)
LEMMA FrameRewrite ==
  ASSUME TypeOK, ClaimInv, NEW w \in Workers,
         Sweep(w) \/ RecoverBatch(w) \/ Release(w) \/ Skip(w) \/ SweepCancelled(w)
  PROVE  Frame(w)
<1> USE DEF TypeOK, RowTypes, MemTypes, HeldTypes, At, Goto, GotoVia, Return, Labels,
            AfterHelper, RecoverHasBatchAt
<1>0. PartsApartAt(w) BY DEF ClaimInv, PartsApart, PartsApartAt
<1>1. CASE Sweep(w)
  <2> USE <1>1 DEF Sweep
  <2>1. OthersStand(w) BY DEF OthersStand
  <2>2. \A v \in Workers : Held(v)' = Held(v) BY DEF Held
  <2>3. PartsApartAt(w)' BY <1>0 DEF PartsApartAt
  <2>4. \A r \in rowStale : rowStatus[r] = "sending" /\ \A v \in Workers : r \notin Held(v)'
    BY <2>2 DEF ClaimInv, StaleAbandoned
  <2> QED BY <2>1, <2>2, <2>3, <2>4, RewriteFrame
<1>2. CASE RecoverBatch(w)
  <2> USE <1>2 DEF RecoverBatch
  <2>1. OthersStand(w) BY DEF OthersStand
  <2>2. \A v \in Workers : Held(v)' = Held(v) BY DEF Held
  <2>3. PartsApartAt(w)' BY <1>0 DEF PartsApartAt
  <2>4. BatchRows(batch[w]) = {}
    BY DEF BatchRows, ClaimInv, LinkedSent, RecoverHasBatch
  <2>5. \A r \in Rows : rowBatch'[r] \in {rowBatch[r], NoBatch} OBVIOUS
  <2>6. SetRows({}, "pending") BY <2>4
  <2> QED BY <2>1, <2>2, <2>3, <2>5, <2>6, RewriteFrame
<1>3. CASE Release(w)
  <2> USE <1>3 DEF Release
  <2>1. OthersStand(w) BY DEF OthersStand
  <2>2. Held(w)' \subseteq Held(w) /\ rel'[w] = {} BY DEF Held
  <2>3. PartsApartAt(w)' BY <1>0 DEF PartsApartAt
  <2>4. \A r \in rel[w] : \A v \in Workers : r \notin Held(v)'
    BY <1>0, <2>1, OthersKeep DEF ClaimInv, HeldApart, Held, PartsApartAt
  <2>5. StillSending(rel[w]) \in SUBSET Rows BY DEF StillSending
  <2> QED BY <2>1, <2>2, <2>3, <2>4, <2>5, RewriteFrame DEF StillSending
<1>4. CASE Skip(w)
  <2> USE <1>4 DEF Skip
  <2>1. OthersStand(w) BY DEF OthersStand
  <2>2. Held(w)' \subseteq Held(w) BY DEF Held
  <2>3. PartsApartAt(w)' BY <1>0 DEF PartsApartAt
  <2>4. \A r \in rel[w] : rowStatus[r] \in {"sending", "skipped"} BY DEF ClaimInv, HeldClaimed, Held
  <2> QED BY <2>1, <2>2, <2>3, <2>4, RewriteFrame
<1>5. CASE SweepCancelled(w)
  <2> USE <1>5 DEF SweepCancelled
  <2>1. OthersStand(w) BY DEF OthersStand
  <2>2. Held(w)' = Held(w) BY DEF Held
  <2>3. PartsApartAt(w)' BY <1>0 DEF PartsApartAt
  <2>4. PICK s : SetRows(Open(s), "skipped") OBVIOUS
  <2>5. Open(s) \in SUBSET Rows /\ \A r \in Open(s) : rowStatus[r] \in Outstanding
    BY DEF Open, With, RowsOf
  <2> QED BY <2>1, <2>2, <2>3, <2>4, <2>5, RewriteFrame DEF Outstanding
<1> QED BY <1>1, <1>2, <1>3, <1>4, <1>5

(* A batch is marked: its rows leave the tick.                             *)
LEMMA FrameMark ==
  ASSUME TypeOK, ClaimInv, NEW w \in Workers, MarkSent(w) \/ MarkRefused(w)
  PROVE  Frame(w)
<1> USE DEF TypeOK, RowTypes, MemTypes, HeldTypes, At, Goto
<1>0. PartsApartAt(w) BY DEF ClaimInv, PartsApart, PartsApartAt
<1>1. CASE MarkSent(w)
  <2> USE <1>1 DEF MarkSent, Posted, SetRows
  <2>1. OthersStand(w) BY DEF OthersStand
  <2>2. Held(w)' \subseteq Held(w) BY DEF Held
  <2>3. PartsApartAt(w)' BY <1>0 DEF PartsApartAt
  <2>4. RecoverHasBatchAt(w)' BY DEF RecoverHasBatchAt
  <2>5. \A r \in slice[w] : \A v \in Workers : r \notin Held(v)'
    BY <1>0, <2>1, OthersKeep DEF ClaimInv, HeldApart, Held, PartsApartAt
  <2>6. \A r \in Rows : RowStepOK(w, r) BY <2>5 DEF RowStepOK
  <2>7. \A r \in Rows : rowBatch'[r] # NoBatch => rowStatus'[r] = "sent"
    BY DEF ClaimInv, LinkedSent
  <2> QED BY <2>1, <2>2, <2>3, <2>4, <2>6, <2>7 DEF Frame
<1>2. CASE MarkRefused(w)
  <2> USE <1>2 DEF MarkRefused, AfterMark, StillSending
  <2>1. OthersStand(w) BY DEF OthersStand
  <2>2. Held(w)' \subseteq Held(w) BY DEF Held
  <2>3. PartsApartAt(w)' BY <1>0 DEF PartsApartAt
  <2>4. RecoverHasBatchAt(w)' BY DEF RecoverHasBatchAt
  <2>5. \A r \in slice[w] : \A v \in Workers : r \notin Held(v)'
    BY <1>0, <2>1, OthersKeep DEF ClaimInv, HeldApart, Held, PartsApartAt
  <2>6. \A r \in Rows : rowStatus'[r] # rowStatus[r] =>
          r \in slice[w] /\ rowStatus[r] = "sending" /\ rowStatus'[r] \in {"pending", "failed"}
    OBVIOUS
  <2>7. \A r \in Rows : RowStepOK(w, r) BY <2>5, <2>6 DEF RowStepOK
  <2>8. \A r \in Rows : rowBatch'[r] # NoBatch => rowStatus'[r] = "sent"
    BY <2>6 DEF ClaimInv, LinkedSent
  <2>9. \A r \in rowStale' : r \in rowStale /\ rowStatus'[r] = rowStatus[r] OBVIOUS
  <2> QED BY <2>1, <2>2, <2>3, <2>4, <2>7, <2>8, <2>9 DEF Frame
<1> QED BY <1>1, <1>2

(* Every step of a tick but the claim has the frame.                       *)
LEMMA FrameStep ==
  ASSUME TypeOK, ClaimInv, NEW w \in Workers, Tick(w) \/ Mishap(w), ~Claim(w)
  PROVE  Frame(w)
<1>1. CASE Tick(w) BY <1>1, FrameStill, FrameHandOn, FrameRewrite, FrameMark DEF Tick
<1>2. CASE Mishap(w) BY <1>2, FrameStill, FrameHandOn DEF Mishap
<1> QED BY <1>1, <1>2

(* A claim takes pending rows, which no tick holds.                        *)
LEMMA ClaimTakes ==
  ASSUME TypeOK, ClaimInv, NEW w \in Workers, Claim(w)
  PROVE  \E C \in SUBSET Due :
           /\ \A r \in C : r \in Rows /\ rowStatus[r] = "pending"
           /\ \A r \in C : \A v \in Workers : r \notin Held(v)
           /\ \A r \in Rows : rowStatus'[r] = IF r \in C THEN "sending" ELSE rowStatus[r]
           /\ \A r \in Rows : rowAttempts'[r] = IF r \in C /\ MaxAttempts > 0
                                               THEN rowAttempts[r] + 1 ELSE rowAttempts[r]
           /\ rowStale' = rowStale \ C
           /\ todo' = [todo EXCEPT ![w] = C]
           /\ UNCHANGED <<grp, slice, rel, batch, reply, rowBatch, envVars>>
           /\ At(w, "claim") /\ pc' = [pc EXCEPT ![w] = "gate"]
<1>1. PICK C \in SUBSET Due :
        /\ SetRows(C, "sending") /\ todo' = [todo EXCEPT ![w] = C]
        /\ rowAttempts' = [r \in Rows |-> IF r \in C /\ MaxAttempts > 0
                                          THEN rowAttempts[r] + 1 ELSE rowAttempts[r]]
  BY DEF Claim
<1>2. \A r \in C : r \in Rows /\ rowStatus[r] = "pending" BY DEF Due
<1>3. \A r \in C : \A v \in Workers : r \notin Held(v)
  BY <1>2 DEF ClaimInv, HeldClaimed
<1>4. \A r \in Rows : rowStatus'[r] = IF r \in C THEN "sending" ELSE rowStatus[r]
  BY <1>1 DEF SetRows
<1>5. rowStale' = rowStale \ C BY <1>1 DEF SetRows
<1>6. UNCHANGED <<grp, slice, rel, batch, reply, rowBatch, envVars>>
      /\ At(w, "claim") /\ pc' = [pc EXCEPT ![w] = "gate"]
  BY DEF Claim, Goto
<1> QED BY <1>1, <1>2, <1>3, <1>4, <1>5, <1>6

(* A claim keeps the invariant.                                            *)
LEMMA ClaimKeeps ==
  ASSUME TypeOK, ClaimInv, NEW w \in Workers, Claim(w)
  PROVE  ClaimInv'
<1> USE DEF TypeOK, RowTypes, MemTypes, HeldTypes, ClaimInv
<1>1. PICK C \in SUBSET Due :
        /\ \A r \in C : r \in Rows /\ rowStatus[r] = "pending"
        /\ \A r \in C : \A v \in Workers : r \notin Held(v)
        /\ \A r \in Rows : rowStatus'[r] = IF r \in C THEN "sending" ELSE rowStatus[r]
        /\ rowStale' = rowStale \ C
        /\ todo' = [todo EXCEPT ![w] = C]
        /\ UNCHANGED <<grp, slice, rel, batch, reply, rowBatch>>
        /\ At(w, "claim") /\ pc' = [pc EXCEPT ![w] = "gate"]
  BY ClaimTakes
<1>2. \A v \in Workers : Held(v)' \subseteq Held(v) \cup C /\ (v # w => Held(v)' = Held(v))
  BY <1>1 DEF Held
<1>3. \A v \in Workers : Held(v)' \subseteq Rows BY <1>1, <1>2 DEF Held
<1>4. HeldApart' BY <1>1, <1>2 DEF HeldApart
<1>5. PartsApart'
  <2>1. PartsApartAt(w)' BY <1>1 DEF PartsApart, PartsApartAt, Held
  <2>2. \A v \in Workers \ {w} : PartsApartAt(v)' BY <1>1 DEF PartsApart, PartsApartAt
  <2> QED BY <2>1, <2>2 DEF PartsApart, PartsApartAt
<1>6. HeldClaimed' BY <1>1, <1>2, <1>3 DEF HeldClaimed
<1>7. StaleAbandoned' BY <1>1, <1>2 DEF StaleAbandoned
<1>8. LinkedSent' BY <1>1 DEF LinkedSent
<1>9. RecoverHasBatch' BY <1>1 DEF RecoverHasBatch, At
<1> QED BY <1>4, <1>5, <1>6, <1>7, <1>8, <1>9

(* What time, admins, compliance and other dispatch ticks leave alone, and *)
(* what they may do to a row: insert it late, or let an abandoned row age. *)
LEMMA EnvironmentFrame ==
  ASSUME TypeOK, Environment
  PROVE  /\ UNCHANGED <<tickVars, rowAttempts, rowBatch, reported, copies, tries, lost>>
         /\ \A r \in Rows : \/ rowStatus'[r] = rowStatus[r]
                            \/ rowStatus[r] = "absent" /\ rowStatus'[r] = "pending"
         /\ \A r \in rowStale' : \/ r \in rowStale
                                 \/ rowStatus[r] = "sending" /\ ("slow_tick" \in Hazards
                                      \/ \A w \in Workers : r \notin Held(w))
<1> USE DEF TypeOK, RowTypes
<1>1. CASE \E r \in Rows : AgeRow(r) BY <1>1 DEF AgeRow
<1>2. CASE \E r \in Rows : LateInsert(r) BY <1>2 DEF LateInsert, SetRows
<1>3. CASE ~(\E r \in Rows : AgeRow(r) \/ LateInsert(r))
  <2>1. UNCHANGED <<tickVars, rowStatus, rowStale, rowAttempts, rowBatch, reported, copies,
                    tries, lost>>
    BY <1>3 DEF Environment, Erase, AgeBatch, AgeSend, ForgetSend, Pause, Resume, Stop, AdminSets,
        BlindWrite
  <2> QED BY <2>1
<1> QED BY <1>1, <1>2, <1>3

(* The environment keeps the invariant, if no live tick is slow.           *)
LEMMA ClaimEnvironment ==
  ASSUME TypeOK, ClaimInv, "slow_tick" \notin Hazards, Environment
  PROVE  ClaimInv'
<1> USE EnvironmentFrame DEF ClaimInv
<1>0. \A v \in Workers : Held(v) \subseteq Rows BY DEF TypeOK, HeldTypes, Held
<1>1. \A v \in Workers : Held(v)' = Held(v) BY DEF Held
<1>2. HeldApart' BY <1>1 DEF HeldApart
<1>3. PartsApart' /\ RecoverHasBatch' BY DEF PartsApart, RecoverHasBatch, At
<1>4. HeldClaimed' BY <1>0, <1>1 DEF HeldClaimed
<1>5. StaleAbandoned'
  <2>1. rowStale' \subseteq Rows BY TypeEnvironment DEF TypeOK, RowTypes
  <2>2. \A r \in rowStale' : rowStatus[r] = "sending" /\ \A w \in Workers : r \notin Held(w)
    BY DEF StaleAbandoned
  <2> QED BY <1>1, <2>1, <2>2 DEF StaleAbandoned
<1>6. LinkedSent' BY DEF LinkedSent
<1> QED BY <1>2, <1>3, <1>4, <1>5, <1>6

(* Nothing is claimed at first. *)
LEMMA ClaimInit == Init => ClaimInv
BY ConfigAssumption
DEF Init, ClaimInv, HeldApart, PartsApart, HeldClaimed, StaleAbandoned, LinkedSent,
    RecoverHasBatch, Held, At

(* ClaimInv is inductive, given the types. *)
LEMMA ClaimStep ==
  "slow_tick" \notin Hazards /\ TypeOK /\ ClaimInv /\ [Next]_vars => ClaimInv'
<1> SUFFICES ASSUME "slow_tick" \notin Hazards, TypeOK, ClaimInv, [Next]_vars PROVE ClaimInv'
  OBVIOUS
<1>1. CASE UNCHANGED vars
  BY <1>1
  DEF vars, ClaimInv, HeldApart, PartsApart, HeldClaimed, StaleAbandoned, LinkedSent,
      RecoverHasBatch, Held, At
<1>2. CASE Environment BY <1>2, ClaimEnvironment
<1>3. ASSUME NEW w \in Workers, Tick(w) \/ Mishap(w) PROVE ClaimInv'
  BY <1>3, FrameStep, FrameKeeps, ClaimKeeps
<1> QED BY <1>1, <1>2, <1>3 DEF Next

(* As long as no live tick outlasts the sweeper's age no two ticks hold a  *)
(* row, and only abandoned rows go stale: whatever else goes wrong.        *)
THEOREM ClaimsHold == ASSUME "slow_tick" \notin Hazards PROVE Spec => []ClaimInv
<1>1. Init => TypeOK /\ ClaimInv BY TypeInit, ClaimInit
<1>2. (TypeOK /\ ClaimInv) /\ [Next]_vars => (TypeOK /\ ClaimInv)'
  BY TypeStep, ClaimStep
<1> QED BY <1>1, <1>2, PTL DEF Spec

-----------------------------------------------------------------------------
(***************************************************************************)
(* With no hazard but blind writes, nobody is mailed twice by one send and *)
(* what is recorded as sent was delivered, for any number of rows, sends,  *)
(* overlapping ticks and crashes.  A step that has the frame keeps         *)
(* MailedOnce when it mails nobody and settles what its tick had in flight.*)
(***************************************************************************)

(* Such a step.                                                            *)
LEMMA MailKeeps ==
  ASSUME TypeOK, MailedOnce, NEW w \in Workers, Frame(w), UNCHANGED copies, ~InWindow(w)',
         \A r \in Rows : InFlight(w, r) => rowStatus'[r] \in Settled /\ r \notin Held(w)'
  PROVE  MailedOnce'
<1> USE DEF MailedOnce
<1>0. ClaimInv' BY FrameKeeps
<1>1. \A v \in Workers : Held(v)' \subseteq Held(v) /\ Held(v) \subseteq Rows
  BY OthersKeep DEF TypeOK, HeldTypes, Held, Frame
<1>2. \A v \in Workers : \A r \in Rows :
        /\ InFlight(v, r)' => InFlight(v, r)
        /\ InFlight(v, r) => InFlight(v, r)' \/ (rowStatus'[r] \in Settled /\ r \notin Held(v)')
  BY OthersKeep DEF InFlight, Frame
<1>3. HeldUnmailed' BY <1>1, <1>2 DEF HeldUnmailed
<1>4. OpenUnmailed'
  <2> SUFFICES ASSUME NEW r \in Rows, rowStatus'[r] \notin Settled, copies[r] # 0
               PROVE  \E v \in Workers : InFlight(v, r)'
    BY DEF OpenUnmailed
  <2>1. rowStatus[r] \notin Settled BY DEF Frame, RowStepOK, Settled
  <2>2. PICK v \in Workers : InFlight(v, r) BY <2>1 DEF OpenUnmailed
  <2> QED BY <1>2, <2>2
<1>5. AcceptedDelivered'
  <2> SUFFICES ASSUME NEW v \in Workers, At(v, "mark")', reply'[v] = "accepted"
               PROVE  \A r \in slice'[v] : copies[r] > 0
    BY DEF AcceptedDelivered
  <2>1. v # w BY DEF InWindow
  <2> QED BY <2>1 DEF AcceptedDelivered, Frame, OthersStand, At
<1>6. AtMostOneCopy' BY DEF AtMostOneCopy
<1>7. SentMeansDelivered'
  BY DEF SentMeansDelivered, Frame, RowStepOK, AcceptedDelivered, TypeOK, EnvTypes
<1> QED BY <1>0, <1>3, <1>4, <1>5, <1>6, <1>7

(* A tick is in the window only between a provider call and the write that *)
(* marks the batch; no other step of it mails anyone.                      *)
LEMMA OutsideWindow ==
  ASSUME TypeOK, NEW w \in Workers, OnlyBlindWrites, Tick(w) \/ Mishap(w),
         ~(Claim(w) \/ MarkSent(w) \/ MarkRefused(w)),
         ~(PostAccepted(w) \/ PostRefused(w) \/ PostLostReply(w))
  PROVE  UNCHANGED copies /\ ~InWindow(w) /\ ~InWindow(w)'
<1> USE DEF TypeOK, MemTypes, At, Goto, GotoVia, Return, AfterHelper, Labels, InWindow
<1>1. CASE \/ Sweep(w) \/ FindStuckBatch(w) \/ RecoverBatch(w) \/ FindPremature(w) \/ Reopen(w)
           \/ FindStranded(w) \/ EndLoop(w)
  BY <1>1
  DEF Sweep, FindStuckBatch, RecoverBatch, FindPremature, Reopen, FindStranded, BeginFinalize,
      EndLoop
<1>2. CASE \/ SuppressionGate(w) \/ Release(w) \/ Skip(w) \/ NextClaim(w) \/ OpenGroup(w)
           \/ PaceStop(w) \/ PaceRead(w) \/ PauseSend(w) \/ ClaimQuota(w) \/ InsertBatch(w)
  <2>1. CASE OpenGroup(w) BY <2>1 DEF OpenGroup
  <2>2. CASE ClaimQuota(w) BY <2>2 DEF ClaimQuota
  <2> QED BY <1>2, <2>1, <2>2
    DEF SuppressionGate, Release, Skip, NextClaim, PaceStop, PaceRead, LeaveGroup, PauseSend,
        InsertBatch
<1>3. CASE HaltPause(w) \/ CloseBatch(w) \/ ListCancelling(w) \/ SweepCancelled(w)
  BY <1>3 DEF HaltPause, CloseBatch, LeaveGroup, ListCancelling, SweepCancelled
<1>4. CASE Finalize(w) \/ ReadCount(w) \/ ReadSend(w) \/ WriteFinal(w)
  BY <1>4 DEF Finalize, BeginFinalize, Forget, ReadCount, ReadSend, WriteFinal, EndFinalize
<1>5. CASE Mishap(w)
  BY <1>5
  DEF OnlyBlindWrites, Mishap, GateError, ReputationTrip, QuotaSpent, LeaveGroup, InsertFails,
      MarkLost, LoseOutcome, AfterMark, FinalizeError, EndFinalize, Crash, Forget
<1> QED BY <1>1, <1>2, <1>3, <1>4, <1>5 DEF Tick

(* The batch in flight is settled: marked 'sent' where the provider        *)
(* accepted it, failed or put back where it delivered nothing.             *)
LEMMA OnceMark ==
  ASSUME TypeOK, MailedOnce, NEW w \in Workers, MarkSent(w) \/ MarkRefused(w)
  PROVE  MailedOnce'
<1> USE DEF TypeOK, RowTypes, MemTypes, HeldTypes, At, Goto
<1>1. Frame(w) BY FrameMark DEF MailedOnce
<1>2. PartsApartAt(w) BY DEF MailedOnce, ClaimInv, PartsApart, PartsApartAt
<1>3. \A r \in slice[w] : r \notin Held(w)'
  BY <1>2 DEF MarkSent, MarkRefused, Held, PartsApartAt
<1>4. UNCHANGED copies /\ ~InWindow(w)' BY DEF MarkSent, MarkRefused, AfterMark, InWindow
<1>5. \A r \in slice[w] : r \in Rows /\ rowStatus[r] \in {"sending", "skipped"}
  BY DEF MailedOnce, ClaimInv, HeldClaimed, Held
<1>6. \A r \in Rows : InFlight(w, r) => rowStatus'[r] \in Settled
  <2>1. CASE MarkSent(w) BY <2>1 DEF MarkSent, Posted, SetRows, InFlight, Settled
  <2>2. CASE MarkRefused(w)
    BY <1>5, <2>2 DEF MarkRefused, StillSending, InFlight, InWindow, Settled
  <2> QED BY <2>1, <2>2
<1> QED BY <1>1, <1>3, <1>4, <1>6, MailKeeps DEF InFlight

(* A claim takes rows nobody was mailed for.                               *)
LEMMA OnceClaim ==
  ASSUME TypeOK, MailedOnce, NEW w \in Workers, Claim(w)
  PROVE  MailedOnce'
<1> USE DEF TypeOK, RowTypes, MemTypes, HeldTypes
<1>1. PICK C \in SUBSET Due :
        /\ \A r \in C : r \in Rows /\ rowStatus[r] = "pending"
        /\ \A r \in C : \A v \in Workers : r \notin Held(v)
        /\ \A r \in Rows : rowStatus'[r] = IF r \in C THEN "sending" ELSE rowStatus[r]
        /\ todo' = [todo EXCEPT ![w] = C]
        /\ UNCHANGED <<grp, slice, rel, reply, copies>>
        /\ At(w, "claim") /\ pc' = [pc EXCEPT ![w] = "gate"]
  BY ClaimTakes DEF MailedOnce
<1>2. \A v \in Workers : InWindow(v)' = InWindow(v) BY <1>1 DEF InWindow, At
<1>3. \A v \in Workers : \A r \in Rows : InFlight(v, r)' = InFlight(v, r)
  BY <1>1, <1>2 DEF InFlight
<1>4. \A v \in Workers : Held(v)' \subseteq Held(v) \cup C BY <1>1 DEF Held
<1>5. \A r \in C : copies[r] = 0
  <2> SUFFICES ASSUME NEW r \in C PROVE copies[r] = 0 OBVIOUS
  <2>1. rowStatus[r] \notin Settled BY <1>1 DEF Settled
  <2>2. \A v \in Workers : ~InFlight(v, r) BY <1>1 DEF InFlight, Held
  <2> QED BY <1>1, <2>1, <2>2 DEF MailedOnce, OpenUnmailed
<1> USE DEF MailedOnce
<1>6. ClaimInv' BY ClaimKeeps
<1>7. HeldUnmailed'
  <2>1. \A v \in Workers : Held(v)' \subseteq Rows BY <1>1, <1>4 DEF Held
  <2> QED BY <1>1, <1>3, <1>4, <1>5, <2>1 DEF HeldUnmailed
<1>8. OpenUnmailed' BY <1>1, <1>3 DEF OpenUnmailed, Settled
<1>9. AcceptedDelivered' BY <1>1 DEF AcceptedDelivered, At
<1>10. AtMostOneCopy' /\ SentMeansDelivered' BY <1>1 DEF AtMostOneCopy, SentMeansDelivered
<1> QED BY <1>6, <1>7, <1>8, <1>9, <1>10

(* A provider call mails the slice once and puts it in flight, or nobody.  *)
LEMMA OncePost ==
  ASSUME TypeOK, MailedOnce, NEW w \in Workers, OnlyBlindWrites,
         PostAccepted(w) \/ PostRefused(w) \/ PostLostReply(w)
  PROVE  MailedOnce'
<1> USE DEF TypeOK, EnvTypes, RowTypes, MemTypes, HeldTypes
<1>1. PICK D \in {slice[w], {}}, answer \in Replies :
        /\ ProviderCall(w, D, answer)
        /\ answer = "accepted" => D = slice[w]
        /\ D = {} \/ answer = "accepted" \/ (Paced /\ answer = "terminal")
  <2>1. CASE PostAccepted(w) BY <2>1 DEF PostAccepted, Replies
  <2>2. CASE PostRefused(w) BY <2>2 DEF PostRefused, Replies
  <2>3. CASE PostLostReply(w) BY <2>3 DEF PostLostReply, OnlyBlindWrites, Replies
  <2> QED BY <2>1, <2>2, <2>3
<1>2. /\ UNCHANGED <<heldVars, batch, rowStatus, rowBatch, rowStale>>
      /\ At(w, "post") /\ pc' = [pc EXCEPT ![w] = "mark"]
      /\ reply' = [reply EXCEPT ![w] = answer]
      /\ copies' = [r \in Rows |-> IF r \in D THEN copies[r] + 1 ELSE copies[r]]
  BY <1>1 DEF ProviderCall, Goto
<1>3. OthersStand(w) BY <1>2 DEF OthersStand
<1>4. \A v \in Workers : Held(v)' = Held(v) BY <1>2 DEF Held
<1>5. ~InWindow(w) BY <1>2 DEF InWindow, At
<1>6. \A v \in Workers : \A r \in Rows : InFlight(v, r) => v # w /\ InFlight(v, r)'
  BY <1>3, <1>5, OthersKeep DEF InFlight
<1>7. \A r \in slice[w] : copies[r] = 0
  BY <1>5 DEF MailedOnce, HeldUnmailed, Held, InFlight
<1>8. \A r \in D : InFlight(w, r)'
  BY <1>1, <1>2 DEF InFlight, InWindow, At
<1>9. \A r \in Rows : copies'[r] = copies[r] \/ (InFlight(w, r)' /\ copies'[r] = 1)
  BY <1>1, <1>2, <1>7, <1>8
<1>10. \A r \in slice[w] : r \in Rows /\ \A v \in Workers : r \in Held(v) => v = w
  BY DEF MailedOnce, ClaimInv, HeldApart, Held
<1>11. \A v \in Workers : \A r \in Held(v) : InFlight(w, r)' => v = w
  BY <1>2, <1>10 DEF InFlight
<1> USE DEF MailedOnce
<1>12. ClaimInv' BY FrameStill, FrameKeeps
<1>13. HeldUnmailed'
  <2> SUFFICES ASSUME NEW v \in Workers, NEW r \in Held(v)
               PROVE  copies'[r] = 0 \/ InFlight(v, r)'
    BY <1>4 DEF HeldUnmailed
  <2>1. r \in Rows BY DEF Held
  <2>2. copies[r] = 0 \/ InFlight(v, r)' BY <1>6, <2>1 DEF HeldUnmailed
  <2> QED BY <1>9, <1>11, <2>1, <2>2
<1>14. OpenUnmailed'
  <2> SUFFICES ASSUME NEW r \in Rows, rowStatus[r] \notin Settled
               PROVE  copies'[r] = 0 \/ \E v \in Workers : InFlight(v, r)'
    BY <1>2 DEF OpenUnmailed
  <2>1. copies[r] = 0 \/ \E v \in Workers : InFlight(v, r)' BY <1>6 DEF OpenUnmailed
  <2> QED BY <1>9, <2>1
<1>15. AcceptedDelivered'
  <2> SUFFICES ASSUME NEW v \in Workers, At(v, "mark")', reply'[v] = "accepted",
                      NEW r \in slice[v]
               PROVE  copies'[r] > 0
    BY <1>2 DEF AcceptedDelivered
  <2>1. r \in Rows OBVIOUS
  <2>2. CASE v = w BY <1>1, <1>2, <2>1, <2>2
  <2>3. CASE v # w BY <1>2, <1>9, <2>1, <2>3 DEF AcceptedDelivered, At
  <2> QED BY <2>2, <2>3
<1>16. AtMostOneCopy' BY <1>9 DEF AtMostOneCopy
<1>17. SentMeansDelivered' BY <1>2, <1>9 DEF SentMeansDelivered
<1> QED BY <1>12, <1>13, <1>14, <1>15, <1>16, <1>17

(* Time, admins, compliance and late inserts touch no row that was mailed. *)
LEMMA OnceEnvironment ==
  ASSUME TypeOK, MailedOnce, OnlyBlindWrites, Environment
  PROVE  MailedOnce'
<1> USE EnvironmentFrame DEF MailedOnce
<1>1. \A v \in Workers : Held(v)' = Held(v) BY DEF Held
<1>2. \A v \in Workers : Held(v) \subseteq Rows BY DEF TypeOK, HeldTypes, Held
<1>3. \A v \in Workers, r \in Rows : InFlight(v, r)' = InFlight(v, r)
  BY DEF InFlight, InWindow, At
<1>4. ClaimInv' BY ClaimEnvironment DEF OnlyBlindWrites
<1>5. HeldUnmailed' BY <1>1, <1>2, <1>3 DEF HeldUnmailed
<1>6. OpenUnmailed' BY <1>3 DEF OpenUnmailed, Settled
<1>7. AcceptedDelivered' BY DEF AcceptedDelivered, At
<1>8. AtMostOneCopy' /\ SentMeansDelivered' BY DEF AtMostOneCopy, SentMeansDelivered
<1> QED BY <1>4, <1>5, <1>6, <1>7, <1>8

(* Nothing is mailed at first. *)
LEMMA OnceInit == Init => MailedOnce
BY ClaimInit
DEF Init, MailedOnce, HeldUnmailed, OpenUnmailed, AcceptedDelivered, AtMostOneCopy,
    SentMeansDelivered, Held, InFlight, InWindow, At

(* MailedOnce is inductive, given the types. *)
LEMMA OnceStep == OnlyBlindWrites /\ TypeOK /\ MailedOnce /\ [Next]_vars => MailedOnce'
<1> SUFFICES ASSUME OnlyBlindWrites, TypeOK, MailedOnce, [Next]_vars PROVE MailedOnce'
  OBVIOUS
<1>1. CASE UNCHANGED vars
  <2>1. ClaimInv' BY <1>1, ClaimStep DEF MailedOnce, OnlyBlindWrites
  <2> QED BY <1>1, <2>1
    DEF vars, MailedOnce, HeldUnmailed, OpenUnmailed, AcceptedDelivered, AtMostOneCopy,
        SentMeansDelivered, Held, InFlight, InWindow, At
<1>2. CASE Environment BY <1>2, OnceEnvironment
<1>3. ASSUME NEW w \in Workers, Tick(w) \/ Mishap(w) PROVE MailedOnce'
  <2>1. CASE Claim(w) BY <2>1, OnceClaim
  <2>2. CASE MarkSent(w) \/ MarkRefused(w) BY <2>2, OnceMark
  <2>3. CASE PostAccepted(w) \/ PostRefused(w) \/ PostLostReply(w) BY <2>3, OncePost
  <2>4. CASE ~(Claim(w) \/ MarkSent(w) \/ MarkRefused(w)) /\
             ~(PostAccepted(w) \/ PostRefused(w) \/ PostLostReply(w))
    <3>1. Frame(w) BY <1>3, <2>4, FrameStep DEF MailedOnce
    <3>2. UNCHANGED copies /\ ~InWindow(w) /\ ~InWindow(w)' BY <1>3, <2>4, OutsideWindow
    <3> QED BY <3>1, <3>2, MailKeeps DEF InFlight
  <2> QED BY <2>1, <2>2, <2>3, <2>4
<1> QED BY <1>1, <1>2, <1>3 DEF Next

(* Without other hazards the bookkeeping behind "at most one copy" holds:  *)
(* no two ticks hold a row, stale rows are abandoned rows, and a row that  *)
(* was mailed is settled or in a batch about to be marked.                 *)
THEOREM OnceAlways == ASSUME OnlyBlindWrites PROVE Spec => []MailedOnce
<1>1. Init => TypeOK /\ MailedOnce BY TypeInit, OnceInit
<1>2. (TypeOK /\ MailedOnce) /\ [Next]_vars => (TypeOK /\ MailedOnce)'
  BY TypeStep, OnceStep
<1> QED BY <1>1, <1>2, PTL DEF Spec

(* Nobody gets a message twice, however many ticks overlap, crash outside  *)
(* the window, are refused, paused or stopped.                             *)
THEOREM MailedAtMostOnce == ASSUME OnlyBlindWrites PROVE Spec => []AtMostOneCopy
<1>1. MailedOnce => AtMostOneCopy BY DEF MailedOnce
<1> QED BY OnceAlways, <1>1, PTL

(* What is recorded as 'sent' was delivered.                               *)
THEOREM SentWasDelivered == ASSUME OnlyBlindWrites PROVE Spec => []SentMeansDelivered
<1>1. MailedOnce => SentMeansDelivered BY DEF MailedOnce
<1> QED BY OnceAlways, <1>1, PTL
=============================================================================
