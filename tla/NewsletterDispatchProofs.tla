---------------------- MODULE NewsletterDispatchProofs ----------------------
(***************************************************************************)
(* CompleteAudience, OneCopyEach and GateNeverBypassed for any number of    *)
(* subscribers, overlapping ticks, page size and bounds.                    *)
(***************************************************************************)
EXTENDS NewsletterDispatch, FiniteSetTheorems, TLAPS

USE PageSizeAssumption, NewsletterAssumption

(* A page that did not come back full is all there was.                    *)
LEMMA LastPage ==
  ASSUME NEW S, IsFiniteSet(S), NEW page \in FirstPages(S), ~More(page)
  PROVE  page = S
<1>1. page \subseteq S /\ Cardinality(page) = Fewer(PageSize, Cardinality(S))
  BY DEF FirstPages
<1>2. Cardinality(S) \in Nat
  BY FS_CardinalityType
<1>3. Cardinality(page) = Cardinality(S)
  BY <1>1, <1>2 DEF More, Remaining, Fewer
<1> QED
  BY <1>1, <1>3, FS_Subset

(* A cursor of 0 has passed nobody.                                        *)
LEMMA NobodyIsFirst == TypeOK => \A p \in loyal : ~(p <= 0)
<1> SUFFICES ASSUME TypeOK, NEW p \in loyal PROVE ~(p <= 0)
  OBVIOUS
<1>1. p \in 1..N
  BY DEF TypeOK, People
<1> QED
  BY <1>1

(* Rows are never removed, and neither settled ones change nor open ones   *)
(* settle: then a send's audience stands as long as its status does.       *)
LEMMA RowsStay ==
  ASSUME CompleteAudience, UNCHANGED <<status, stopped>>, loyal' \subseteq loyal,
         loyal \subseteq People,
         \A p \in People : HasRow(p) => HasRow(p)',
         \A p \in People : row[p] \in Settled => row'[p] = row[p],
         \A p \in People : row'[p] \in Settled => row[p] = row'[p]
  PROVE  CompleteAudience'
<1>1. Begun' => Begun
  BY DEF Begun
<1>2. \A p \in loyal' : row'[p] = "skipped" => row[p] = "skipped"
  BY DEF Settled
<1> QED
  BY <1>1, <1>2 DEF CompleteAudience

(* Fan-out of one page keeps what the tick knows, and completes it when    *)
(* the page was the last.                                                  *)
LEMMA FanOutKeeps ==
  ASSUME NewsletterInv, NEW w \in Workers, FanOut(w)
  PROVE  NewsletterInv'
<1> DEFINE left == Beyond(subs, after[w])
<1> PICK page \in FirstPages(left) :
         /\ row' = [p \in People |-> IF p \in Inserted(page) THEN "pending" ELSE row[p]]
         /\ \E c \in Cursors(page, after[w]) : after' = [after EXCEPT ![w] = c]
         /\ Goto(w, IF More(page) THEN "fanout" ELSE "flip")
  BY DEF FanOut
<1> PICK c \in Cursors(page, after[w]) : after' = [after EXCEPT ![w] = c]
  OBVIOUS
<1>1. TypeOK /\ after[w] \in Nat /\ subs \subseteq 1..N
  BY DEF NewsletterInv, TypeOK, People
<1>2. left \subseteq 1..N /\ IsFiniteSet(left)
  <2>1. left \subseteq 1..N
    BY <1>1 DEF Beyond
  <2>2. IsFiniteSet(1..N)
    BY FS_Interval
  <2> QED
    BY <2>1, <2>2, FS_Subset
<1>3. page \subseteq left /\ page \subseteq People
  BY <1>2 DEF FirstPages, People
<1>4. c \in 0..N /\ (c = after[w] \/ c \in page)
  BY <1>1, <1>2, <1>3 DEF Cursors, TypeOK
<1>5. /\ UNCHANGED <<sendVars, listVars, gateVars, copies, touched, pageVars, faults>>
      /\ At(w, "fanout")
  BY DEF FanOut
<1>6. /\ \A p \in People : HasRow(p)' <=> HasRow(p) \/ p \in page
      /\ \A p \in People : row[p] # "absent" => row'[p] = row[p]
      /\ row' \in [People -> {"absent"} \cup Outstanding \cup Settled]
      /\ \A p \in People : row'[p] # row[p] => row'[p] = "pending"
  BY <1>1, <1>3 DEF Inserted, HasRow, TypeOK, Outstanding, Settled
<1>7. pc' \in [Workers -> Labels] /\ after' \in [Workers -> 0..N]
  BY <1>1, <1>4 DEF TypeOK, Goto, Labels
<1>8. TypeOK'
  BY <1>1, <1>5, <1>6, <1>7 DEF TypeOK, sendVars, listVars, gateVars, pageVars
<1>9. loyal' = loyal /\ loyal \subseteq subs /\ loyal \subseteq People
  BY <1>1, <1>5 DEF TypeOK, listVars
<1>10. \A p \in loyal : p <= after[w] => HasRow(p)
  BY <1>5 DEF NewsletterInv, TickKnows
<1>11. \A p \in loyal : p <= c => HasRow(p)'
  <2> SUFFICES ASSUME NEW p \in loyal, p <= c PROVE HasRow(p)'
    OBVIOUS
  <2>1. CASE p <= after[w]
    BY <2>1, <1>6, <1>9, <1>10
  <2>2. CASE ~(p <= after[w])
    <3>1. p \in Int /\ left \subseteq Int /\ c \in page
      BY <1>1, <1>2, <1>4, <1>9, <2>2
    <3>2. p \in left
      BY <3>1, <1>1, <1>9, <2>2 DEF Beyond
    <3>3. p \in page
      BY <3>1, <3>2 DEF FirstPages
    <3> QED
      BY <3>3, <1>6, <1>9
  <2> QED
    BY <2>1, <2>2
<1>12. ~More(page) => \A p \in loyal : HasRow(p)'
  <2> SUFFICES ASSUME ~More(page), NEW p \in loyal PROVE HasRow(p)'
    OBVIOUS
  <2>1. page = left
    BY <1>2, LastPage
  <2>2. CASE p <= after[w]
    BY <2>2, <1>6, <1>9, <1>10
  <2>3. CASE ~(p <= after[w])
    <3>1. p \in Int
      BY <1>1, <1>9
    <3>2. p \in left
      BY <3>1, <1>1, <1>9, <2>3 DEF Beyond
    <3> QED
      BY <3>2, <2>1, <1>6, <1>9
  <2> QED
    BY <2>2, <2>3
<1>13. TickKnows(w)'
  <2>1. CASE More(page)
    <3>1. At(w, "fanout")' /\ after'[w] = c
      BY <2>1, <1>1 DEF Goto, At, TypeOK
    <3> QED
      BY <3>1, <1>9, <1>11 DEF TickKnows, At
  <2>2. CASE ~More(page)
    <3>1. At(w, "flip")'
      BY <2>2, <1>1 DEF Goto, At, TypeOK
    <3> QED
      BY <3>1, <2>2, <1>9, <1>12 DEF TickKnows, At
  <2> QED
    BY <2>1, <2>2
<1>14. ASSUME NEW v \in Workers, v # w PROVE TickKnows(v)'
  <2>1. pc'[v] = pc[v] /\ after'[v] = after[v] /\ TickKnows(v)
    BY <1>1, <1>14 DEF Goto, TypeOK, NewsletterInv
  <2> QED
    BY <2>1, <1>6, <1>9 DEF TickKnows, At
<1>15. CompleteAudience'
  <2>1. CompleteAudience /\ UNCHANGED <<status, stopped>>
    BY <1>5 DEF NewsletterInv, sendVars, pageVars
  <2>2. \A p \in People : row[p] \in Settled \/ row'[p] \in Settled => row'[p] = row[p]
    BY <1>6 DEF Settled
  <2> QED
    BY <2>1, <2>2, <1>6, <1>9, RowsStay
<1>16. OneCopyEach'
  BY <1>1, <1>5, <1>6 DEF NewsletterInv, OneCopyEach, HasRow, TypeOK
<1>17. ClaimedBegun' /\ (status = "cancelled" => stopped)'
  <2>1. \A p \in People : row'[p] = "sending" => row[p] = "sending"
    BY <1>6
  <2>2. ClaimedBegun /\ (status = "cancelled" => stopped)
    BY DEF NewsletterInv
  <2>3. UNCHANGED <<status, stopped, touched>>
    BY <1>5 DEF sendVars, pageVars
  <2> QED
    BY <2>1, <2>2, <2>3, <1>6, <1>9 DEF ClaimedBegun
<1> QED
  BY <1>8, <1>13, <1>14, <1>15, <1>16, <1>17 DEF NewsletterInv

(* The other calls of a tick touch no row; only the flip starts a send, and *)
(* the tick that makes it has fanned out to everyone.                      *)
LEMMA TickKeeps ==
  ASSUME NewsletterInv, NEW w \in Workers, Tick(w) \/ Crash(w), ~FanOut(w)
  PROVE  NewsletterInv'
<1>1. /\ TypeOK /\ (\A v \in Workers : TickKnows(v)) /\ CompleteAudience /\ OneCopyEach
      /\ ClaimedBegun /\ (status = "cancelled" => stopped)
  BY DEF NewsletterInv
<1>2. UNCHANGED <<listVars, gateVars, mailVars, pageVars>>
  BY DEF Tick, Select, CheckGate, Hold, FanOutFails, Flip, FlipFails, MarkFailed, Crash
<1>3. UNCHANGED <<row, copies, loyal>> /\ (\A p : HasRow(p)' = HasRow(p))
  BY <1>2 DEF mailVars, listVars, HasRow
<1>4. TypeOK'
  <2>1. CASE Select(w) \/ FanOutFails(w) \/ FlipFails(w) \/ Crash(w)
    BY <1>1, <1>2, <2>1 DEF Select, FanOutFails, FlipFails, Crash, Fault, TypeOK, Goto, Labels,
       sendVars, listVars, gateVars, mailVars, pageVars
  <2>2. CASE CheckGate(w) \/ Hold(w)
    BY <1>1, <1>2, <2>2 DEF CheckGate, Hold, Fault, TypeOK, Goto, Labels,
       sendVars, listVars, gateVars, mailVars, pageVars
  <2>3. CASE Flip(w) \/ MarkFailed(w)
    BY <1>1, <1>2, <2>3 DEF Flip, AfterRefusal, MarkFailed, Fault, TypeOK, Goto, Labels,
       Statuses, sendVars, listVars, gateVars, mailVars, pageVars
  <2> QED
    BY <2>1, <2>2, <2>3 DEF Tick
<1>5. TickKnows(w)'
  <2>1. CASE Select(w)
    BY <1>1, <2>1 DEF Select, TickKnows, Goto, At, TypeOK
  <2>2. CASE CheckGate(w)
    <3>1. after[w] = 0 /\ after' = after
      BY <1>1, <2>2 DEF CheckGate, TickKnows
    <3>2. At(w, "fanout")' \/ At(w, "hold")' \/ At(w, "fail")'
      BY <1>1, <2>2 DEF CheckGate, Goto, At, TypeOK
    <3> QED
      BY <3>1, <3>2, <1>1, <1>3, NobodyIsFirst DEF TickKnows, At
  <2>3. CASE Hold(w) \/ FanOutFails(w) \/ Flip(w) \/ FlipFails(w) \/ MarkFailed(w) \/ Crash(w)
    BY <1>1, <2>3 DEF Hold, FanOutFails, Flip, AfterRefusal, FlipFails, MarkFailed, Crash,
                     TickKnows, Goto, At, TypeOK
  <2> QED
    BY <2>1, <2>2, <2>3 DEF Tick
<1>6. ASSUME NEW v \in Workers, v # w PROVE TickKnows(v)'
  <2>1. pc'[v] = pc[v] /\ after'[v] = after[v]
    BY <1>1, <1>6 DEF Tick, Select, CheckGate, Hold, FanOutFails, Flip, FlipFails, MarkFailed,
                     Crash, Goto, TypeOK
  <2> QED
    BY <2>1, <1>1, <1>3 DEF TickKnows, At
<1>7. CompleteAudience'
  <2>1. CASE Flip(w) /\ status' = "sending"
    BY <1>1, <1>2, <1>3, <2>1 DEF Flip, TickKnows, CompleteAudience, Begun, pageVars
  <2>2. status' = status \/ status' = "failed" \/ (Flip(w) /\ status' = "sending")
    BY DEF Tick, Select, CheckGate, Hold, FanOutFails, Flip, FlipFails, MarkFailed, Crash,
           sendVars
  <2> QED
    BY <2>1, <2>2, <1>1, <1>2, <1>3 DEF CompleteAudience, Begun, pageVars
<1>8. OneCopyEach'
  BY <1>1, <1>3 DEF OneCopyEach
<1>9. ClaimedBegun' /\ (status = "cancelled" => stopped)'
  <2>1. status' = "cancelled" => status = "cancelled"
    BY DEF Tick, Select, CheckGate, Hold, FanOutFails, Flip, FlipFails, MarkFailed, Crash,
           sendVars
  <2> QED
    BY <2>1, <1>1, <1>2, <1>3 DEF ClaimedBegun, mailVars, pageVars
<1> QED
  BY <1>4, <1>5, <1>6, <1>7, <1>8, <1>9 DEF NewsletterInv

(* A claimed or pending row of a begun send moves.  A loyal subscriber's    *)
(* row settles only by mail, by a refusal, or because the send was stopped. *)
LEMMA RowKeeps ==
  ASSUME NewsletterInv, NEW p \in People, DealsWith(p)
  PROVE  NewsletterInv'
<1>1. /\ TypeOK /\ (\A v \in Workers : TickKnows(v)) /\ CompleteAudience /\ OneCopyEach
      /\ ClaimedBegun /\ (status = "cancelled" => stopped)
  BY DEF NewsletterInv
<1>2. UNCHANGED <<sendVars, listVars, gateVars, tickVars, pageVars>>
  BY DEF DealsWith, SkipUnsubscribed, ClaimRow, SkipErased, SkipStopped, PutBack, Mail, Refuse
<1>3. PICK to \in {"pending", "sending"} \cup Settled : row' = [row EXCEPT ![p] = to]
  BY DEF DealsWith, SkipUnsubscribed, ClaimRow, SkipErased, SkipStopped, PutBack, Mail, Refuse,
         RowBecomes, Settled
<1>4. /\ row[p] \in {"pending", "sending"}
      /\ to = "skipped" => p \notin loyal \/ status = "cancelled"
      /\ row[p] = "pending" => status = "sending"
  BY <1>1, <1>3 DEF DealsWith, SkipUnsubscribed, ClaimRow, SkipErased, SkipStopped, PutBack,
     Mail, Refuse, RowBecomes, TypeOK, Settled
<1>5. \A q \in loyal : HasRow(q) /\ q \in People
  BY <1>1, <1>4 DEF ClaimedBegun, CompleteAudience, Begun, TypeOK
<1>6. \A q \in People : q # p => row'[q] = row[q]
  BY <1>1, <1>3 DEF TypeOK
<1>7. row'[p] = to /\ to # "absent"
  BY <1>1, <1>3 DEF TypeOK, Settled
<1>8. \A q \in People : HasRow(q)' <=> HasRow(q)
  BY <1>4, <1>6, <1>7 DEF HasRow
<1>9. loyal' = loyal /\ status' = status /\ stopped' = stopped
  BY <1>2 DEF listVars, sendVars, pageVars
<1>10. TypeOK'
  <2>1. row' \in [People -> {"absent"} \cup Outstanding \cup Settled]
    BY <1>1, <1>3 DEF TypeOK, Outstanding
  <2>2. copies' \in [People -> Nat] /\ faults' \in 0..MaxFaults
    BY <1>1 DEF DealsWith, SkipUnsubscribed, ClaimRow, SkipErased, SkipStopped, PutBack, Mail,
                Refuse, Fault, TypeOK
  <2>3. touched' \in BOOLEAN
    BY <1>1 DEF DealsWith, SkipUnsubscribed, ClaimRow, SkipErased, SkipStopped, PutBack, Mail,
                Refuse, RowBecomes, TypeOK
  <2> QED
    BY <2>1, <2>2, <2>3, <1>1, <1>2 DEF TypeOK, sendVars, listVars, gateVars, tickVars, pageVars
<1>11. \A v \in Workers : TickKnows(v)'
  BY <1>1, <1>2, <1>5, <1>8, <1>9 DEF TickKnows, At, tickVars
<1>12. ClaimedBegun' /\ (status = "cancelled" => stopped)'
  BY <1>1, <1>5, <1>8, <1>9 DEF ClaimedBegun
<1>13. CompleteAudience'
  <2>1. Begun' => \A q \in loyal' : HasRow(q)'
    BY <1>5, <1>8, <1>9
  <2>2. status' = "sent" => \A q \in loyal' : row'[q] \in Settled
    <3>1. status = "sent" => p \notin loyal
      BY <1>1, <1>4 DEF CompleteAudience, Settled
    <3> QED
      BY <3>1, <1>1, <1>5, <1>6, <1>9 DEF CompleteAudience
  <2>3. ~stopped' => \A q \in loyal' : row'[q] # "skipped"
    BY <1>1, <1>4, <1>5, <1>6, <1>7, <1>9 DEF CompleteAudience
  <2> QED
    BY <2>1, <2>2, <2>3 DEF CompleteAudience
<1>14. OneCopyEach'
  <2>1. CASE Mail(p)
    <3>1. to = "sent" /\ copies' = [copies EXCEPT ![p] = @ + 1]
      BY <2>1, <1>1, <1>3 DEF Mail, RowBecomes, TypeOK
    <3>2. copies[p] = 0 /\ copies[p] \in Nat
      BY <1>1, <1>4 DEF OneCopyEach, TypeOK
    <3>3. copies'[p] = 1
      BY <3>1, <3>2, <1>1 DEF TypeOK
    <3>4. \A q \in People : q # p => copies'[q] = copies[q]
      BY <3>1, <1>1 DEF TypeOK
    <3> QED
      BY <3>1, <3>3, <3>4, <1>1, <1>6, <1>7 DEF OneCopyEach
  <2>2. CASE ~Mail(p)
    <3>1. copies' = copies
      BY <2>2 DEF DealsWith, SkipUnsubscribed, ClaimRow, SkipErased, SkipStopped, PutBack, Refuse
    <3>2. copies[p] \in Int /\ copies[p] <= 0
      BY <1>1, <1>4 DEF OneCopyEach, TypeOK
    <3> QED
      BY <3>1, <3>2, <1>1, <1>6 DEF OneCopyEach
  <2> QED
    BY <2>1, <2>2
<1> QED
  BY <1>10, <1>11, <1>12, <1>13, <1>14 DEF NewsletterInv

(* The engine moves rows, finishes the send, reopens it or pauses it.      *)
LEMMA EngineKeeps ==
  ASSUME NewsletterInv, Engine
  PROVE  NewsletterInv'
<1>1. /\ TypeOK /\ (\A v \in Workers : TickKnows(v)) /\ CompleteAudience /\ OneCopyEach
      /\ ClaimedBegun /\ (status = "cancelled" => stopped)
  BY DEF NewsletterInv
<1>2. CASE \E p \in People : DealsWith(p)
  BY <1>2, RowKeeps
<1>3. CASE TripPause \/ Finalize \/ Reopen
  <2>1. UNCHANGED <<lastError, listVars, gateVars, row, copies, tickVars, pageVars>>
    BY <1>3 DEF TripPause, Finalize, Reopen, mailVars
  <2>2. TypeOK'
    <3>1. faults' \in 0..MaxFaults
      BY <1>1, <1>3 DEF TripPause, Finalize, Reopen, Fault, TypeOK
    <3>2. status' \in Statuses /\ touched' \in BOOLEAN
      BY <1>1, <1>3 DEF TripPause, Finalize, Verdict, Reopen, TypeOK, Statuses, mailVars
    <3> QED
      BY <1>1, <2>1, <3>1, <3>2 DEF TypeOK, listVars, gateVars, tickVars, pageVars
  <2>3. \A v \in Workers : TickKnows(v)'
    BY <1>1, <2>1 DEF TickKnows, At, HasRow, listVars, tickVars
  <2>4. \A p \in loyal : HasRow(p)
    BY <1>1, <1>3 DEF TripPause, Finalize, Reopen, CompleteAudience, Begun, ClaimedBegun
  <2>5. status' = "sent" => \A p \in loyal : row[p] \in Settled
    <3>1. CASE status' = status
      BY <3>1, <1>1 DEF CompleteAudience
    <3>2. CASE status' # status
      <4>1. status' = "sent" => Open = {}
        BY <1>3, <3>2 DEF TripPause, Finalize, Reopen
      <4> QED
        BY <4>1, <2>4, <1>1 DEF Open, HasRow, Outstanding, Settled, TypeOK
    <3> QED
      BY <3>1, <3>2
  <2>6. ClaimedBegun' /\ (status = "cancelled" => stopped)'
    <3>1. status' = "cancelled" => status = "cancelled"
      BY <1>3 DEF TripPause, Finalize, Verdict, Reopen
    <3> QED
      BY <3>1, <1>1, <2>1, <2>4 DEF ClaimedBegun, HasRow, listVars, pageVars
  <2>7. CompleteAudience' /\ OneCopyEach'
    BY <1>1, <2>1, <2>4, <2>5 DEF CompleteAudience, OneCopyEach, HasRow, listVars, pageVars
  <2> QED
    BY <2>2, <2>3, <2>6, <2>7 DEF NewsletterInv
<1> QED
  BY <1>2, <1>3 DEF Engine

(* The admin's page, the gate and the list.                                *)
LEMMA WorldKeeps ==
  ASSUME NewsletterInv, LoadSend \/ Cancel \/ Retry \/ CloseGate \/ OpenGate \/ Drift
  PROVE  NewsletterInv'
<1>1. /\ TypeOK /\ (\A v \in Workers : TickKnows(v)) /\ CompleteAudience /\ OneCopyEach
      /\ ClaimedBegun /\ (status = "cancelled" => stopped)
  BY DEF NewsletterInv
<1>2. UNCHANGED <<mailVars, tickVars, faults>>
  BY DEF LoadSend, Cancel, Retry, CloseGate, OpenGate, Drift
<1>3. TypeOK' /\ loyal' \subseteq loyal
  <2>1. CASE LoadSend \/ OpenGate
    BY <1>1, <2>1 DEF LoadSend, OpenGate, TypeOK, sendVars, listVars, gateVars, mailVars,
                     tickVars, pageVars
  <2>4. CASE CloseGate
    <3>1. open' = FALSE /\ gateMoves < MaxGateMoves /\ gateMoves' = gateMoves + 1
      BY <2>4 DEF CloseGate
    <3>2. gateMoves \in 0..MaxGateMoves
      BY <1>1 DEF TypeOK
    <3>3. gateMoves' \in 0..MaxGateMoves
      BY <3>1, <3>2
    <3> QED
      BY <1>1, <2>4, <3>1, <3>3 DEF CloseGate, TypeOK, sendVars, listVars, mailVars, tickVars,
         pageVars
  <2>2. CASE Cancel \/ Retry
    <3>1. clicks' \in 0..MaxClicks
      BY <1>1, <2>2 DEF Cancel, Retry, Click, TypeOK
    <3>2. /\ status' \in Statuses /\ shown' \in Statuses /\ stopped' \in BOOLEAN
          /\ UNCHANGED <<lastError, listVars, gateVars>>
      BY <1>1, <2>2 DEF Cancel, Retry, TypeOK, Statuses
    <3> QED
      BY <1>1, <1>2, <3>1, <3>2 DEF TypeOK, listVars, gateVars, mailVars, tickVars
  <2>3. CASE Drift
    BY <1>1, <2>3 DEF Drift, TypeOK, sendVars, gateVars, mailVars, tickVars, pageVars
  <2> QED
    BY <2>1, <2>2, <2>3, <2>4
<1>4. \A v \in Workers : TickKnows(v)'
  BY <1>1, <1>2, <1>3 DEF TickKnows, At, HasRow, mailVars, tickVars
<1>5. /\ status' \in {"sending", "paused", "sent"} => status' = status
      /\ stopped' = stopped \/ stopped' = TRUE
      /\ status' = "cancelled" => status = "cancelled" \/ stopped' = TRUE
  BY DEF LoadSend, Cancel, Retry, CloseGate, OpenGate, Drift, sendVars, pageVars
<1>6. CompleteAudience' /\ OneCopyEach'
  BY <1>1, <1>2, <1>3, <1>5 DEF CompleteAudience, Begun, OneCopyEach, HasRow, mailVars
<1>7. ClaimedBegun' /\ (status = "cancelled" => stopped)'
  BY <1>1, <1>2, <1>3, <1>5 DEF ClaimedBegun, HasRow, mailVars
<1> QED
  BY <1>3, <1>4, <1>6, <1>7 DEF NewsletterInv

(* A send that nobody has dispatched yet.                                  *)
LEMMA InitKeeps == Init => NewsletterInv
<1> SUFFICES ASSUME Init PROVE NewsletterInv
  OBVIOUS
<1>1. TypeOK
  <2>1. /\ gateMoves \in 0..MaxGateMoves /\ drift \in 0..MaxDrift
        /\ faults \in 0..MaxFaults /\ clicks \in 0..MaxClicks
    BY DEF Init
  <2>2. /\ status \in Statuses /\ shown \in Statuses \cup {"none"}
        /\ touched \in BOOLEAN /\ stopped \in BOOLEAN
    BY DEF Init, Statuses
  <2>3. /\ copies \in [People -> Nat] /\ pc \in [Workers -> Labels]
        /\ after \in [Workers -> 0..N]
    BY DEF Init, Labels
  <2> QED
    BY <2>1, <2>2, <2>3 DEF Init, TypeOK
<1> QED
  BY <1>1 DEF Init, NewsletterInv, TickKnows, At, ClaimedBegun, CompleteAudience, Begun, Settled,
             OneCopyEach

(* A send that has begun has a row for every lasting subscriber and a      *)
(* finished one has settled it; unless an admin stopped the send, none was *)
(* skipped; and nobody was mailed twice.                                   *)
THEOREM NewsletterIsComplete == Spec => []NewsletterInv
<1>1. NewsletterInv /\ [Next]_vars => NewsletterInv'
  <2> SUFFICES ASSUME NewsletterInv, [Next]_vars PROVE NewsletterInv'
    OBVIOUS
  <2>1. CASE \E w \in Workers : Tick(w) \/ Crash(w)
    <3> PICK w \in Workers : Tick(w) \/ Crash(w)
      BY <2>1
    <3> QED
      BY FanOutKeeps, TickKeeps
  <2>2. CASE Engine
    BY <2>2, EngineKeeps
  <2>3. CASE LoadSend \/ Cancel \/ Retry \/ CloseGate \/ OpenGate \/ Drift
    BY <2>3, WorldKeeps
  <2>4. CASE UNCHANGED vars
    BY <2>4 DEF vars, NewsletterInv, TypeOK, TickKnows, At, HasRow, ClaimedBegun,
       CompleteAudience, Begun, OneCopyEach, sendVars, listVars, gateVars, mailVars, tickVars,
       pageVars
  <2> QED
    BY <2>1, <2>2, <2>3, <2>4 DEF Next
<1> QED
  BY InitKeeps, <1>1, PTL DEF Spec

(* The audience: who was subscribed all along has a row when the send      *)
(* starts, and is mailed or refused by the provider when it is 'sent',     *)
(* over pages of a moving list, overlapping ticks, rows put back, pauses,  *)
(* and late flips; only a cancel makes the engine skip them.               *)
THEOREM StartedNewsletterIsComplete == Spec => []CompleteAudience
<1>1. NewsletterInv => CompleteAudience
  BY DEF NewsletterInv
<1> QED
  BY <1>1, NewsletterIsComplete, PTL

(* However often a fan-out is repeated, nobody gets a second copy.         *)
THEOREM NoSecondCopy == Spec => []OneCopyEach
<1>1. NewsletterInv => OneCopyEach
  BY DEF NewsletterInv
<1> QED
  BY <1>1, NewsletterIsComplete, PTL

(* A tick that checked the gate before, the engine and an admin all meet   *)
(* the trigger: no send starts while the gate refuses.                     *)
THEOREM TriggerHolds == Spec => GateNeverBypassed
<1>1. [Next]_vars => [status' # status /\ status' \in {"scheduled", "sending"} => open]_vars
  <2> SUFFICES ASSUME Next, status' # status, status' \in {"scheduled", "sending"}
               PROVE  open
    OBVIOUS
  <2>1. ASSUME NEW w \in Workers, Tick(w) \/ Crash(w) PROVE open
    BY <2>1 DEF Tick, Select, CheckGate, Hold, FanOut, FanOutFails, Flip, FlipFails, MarkFailed,
               Crash, sendVars, Refuses, GatedStatus
  <2>2. CASE Engine
    BY <2>2 DEF Engine, DealsWith, SkipUnsubscribed, ClaimRow, SkipErased, SkipStopped, PutBack,
               Mail, Refuse, TripPause, Finalize, Verdict, Reopen, Refuses, GatedStatus, sendVars
  <2>3. CASE LoadSend \/ Cancel \/ Retry \/ CloseGate \/ OpenGate \/ Drift
    BY <2>3 DEF LoadSend, Cancel, Retry, CloseGate, OpenGate, Drift, Refuses, GatedStatus,
               sendVars
  <2> QED
    BY <2>1, <2>2, <2>3 DEF Next
<1> QED
  BY <1>1, PTL DEF Spec, GateNeverBypassed
=============================================================================
