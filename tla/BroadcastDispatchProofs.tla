----------------------- MODULE BroadcastDispatchProofs -----------------------
(***************************************************************************)
(* AudienceCovered and NeverStartsEmpty for any number of people, overlapping *)
(* ticks, page size and bounds.                                            *)
(***************************************************************************)
EXTENDS BroadcastDispatch, FiniteSetTheorems, TLAPS

USE PageSizeAssumption, DispatchAssumption

(* A page that did not come back full is all there was.                    *)
LEMMA LastPage ==
  ASSUME NEW S, IsFiniteSet(S), NEW page \in FirstPages(S), ~More(page)
  PROVE  page = S
<1>1. page \subseteq S /\ Cardinality(page) = Fewer(PageSize, Cardinality(S))
  BY DEF FirstPages
<1>2. Cardinality(S) \in Nat
  BY FS_CardinalityType
<1>3. Cardinality(page) = Cardinality(S)
  BY <1>1, <1>2 DEF More, Remaining, Fewer
<1> QED
  BY <1>1, <1>3, FS_Subset

(* Fan-out of one page keeps what the tick knows, and completes it when    *)
(* the page was the last.                                                  *)
LEMMA FanOutKeeps ==
  ASSUME DispatchInv, NEW w \in Workers, FanOut(w)
  PROVE  DispatchInv'
<1> DEFINE left == Beyond(Audience, after[w])
<1> PICK page \in FirstPages(left) :
         /\ rows' = FannedOut(page)
         /\ \E c \in Cursors(page, after[w]) : after' = [after EXCEPT ![w] = c]
         /\ Goto(w, IF More(page) THEN "fanout" ELSE "count")
  BY DEF FanOut
<1> PICK c \in Cursors(page, after[w]) : after' = [after EXCEPT ![w] = c]
  OBVIOUS
<1>1. TypeOK /\ after[w] \in Nat /\ Audience \subseteq People
  BY DEF DispatchInv, TypeOK, Audience
<1>2. left \subseteq People /\ IsFiniteSet(left)
  <2>1. left \subseteq 1..N
    BY <1>1 DEF Beyond, People
  <2>2. IsFiniteSet(1..N)
    BY FS_Interval
  <2> QED
    BY <2>1, <2>2, FS_Subset DEF People
<1>3. page \subseteq left
  BY DEF FirstPages
<1>4. c \in 0..N /\ (c = after[w] \/ c \in page)
  BY <1>1, <1>2, <1>3 DEF Cursors, TypeOK, People
<1>5. UNCHANGED <<worldVars, sendVars, note, action, faults>> /\ At(w, "fanout")
  BY DEF FanOut
<1>6. rows' = rows \cup (page \ suppressed) /\ rows' \subseteq People
  BY <1>1, <1>2, <1>3 DEF FannedOut, TypeOK
<1>7. pc' \in [Workers -> Labels] /\ after' \in [Workers -> 0..N]
  BY <1>1, <1>4 DEF TypeOK, Goto, Labels
<1>8. TypeOK'
  BY <1>1, <1>5, <1>6, <1>7 DEF TypeOK, worldVars, sendVars
<1>9. Assured' = Assured /\ Audience' = Audience
  BY <1>5 DEF Assured, Audience, worldVars
<1>10. ASSUME note[w] \in Assured
       PROVE  {p \in loyal : p <= c} \subseteq rows'
  <2> SUFFICES ASSUME NEW p \in loyal, p <= c PROVE p \in rows'
    OBVIOUS
  <2>1. loyal \subseteq Audience /\ {q \in loyal : q <= after[w]} \subseteq rows
    BY <1>5, <1>10 DEF DispatchInv, TickKnows
  <2>2. CASE p <= after[w]
    BY <2>1, <2>2, <1>6
  <2>3. CASE ~(p <= after[w])
    <3>0. p \in Int /\ left \subseteq Int
      BY <1>1, <1>2, <2>1 DEF People
    <3>1. p \in left
      BY <3>0, <1>1, <2>1, <2>3 DEF Beyond
    <3>2. c \in page
      BY <1>4, <2>3
    <3>3. p \in page
      BY <3>0, <3>1, <3>2 DEF FirstPages
    <3> QED
      BY <3>3, <1>1, <1>6 DEF TypeOK
  <2> QED
    BY <2>2, <2>3
<1>11. ASSUME note[w] \in Assured, ~More(page)
       PROVE  loyal \subseteq rows'
  <2> SUFFICES ASSUME NEW p \in loyal PROVE p \in rows'
    OBVIOUS
  <2>1. loyal \subseteq Audience /\ {q \in loyal : q <= after[w]} \subseteq rows
    BY <1>5, <1>11 DEF DispatchInv, TickKnows
  <2>2. page = left
    BY <1>2, <1>11, LastPage
  <2>3. p \in Int
    BY <1>1, <2>1 DEF People
  <2>4. CASE p <= after[w]
    BY <2>1, <2>4, <1>6
  <2>5. CASE ~(p <= after[w])
    <3>1. p \in left
      BY <1>1, <2>1, <2>3, <2>5 DEF Beyond
    <3> QED
      BY <3>1, <2>2, <1>1, <1>6 DEF TypeOK
  <2> QED
    BY <2>4, <2>5
<1>12. TickKnows(w)'
  <2>1. CASE More(page)
    <3>1. At(w, "fanout")' /\ after'[w] = c
      BY <2>1, <1>1 DEF Goto, At, TypeOK
    <3> QED
      BY <3>1, <1>5, <1>9, <1>10 DEF TickKnows, DispatchInv, At, worldVars
  <2>2. CASE ~More(page)
    <3>1. At(w, "count")'
      BY <2>2, <1>1 DEF Goto, At, TypeOK
    <3> QED
      BY <3>1, <2>2, <1>5, <1>9, <1>11 DEF TickKnows, At, worldVars
  <2> QED
    BY <2>1, <2>2
<1>13. ASSUME NEW v \in Workers, v # w PROVE TickKnows(v)'
  <2>1. pc'[v] = pc[v] /\ after'[v] = after[v] /\ TickKnows(v)
    BY <1>1, <1>13 DEF Goto, TypeOK, DispatchInv
  <2> QED
    BY <2>1, <1>5, <1>6, <1>9 DEF TickKnows, At, worldVars
<1>14. AudienceCovered' /\ NeverStartsEmpty'
  BY <1>5, <1>6, <1>9 DEF DispatchInv, AudienceCovered, NeverStartsEmpty, worldVars, sendVars
<1> QED
  BY <1>8, <1>12, <1>13, <1>14 DEF DispatchInv

(* A cursor of 0 has passed nobody.                                        *)
LEMMA NobodyIsFirst == TypeOK => {p \in loyal : p <= 0} = {}
<1> SUFFICES ASSUME TypeOK, NEW p \in loyal PROVE ~(p <= 0)
  OBVIOUS
<1>1. p \in 1..N
  BY DEF TypeOK, People
<1> QED
  BY <1>1

(* The other calls of a tick.                                              *)
LEMMA TickKeeps ==
  ASSUME DispatchInv, NEW w \in Workers, Tick(w) \/ Crash(w), ~FanOut(w)
  PROVE  DispatchInv'
<1>1. TypeOK /\ (\A v \in Workers : TickKnows(v)) /\ AudienceCovered /\ NeverStartsEmpty
  BY DEF DispatchInv
<1>2. rows' = rows /\ loyal' = loyal /\ audience' = audience /\ members' = members
      /\ suppressed' = suppressed /\ Assured' = Assured
  BY DEF Tick, Select, ReadFreshness, Recalculate, RefreshFails, FanOutFails, Count,
         CountFails, Write, WriteFails, Crash, worldVars, Assured
<1>3. TypeOK'
  <2>1. CASE Select(w)
    BY <1>1, <2>1 DEF Select, TypeOK, Goto, Labels, worldVars, sendVars
  <2>2. CASE ReadFreshness(w)
    BY <1>1, <2>2 DEF ReadFreshness, TypeOK, Goto, Fault, Labels, Notes, worldVars, sendVars
  <2>3. CASE Recalculate(w)
    BY <1>1, <2>3 DEF Recalculate, Recalculated, TypeOK, Goto, Labels, Notes, sendVars
  <2>4. CASE RefreshFails(w)
    BY <1>1, <2>4 DEF RefreshFails, TypeOK, Goto, Labels, Notes, Actions, worldVars, sendVars
  <2>5. CASE FanOutFails(w) \/ Count(w)
    BY <1>1, <2>5 DEF FanOutFails, Count, Counted, TypeOK, Goto, Fault, Labels, Actions,
                     worldVars, sendVars
  <2>6. CASE Write(w)
    BY <1>1, <2>6 DEF Write, Decide, TypeOK, Goto, Labels, Statuses, worldVars, sendVars
  <2>7. CASE CountFails(w) \/ WriteFails(w) \/ Crash(w)
    BY <1>1, <2>7 DEF CountFails, WriteFails, Crash, TypeOK, Goto, Fault, Labels,
                     worldVars, sendVars
  <2> QED
    BY <2>1, <2>2, <2>3, <2>4, <2>5, <2>6, <2>7 DEF Tick
<1>4. loyal \subseteq Audience => loyal \subseteq Audience'
  <2>1. stored' = stored \/ stored' = members
    BY DEF Tick, Select, ReadFreshness, Recalculate, Recalculated, RefreshFails, FanOutFails,
           Count, CountFails, Write, WriteFails, Crash, worldVars
  <2> QED
    BY <1>1, <1>2, <2>1 DEF Audience, TypeOK
<1>5. TickKnows(w)'
  <2>1. CASE Select(w)
    <3>1. after'[w] = 0 /\ {p \in loyal : p <= 0} = {}
      BY <1>1, <2>1, NobodyIsFirst DEF Select, TypeOK
    <3>2. At(w, "fanout")' => audience = "list"
      BY <1>1, <2>1 DEF Select, Goto, At, TypeOK
    <3>3. audience = "list" => loyal \subseteq Audience
      BY <1>1 DEF Audience, TypeOK
    <3>4. ~At(w, "count")' /\ ~At(w, "write")'
      BY <1>1, <2>1 DEF Select, Goto, At, TypeOK
    <3> QED
      BY <3>1, <3>2, <3>3, <3>4, <1>2, <1>4 DEF TickKnows
  <2>2. CASE ReadFreshness(w)
    BY <1>1, <1>2, <2>2 DEF ReadFreshness, TickKnows, Goto, At, TypeOK, Assured
  <2>3. CASE Recalculate(w)
    <3>1. after'[w] = 0 /\ {p \in loyal : p <= 0} = {} /\ At(w, "fanout")'
      BY <1>1, <2>3, NobodyIsFirst DEF Recalculate, TickKnows, Goto, At, TypeOK
    <3>2. loyal \subseteq Audience'
      BY <1>1, <1>2, <2>3 DEF Recalculate, Recalculated, Audience, TypeOK
    <3> QED
      BY <3>1, <3>2, <1>2 DEF TickKnows, At
  <2>4. CASE RefreshFails(w)
    BY <1>1, <1>2, <2>4 DEF RefreshFails, TickKnows, Goto, At, TypeOK, Assured
  <2>5. CASE FanOutFails(w) \/ Count(w)
    BY <1>1, <1>2, <2>5 DEF FanOutFails, Count, Counted, TickKnows, Goto, At, TypeOK
  <2>6. CASE Write(w) \/ CountFails(w) \/ WriteFails(w) \/ Crash(w)
    BY <1>1, <2>6 DEF Write, CountFails, WriteFails, Crash, TickKnows, Goto, At, TypeOK
  <2> QED
    BY <2>1, <2>2, <2>3, <2>4, <2>5, <2>6 DEF Tick
<1>6. ASSUME NEW v \in Workers, v # w PROVE TickKnows(v)'
  <2>1. pc'[v] = pc[v] /\ after'[v] = after[v] /\ note'[v] = note[v]
        /\ action'[v] = action[v]
    BY <1>1, <1>6 DEF Tick, Select, ReadFreshness, Recalculate, RefreshFails, FanOutFails,
       Count, CountFails, Write, WriteFails, Crash, Goto, TypeOK, tickVars
  <2> QED
    BY <2>1, <1>1, <1>2, <1>4 DEF TickKnows, At
<1>7. AudienceCovered' /\ NeverStartsEmpty'
  <2>1. CASE Write(w)
    <3>1. CASE MayDecide
      BY <1>1, <1>2, <2>1, <3>1 DEF Write, Decide, MayDecide, TickKnows, AudienceCovered,
                                   NeverStartsEmpty
    <3>2. CASE ~MayDecide
      BY <1>1, <1>2, <2>1, <3>2 DEF Write, sendVars, AudienceCovered, NeverStartsEmpty
    <3> QED
      BY <3>1, <3>2
  <2>2. CASE ~Write(w)
    <3>1. UNCHANGED sendVars
      BY <2>2 DEF Tick, Select, ReadFreshness, Recalculate, RefreshFails, FanOutFails, Count,
                 CountFails, WriteFails, Crash
    <3> QED
      BY <3>1, <1>1, <1>2 DEF sendVars, AudienceCovered, NeverStartsEmpty
  <2> QED
    BY <2>1, <2>2
<1> QED
  BY <1>3, <1>5, <1>6, <1>7 DEF DispatchInv

(* The world around the ticks: people come and go, time passes, an admin   *)
(* cancels.  Whoever leaves or is suppressed is no longer loyal.           *)
LEMMA WorldKeeps ==
  ASSUME DispatchInv, Cancel \/ Drift \/ Age \/ WindowCloses
  PROVE  DispatchInv'
<1>1. TypeOK /\ (\A v \in Workers : TickKnows(v)) /\ AudienceCovered /\ NeverStartsEmpty
  BY DEF DispatchInv
<1>2. UNCHANGED <<audience, stored, rows, pc, after, note, action>>
  BY DEF Cancel, Drift, Age, WindowCloses, worldVars, tickVars
<1>3. loyal' \subseteq loyal /\ TypeOK'
  <2>1. CASE Cancel
    BY <1>1, <2>1 DEF Cancel, TypeOK, Statuses, worldVars, tickVars
  <2>2. CASE Drift
    <3> PICK p \in People : Moves(p)
      BY <2>2 DEF Drift
    <3> QED
      BY <1>1, <2>2 DEF Drift, Moves, TypeOK, sendVars, tickVars
  <2>3. CASE Age \/ WindowCloses
    BY <1>1, <2>3 DEF Age, WindowCloses, TypeOK, sendVars, tickVars
  <2> QED
    BY <2>1, <2>2, <2>3
<1>4. loyal \subseteq Audience => loyal' \subseteq Audience'
  <2>1. loyal' \subseteq members'
    BY <1>3 DEF TypeOK
  <2> QED
    BY <2>1, <1>2, <1>3 DEF Audience
<1>5. Assured' = Assured
  BY <1>2 DEF Assured
<1>6. \A v \in Workers : TickKnows(v)'
  BY <1>1, <1>2, <1>3, <1>4, <1>5 DEF TickKnows, At
<1>7. UNCHANGED sendVars \/ (status' = "cancelled")
  BY DEF Cancel, Drift, Age, WindowCloses
<1>8. AudienceCovered' /\ NeverStartsEmpty'
  BY <1>1, <1>2, <1>3, <1>5, <1>7 DEF AudienceCovered, NeverStartsEmpty, sendVars
<1> QED
  BY <1>3, <1>6, <1>8 DEF DispatchInv

(* A send that nobody has prepared yet.                                    *)
LEMMA InitKeeps == Init => DispatchInv
<1> SUFFICES ASSUME Init PROVE DispatchInv
  OBVIOUS
<1>1. TypeOK
  BY DEF Init, TypeOK, Statuses, Notes, Labels, Actions
<1>2. \A v \in Workers : TickKnows(v)
  BY DEF Init, TickKnows, At
<1> QED
  BY <1>1, <1>2 DEF Init, DispatchInv, AudienceCovered, NeverStartsEmpty

(* A started send covers everyone it says it covers, and someone at all.   *)
THEOREM DispatchCovers == Spec => []DispatchInv
<1>1. DispatchInv /\ [Next]_vars => DispatchInv'
  <2> SUFFICES ASSUME DispatchInv, [Next]_vars PROVE DispatchInv'
    OBVIOUS
  <2>1. CASE \E w \in Workers : Tick(w) \/ Crash(w)
    <3> PICK w \in Workers : Tick(w) \/ Crash(w)
      BY <2>1
    <3> QED
      BY FanOutKeeps, TickKeeps
  <2>2. CASE Cancel \/ Drift \/ Age \/ WindowCloses
    BY <2>2, WorldKeeps
  <2>3. CASE UNCHANGED vars
    <3>1. UNCHANGED <<worldVars, sendVars, rows, tickVars, faults>>
      BY <2>3 DEF vars
    <3> QED
      BY <3>1 DEF DispatchInv, TypeOK, TickKnows, At, Audience, Assured, AudienceCovered,
                  NeverStartsEmpty, worldVars, sendVars, tickVars
  <2> QED
    BY <2>1, <2>2, <2>3 DEF Next
<1> QED
  BY InitKeeps, <1>1, PTL DEF Spec

(* Everyone who was in the audience all along has a row once the send      *)
(* starts, whatever fan-out and which tick got it there.                   *)
THEOREM StartedSendIsCovered == Spec => []AudienceCovered
<1>1. DispatchInv => AudienceCovered
  BY DEF DispatchInv
<1> QED
  BY <1>1, DispatchCovers, PTL

(* The count a tick took before it starts the send never flips a send that *)
(* has no recipients: rows are only ever added.                            *)
THEOREM StartsForSomeone == Spec => []NeverStartsEmpty
<1>1. DispatchInv => NeverStartsEmpty
  BY DEF DispatchInv
<1> QED
  BY <1>1, DispatchCovers, PTL

(* One tick's decision is never overwritten by another's, nor a cancel.    *)
THEOREM OneDecision == Spec => DecidedOnce
<1>1. [Next]_vars => [status # "scheduled" => UNCHANGED sendVars]_vars
  <2> SUFFICES ASSUME [Next]_vars, status # "scheduled"
               PROVE  UNCHANGED sendVars
    OBVIOUS
  <2>1. ASSUME NEW w \in Workers, Tick(w) \/ Crash(w) PROVE UNCHANGED sendVars
    BY <2>1 DEF Tick, Select, ReadFreshness, Recalculate, RefreshFails, FanOut, FanOutFails,
               Count, CountFails, Write, WriteFails, Crash, MayDecide
  <2> QED
    BY <2>1 DEF Next, Cancel, Drift, Age, WindowCloses, vars
<1> QED
  BY <1>1, PTL DEF Spec, DecidedOnce
=============================================================================
