--------------------------- MODULE DripQuotaProofs ---------------------------
(***************************************************************************)
(* CapKept for any number of replicas, any cap and any number of days, as  *)
(* long as a grant is given back at most once and on its own day.  CapKept *)
(* alone is not inductive: what keeps it is that a transaction about to    *)
(* update the row holds its lock and so still knows what it says.          *)
(***************************************************************************)
EXTENDS DripQuota, TLAPS

USE DEF callVars, countVars

(* The cap less the margin is a number. *)
LEMMA HeadroomType == Headroom \in Nat
  BY QuotaAssumption DEF Headroom

(* What is granted is a number that fits under the cap. *)
LEMMA GrantFits ==
  ASSUME NEW n \in Nat, NEW taken \in Nat, taken <= Headroom
  PROVE  Grantable(n, taken) \in Nat /\ taken + Grantable(n, taken) <= Headroom
  BY HeadroomType DEF Grantable, Least, Larger

(* Nothing is reserved at first. *)
LEMMA QuotaInit == Init => QuotaInv
  BY QuotaAssumption, HeadroomType
  DEF Init, QuotaInv, TypeOK, SeenIsCurrent, LockersUpdate, Days, Steps

(* Every step keeps the invariant. *)
LEMMA QuotaStep ==
  ASSUME MaxRepeats = 0, ~LateRelease, QuotaInv, [Next]_vars
  PROVE  QuotaInv'
<1> USE QuotaAssumption, HeadroomType
    DEF QuotaInv, TypeOK, SeenIsCurrent, LockersUpdate, Steps, Goto
<1>1. ASSUME NEW w \in Workers, BeginClaim(w) PROVE QuotaInv'
  BY <1>1 DEF BeginClaim
<1>2. ASSUME NEW w \in Workers, LockRow(w) PROVE QuotaInv'
  BY <1>2 DEF LockRow, LockFree
<1>3. ASSUME NEW w \in Workers, UpdateRow(w) PROVE QuotaInv'
  <2> DEFINE d == today[w]
             n == Grantable(ask[w], seen[w])
  <2>1. ask[w] \in Nat /\ seen[w] = reserved[d] /\ reserved[d] <= Headroom
    BY <1>3 DEF UpdateRow
  <2>2. n \in Nat /\ reserved[d] + n <= Headroom BY <2>1, GrantFits
  <2> HIDE DEF n
  <2> QED BY <1>3, <2>1, <2>2 DEF UpdateRow, n
<1>4. ASSUME NEW w \in Workers, ClaimFails(w) PROVE QuotaInv'
  BY <1>4 DEF ClaimFails
<1>5. ASSUME NEW w \in Workers, Post(w) PROVE QuotaInv'
  BY <1>5 DEF Post
<1>6. ASSUME NEW w \in Workers, Release(w) PROVE QuotaInv'
  <2> USE <1>6 DEF Release
  <2>1. pc[w] = "granted" /\ today[w] = day /\ holder[day] = {} /\ repeats' = repeats
    BY DEF MayRelease
  <2>2. LeftAfter(grant[w]) \in Nat /\ LeftAfter(grant[w]) <= Headroom
        /\ spent[day] - grant[w] <= LeftAfter(grant[w])
    BY DEF LeftAfter, Larger
  <2>3. reserved' = [reserved EXCEPT ![day] = LeftAfter(grant[w])]
        /\ spent' = [spent EXCEPT ![day] = @ - grant[w]]
    BY <2>1
  <2>4. TypeOK'
    <3>1. reserved' \in [Days -> Nat] /\ spent' \in [Days -> Int]
      BY <2>2, <2>3
    <3>2. pc' \in [Workers -> Steps]
      OBVIOUS
    <3> QED BY <2>1, <3>1, <3>2
  <2>5. \A d \in Days : spent'[d] <= reserved'[d] /\ reserved'[d] <= Headroom
    BY <2>2, <2>3
  <2>6. SeenIsCurrent'
    <3> SUFFICES ASSUME NEW v \in Workers, pc'[v] = "update"
                 PROVE  holder'[today'[v]] = {v} /\ seen'[v] = reserved'[today'[v]]
      OBVIOUS
    <3>1. pc[v] = "update" OBVIOUS
    <3>2. holder[today[v]] = {v} /\ seen[v] = reserved[today[v]] BY <3>1
    <3>3. today[v] # day BY <2>1, <3>2
    <3> QED BY <2>3, <3>2, <3>3
  <2>7. LockersUpdate' BY <2>1
  <2> QED BY <2>4, <2>5, <2>6, <2>7
<1>7. ASSUME NEW w \in Workers, EndRelease(w) PROVE QuotaInv'
  BY <1>7 DEF EndRelease
<1>8. CASE Midnight BY <1>8 DEF Midnight, Days
<1>9. CASE UNCHANGED vars BY <1>9 DEF vars
<1> QED BY <1>1, <1>2, <1>3, <1>4, <1>5, <1>6, <1>7, <1>8, <1>9 DEF Next, Replica

(* The row lock works: a claim about to update the row still knows what it *)
(* says, so what is spent never passes what is reserved, nor that the cap. *)
THEOREM QuotaHeld ==
  ASSUME MaxRepeats = 0, ~LateRelease
  PROVE  Spec => []QuotaInv
<1>1. QuotaInv /\ [Next]_vars => QuotaInv' BY QuotaStep
<1> QED BY <1>1, QuotaInit, PTL DEF Spec

(* However many replicas claim at once, they are never granted more than   *)
(* 90% of the cap on one day.                                              *)
THEOREM QuotaKept ==
  ASSUME MaxRepeats = 0, ~LateRelease
  PROVE  Spec => []CapKept
<1>1. QuotaInv => CapKept
  BY HeadroomType DEF QuotaInv, TypeOK, CapKept
<1> QED BY <1>1, QuotaHeld, PTL
=============================================================================
