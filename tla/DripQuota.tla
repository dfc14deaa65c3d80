------------------------------ MODULE DripQuota ------------------------------
(***************************************************************************)
(* The daily quota that every worker replica draws on before it posts a    *)
(* batch: the sender_daily_quota rows of one brand and channel, one a day, *)
(* and the SQL functions claim_drip_quota and release_drip_quota.  A       *)
(* function call is one transaction; its steps are separate, so replicas   *)
(* meet at the row lock and midnight may fall between any two of them.     *)
(***************************************************************************)
EXTENDS Integers

CONSTANTS
  Workers,      \* replicas claiming at the same time
  Cap,          \* p_daily_cap
  MaxAsk,       \* largest p_request
  MaxDays,      \* bound: days in a behaviour
  MaxClaims,    \* bound: grants in a behaviour
  MaxFaults,    \* bound: claims that fail
  MaxRepeats,   \* bound: release calls delivered a second time
  LateRelease   \* TRUE: a release may be called after midnight

ASSUME QuotaAssumption ==
  /\ Cap \in Nat /\ MaxAsk \in Nat \ {0} /\ MaxDays \in Nat \ {0}
  /\ MaxClaims \in Nat /\ MaxFaults \in Nat /\ MaxRepeats \in Nat
  /\ LateRelease \in BOOLEAN

VARIABLES
  day,          \* current_date
  reserved,     \* reserved[d]: the row of day d
  holder,       \* holder[d]: the transactions (one at most) locking that row
  pc,           \* per replica: the step it takes next,
  today, ask,   \*   v_today and p_request of its call,
  seen,         \*   v_reserved,
  grant,        \*   the granted count the call returned
  spent,        \* history: granted on day d and not given back
  claims, faults, repeats

vars == <<day, reserved, holder, pc, today, ask, seen, grant, spent,
          claims, faults, repeats>>
callVars == <<today, ask, seen, grant>>
countVars == <<claims, faults, repeats>>

Days == 1..MaxDays
Steps == {"idle", "lock", "update", "granted", "released"}

Larger(a, b) == IF a < b THEN b ELSE a
Least(a, b) == IF a < b THEN a ELSE b

(* (p_daily_cap * 0.9)::integer, which rounds half up. *)
Headroom == (Cap * 9 + 5) \div 10

Init ==
  /\ day = 1
  /\ reserved = [d \in Days |-> 0] /\ holder = [d \in Days |-> {}]
  /\ pc = [w \in Workers |-> "idle"]
  /\ today = [w \in Workers |-> 1] /\ ask = [w \in Workers |-> 1]
  /\ seen = [w \in Workers |-> 0] /\ grant = [w \in Workers |-> 0]
  /\ spent = [d \in Days |-> 0]
  /\ claims = 0 /\ faults = 0 /\ repeats = 0

Goto(w, step) == pc' = [pc EXCEPT ![w] = step]

(* The call begins: current_date is fixed, the row exists from here on. *)
BeginClaim(w) ==
  /\ pc[w] = "idle" /\ claims < MaxClaims
  /\ \E n \in 1..MaxAsk : ask' = [ask EXCEPT ![w] = n]
  /\ today' = [today EXCEPT ![w] = day]
  /\ claims' = claims + 1
  /\ Goto(w, "lock")
  /\ UNCHANGED <<day, reserved, holder, seen, grant, spent, faults, repeats>>

LockFreeAlways(d) == TRUE
LockFree(d) == holder[d] = {}

(* SELECT reserved ... FOR UPDATE. *)
LockRow(w) ==
  LET d == today[w] IN
  /\ pc[w] = "lock" /\ LockFree(d)
  /\ holder' = [holder EXCEPT ![d] = @ \cup {w}]
  /\ seen' = [seen EXCEPT ![w] = reserved[d]]
  /\ Goto(w, "update")
  /\ UNCHANGED <<day, reserved, today, ask, grant, spent, countVars>>

GrantableAny(n, taken) == Least(n, Headroom)
Grantable(n, taken) == Least(n, Larger(0, Headroom - taken))

(* UPDATE ... SET reserved = reserved + v_grant, and commit. *)
UpdateRow(w) ==
  LET d == today[w]
      n == Grantable(ask[w], seen[w])
  IN  /\ pc[w] = "update"
      /\ reserved' = [reserved EXCEPT ![d] = @ + n]
      /\ spent' = [spent EXCEPT ![d] = @ + n]
      /\ holder' = [holder EXCEPT ![d] = @ \ {w}]
      /\ grant' = [grant EXCEPT ![w] = n]
      /\ Goto(w, IF n > 0 THEN "granted" ELSE "idle")
      /\ UNCHANGED <<day, today, ask, seen, countVars>>

(* The call fails and is rolled back.  (The engine then posts unmetered:   *)
(* what it posts is outside this module.)                                  *)
ClaimFails(w) ==
  LET d == today[w] IN
  /\ pc[w] \in {"lock", "update"} /\ faults < MaxFaults
  /\ faults' = faults + 1
  /\ holder' = [holder EXCEPT ![d] = @ \ {w}]
  /\ Goto(w, "idle")
  /\ UNCHANGED <<day, reserved, callVars, spent, claims, repeats>>

(* The granted messages are posted. *)
Post(w) ==
  /\ pc[w] = "granted"
  /\ Goto(w, "idle")
  /\ UNCHANGED <<day, reserved, holder, callVars, spent, countVars>>

(* The send is paused before they are: release_drip_quota gives them back, *)
(* to the row of the day it is called on.  A caller that lost the reply    *)
(* may ask again.                                                          *)
MayRelease == IF repeats < MaxRepeats THEN {"granted", "released"} ELSE {"granted"}

LeftAfter(n) == Larger(0, reserved[day] - n)

Release(w) ==
  LET first == pc[w] = "granted" IN
  /\ pc[w] \in MayRelease
  /\ holder[day] = {}
  /\ LateRelease \/ today[w] = day
  /\ reserved' = [reserved EXCEPT ![day] = LeftAfter(grant[w])]
  /\ spent' = [spent EXCEPT ![today[w]] = IF first THEN @ - grant[w] ELSE @]
  /\ repeats' = IF first THEN repeats ELSE repeats + 1
  /\ Goto(w, "released")
  /\ UNCHANGED <<day, holder, callVars, claims, faults>>

EndRelease(w) ==
  /\ pc[w] = "released"
  /\ Goto(w, "idle")
  /\ UNCHANGED <<day, reserved, holder, callVars, spent, countVars>>

Midnight ==
  /\ day < MaxDays
  /\ day' = day + 1
  /\ UNCHANGED <<reserved, holder, pc, callVars, spent, countVars>>

Replica(w) ==
  \/ BeginClaim(w) \/ LockRow(w) \/ UpdateRow(w) \/ ClaimFails(w)
  \/ Post(w) \/ Release(w) \/ EndRelease(w)

Next == Midnight \/ \E w \in Workers : Replica(w)

Spec == Init /\ [][Next]_vars

-----------------------------------------------------------------------------
TypeOK ==
  /\ day \in Days
  /\ reserved \in [Days -> Nat] /\ holder \in [Days -> SUBSET Workers]
  /\ pc \in [Workers -> Steps] /\ today \in [Workers -> Days]
  /\ ask \in [Workers -> 1..MaxAsk] /\ seen \in [Workers -> Nat]
  /\ grant \in [Workers -> Nat]
  /\ spent \in [Days -> Int]
  /\ claims \in Nat /\ faults \in Nat /\ repeats \in Nat

(* Replicas claiming at the same time, across midnight, are never together *)
(* granted more than 90% of the daily cap on one day.  (the row lock of    *)
(* claim_drip_quota)                                                       *)
CapKept == \A d \in Days : spent[d] <= Headroom

(* A transaction that is about to update the row still sees it as it is.   *)
SeenIsCurrent ==
  \A w \in Workers : pc[w] = "update" =>
    holder[today[w]] = {w} /\ seen[w] = reserved[today[w]]

LockersUpdate ==
  \A d \in Days : \A w \in holder[d] : pc[w] = "update" /\ today[w] = d

(* The row never says less than what was granted, nor more than the cap    *)
(* allows: the conjunction is inductive, CapKept alone is not.             *)
QuotaInv ==
  /\ TypeOK
  /\ SeenIsCurrent /\ LockersUpdate
  /\ \A d \in Days : spent[d] <= reserved[d] /\ reserved[d] <= Headroom
=============================================================================
