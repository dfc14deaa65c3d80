------------------------ MODULE SendLifecycleProofs ------------------------
(* The promise of SendLifecycle is inductive, for any people and sends. *)
EXTENDS SendLifecycle, TLAPS

(* Every step of the lifecycle keeps the promise.                          *)
LEMMA PromiseStep == Promise /\ [Next]_vars => Promise'
<1> USE DEF Promise, TypeOK, Settlement, OpenOf, OpenRows, Phases, Records
<1> SUFFICES ASSUME Promise, [Next]_vars PROVE Promise' OBVIOUS
<1>1. ASSUME NEW s \in Sends, Pause(s) \/ Resume(s) \/ Stop(s) PROVE Promise'
  BY <1>1 DEF Pause, Resume, Stop, Become
<1>2. ASSUME NEW s \in Sends, Finish(s) PROVE Promise'
  BY <1>2 DEF Finish, Become
<1>3. ASSUME NEW R \in SUBSET Rows, Deliver(R) PROVE Promise'
  BY <1>3 DEF Deliver, MayDeliver
<1>4. ASSUME NEW R \in SUBSET Rows, RecordSent(R) PROVE Promise'
  BY <1>4 DEF RecordSent, RecordAs
<1>5. ASSUME NEW R \in SUBSET Rows, Drop(R) PROVE Promise'
  BY <1>5 DEF Drop, RecordAs
<1>6. CASE UNCHANGED vars BY <1>6 DEF vars
<1> QED BY <1>1, <1>2, <1>3, <1>4, <1>5, <1>6 DEF Next

(* The lifecycle keeps its promise: at most one copy each, true records,   *)
(* and nobody left waiting under a send that is over.                      *)
THEOREM PromiseKept == Spec => []Promise
<1>1. Init => Promise
  BY DEF Init, Promise, TypeOK, Settlement, Phases, Records
<1> QED BY <1>1, PromiseStep, PTL DEF Spec
=============================================================================
