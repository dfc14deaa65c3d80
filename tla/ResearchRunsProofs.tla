-------------------------- MODULE ResearchRunsProofs -------------------------
(***************************************************************************)
(* NewestWins and ResearchStops for any number of ticks, handlers, runs    *)
(* and faults.  LandingInv is inductive: the partial unique index leaves   *)
(* only the newest run in flight, so a write that is let through is of the *)
(* newest run, two handlers of one run carry one output, and the gate lets *)
(* no send start under a handler that is about to land.                    *)
(***************************************************************************)
EXTENDS ResearchRuns, SequenceTheorems, TLAPS

(* What the update of one run leaves. *)
Updated(r, status, output) ==
  /\ runs' \in Seq(RunType) /\ Len(runs') = Len(runs) /\ DOMAIN runs' = DOMAIN runs
  /\ \A q \in DOMAIN runs : q # r => runs'[q] = runs[q]
  /\ runs'[r].status = status /\ runs'[r].output = output

LEMMA UpdateRun ==
  ASSUME TypeOK, NEW r \in DOMAIN runs, NEW row \in RunType,
         runs' = [runs EXCEPT ![r] = row]
  PROVE  Updated(r, row.status, row.output)
<1>1. runs \in Seq(RunType) /\ r \in 1..Len(runs) /\ DOMAIN runs = 1..Len(runs)
  BY DEF TypeOK
<1>2. runs' \in Seq(RunType) /\ Len(runs') = Len(runs)
      /\ \A q \in 1..Len(runs) : runs'[q] = IF q = r THEN row ELSE runs[q]
  BY <1>1, ExceptSeq
<1>3. DOMAIN runs' = 1..Len(runs')
  BY <1>2
<1> QED
  BY <1>1, <1>2, <1>3 DEF Updated

LEMMA EndRun ==
  ASSUME TypeOK, NEW r \in DOMAIN runs, NEW status \in InFlight \cup Ended,
         NEW failure \in {"none", "cost_cap", "stale", "other"}, End(r, status, failure)
  PROVE  Updated(r, status, runs[r].output)
<1> DEFINE row == [runs[r] EXCEPT !.status = status, !.failure = failure]
<1>1. runs[r] \in RunType
  BY DEF TypeOK
<1>2. row \in RunType /\ row.status = status /\ row.output = runs[r].output
  BY <1>1 DEF RunType
<1>3. runs' = [runs EXCEPT ![r] = row]
  BY DEF End
<1> HIDE DEF row
<1> QED
  BY <1>2, <1>3, UpdateRun

LEMMA CompleteRun ==
  ASSUME TypeOK, NEW h \in Handlers, RunOf(h) \in DOMAIN runs, Complete(h), Running(h)
  PROVE  Updated(RunOf(h), "complete", handler[h].output)
<1> DEFINE row == [runs[RunOf(h)] EXCEPT !.status = "complete", !.output = handler[h].output]
<1>1. runs[RunOf(h)] \in RunType /\ handler[h].output \in Nat
  BY DEF TypeOK, HandlerType
<1>2. row \in RunType /\ row.status = "complete" /\ row.output = handler[h].output
  BY <1>1 DEF RunType, Ended
<1>3. runs' = [runs EXCEPT ![RunOf(h)] = row]
  BY DEF Complete
<1> HIDE DEF row
<1> QED
  BY <1>2, <1>3, UpdateRun

(* What an insert leaves. *)
Inserted ==
  /\ runs' \in Seq(RunType) /\ Len(runs') = Len(runs) + 1
  /\ DOMAIN runs' = DOMAIN runs \cup {Len(runs) + 1} /\ Len(runs) + 1 \notin DOMAIN runs
  /\ \A q \in DOMAIN runs : runs'[q] = runs[q] /\ runs[q].status \notin InFlight
  /\ runs'[Len(runs) + 1].status = "queued"

LEMMA InsertRow ==
  ASSUME TypeOK, NEW by \in Triggers, Insert(by)
  PROVE  Inserted
<1>1. runs \in Seq(RunType) /\ NewRun(by) \in RunType /\ NewRun(by).status = "queued"
      /\ DOMAIN runs = 1..Len(runs)
  BY DEF TypeOK, NewRun, RunType, InFlight, NoRun
<1> HIDE DEF NewRun
<1>2. runs' = Append(runs, NewRun(by)) /\ \A q \in DOMAIN runs : runs[q].status \notin InFlight
  BY DEF Insert, SlotFree
<1>3. runs' \in Seq(RunType) /\ Len(runs') = Len(runs) + 1
      /\ (\A q \in 1..Len(runs) : runs'[q] = runs[q]) /\ runs'[Len(runs) + 1] = NewRun(by)
  BY <1>1, <1>2, AppendProperties
<1>4. DOMAIN runs' = 1..Len(runs')
  BY <1>3
<1> QED
  BY <1>1, <1>2, <1>3, <1>4 DEF Inserted

-----------------------------------------------------------------------------
(* Types.  A handler or a starter moves on, or is done. *)
LEMMA HandlerMoves ==
  ASSUME TypeOK, NEW h \in Handlers,
         NEW pc \in {"idle", "start", "write", "land", "complete", "fail"}, Proceed(h, pc)
  PROVE  /\ handler' \in [Handlers -> HandlerType]
         /\ handler'[h].pc = pc /\ handler'[h].run = handler[h].run
         /\ handler'[h].output = handler[h].output
         /\ \A g \in Handlers : g # h => handler'[g] = handler[g]
<1> DEFINE next == [handler[h] EXCEPT !.pc = pc]
<1>1. handler[h] \in HandlerType /\ handler \in [Handlers -> HandlerType]
  BY DEF TypeOK
<1>2. next \in HandlerType /\ next.pc = pc /\ next.run = handler[h].run
      /\ next.output = handler[h].output
  BY <1>1 DEF HandlerType
<1>3. handler' = [handler EXCEPT ![h] = next]
  BY DEF Proceed
<1> HIDE DEF next
<1> QED
  BY <1>1, <1>2, <1>3

LEMMA HandlerSet ==
  ASSUME TypeOK, NEW h \in Handlers, NEW next \in HandlerType,
         handler' = [handler EXCEPT ![h] = next]
  PROVE  /\ handler' \in [Handlers -> HandlerType] /\ handler'[h] = next
         /\ \A g \in Handlers : g # h => handler'[g] = handler[g]
  BY DEF TypeOK

LEMMA StarterMoves ==
  ASSUME TypeOK, NEW t \in Starters,
         NEW pc \in {"idle", "slot", "insert", "enqueue", "cancel"}, Call(t, pc)
  PROVE  /\ starter' \in [Starters -> StarterType]
         /\ starter'[t].pc = pc /\ starter'[t].run = starter[t].run
         /\ \A u \in Starters : u # t => starter'[u] = starter[u]
<1> DEFINE next == [starter[t] EXCEPT !.pc = pc]
<1>1. starter[t] \in StarterType /\ starter \in [Starters -> StarterType]
  BY DEF TypeOK
<1>2. next \in StarterType /\ next.pc = pc /\ next.run = starter[t].run
  BY <1>1 DEF StarterType
<1>3. starter' = [starter EXCEPT ![t] = next]
  BY DEF Call
<1> HIDE DEF next
<1> QED
  BY <1>1, <1>2, <1>3

LEMMA StarterSet ==
  ASSUME TypeOK, NEW t \in Starters, NEW next \in StarterType,
         starter' = [starter EXCEPT ![t] = next]
  PROVE  /\ starter' \in [Starters -> StarterType] /\ starter'[t] = next
         /\ \A u \in Starters : u # t => starter'[u] = starter[u]
  BY DEF TypeOK

LEMMA Resting == Idle \in StarterType /\ Free \in HandlerType
  BY DEF Idle, Free, NoRun, StarterType, HandlerType

LEMMA TypeInit == Init => TypeOK
<1> SUFFICES ASSUME Init PROVE TypeOK
  OBVIOUS
<1>1. runs \in Seq(RunType) /\ jobs \subseteq DOMAIN runs
  BY DEF Init
<1>2. past \subseteq Nat /\ layer \in past /\ writer \in Nat /\ events \in Nat
  BY DEF Init, NoRun
<1>3. starter \in [Starters -> StarterType] /\ handler \in [Handlers -> HandlerType]
  BY Resting DEF Init
<1> QED
  BY <1>1, <1>2, <1>3 DEF Init, TypeOK

(* The run a starter has inserted, or a handler has taken, exists. *)
LEMMA Named ==
  ASSUME TypeOK, LandingInv
  PROVE  /\ \A t \in Starters : starter[t].pc \in {"enqueue", "cancel"} =>
                                 starter[t].run \in DOMAIN runs
         /\ \A h \in Handlers : handler[h].pc # "idle" => RunOf(h) \in DOMAIN runs
<1>1. ASSUME NEW t \in Starters, starter[t].pc \in {"enqueue", "cancel"}
      PROVE  starter[t].run \in DOMAIN runs
  <2>1. starter[t] \in StarterType /\ runs \in Seq(RunType) BY DEF TypeOK
  <2>2. starter[t].run \in Nat /\ DOMAIN runs = 1..Len(runs) /\ Len(runs) \in Nat
    BY <2>1 DEF StarterType
  <2> QED BY <1>1, <2>2 DEF LandingInv, StarterKnows, NoRun
<1> QED BY <1>1 DEF LandingInv, HandlerKnows

(* A starter hands its run to the queue, or is done with it. *)
LEMMA StarterTypes ==
  ASSUME TypeOK, LandingInv, NEW t \in Starters, StarterStep(t)
  PROVE  TypeOK'
<1> USE DEF layerVars
<1>1. CASE TickOpens(t)
  <2> DEFINE next == [Idle EXCEPT !.pc = "slot", !.by = "schedule"]
  <2>1. next \in StarterType BY DEF Idle, StarterType, Triggers, NoRun
  <2>2. starter' = [starter EXCEPT ![t] = next] BY <1>1 DEF TickOpens
  <2> HIDE DEF next
  <2>3. starter' \in [Starters -> StarterType] BY <2>1, <2>2, StarterSet
  <2> QED BY <1>1, <2>3 DEF TickOpens, TypeOK
<1>2. CASE RunNow(t)
  <2> DEFINE next == [Idle EXCEPT !.pc = "insert", !.by = "manual"]
  <2>1. next \in StarterType BY DEF Idle, StarterType, Triggers, NoRun
  <2>2. starter' = [starter EXCEPT ![t] = next] BY <1>2 DEF RunNow
  <2> HIDE DEF next
  <2>3. starter' \in [Starters -> StarterType] BY <2>1, <2>2, StarterSet
  <2> QED BY <1>2, <2>3 DEF RunNow, Ask, TypeOK
<1>3. CASE CheckSlot(t)
  <2>1. starter' \in [Starters -> StarterType]
    BY <1>3, StarterMoves, StarterSet, Resting DEF CheckSlot, StarterIdle
  <2> QED BY <1>3, <2>1 DEF CheckSlot, TypeOK
<1>4. CASE InsertRun(t)
  <2> DEFINE next == [starter[t] EXCEPT !.pc = "enqueue", !.run = Len(runs')]
  <2>1. starter[t] \in StarterType BY DEF TypeOK
  <2>2. starter[t].by \in Triggers
    BY <1>4, <2>1 DEF InsertRun, LandingInv, StarterKnows, StarterType
  <2>3. Inserted BY <1>4, <2>2, InsertRow DEF InsertRun
  <2>4. next \in StarterType
    <3>1. Len(runs') \in Nat BY <2>3 DEF Inserted
    <3> QED BY <2>1, <3>1 DEF StarterType
  <2>5. starter' = [starter EXCEPT ![t] = next] BY <1>4 DEF InsertRun
  <2> HIDE DEF next
  <2>6. starter' \in [Starters -> StarterType] BY <2>4, <2>5, StarterSet
  <2> QED BY <1>4, <2>3, <2>6 DEF InsertRun, Inserted, TypeOK
<1>5. CASE InsertRefused(t) \/ StarterStops(t)
  <2>1. starter' \in [Starters -> StarterType]
    BY <1>5, StarterSet, Resting DEF InsertRefused, StarterStops, StarterIdle
  <2>2. events' \in Nat BY <1>5 DEF InsertRefused, StarterStops, Fault, TypeOK
  <2> QED BY <1>5, <2>1, <2>2 DEF InsertRefused, StarterStops, TypeOK
<1>6. CASE Enqueue(t)
  <2>1. starter' \in [Starters -> StarterType]
    BY <1>6, StarterSet, Resting DEF Enqueue, StarterIdle
  <2> QED BY <1>6, <2>1, Named DEF Enqueue, TypeOK
<1>7. CASE EnqueueFails(t)
  <2>1. starter' \in [Starters -> StarterType]
    BY <1>7, StarterMoves DEF EnqueueFails
  <2> QED BY <1>7, <2>1, Named DEF EnqueueFails, Fault, TypeOK
<1>8. CASE CancelQueued(t)
  <2>1. starter' \in [Starters -> StarterType]
    BY <1>8, StarterSet, Resting DEF CancelQueued, StarterIdle
  <2>2. runs' \in Seq(RunType) /\ jobs \subseteq DOMAIN runs'
    BY <1>8, EndRun, Named DEF CancelQueued, Updated, TypeOK, Ended
  <2> QED BY <1>8, <2>1, <2>2 DEF CancelQueued, TypeOK
<1> QED
  BY <1>1, <1>2, <1>3, <1>4, <1>5, <1>6, <1>7, <1>8 DEF StarterStep

(* A handler takes a run, works on it and lets it go. *)
LEMMA HandlerTypes ==
  ASSUME TypeOK, LandingInv, NEW h \in Handlers, HandlerStep(h)
  PROVE  TypeOK'
<1> USE DEF layerVars
<1>1. handler[h] \in HandlerType /\ RunOf(h) \in Nat /\ handler[h].output \in Nat
  BY DEF TypeOK, HandlerType, RunOf
<1>2. ASSUME HandlerFree(h) PROVE handler' \in [Handlers -> HandlerType]
  BY <1>2, HandlerSet, Resting DEF HandlerFree
<1>3. ASSUME Running(h), RunOf(h) \in DOMAIN runs,
             NEW failure \in {"cost_cap", "other"}, End(RunOf(h), "failed", failure)
      PROVE  runs' \in Seq(RunType) /\ DOMAIN runs' = DOMAIN runs
  BY <1>3, EndRun DEF Ended, Updated
<1>4. CASE \E r \in DOMAIN runs : Take(h, r)
  <2> PICK r \in DOMAIN runs : Take(h, r)
    BY <1>4
  <2> DEFINE next == [pc |-> "start", run |-> r, output |-> r]
  <2>1. r \in Nat BY DEF TypeOK
  <2>2. next \in HandlerType BY <2>1 DEF HandlerType
  <2>3. handler' = handler \/ handler' = [handler EXCEPT ![h] = next] BY DEF Take
  <2> HIDE DEF next
  <2>4. handler' \in [Handlers -> HandlerType] BY <2>2, <2>3, HandlerSet DEF TypeOK
  <2> QED BY <2>4 DEF Take, TypeOK
<1>5. CASE Revert(h)
  <2> PICK src \in With("complete") :
        handler' = [handler EXCEPT ![h] =
          [pc |-> "start", run |-> Len(runs) + 1, output |-> runs[src].output]]
    BY <1>5 DEF Revert
  <2> DEFINE next == [pc |-> "start", run |-> Len(runs) + 1, output |-> runs[src].output]
  <2>1. Inserted BY <1>5, InsertRow DEF Revert, Triggers
  <2>2. src \in DOMAIN runs /\ runs[src] \in RunType BY DEF With, TypeOK
  <2>3. Len(runs) + 1 \in Nat /\ runs[src].output \in Nat
    BY <2>2 DEF TypeOK, RunType
  <2>4. next \in HandlerType BY <2>3 DEF HandlerType
  <2> HIDE DEF next
  <2>5. handler' \in [Handlers -> HandlerType] BY <2>4, HandlerSet DEF next
  <2> QED BY <1>5, <2>1, <2>5 DEF Revert, Ask, Inserted, TypeOK
<1>6. CASE Start(h)
  <2>1. RunOf(h) \in DOMAIN runs BY <1>6, Named DEF Start
  <2>2. handler' \in [Handlers -> HandlerType] BY <1>2, <1>6, HandlerMoves DEF Start
  <2>3. runs' \in Seq(RunType) /\ DOMAIN runs' = DOMAIN runs
    BY <1>6, <2>1, EndRun DEF Start, InFlight, Updated, TypeOK
  <2> QED BY <1>6, <2>2, <2>3 DEF Start, TypeOK
<1>7. CASE Write(h)
  <2>1. handler' \in [Handlers -> HandlerType] BY <1>7, HandlerMoves DEF Write
  <2>2. past' \subseteq Nat /\ layer' \in past' /\ writer' \in Nat /\ edited' \in BOOLEAN
    BY <1>1, <1>7 DEF Write, Land, TypeOK
  <2> QED BY <1>7, <2>1, <2>2 DEF Write, TypeOK
<1>8. CASE WriteUnheard(h)
  <2>1. handler' \in [Handlers -> HandlerType] BY <1>8, HandlerMoves DEF WriteUnheard
  <2>2. past' \subseteq Nat /\ layer' \in past' /\ writer' \in Nat /\ edited' \in BOOLEAN
    BY <1>1, <1>8 DEF WriteUnheard, Land, TypeOK
  <2> QED BY <1>8, <2>1, <2>2 DEF WriteUnheard, Fault, TypeOK
<1>9. CASE WriteRefused(h)
  <2>1. handler' \in [Handlers -> HandlerType] BY <1>9, HandlerMoves DEF WriteRefused
  <2> QED BY <1>9, <2>1 DEF WriteRefused, TypeOK
<1>10. CASE Complete(h)
  <2>1. RunOf(h) \in DOMAIN runs BY <1>10, Named DEF Complete
  <2>2. runs' \in Seq(RunType) /\ DOMAIN runs' = DOMAIN runs
    BY <1>10, <2>1, CompleteRun DEF Complete, Updated, TypeOK
  <2> QED BY <1>2, <1>10, <2>2 DEF Complete, TypeOK
<1>11. CASE Fail(h)
  <2>1. RunOf(h) \in DOMAIN runs BY <1>11, Named DEF Fail
  <2>2. runs' \in Seq(RunType) /\ DOMAIN runs' = DOMAIN runs
    BY <1>3, <1>11, <2>1 DEF Fail, Failed, TypeOK
  <2> QED BY <1>2, <1>11, <2>2 DEF Fail, Failed, TypeOK
<1>12. CASE WorkFails(h)
  <2> PICK failure \in {"cost_cap", "other"} : Failed(h, failure)
    BY <1>12 DEF WorkFails
  <2>1. RunOf(h) \in DOMAIN runs BY <1>12, Named DEF WorkFails
  <2>2. runs' \in Seq(RunType) /\ DOMAIN runs' = DOMAIN runs
    BY <1>3, <2>1 DEF Failed, TypeOK
  <2> QED BY <1>2, <1>12, <2>2 DEF WorkFails, Fault, Failed, TypeOK
<1>13. CASE Crash(h) \/ Redeliver(h)
  <2>1. RunOf(h) \in DOMAIN runs BY <1>13, Named DEF Crash, Redeliver
  <2>2. events' \in Nat BY <1>13 DEF Crash, Redeliver, Fault, TypeOK
  <2> QED BY <1>2, <1>13, <2>1, <2>2 DEF Crash, Redeliver, TypeOK
<1>14. CASE CheckOpen(h)
  <2>1. handler' \in [Handlers -> HandlerType] BY <1>14, HandlerMoves DEF CheckOpen
  <2> QED BY <1>14, <2>1 DEF CheckOpen, TypeOK
<1> QED
  BY <1>4, <1>5, <1>6, <1>7, <1>8, <1>9, <1>10, <1>11, <1>12, <1>13, <1>14 DEF HandlerStep

(* Sweeps and cancels end a run; the send starts and goes on. *)
LEMMA WorldTypes ==
  ASSUME TypeOK, NEW r \in DOMAIN runs, SweepStale(r) \/ SweepOrphan(r) \/ AdminCancels(r)
  PROVE  TypeOK' /\ \E status \in Ended : Updated(r, status, runs[r].output)
<1>1. events' \in Nat
  BY DEF SweepStale, SweepOrphan, AdminCancels, SlowIfInHand, Fault, Ask, TypeOK
<1>2. \E status \in {"failed", "cancelled"} : Updated(r, status, runs[r].output)
  <2>1. CASE SweepStale(r) BY <2>1, EndRun DEF SweepStale, Ended
  <2>2. CASE SweepOrphan(r) BY <2>2, EndRun DEF SweepOrphan, Ended
  <2>3. CASE AdminCancels(r) BY <2>3, EndRun DEF AdminCancels, Ended
  <2> QED BY <2>1, <2>2, <2>3
<1>3. runs' \in Seq(RunType) /\ DOMAIN runs' = DOMAIN runs
  BY <1>2 DEF Updated
<1>4. UNCHANGED <<layerVars, jobs, starter, handler, sending>>
  BY DEF SweepStale, SweepOrphan, AdminCancels
<1> QED
  BY <1>1, <1>2, <1>3, <1>4 DEF TypeOK, Ended, layerVars

LEMMA TypeStep == TypeOK /\ LandingInv /\ [Next]_vars => TypeOK'
<1> SUFFICES ASSUME TypeOK, LandingInv, [Next]_vars PROVE TypeOK'
  OBVIOUS
<1>1. CASE \E r \in DOMAIN runs : SweepStale(r) \/ SweepOrphan(r) \/ AdminCancels(r)
  BY <1>1, WorldTypes
<1>2. CASE StartSending \/ SendGoesOn \/ EditorWrites
  <2>1. events' \in Nat
    BY <1>2 DEF StartSending, SendGoesOn, EditorWrites, Ask, Fault, TypeOK
  <2> QED
    BY <1>2, <2>1 DEF StartSending, SendGoesOn, EditorWrites, TypeOK, layerVars
<1>3. CASE UNCHANGED vars
  BY <1>3 DEF vars, layerVars, TypeOK
<1> QED
  BY <1>1, <1>2, <1>3, StarterTypes, HandlerTypes DEF Next

-----------------------------------------------------------------------------
(* The invariant.  What holds of the runs, the layer and of whoever does   *)
(* not move, whatever the step does to the queue.                          *)
Unmoved ==
  /\ LatestInFlight' /\ OutputsReal' /\ NewestWins'
  /\ \A t \in Starters : starter'[t] = starter[t] => StarterKnows(t)'
  /\ \A h \in Handlers : handler'[h] = handler[h] => HandlerKnows(h)'

(* No run completes: at most one starts, fails or is cancelled. *)
Settles ==
  \/ runs' = runs
  \/ \E r \in DOMAIN runs, status \in {"running", "failed", "cancelled"} :
       /\ Updated(r, status, runs[r].output)
       /\ status = "running" => runs[r].status = "queued"

LEMMA SettlesKeeps ==
  ASSUME TypeOK, LandingInv, Settles, UNCHANGED <<layer, writer, edited, sending>>
  PROVE  Unmoved
<1>1. CASE runs' = runs
  <2>1. LatestInFlight' /\ OutputsReal' /\ NewestWins'
    BY <1>1 DEF LandingInv, LatestInFlight, OutputsReal, NewestWins, With
  <2>2. \A t \in Starters : starter'[t] = starter[t] => StarterKnows(t)'
    BY <1>1 DEF LandingInv, StarterKnows
  <2>3. \A h \in Handlers : handler'[h] = handler[h] => HandlerKnows(h)'
    BY <1>1 DEF LandingInv, HandlerKnows, RunOf, Running
  <2> QED BY <2>1, <2>2, <2>3 DEF Unmoved
<1>2. ASSUME NEW r \in DOMAIN runs, NEW status \in {"running", "failed", "cancelled"},
             Updated(r, status, runs[r].output),
             status = "running" => runs[r].status = "queued"
      PROVE  Unmoved
  <2>1. /\ DOMAIN runs' = DOMAIN runs /\ Len(runs') = Len(runs)
        /\ \A q \in DOMAIN runs : /\ runs'[q].output = runs[q].output
                                  /\ q # r => runs'[q].status = runs[q].status
        /\ runs'[r].status = status
    BY <1>2 DEF Updated
  <2>2. \A q \in DOMAIN runs : runs'[q].status = "complete" => runs[q].status = "complete"
    BY <2>1
  <2>3. LatestInFlight'
    BY <1>2, <2>1 DEF LandingInv, LatestInFlight, InFlight
  <2>4. OutputsReal' /\ NewestWins'
    BY <2>1, <2>2 DEF LandingInv, OutputsReal, NewestWins, With
  <2>5. \A t \in Starters : starter'[t] = starter[t] => StarterKnows(t)'
    BY <2>1 DEF LandingInv, StarterKnows
  <2>6. ASSUME NEW h \in Handlers, handler'[h] = handler[h] PROVE HandlerKnows(h)'
    BY <1>2, <2>1, <2>6 DEF LandingInv, HandlerKnows, RunOf, Running
  <2> QED BY <2>3, <2>4, <2>5, <2>6 DEF Unmoved
<1> QED BY <1>1, <1>2 DEF Settles

LEMMA InsertKeeps ==
  ASSUME TypeOK, LandingInv, Inserted, UNCHANGED <<layer, writer, edited, sending>>
  PROVE  Unmoved
<1>1. Len(runs) \in Nat /\ writer \in Nat /\ \A t \in Starters : starter[t].run \in Nat
  BY DEF TypeOK, StarterType
<1>2. /\ DOMAIN runs' = DOMAIN runs \cup {Len(runs) + 1} /\ Len(runs') = Len(runs) + 1
      /\ \A q \in DOMAIN runs : runs'[q] = runs[q] /\ runs[q].status \notin InFlight
      /\ runs'[Len(runs) + 1].status = "queued"
  BY DEF Inserted
<1>3. LatestInFlight'
  BY <1>2 DEF LatestInFlight
<1>4. OutputsReal' /\ NewestWins'
  BY <1>1, <1>2 DEF LandingInv, OutputsReal, NewestWins, With
<1>5. ASSUME NEW t \in Starters, starter'[t] = starter[t] PROVE StarterKnows(t)'
  BY <1>1, <1>2, <1>5 DEF LandingInv, StarterKnows
<1>6. ASSUME NEW h \in Handlers, handler'[h] = handler[h] PROVE HandlerKnows(h)'
  BY <1>2, <1>6 DEF LandingInv, HandlerKnows, RunOf, Running
<1> QED BY <1>3, <1>4, <1>5, <1>6 DEF Unmoved

(* A write that is let through is of the newest run, so nothing overtakes  *)
(* it, and whoever else is about to complete that run wrote the same.      *)
LEMMA LandKeeps ==
  ASSUME TypeOK, LandingInv, NEW h \in Handlers, handler[h].pc = "land",
         Writable(RunOf(h)), Land(h), UNCHANGED <<runs, sending>>
  PROVE  Unmoved
<1>1. RunOf(h) \in DOMAIN runs
  BY DEF LandingInv, HandlerKnows
<1>2. runs[RunOf(h)].status = "running" /\ RunOf(h) = Len(runs)
  BY <1>1 DEF Writable, LandingInv, LatestInFlight, InFlight
<1>3. writer' = Len(runs) /\ layer' = handler[h].output
  BY <1>2 DEF Land
<1>4. Len(runs) \in Nat /\ \A n \in DOMAIN runs : n <= Len(runs)
  BY DEF TypeOK
<1>5. LatestInFlight'
  BY DEF LandingInv, LatestInFlight
<1>6. OutputsReal' /\ NewestWins'
  BY <1>1, <1>2, <1>3, <1>4 DEF LandingInv, OutputsReal, NewestWins, With
<1>7. ASSUME NEW t \in Starters, starter'[t] = starter[t] PROVE StarterKnows(t)'
  BY <1>7 DEF LandingInv, StarterKnows
<1>8. ASSUME NEW g \in Handlers, handler'[g] = handler[g] PROVE HandlerKnows(g)'
  <2>1. ASSUME handler[g].pc = "complete", Running(g)
        PROVE  RunOf(g) = Len(runs) /\ handler[g].output = handler[h].output
    <3>1. RunOf(g) \in DOMAIN runs /\ runs[RunOf(g)].status = "running"
      BY <2>1 DEF LandingInv, HandlerKnows, Running
    <3>2. RunOf(g) = RunOf(h) BY <1>2, <3>1 DEF LandingInv, LatestInFlight, InFlight
    <3> QED BY <1>2, <3>2 DEF LandingInv, SameOutput
  <2> QED BY <1>3, <1>8, <2>1 DEF LandingInv, HandlerKnows, RunOf, Running
<1> QED BY <1>5, <1>6, <1>7, <1>8 DEF Unmoved

(* What completes is the run whose output the layer has. *)
LEMMA CompleteKeeps ==
  ASSUME TypeOK, LandingInv, NEW h \in Handlers, Complete(h)
  PROVE  Unmoved
<1>1. CASE ~Running(h)
  <2>1. UNCHANGED <<runs, layer, writer, edited, sending>> BY <1>1 DEF Complete, layerVars
  <2> QED BY <2>1, SettlesKeeps DEF Settles
<1>2. CASE Running(h)
  <2> DEFINE r == RunOf(h)
  <2>1. r \in DOMAIN runs /\ writer = r /\ (~edited => layer = handler[h].output)
        /\ handler[h].output # NoRun /\ runs[r].status = "running"
    BY <1>2 DEF Complete, LandingInv, HandlerKnows, Running
  <2>2. Updated(r, "complete", handler[h].output) BY <1>2, <2>1, CompleteRun
  <2>3. UNCHANGED <<layer, writer, edited, sending>> BY DEF Complete, layerVars
  <2> HIDE DEF r
  <2>4. /\ DOMAIN runs' = DOMAIN runs /\ Len(runs') = Len(runs)
        /\ \A q \in DOMAIN runs : q # r => runs'[q] = runs[q]
        /\ runs'[r].status = "complete" /\ runs'[r].output = handler[h].output
    BY <2>2 DEF Updated
  <2>5. LatestInFlight'
    BY <2>4 DEF LandingInv, LatestInFlight, InFlight
  <2>6. writer \in Nat
    BY DEF TypeOK
  <2>7. OutputsReal'
    BY <2>1, <2>3, <2>4 DEF LandingInv, OutputsReal, With
  <2>8. NewestWins'
    <3> SUFFICES ASSUME NEW n \in DOMAIN runs, runs'[n].status = "complete"
                 PROVE  n <= writer /\ (n = writer /\ ~edited => layer = runs'[n].output)
      BY <2>3, <2>4 DEF NewestWins, With
    <3>1. CASE n = r BY <2>1, <2>4, <2>6, <3>1
    <3>2. CASE n # r BY <2>1, <2>4, <3>2 DEF LandingInv, NewestWins, With
    <3> QED BY <3>1, <3>2
  <2>9. ASSUME NEW t \in Starters, starter'[t] = starter[t] PROVE StarterKnows(t)'
    BY <2>4, <2>9 DEF LandingInv, StarterKnows
  <2>10. ASSUME NEW g \in Handlers, handler'[g] = handler[g] PROVE HandlerKnows(g)'
    BY <2>1, <2>3, <2>4, <2>10 DEF LandingInv, HandlerKnows, RunOf, Running
  <2> QED BY <2>5, <2>7, <2>8, <2>9, <2>10 DEF Unmoved
<1> QED BY <1>1, <1>2

(* Whoever works on one run carries one output: runs are handed on, or let *)
(* go. *)
LEMMA HandsOn ==
  ASSUME TypeOK, LandingInv,
         \A h \in Handlers :
           \/ RunOf(h)' = RunOf(h) /\ handler'[h].output = handler[h].output
           \/ handler'[h] = Free,
         \A t \in Starters : starter'[t].run \in {starter[t].run, NoRun},
         \A r \in jobs' : \/ r \in jobs \/ \E t \in Starters : starter[t].run = r
                          \/ \E h \in Handlers : RunOf(h) = r /\ Job(h)
  PROVE  SameOutput'
<1>1. \A h \in Handlers : RunOf(h) = NoRun => handler[h].output = NoRun
  <2>1. \A h \in Handlers : RunOf(h) = NoRun => RunOf(h) \notin DOMAIN runs
    BY DEF TypeOK, NoRun
  <2> QED BY <2>1 DEF LandingInv, HandlerKnows, Free
<1>2. \A h \in Handlers : handler'[h] = Free => RunOf(h)' = NoRun /\ handler'[h].output = NoRun
  BY DEF RunOf, Free
<1>3. \A g, h \in Handlers : RunOf(g)' = RunOf(h)' => handler'[g].output = handler'[h].output
  BY <1>1, <1>2 DEF LandingInv, SameOutput
<1>4. \A h \in Handlers : RunOf(h) \in jobs' => Job(h)
  BY DEF LandingInv, SameOutput, Job
<1>5. \A h \in Handlers : RunOf(h)' \in jobs' => Job(h)'
  BY <1>2, <1>4 DEF Job
<1>6. \A h \in Handlers, t \in Starters : RunOf(h)' = starter'[t].run => Job(h)'
  BY <1>1, <1>2 DEF LandingInv, SameOutput, Job
<1> QED BY <1>3, <1>5, <1>6 DEF SameOutput

(* Its parts make the invariant. *)
LEMMA Parts ==
  ASSUME Unmoved, SameOutput',
         \A t \in Starters : StarterKnows(t)', \A h \in Handlers : HandlerKnows(h)'
  PROVE  LandingInv'
  BY DEF Unmoved, LandingInv

LEMMA StarterKeeps ==
  ASSUME TypeOK, LandingInv, NEW t \in Starters, StarterStep(t)
  PROVE  LandingInv'
<1> USE DEF layerVars
<1>1. UNCHANGED <<layer, writer, edited, handler, sending>>
  BY DEF StarterStep, TickOpens, RunNow, CheckSlot, InsertRun, InsertRefused, Enqueue,
         EnqueueFails, CancelQueued, StarterStops
<1>3. starter[t] \in StarterType /\ Len(runs) \in Nat
  BY DEF TypeOK
<1>4. Idle.run = NoRun /\ Idle.pc = "idle" /\ NoRun <= Len(runs)
  BY <1>3 DEF Idle, NoRun
<1>5. CASE InsertRun(t)
  <2> DEFINE next == [starter[t] EXCEPT !.pc = "enqueue", !.run = Len(runs')]
  <2>1. Inserted /\ Len(runs) + 1 # NoRun
    <3>1. starter[t].by \in Triggers
      BY <1>3, <1>5 DEF InsertRun, LandingInv, StarterKnows, StarterType
    <3> QED BY <1>3, <1>5, <3>1, InsertRow DEF InsertRun, NoRun
  <2>2. Unmoved BY <1>1, <2>1, InsertKeeps
  <2>3. starter' = [starter EXCEPT ![t] = next] BY <1>5 DEF InsertRun
  <2>4. next \in StarterType /\ next.pc = "enqueue" /\ next.run = Len(runs')
    <3>1. Len(runs') \in Nat BY <2>1 DEF Inserted
    <3> QED BY <1>3, <3>1 DEF StarterType
  <2> HIDE DEF next
  <2>5. starter'[t] = next /\ \A u \in Starters : u # t => starter'[u] = starter[u]
    BY <2>3, <2>4, StarterSet
  <2>6. Len(runs') = Len(runs) + 1 /\ Len(runs) + 1 \notin DOMAIN runs
    BY <2>1 DEF Inserted
  <2>7. StarterKnows(t)' BY <1>3, <2>1, <2>4, <2>5, <2>6 DEF StarterKnows
  <2>8. \A h \in Handlers : RunOf(h) # Len(runs) + 1
    BY <2>1, <2>6 DEF LandingInv, HandlerKnows, RunOf, Free
  <2>9. SameOutput'
    <3>1. UNCHANGED jobs BY <1>5 DEF InsertRun
    <3>2. \A h \in Handlers, u \in Starters : RunOf(h) = starter'[u].run => Job(h)
      BY <2>4, <2>5, <2>6, <2>8 DEF LandingInv, SameOutput
    <3> QED BY <1>1, <3>1, <3>2 DEF LandingInv, SameOutput, RunOf, Job
  <2> QED BY <1>1, <2>2, <2>5, <2>7, <2>9, Parts DEF Unmoved
<1>6. CASE ~InsertRun(t)
  <2>1. Settles
    <3>1. CASE CancelQueued(t) /\ runs[starter[t].run].status = "queued"
      <4>1. starter[t].run \in DOMAIN runs BY <3>1, Named DEF CancelQueued
      <4> QED BY <3>1, <4>1, EndRun DEF CancelQueued, Ended, Settles
    <3> QED
      BY <1>6, <3>1
      DEF StarterStep, TickOpens, RunNow, CheckSlot, InsertRefused, Enqueue, EnqueueFails,
          CancelQueued, StarterStops, Settles
  <2>2. Unmoved BY <1>1, <2>1, SettlesKeeps
  <2>3. \A u \in Starters : u # t => starter'[u] = starter[u]
    BY <1>6
    DEF StarterStep, TickOpens, RunNow, CheckSlot, InsertRefused, Enqueue, EnqueueFails,
        CancelQueued, StarterStops, Call, StarterIdle, TypeOK
  <2>4. \/ starter'[t] = starter[t] \/ starter'[t] = Idle
        \/ starter'[t].pc \in {"slot", "insert"} /\ starter'[t].by # "none"
           /\ starter'[t].run \in {NoRun, starter[t].run}
        \/ EnqueueFails(t) /\ starter'[t].pc = "cancel" /\ starter'[t].run = starter[t].run
    <3>1. CASE TickOpens(t)
      <4> DEFINE next == [Idle EXCEPT !.pc = "slot", !.by = "schedule"]
      <4>1. next.pc = "slot" /\ next.by = "schedule" /\ next.run = NoRun BY DEF Idle
      <4>2. starter' = [starter EXCEPT ![t] = next] BY <3>1 DEF TickOpens
      <4> HIDE DEF next
      <4> QED BY <4>1, <4>2 DEF TypeOK
    <3>2. CASE RunNow(t)
      <4> DEFINE next == [Idle EXCEPT !.pc = "insert", !.by = "manual"]
      <4>1. next.pc = "insert" /\ next.by = "manual" /\ next.run = NoRun BY DEF Idle
      <4>2. starter' = [starter EXCEPT ![t] = next] BY <3>2 DEF RunNow
      <4> HIDE DEF next
      <4> QED BY <4>1, <4>2 DEF TypeOK
    <3>3. CASE CheckSlot(t)
      <4>1. CASE StarterIdle(t) BY <4>1 DEF StarterIdle, TypeOK
      <4>2. CASE Call(t, "insert")
        <5> DEFINE next == [starter[t] EXCEPT !.pc = "insert"]
        <5>1. next.pc = "insert" /\ next.by = starter[t].by /\ next.run = starter[t].run
          BY <1>3 DEF StarterType
        <5>2. starter' = [starter EXCEPT ![t] = next] BY <4>2 DEF Call
        <5>3. starter[t].by # "none" BY <3>3 DEF CheckSlot, LandingInv, StarterKnows
        <5> HIDE DEF next
        <5> QED BY <5>1, <5>2, <5>3 DEF TypeOK
      <4> QED BY <3>3, <4>1, <4>2 DEF CheckSlot
    <3>4. CASE EnqueueFails(t) BY <3>4, StarterMoves DEF EnqueueFails
    <3>5. CASE InsertRefused(t) \/ Enqueue(t) \/ CancelQueued(t) \/ StarterStops(t)
      BY <3>5 DEF InsertRefused, Enqueue, CancelQueued, StarterStops, StarterIdle, TypeOK
    <3> QED BY <1>6, <3>1, <3>2, <3>3, <3>4, <3>5 DEF StarterStep
  <2>5. Len(runs') = Len(runs)
    BY <2>1 DEF Settles, Updated
  <2>6. StarterKnows(t)'
    <3>1. StarterKnows(t) BY DEF LandingInv
    <3>2. EnqueueFails(t) => starter[t].run # NoRun
      BY <3>1 DEF EnqueueFails, StarterKnows
    <3>3. starter'[t].run <= Len(runs')
      BY <1>4, <2>4, <2>5, <3>1 DEF StarterKnows
    <3> QED BY <1>4, <2>4, <3>1, <3>2, <3>3 DEF StarterKnows
  <2>7. SameOutput'
    <3>1. \A u \in Starters : starter'[u].run \in {starter[u].run, NoRun}
      BY <1>4, <2>3, <2>4
    <3>2. jobs' = jobs \/ jobs' = jobs \cup {starter[t].run}
      BY <1>6
      DEF StarterStep, TickOpens, RunNow, CheckSlot, InsertRefused, Enqueue, EnqueueFails,
          CancelQueued, StarterStops
    <3> QED BY <1>1, <3>1, <3>2, HandsOn DEF RunOf
  <2> QED BY <1>1, <2>2, <2>3, <2>6, <2>7, Parts DEF Unmoved
<1> QED BY <1>5, <1>6

(* A handler gets a run nobody else works on, or one others work on with   *)
(* the same output. *)
LEMMA TakeKeeps ==
  ASSUME TypeOK, LandingInv, NEW h \in Handlers, NEW r \in DOMAIN runs, Take(h, r)
  PROVE  LandingInv'
<1> DEFINE next == [pc |-> "start", run |-> r, output |-> r]
<1>1. r \in Nat /\ r # NoRun BY DEF TypeOK, NoRun
<1>2. next \in HandlerType /\ next.pc = "start" /\ next.run = r /\ next.output = r
  BY <1>1 DEF HandlerType
<1>3. handler' = handler \/ handler' = [handler EXCEPT ![h] = next]
  BY DEF Take
<1>4. r \in jobs /\ jobs' = jobs \ {r}
      /\ UNCHANGED <<runs, layer, writer, edited, starter, sending>>
  BY DEF Take, layerVars
<1> HIDE DEF next
<1>5. /\ \A g \in Handlers : g # h => handler'[g] = handler[g]
      /\ handler'[h] = handler[h] \/ handler'[h] = next
  BY <1>2, <1>3, HandlerSet
<1>6. Unmoved BY <1>4, SettlesKeeps DEF Settles
<1>7. HandlerKnows(h)'
  BY <1>1, <1>2, <1>4, <1>5, <1>6 DEF Unmoved, HandlerKnows, RunOf
<1>8. \A g \in Handlers :
        RunOf(g)' = r \/ handler'[g] = handler[g]
  BY <1>2, <1>5 DEF RunOf
<1>9. \A g \in Handlers : RunOf(g) = r => handler[g].output = r
  BY <1>4 DEF LandingInv, SameOutput, Job
<1>10. \A g \in Handlers : \/ handler'[g] = handler[g]
                           \/ RunOf(g)' = r /\ handler'[g].output = r
  BY <1>2, <1>5 DEF RunOf
<1>11. SameOutput'
  <2>1. \A f, g \in Handlers : RunOf(f)' = RunOf(g)' => handler'[f].output = handler'[g].output
    BY <1>9, <1>10 DEF LandingInv, SameOutput, RunOf
  <2>2. \A g \in Handlers : RunOf(g)' \in jobs' => Job(g)'
    BY <1>4, <1>10 DEF LandingInv, SameOutput, RunOf, Job
  <2>3. \A g \in Handlers, t \in Starters : RunOf(g)' = starter'[t].run => Job(g)'
    BY <1>4, <1>10 DEF LandingInv, SameOutput, RunOf, Job
  <2> QED BY <2>1, <2>2, <2>3 DEF SameOutput
<1> QED BY <1>4, <1>5, <1>6, <1>7, <1>11, Parts DEF Unmoved

LEMMA RevertKeeps ==
  ASSUME TypeOK, LandingInv, NEW h \in Handlers, Revert(h)
  PROVE  LandingInv'
<1> PICK src \in With("complete") :
      handler' = [handler EXCEPT ![h] =
        [pc |-> "start", run |-> Len(runs) + 1, output |-> runs[src].output]]
  BY DEF Revert
<1> DEFINE n == Len(runs) + 1
           next == [pc |-> "start", run |-> n, output |-> runs[src].output]
<1>1. Inserted /\ n \in Nat /\ n # NoRun
  BY InsertRow DEF Revert, Triggers, TypeOK, NoRun
<1>2. src \in DOMAIN runs /\ runs[src] \in RunType /\ runs[src].output # NoRun
  BY DEF With, LandingInv, OutputsReal, TypeOK
<1>3. next \in HandlerType /\ next.pc = "start" /\ next.run = n
      /\ next.output = runs[src].output
  BY <1>1, <1>2 DEF HandlerType, RunType
<1>4. UNCHANGED <<layer, writer, edited, jobs, starter, sending>>
  BY DEF Revert, layerVars
<1>5. DOMAIN runs' = DOMAIN runs \cup {n} /\ n \notin DOMAIN runs
  BY <1>1 DEF Inserted
<1>6. Unmoved BY <1>1, <1>4, InsertKeeps
<1>7. \A t \in Starters : starter[t].run # n
  BY DEF TypeOK, StarterType, LandingInv, StarterKnows
<1>8. handler' = [handler EXCEPT ![h] = next]
  OBVIOUS
<1> HIDE DEF n, next
<1>9. handler'[h] = next /\ \A g \in Handlers : g # h => handler'[g] = handler[g]
  BY <1>3, <1>8, HandlerSet
<1>10. HandlerKnows(h)'
  BY <1>1, <1>2, <1>3, <1>5, <1>9 DEF HandlerKnows, RunOf
<1>11. \A g \in Handlers : RunOf(g) # n
  BY <1>1, <1>5 DEF LandingInv, HandlerKnows, RunOf, Free
<1>12. n \notin jobs
  BY <1>5 DEF TypeOK
<1>13. SameOutput'
  <2>1. \A f, g \in Handlers : RunOf(f)' = RunOf(g)' => handler'[f].output = handler'[g].output
    BY <1>3, <1>9, <1>11 DEF LandingInv, SameOutput, RunOf
  <2>2. \A g \in Handlers : RunOf(g)' \in jobs' => Job(g)'
    BY <1>3, <1>4, <1>9, <1>12 DEF LandingInv, SameOutput, RunOf, Job
  <2>3. \A g \in Handlers, t \in Starters : RunOf(g)' = starter'[t].run => Job(g)'
    BY <1>3, <1>4, <1>7, <1>9 DEF LandingInv, SameOutput, RunOf, Job
  <2> QED BY <2>1, <2>2, <2>3 DEF SameOutput
<1> QED BY <1>4, <1>6, <1>9, <1>10, <1>13, Parts DEF Unmoved

LEMMA HandlerKeeps ==
  ASSUME TypeOK, LandingInv, NEW h \in Handlers, HandlerStep(h),
         ~Revert(h), \A r \in DOMAIN runs : ~Take(h, r)
  PROVE  LandingInv'
<1> USE DEF layerVars
<1>1. UNCHANGED <<starter, sending>>
  BY DEF HandlerStep, Start, CheckOpen, Write, WriteUnheard, WriteRefused, Complete, Fail,
         WorkFails, Failed, Crash, Redeliver
<1>2. handler[h].pc # "idle" /\ RunOf(h) \in DOMAIN runs
  <2>1. handler[h].pc # "idle"
    BY DEF HandlerStep, Start, CheckOpen, Write, WriteUnheard, WriteRefused, Complete, Fail,
           WorkFails, Crash, Redeliver
  <2> QED BY <2>1, Named
<1>3. HandlerKnows(h) BY DEF LandingInv
<1>4. \A pc \in {"write", "land", "complete", "fail"} : Proceed(h, pc) =>
        /\ handler'[h].pc = pc /\ RunOf(h)' = RunOf(h)
        /\ handler'[h].output = handler[h].output
        /\ \A g \in Handlers : g # h => handler'[g] = handler[g]
  BY HandlerMoves DEF RunOf
<1>5. HandlerFree(h) => /\ handler'[h] = Free /\ HandlerKnows(h)'
                        /\ \A g \in Handlers : g # h => handler'[g] = handler[g]
  <2>1. HandlerFree(h) => /\ handler'[h] = Free
                          /\ \A g \in Handlers : g # h => handler'[g] = handler[g]
    BY HandlerSet, Resting DEF HandlerFree
  <2> QED BY <2>1 DEF HandlerKnows, Free
<1>6. Unmoved /\ (handler' = handler \/ HandlerFree(h)
                  \/ \E pc \in {"write", "land", "complete", "fail"} : Proceed(h, pc))
      /\ HandlerKnows(h)'
  <2>1. CASE Start(h)
    <3>1. Settles /\ Len(runs') = Len(runs) /\ DOMAIN runs' = DOMAIN runs
          /\ runs'[RunOf(h)].status # "queued"
      BY <1>2, <2>1, EndRun DEF Start, Settles, InFlight, Updated
    <3>2. Unmoved BY <2>1, <3>1, SettlesKeeps DEF Start
    <3>3. HandlerFree(h) \/ Proceed(h, "write") BY <2>1 DEF Start
    <3>4. HandlerKnows(h)' BY <1>2, <1>3, <1>4, <1>5, <3>1, <3>3 DEF HandlerKnows, RunOf
    <3> QED BY <2>1, <3>2, <3>3, <3>4 DEF Start
  <2>2. CASE Write(h) \/ WriteUnheard(h)
    <3>1. /\ handler[h].pc = "land" /\ Writable(RunOf(h)) /\ Land(h)
          /\ UNCHANGED <<runs, sending>>
      BY <2>2 DEF Write, WriteUnheard
    <3>2. Unmoved BY <3>1, LandKeeps
    <3>3. Proceed(h, "complete") \/ Proceed(h, "fail") BY <2>2 DEF Write, WriteUnheard
    <3>4. HandlerKnows(h)' BY <1>2, <1>3, <1>4, <3>1, <3>3 DEF HandlerKnows, RunOf, Land
    <3> QED BY <3>2, <3>3, <3>4
  <2>3. CASE WriteRefused(h)
    <3>1. Unmoved BY <2>3, SettlesKeeps DEF WriteRefused, Settles
    <3>2. ~Running(h)
      <4>1. Running(h) => RunOf(h) = Len(runs)
        BY <1>2 DEF Running, LandingInv, LatestInFlight, InFlight
      <4>2. Running(h) => ~Superseded(RunOf(h))
        <5>1. \A n \in DOMAIN runs : ~(n > Len(runs)) BY DEF TypeOK
        <5> QED BY <4>1, <5>1 DEF Superseded, With
      <4> QED BY <2>3, <4>2 DEF WriteRefused, Writable, Running
    <3>3. Proceed(h, "fail") BY <2>3, <3>2 DEF WriteRefused
    <3>4. HandlerKnows(h)'
      BY <1>2, <1>3, <1>4, <2>3, <3>3 DEF WriteRefused, HandlerKnows, RunOf
    <3> QED BY <2>3, <3>1, <3>3, <3>4 DEF WriteRefused
  <2>4. CASE Complete(h)
    BY <1>5, <2>4, CompleteKeeps DEF Complete
  <2>5. CASE Fail(h) \/ WorkFails(h)
    <3> PICK failure \in {"cost_cap", "other"} : Failed(h, failure)
      BY <2>5 DEF Fail, WorkFails
    <3>1. Settles BY <1>2, EndRun DEF Failed, Settles, Ended
    <3> QED BY <1>5, <3>1, SettlesKeeps DEF Failed
  <2>6. CASE Crash(h)
    BY <1>5, <2>6, SettlesKeeps DEF Crash, Settles
  <2>7. CASE Redeliver(h)
    <3>1. Unmoved BY <2>7, SettlesKeeps DEF Redeliver, Settles
    <3> QED BY <2>7, <3>1 DEF Redeliver, Unmoved
  <2>8. CASE CheckOpen(h)
    <3>1. Unmoved BY <2>8, SettlesKeeps DEF CheckOpen, Settles
    <3>2. (Proceed(h, "land") /\ Open) \/ Proceed(h, "fail") BY <2>8 DEF CheckOpen
    <3>3. HandlerKnows(h)'
      BY <1>1, <1>2, <1>3, <1>4, <2>8, <3>2 DEF CheckOpen, HandlerKnows, RunOf, Open
    <3> QED BY <3>1, <3>2, <3>3
  <2> QED BY <2>1, <2>2, <2>3, <2>4, <2>5, <2>6, <2>7, <2>8 DEF HandlerStep
<1>7. \A g \in Handlers : g # h => handler'[g] = handler[g]
  BY <1>4, <1>5, <1>6
<1>8. SameOutput'
  <2>1. \A g \in Handlers :
          \/ RunOf(g)' = RunOf(g) /\ handler'[g].output = handler[g].output
          \/ handler'[g] = Free
    BY <1>4, <1>5, <1>6 DEF RunOf
  <2>2. \/ jobs' = jobs
        \/ Job(h) /\ jobs' = jobs \cup {RunOf(h)}
    BY DEF HandlerStep, Start, CheckOpen, Write, WriteUnheard, WriteRefused, Complete, Fail,
           WorkFails, Failed, Crash, Redeliver
  <2> QED BY <1>1, <2>1, <2>2, HandsOn
<1> QED BY <1>1, <1>6, <1>7, <1>8, Parts DEF Unmoved

(* A send starts only when no run is in flight, so every handler about to  *)
(* land finds its run ended; and an editor's write is told apart.          *)
LEMMA OutsideKeeps ==
  ASSUME TypeOK, LandingInv, StartSending \/ SendGoesOn \/ EditorWrites
  PROVE  LandingInv'
<1>1. UNCHANGED <<runs, writer, jobs, starter, handler>>
  BY DEF StartSending, SendGoesOn, EditorWrites, layerVars
<1>2. (layer' = layer /\ edited' = edited) \/ edited' = TRUE
  BY DEF StartSending, SendGoesOn, EditorWrites, layerVars
<1>3. LatestInFlight' /\ OutputsReal' /\ NewestWins' /\ SameOutput'
  BY <1>1, <1>2 DEF LandingInv, LatestInFlight, OutputsReal, NewestWins, SameOutput, With, RunOf,
     Job
<1>4. \A t \in Starters : StarterKnows(t)'
  BY <1>1 DEF LandingInv, StarterKnows
<1>5. ASSUME NEW h \in Handlers, handler[h].pc = "land", Running(h) PROVE sending' = "no"
  <2>1. sending = "no"
    BY <1>5 DEF LandingInv, HandlerKnows
  <2>2. RunOf(h) \in DOMAIN runs /\ runs[RunOf(h)].status = "running"
    BY <1>5 DEF LandingInv, HandlerKnows, Running
  <2>3. runs[Len(runs)].status = "running"
    BY <2>2 DEF LandingInv, LatestInFlight, InFlight
  <2>4. ~StartSending
    BY <2>3 DEF StartSending, Gate, InFlight
  <2> QED BY <2>1, <2>4 DEF SendGoesOn, EditorWrites
<1>6. ASSUME NEW h \in Handlers PROVE HandlerKnows(h)'
  <2>1. HandlerKnows(h) BY DEF LandingInv
  <2> QED BY <1>1, <1>2, <1>5, <2>1 DEF HandlerKnows, RunOf, Running
<1> QED BY <1>3, <1>4, <1>6 DEF LandingInv

(* Sweeps and cancels end a run.                                           *)
LEMMA WorldKeeps ==
  ASSUME TypeOK, LandingInv,
         \/ \E r \in DOMAIN runs : SweepStale(r) \/ SweepOrphan(r) \/ AdminCancels(r)
         \/ UNCHANGED vars
  PROVE  LandingInv'
<1>1. UNCHANGED <<layer, writer, edited, jobs, starter, handler, sending>>
  BY DEF SweepStale, SweepOrphan, AdminCancels, vars, layerVars
<1>2. Settles
  <2>1. ASSUME NEW r \in DOMAIN runs, SweepStale(r) PROVE Settles
    BY <2>1, EndRun DEF SweepStale, Settles, Ended
  <2>2. ASSUME NEW r \in DOMAIN runs, SweepOrphan(r) PROVE Settles
    BY <2>2, EndRun DEF SweepOrphan, Settles, Ended
  <2>3. ASSUME NEW r \in DOMAIN runs, AdminCancels(r) PROVE Settles
    BY <2>3, EndRun DEF AdminCancels, Settles, Ended
  <2>4. CASE UNCHANGED vars
    BY <2>4 DEF vars, Settles
  <2> QED BY <2>1, <2>2, <2>3, <2>4
<1>3. Unmoved BY <1>1, <1>2, SettlesKeeps
<1>4. SameOutput'
  BY <1>1 DEF LandingInv, SameOutput, RunOf, Job
<1> QED BY <1>1, <1>3, <1>4, Parts DEF Unmoved

LEMMA LandingInit == Init => LandingInv
<1> SUFFICES ASSUME Init PROVE LandingInv
  OBVIOUS
<1>1. DOMAIN runs = {} /\ Len(runs) = 0
  BY DEF Init
<1>2. ASSUME NEW t \in Starters PROVE StarterKnows(t)
  <2>1. starter[t].pc = "idle" /\ starter[t].run = 0
    BY DEF Init, Idle, NoRun
  <2> QED BY <1>1, <2>1 DEF StarterKnows
<1>3. \A h \in Handlers : HandlerKnows(h)
  BY DEF Init, HandlerKnows, Free
<1>4. LatestInFlight /\ NewestWins /\ OutputsReal
  BY <1>1 DEF Init, LatestInFlight, NewestWins, OutputsReal, With, NoRun
<1>5. SameOutput
  BY DEF Init, SameOutput, RunOf, Job, Free, Idle
<1> QED
  BY <1>2, <1>3, <1>4, <1>5 DEF LandingInv

(* Only the newest run is ever in flight, whoever works on a run carries   *)
(* its output, what is about to complete was the last to write the layer,  *)
(* and what is about to land ends first if a send starts, for any number   *)
(* of ticks, handlers, runs, crashes, sweeps, redeliveries and edits.      *)
THEOREM LandingHolds == Spec => [](TypeOK /\ LandingInv)
<1>1. Init => TypeOK /\ LandingInv BY TypeInit, LandingInit
<1>2. (TypeOK /\ LandingInv) /\ [Next]_vars => (TypeOK /\ LandingInv)'
  <2> SUFFICES ASSUME TypeOK, LandingInv, [Next]_vars PROVE TypeOK' /\ LandingInv'
    OBVIOUS
  <2>1. TypeOK' BY TypeStep
  <2>2. ASSUME NEW h \in Handlers, HandlerStep(h) PROVE LandingInv'
    BY <2>2, TakeKeeps, RevertKeeps, HandlerKeeps
  <2>3. LandingInv' BY <2>2, StarterKeeps, WorldKeeps, OutsideKeeps DEF Next
  <2> QED BY <2>1, <2>3
<1> QED BY <1>1, <1>2, PTL DEF Spec

(* The runs, the layer, the queue and every handler hold values of their   *)
(* type.                                                                   *)
THEOREM RunTypes == Spec => []TypeOK
BY LandingHolds, PTL

(* No older run ever writes over the output of a newer one that completed; *)
(* where no editor has written since, the layer is that output.            *)
THEOREM NewerRunWins == Spec => []NewestWins
<1>1. LandingInv => NewestWins BY DEF LandingInv
<1> QED BY <1>1, LandingHolds, PTL

(* A run that was cancelled, swept or failed never writes the layer        *)
(* afterwards, however late its worker comes.                              *)
THEOREM LateWorkerIsRefused == Spec => EndedNeverLands
<1> DEFINE Stays == \A r \in DOMAIN runs :
                      runs[r].status \in Ended /\ writer # r => writer' # r
<1>1. [Next]_vars => [Stays]_vars
  <2> SUFFICES ASSUME Next PROVE Stays
    OBVIOUS
  <2>1. ASSUME NEW h \in Handlers, Write(h) \/ WriteUnheard(h) PROVE Stays
    BY <2>1 DEF Write, WriteUnheard, Writable, Land, Ended
  <2>2. CASE UNCHANGED writer
    BY <2>2
  <2>3. UNCHANGED writer \/ \E h \in Handlers : Write(h) \/ WriteUnheard(h)
    <3>1. ASSUME NEW t \in Starters, StarterStep(t) PROVE UNCHANGED writer
      BY <3>1
      DEF StarterStep, TickOpens, RunNow, CheckSlot, InsertRun, InsertRefused, Enqueue,
          EnqueueFails, CancelQueued, StarterStops, layerVars
    <3>2. ASSUME NEW h \in Handlers, HandlerStep(h)
          PROVE  UNCHANGED writer \/ Write(h) \/ WriteUnheard(h)
      BY <3>2
      DEF HandlerStep, Take, Revert, Start, CheckOpen, WriteRefused, Complete, Fail, WorkFails,
          Failed, Crash, Redeliver, layerVars
    <3> QED
      BY <3>1, <3>2
      DEF Next, SweepStale, SweepOrphan, AdminCancels, StartSending, SendGoesOn, EditorWrites,
          layerVars
  <2> QED BY <2>1, <2>2, <2>3
<1> QED BY <1>1, PTL DEF Spec, EndedNeverLands

(* Once a send has started no run writes the layer.  A handler that found  *)
(* the edition open and is about to land holds no lock that stops the      *)
(* send; but its run is in flight then, which keeps the gate shut, or has  *)
(* ended, which refuses the write.                                         *)
THEOREM ResearchIsOver == Spec => ResearchStops
<1> DEFINE Stops == sending # "no" => writer' = writer /\ (layer' # layer => edited')
<1>1. LandingInv /\ [Next]_vars => [Stops]_vars
  <2> SUFFICES ASSUME LandingInv, Next, sending # "no" PROVE Stops
    OBVIOUS
  <2>1. ASSUME NEW h \in Handlers PROVE ~Write(h) /\ ~WriteUnheard(h)
    BY DEF Write, WriteUnheard, Writable, LandingInv, HandlerKnows, Running
  <2>2. ASSUME NEW t \in Starters, StarterStep(t) PROVE Stops
    BY <2>2
    DEF StarterStep, TickOpens, RunNow, CheckSlot, InsertRun, InsertRefused, Enqueue,
        EnqueueFails, CancelQueued, StarterStops, layerVars
  <2>3. ASSUME NEW h \in Handlers, HandlerStep(h) PROVE Stops
    BY <2>1, <2>3
    DEF HandlerStep, Take, Revert, Start, CheckOpen, WriteRefused, Complete, Fail, WorkFails,
        Failed, Crash, Redeliver, layerVars
  <2>4. CASE EditorWrites
    BY <2>4 DEF EditorWrites
  <2> QED
    BY <2>2, <2>3, <2>4
    DEF Next, SweepStale, SweepOrphan, AdminCancels, StartSending, SendGoesOn, layerVars
<1> QED BY <1>1, LandingHolds, PTL DEF Spec, ResearchStops
=============================================================================
