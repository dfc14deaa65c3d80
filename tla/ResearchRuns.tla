---------------------------- MODULE ResearchRuns ----------------------------
(***************************************************************************)
(* The research runs of one block of one edition whose research time has   *)
(* passed.  Overlapping ticks of the due cron and the run-now route insert *)
(* a row and then queue its job; job handlers and the revert route start   *)
(* the run, write its output into the block and record the completion, one *)
(* call at a time; sweeps and admins end runs meanwhile; editors save and   *)
(* restore the whole edition; the send gate reads the runs, and once the   *)
(* edition goes out research is over.  Runs are numbered by seq.           *)
(***************************************************************************)
EXTENDS Integers, Sequences

CONSTANTS
  Starters,   \* ticks of the cron and run-now requests under way at once
  Handlers,   \* job handlers and revert requests under way at once
  MaxEvents   \* bound: what admins ask for, and faults: crashes, redeliveries,
              \*   failed calls and runs, slow processes

ASSUME ResearchAssumption == MaxEvents \in Nat

VARIABLES
  runs,       \* newsletters_research_runs, by seq
  layer,      \* the research layer of the block: the run whose output it is
  past,       \* the layers it has had, in revisions and on editors' pages
  jobs,       \* runs with a delivery waiting in the queue
  starter,    \* per starter: the call it makes next, for which trigger and run
  handler,    \* per handler: the call it makes next, its run and its output
  sending,    \* "no", "started" (a send is sending), "out" (someone was mailed)
  writer,     \* history: the run that wrote the layer last,
  edited,     \*   and whether an editor has written it since
  events

layerVars == <<layer, past, writer, edited>>
vars == <<runs, layerVars, jobs, starter, handler, sending, events>>

NoRun    == 0
InFlight == {"queued", "running"}
Ended    == {"complete", "failed", "cancelled"}

Idle == [pc |-> "idle", by |-> "none", run |-> NoRun]
Free == [pc |-> "idle", run |-> NoRun, output |-> NoRun]

Init ==
  /\ runs = <<>> /\ layer = NoRun /\ jobs = {}
  /\ starter = [t \in Starters |-> Idle] /\ handler = [h \in Handlers |-> Free]
  /\ past = {NoRun} /\ writer = NoRun /\ edited = FALSE
  /\ sending = "no" /\ events = 0

Ask == events < MaxEvents /\ events' = events + 1
Fault == events < MaxEvents /\ events' = events + 1

With(status) == {r \in DOMAIN runs : runs[r].status = status}

(* newsletters_edition_research_open.                                      *)
OpenUntilMailed == sending # "out"                                \* mutant
Open == sending = "no"

(* newsletters_research_runs_one_inflight.                                 *)
SlotFreeUnchecked == TRUE                                         \* mutant
SlotFree == \A r \in DOMAIN runs : runs[r].status \notin InFlight

NewRun(by) == [status |-> "queued", failure |-> "none", by |-> by, output |-> NoRun]
Insert(by) == SlotFree /\ runs' = Append(runs, NewRun(by))

(* Every update of the status goes from one the guard trigger allows.      *)
End(r, status, failure) ==
  runs' = [runs EXCEPT ![r] = [@ EXCEPT !.status = status, !.failure = failure]]

-----------------------------------------------------------------------------
(* Starting runs: research-due.ts and the run-now route.                   *)

Call(t, pc) == starter' = [starter EXCEPT ![t].pc = pc]
StarterIdle(t) == starter' = [starter EXCEPT ![t] = Idle]

TickOpens(t) ==
  /\ starter[t].pc = "idle" /\ Open
  /\ starter' = [starter EXCEPT ![t] = [Idle EXCEPT !.pc = "slot", !.by = "schedule"]]
  /\ UNCHANGED <<runs, layerVars, jobs, handler, sending, events>>

RunNow(t) ==
  /\ starter[t].pc = "idle" /\ Open /\ Ask
  /\ starter' = [starter EXCEPT ![t] = [Idle EXCEPT !.pc = "insert", !.by = "manual"]]
  /\ UNCHANGED <<runs, layerVars, jobs, handler, sending>>

(* A run the system cancelled carries a failure kind: its slot is retried. *)
CountsAlways(r) == runs[r].by = "schedule"                        \* mutant
Counts(r) ==
  runs[r].by = "schedule" /\ ~(runs[r].status = "cancelled" /\ runs[r].failure # "none")

CheckSlot(t) ==
  /\ starter[t].pc = "slot"
  /\ IF \E r \in DOMAIN runs : Counts(r) THEN StarterIdle(t) ELSE Call(t, "insert")
  /\ UNCHANGED <<runs, layerVars, jobs, handler, sending, events>>

InsertRun(t) ==
  /\ starter[t].pc = "insert"
  /\ Insert(starter[t].by)
  /\ starter' = [starter EXCEPT ![t].pc = "enqueue", ![t].run = Len(runs')]
  /\ UNCHANGED <<layerVars, jobs, handler, sending, events>>

(* The unique index refuses the row: a run is already in flight.           *)
InsertRefused(t) ==
  /\ starter[t].pc = "insert" /\ ~SlotFree
  /\ StarterIdle(t)
  /\ UNCHANGED <<runs, layerVars, jobs, handler, sending, events>>

Enqueue(t) ==
  /\ starter[t].pc = "enqueue"
  /\ jobs' = jobs \cup {starter[t].run}
  /\ StarterIdle(t)
  /\ UNCHANGED <<runs, layerVars, handler, sending, events>>

(* An error, although the job may be in the queue.                         *)
EnqueueFails(t) ==
  /\ starter[t].pc = "enqueue" /\ Fault
  /\ jobs' \in {jobs, jobs \cup {starter[t].run}}
  /\ Call(t, "cancel")
  /\ UNCHANGED <<runs, layerVars, handler, sending>>

CancelQueued(t) ==
  /\ starter[t].pc = "cancel"
  /\ IF runs[starter[t].run].status = "queued"
     THEN End(starter[t].run, "cancelled", "other") ELSE UNCHANGED runs
  /\ StarterIdle(t)
  /\ UNCHANGED <<layerVars, jobs, handler, sending, events>>

(* The process dies, or the call fails and the tick goes on without it.    *)
StarterStops(t) ==
  /\ starter[t].pc # "idle" /\ Fault
  /\ StarterIdle(t)
  /\ UNCHANGED <<runs, layerVars, jobs, handler, sending>>

-----------------------------------------------------------------------------
(* One run: research-run.ts, and the revert route, which does the same     *)
(* with the output of an earlier run and without a job.                    *)

Proceed(h, pc) == handler' = [handler EXCEPT ![h].pc = pc]
HandlerFree(h) == handler' = [handler EXCEPT ![h] = Free]
RunOf(h) == handler[h].run
Running(h) == runs[RunOf(h)].status = "running"
Job(h) == RunOf(h) = handler[h].output

(* A delivery of a run that is not queued any more is skipped.             *)
Take(h, r) ==
  /\ handler[h].pc = "idle" /\ r \in jobs
  /\ jobs' = jobs \ {r}
  /\ IF runs[r].status = "queued"
     THEN handler' = [handler EXCEPT ![h] = [pc |-> "start", run |-> r, output |-> r]]
     ELSE UNCHANGED handler
  /\ UNCHANGED <<runs, layerVars, starter, sending, events>>

Revert(h) ==
  /\ handler[h].pc = "idle" /\ Ask
  /\ \E src \in With("complete") :
       handler' = [handler EXCEPT ![h] =
         [pc |-> "start", run |-> Len(runs) + 1, output |-> runs[src].output]]
  /\ Insert("revert")
  /\ UNCHANGED <<layerVars, jobs, starter, sending>>

(* Only a queued run starts; a revert does not look whether it did.        *)
Start(h) ==
  /\ handler[h].pc = "start"
  /\ IF runs[RunOf(h)].status = "queued"
     THEN End(RunOf(h), "running", "none") /\ Proceed(h, "write")
     ELSE UNCHANGED runs /\ (IF Job(h) THEN HandlerFree(h) ELSE Proceed(h, "write"))
  /\ UNCHANGED <<layerVars, jobs, starter, sending, events>>

(* newsletters_research_write, one transaction: it locks the edition and   *)
(* asks whether it is open; then it locks the run, and lands the output.   *)
Unlocked == \A g \in Handlers : handler[g].pc # "land"

CheckOpen(h) ==
  /\ handler[h].pc = "write" /\ Unlocked
  /\ Proceed(h, IF Open THEN "land" ELSE "fail")
  /\ UNCHANGED <<runs, layerVars, jobs, starter, sending, events>>

Superseded(r) == \E n \in With("complete") : n > r
WritableWhateverStatus(r) == ~Superseded(r)                       \* mutant
Writable(r) == runs[r].status = "running" /\ ~Superseded(r)

Land(h) ==
  /\ layer' = handler[h].output /\ past' = past \cup {handler[h].output}
  /\ writer' = RunOf(h) /\ edited' = FALSE

Write(h) ==
  /\ handler[h].pc = "land" /\ Writable(RunOf(h))
  /\ Land(h) /\ Proceed(h, "complete")
  /\ UNCHANGED <<runs, jobs, starter, sending, events>>

(* The write commits and its reply is lost: an error like any other.       *)
WriteUnheard(h) ==
  /\ handler[h].pc = "land" /\ Writable(RunOf(h)) /\ Fault
  /\ Land(h) /\ Proceed(h, "fail")
  /\ UNCHANGED <<runs, jobs, starter, sending>>

(* Refused.  An output a newer run has overtaken still completes its job.  *)
WriteRefused(h) ==
  /\ handler[h].pc = "land" /\ ~Writable(RunOf(h))
  /\ Proceed(h, IF Running(h) /\ Job(h) THEN "complete" ELSE "fail")
  /\ UNCHANGED <<runs, layerVars, jobs, starter, sending, events>>

(* Only a run still running completes or fails; anything else is a no-op.  *)
Complete(h) ==
  /\ handler[h].pc = "complete"
  /\ IF Running(h)
     THEN runs' = [runs EXCEPT ![RunOf(h)] =
                     [@ EXCEPT !.status = "complete", !.output = handler[h].output]]
     ELSE UNCHANGED runs
  /\ HandlerFree(h)
  /\ UNCHANGED <<layerVars, jobs, starter, sending, events>>

Failed(h, failure) ==
  /\ IF Running(h) THEN End(RunOf(h), "failed", failure) ELSE UNCHANGED runs
  /\ HandlerFree(h)
  /\ UNCHANGED <<layerVars, jobs, starter, sending>>

Fail(h) == handler[h].pc = "fail" /\ Failed(h, "other") /\ UNCHANGED events

(* The input, a recipe or its output is at fault, or the cost cap is hit.  *)
WorkFails(h) ==
  /\ handler[h].pc = "write" /\ Job(h) /\ Fault
  /\ \E failure \in {"cost_cap", "other"} : Failed(h, failure)

(* The process dies; a job in hand may be delivered again.                 *)
Crash(h) ==
  /\ handler[h].pc # "idle" /\ Fault
  /\ \/ UNCHANGED jobs
     \/ Job(h) /\ jobs' = jobs \cup {RunOf(h)}
  /\ HandlerFree(h)
  /\ UNCHANGED <<runs, layerVars, starter, sending>>

(* The queue takes a slow handler for dead and delivers its job again.     *)
Redeliver(h) ==
  /\ handler[h].pc # "idle" /\ Job(h) /\ Fault
  /\ jobs' = jobs \cup {RunOf(h)}
  /\ UNCHANGED <<runs, layerVars, starter, handler, sending>>

-----------------------------------------------------------------------------
(* Whatever else ends a run, and the edition going out.                    *)

(* A process still has the run in hand: then it is over the sweep's limit  *)
(* only because that process is slow.                                      *)
InHand(r) ==
  \/ r \in jobs \/ \E h \in Handlers : RunOf(h) = r
  \/ \E t \in Starters : starter[t].run = r
SlowIfInHand(r) == IF InHand(r) THEN Fault ELSE UNCHANGED events

(* Running for 30 minutes: failed.                                         *)
SweepTimeout(r) ==                                                \* mutant
  /\ r \in With("running") /\ SlowIfInHand(r)
  /\ End(r, "failed", "timeout")
  /\ UNCHANGED <<layerVars, jobs, starter, handler, sending>>
SweepStale(r) ==
  /\ r \in With("running") /\ SlowIfInHand(r)
  /\ End(r, "failed", "stale")
  /\ UNCHANGED <<layerVars, jobs, starter, handler, sending>>

(* Queued for 10 minutes: cancelled.                                       *)
OrphansOfTheCron == {r \in With("queued") : runs[r].by = "schedule"}  \* mutant
Orphans == With("queued")
SweepOrphan(r) ==
  /\ r \in Orphans /\ SlowIfInHand(r)
  /\ End(r, "cancelled", "other")
  /\ UNCHANGED <<layerVars, jobs, starter, handler, sending>>

AdminCancels(r) ==
  /\ runs[r].status \in InFlight /\ Ask
  /\ End(r, "cancelled", "none")
  /\ UNCHANGED <<layerVars, jobs, starter, handler, sending>>

(* _newsletters_apply_blocks, for newsletters_save_edition (a page that is  *)
(* behind, or whose user undoes and pastes) and for the restore of a       *)
(* revision: the whole content of the block, the research field included,  *)
(* under the lock of the edition, and whether or not the edition is open.  *)
EditorWrites ==
  /\ Unlocked /\ Ask
  /\ layer' \in past /\ edited' = TRUE
  /\ UNCHANGED <<runs, past, writer, jobs, starter, handler, sending>>

(* The research part of newsletters_send_gate.                             *)
GateAnyComplete == With("complete") # {}                          \* mutant
Gate ==
  /\ With("complete") # {}
  /\ LET latest == runs[Len(runs)] IN
     latest.status \notin InFlight /\ ~(latest.status = "failed" /\ latest.failure = "cost_cap")

(* The gate is a trigger on the status: it is asked in the same step.      *)
StartSending ==
  /\ sending = "no" /\ Gate
  /\ sending' = "started"
  /\ UNCHANGED <<runs, layerVars, jobs, starter, handler, events>>

(* The first mail is out; or the send ends before that.                    *)
SendGoesOn ==
  /\ sending = "started"
  /\ \/ sending' = "out" /\ UNCHANGED events
     \/ sending' = "no" /\ Fault
  /\ UNCHANGED <<runs, layerVars, jobs, starter, handler>>

-----------------------------------------------------------------------------
StarterStep(t) ==
  \/ TickOpens(t) \/ RunNow(t) \/ CheckSlot(t) \/ InsertRun(t) \/ InsertRefused(t)
  \/ Enqueue(t) \/ EnqueueFails(t) \/ CancelQueued(t) \/ StarterStops(t)

HandlerStep(h) ==
  \/ \E r \in DOMAIN runs : Take(h, r)
  \/ Revert(h) \/ Start(h) \/ CheckOpen(h) \/ Write(h) \/ WriteUnheard(h) \/ WriteRefused(h)
  \/ Complete(h) \/ Fail(h) \/ WorkFails(h) \/ Crash(h) \/ Redeliver(h)

Next ==
  \/ \E t \in Starters : StarterStep(t)
  \/ \E h \in Handlers : HandlerStep(h)
  \/ \E r \in DOMAIN runs : SweepStale(r) \/ SweepOrphan(r) \/ AdminCancels(r)
  \/ EditorWrites \/ StartSending \/ SendGoesOn

Spec == Init /\ [][Next]_vars

(* The cron ticks every five minutes and sweeps; the queue delivers; calls *)
(* return.  Nothing is assumed of admins, or of the send.                  *)
Ticks(t) == TickOpens(t) \/ CheckSlot(t) \/ InsertRun(t) \/ InsertRefused(t)
            \/ Enqueue(t) \/ CancelQueued(t)
Works(h) == (\E r \in DOMAIN runs : Take(h, r))
            \/ Start(h) \/ CheckOpen(h) \/ Write(h) \/ WriteRefused(h)
            \/ Complete(h) \/ Fail(h)
Sweeps == \E r \in DOMAIN runs : ~InHand(r) /\ (SweepStale(r) \/ SweepOrphan(r))
FairSpec ==
  /\ Spec /\ WF_vars(Sweeps)
  /\ \A t \in Starters : WF_vars(Ticks(t))
  /\ \A h \in Handlers : WF_vars(Works(h))

-----------------------------------------------------------------------------
Triggers == {"schedule", "manual", "revert"}
RunType == [status : InFlight \cup Ended, failure : {"none", "cost_cap", "stale", "other"},
            by : Triggers, output : Nat]
StarterType == [pc : {"idle", "slot", "insert", "enqueue", "cancel"},
                by : {"none"} \cup Triggers, run : Nat]
HandlerType ==
  [pc : {"idle", "start", "write", "land", "complete", "fail"}, run : Nat, output : Nat]

(* The table, the queue and the processes hold values of their type.       *)
TypeOK ==
  /\ runs \in Seq(RunType) /\ jobs \subseteq DOMAIN runs
  /\ past \subseteq Nat /\ layer \in past /\ writer \in Nat /\ edited \in BOOLEAN
  /\ starter \in [Starters -> StarterType] /\ handler \in [Handlers -> HandlerType]
  /\ sending \in {"no", "started", "out"} /\ events \in Nat

(* No older run ever writes over the output of the newest completed run,   *)
(* however cancels, sweeps and late handlers fall; and where no editor has *)
(* written since, that output is the layer.  (093:13, "newer run wins")    *)
NewestWins ==
  \A n \in With("complete") : n <= writer /\ (n = writer /\ ~edited => layer = runs[n].output)

(* Why NewestWins and ResearchStops hold: only the newest run is ever in   *)
(* flight, so nothing overtakes it; whoever works on one run carries the   *)
(* same output; a handler about to complete a run that is still running    *)
(* was the last to write the layer; and a handler that found the edition   *)
(* open finds its run ended if a send has started since, because the gate  *)
(* lets none start while that run is in flight.                            *)
LatestInFlight == \A r \in DOMAIN runs : runs[r].status \in InFlight => r = Len(runs)
StarterKnows(t) ==
  /\ starter[t].run <= Len(runs)
  /\ starter[t].pc \in {"slot", "insert"} => starter[t].by # "none"
  /\ starter[t].pc \in {"enqueue", "cancel"} => starter[t].run # NoRun
HandlerKnows(h) ==
  /\ handler[h].pc = "idle" => handler[h] = Free
  /\ handler[h].pc # "idle" => RunOf(h) \in DOMAIN runs /\ handler[h].output # NoRun
  /\ handler[h].pc \in {"write", "land", "complete", "fail"} => runs[RunOf(h)].status # "queued"
  /\ handler[h].pc = "complete" /\ Running(h) =>
       writer = RunOf(h) /\ (~edited => layer = handler[h].output)
  /\ handler[h].pc = "land" /\ Running(h) => sending = "no"
SameOutput ==
  /\ \A g, h \in Handlers : RunOf(g) = RunOf(h) => handler[g].output = handler[h].output
  /\ \A h \in Handlers : RunOf(h) \in jobs => Job(h)
  /\ \A h \in Handlers, t \in Starters : RunOf(h) = starter[t].run => Job(h)
OutputsReal ==
  /\ \A r \in With("complete") : runs[r].output # NoRun
  /\ writer <= Len(runs)
LandingInv ==
  /\ LatestInFlight /\ SameOutput /\ OutputsReal /\ NewestWins
  /\ \A t \in Starters : StarterKnows(t)
  /\ \A h \in Handlers : HandlerKnows(h)

(* A run that was cancelled or swept does not land its output afterwards,  *)
(* however late its worker comes.  (093_research_runs.sql:112-113)         *)
EndedNeverLands ==
  [][\A r \in DOMAIN runs : runs[r].status \in Ended /\ writer # r => writer' # r]_vars

(* "research stops" (093:25): once a send has started no run writes the    *)
(* layer, also none that found the edition open before; what changes it    *)
(* then is an editor.                                                      *)
ResearchStops ==
  [][sending # "no" => writer' = writer /\ (layer' # layer => edited')]_vars

(* No run holds the one slot of the block for ever: a lost job, a dead     *)
(* worker or an unfinished revert is swept in the end.                     *)
NoRunHangs == []<>SlotFree

(* The slot is decided in the end, unless the edition goes out first: what *)
(* the system cancelled is tried again until a run completes or fails or   *)
(* an admin cancels it.                                                    *)
Decided(r) ==
  /\ runs[r].by = "schedule"
  /\ \/ runs[r].status \in {"complete", "failed"}
     \/ runs[r].status = "cancelled" /\ runs[r].failure = "none"
SlotDecided == <>(sending # "no" \/ \E r \in DOMAIN runs : Decided(r))
=============================================================================
