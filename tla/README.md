# Gatewaze modules: a TLA+ verification project

Gatewaze is a platform of about a hundred feature modules (newsletters, broadcasts, events, content,
publishing) over one Supabase/Postgres database. Most of them edit rows. The part with a protocol
of its own, and the part where a mistake cannot be taken back, is **sending**: who is on a send,
when it may start, that everyone on it gets one message and nobody two, that Pause and Stop take
hold, that a send ends, and what survives crashes, overlapping cron ticks and lost replies. Before
it comes what is sent: an edition that several editor sessions and research runs write to, and that
an approver has to have seen. This project models both.

- [1. The system](#1-the-system)
- [2. Modules and how they correspond to the code](#2-modules-and-how-they-correspond-to-the-code)
- [3. Runs](#3-runs)
- [4. Fairness](#4-fairness)
- [5. Proofs](#5-proofs)
- [6. Where the code and its comments disagree](#6-where-the-code-and-its-comments-disagree)
- [7. What is not modelled](#7-what-is-not-modelled)
- [8. Plan](#8-plan)
- [9. Running it](#9-running-it)

Paths are relative to the repository; `engine.ts` is
`modules/bulk-emailing/worker/send-engine/engine.ts`.

## 1. The system

A *send* (newsletter or broadcast) is created by an admin, scheduled, dispatched by one cron job
(its audience becomes recipient rows and its status becomes `sending`) and drained by another (the
*drip*, which posts rows in batches to a provider). Cron heartbeats fire every 60 seconds on every
worker replica, and a job may outlive its minute, so any two ticks of the same job may overlap.
All coordination is through the database.

| Component | State | Operations | Interacts with | Hard behaviour | What makes it correct |
|---|---|---|---|---|---|
| Send engine, `engine.ts` (`runDripTick`) | recipient rows (`status`, `attempts`, `batch_id`, `updated_at`), sends (`status`, counts, `completed_at`), batches | sweep stuck rows, recover batches, reopen, finish stranded sends, claim, gate, post, mark, release, sweep cancelled, finalize | provider, quota, suppression list, admin pages, dispatch | two ticks and an admin between any two awaits; a crash anywhere; a provider that delivers without answering; reads used after they are stale | one copy each; `sent` rows were delivered; a send that the engine ended left nobody waiting; Stop is final; counts are true; every send ends |
| Paced Slack binding, `broadcasts/workers/slack-send-binding.ts`, `channels/slack.ts` | the same tables, attempts capped | one message per call, a re-read of the send between messages, halts and back-offs | the engine | Pause or Stop between read and post; a delivered message whose reply is missing or broken; a refusal that is never recorded | at most one more message per tick after Pause; nobody called beyond the cap but to make up for a call that was not recorded |
| Quota, `bulk-emailing/migrations/010_send_engine_quota.sql` | one row per day and brand | `claim_drip_quota`, `release_drip_quota` | every replica | concurrent claims, midnight between two calls, failed calls | never more granted than 90 % of the cap |
| Broadcast dispatch, `broadcasts/workers/dispatch-scheduled.ts`, `send-prep.ts` | send status, `audience_refresh`, stored segment members, rows | refresh, fan-out by keyset pages, count, one conditional write | segments, suppression, admin's Cancel | people come and go between pages; two ticks refresh and page at once; a refresh that can never succeed | everyone who stayed has a row; no empty start; one decision; a decision in the end |
| Newsletter dispatch, `newsletters/workers/dispatch-scheduled.ts`, migrations 076, 077, 094 | send status, `last_error`, rows, the gate | gate check, hold, fan-out, flip, failure write | gate trigger, admin page, engine | the gate closes between check and flip; cancel and retry from an old page; a failed tick writing over a started send | everyone who stayed has a row, and is mailed, refused by the provider, or skipped for a cancel; one copy each over retries; nothing starts past a closed gate; a held send goes out |
| Newsletter send page, `newsletters/admin/pages/sends/[id].tsx` | the status it loaded | Cancel, Retry | newsletter dispatch | acts on an old status | see above |
| Edition saves, `newsletters/migrations/069_edition_safe_save.sql`, `newsletters/admin/pages/editions/[id].tsx`, `admin/lib/research-conflict.ts` | the edition's content and version, revisions; per page the copy on screen, the version and the blocks last synced | load, save, restore, the conflict handler's refetch, edit-layer writes | research writes, other pages, approval | a save whose reply is lost; a load or a refetch made of several reads; a version taken over after a conflict | no save overwrites what its page has not read; nothing stored is lost for good |
| Edition approval, migration 096, `EditionApprovalShell.tsx`, `ApprovalPanel.tsx` | approval rows | request, decide | edition saves, the send gate | saves, research and other users between looking and deciding | an open gate means an entitled approver had this content on screen; one row in force; an approval lapses only with the content |
| Research runs, migration 093, `research-due.ts`, `research-run.ts`, `research-routes.ts` | runs, the queue, the research layer of a block | tick, run now, start, write, complete, fail, revert, cancel, sweep | the edition, its editors, the gate, a send that starts | cancelled or swept while working; jobs lost or delivered twice; overlapping ticks; a send that starts inside a write; saves and restores over the layer | newer run wins; ended runs do not land; no run writes once the edition goes out; no run holds the slot for ever |
| Cadence, migration 095, `cadence-tick.ts` | occurrences | create the next edition | editions | a crash between the occurrence and its edition | planned |
| Providers `sendgrid.ts`, `channels/twilio.ts`, `channels/slack.ts` | none | `sendBatch` | engine | partly delivered batches reported retryable | through the replies the engine can get |
| Everything else (events suite, content pipeline, AI, sites, media, integrations, administration) | rows of their own | mostly single-statement edits | - | - | not modelled; section 7 |

## 2. Modules and how they correspond to the code

```
            SendLifecycle  <---- refinement ---- SendEngineRefinement
                  |                                     |     \
        SendLifecycleProofs                             |      SendOutcomeProofs
                                                        |             |
                                                SendEngineInvariant --+- SendEngineProofs
                                                        |
                                                    SendEngine
   KeysetPages
      |      \
      |       NewsletterDispatch --- NewsletterDispatchProofs
      |
      BroadcastDispatch ------------ BroadcastDispatchProofs
   DripQuota -------- DripQuotaProofs
   EditionApproval -- EditionApprovalProofs
   ResearchRuns ----- ResearchRunsProofs
   MC<module>: the constants, symmetry sets and budgets that a .cfg file cannot write
```

**SendEngine** is `runDripTick` with everything it calls. A *worker* is one tick in progress; every
database or provider call the tick awaits is one action, so other ticks, admins and time come in
between. `pc[w]` is the call the tick makes next; `todo`, `grp`, `slice` and `rel` are its local
arrays (claimed rows, the current send's group, the batch being posted, the rows about to be
released or skipped). The tables are `rowStatus`, `rowAttempts`, `rowBatch`, `sendStatus`,
`reported`, `batchStatus`. Timestamps are abstracted to the thresholds the code compares them with:
`rowStale` (15 minutes, the sweeper), `batchOld` (60 seconds, recovery), `sendIdle` (10 minutes,
stranded sends), `sendRecent` (20 minutes, reopening), each moved by an `Age...` action. The actions
follow the code from top to bottom: `Sweep`, `FindStuckBatch`/`RecoverBatch`,
`FindPremature`/`Reopen`, `FindStranded`, `Claim`, `SuppressionGate`, `Release`/`Skip`,
`OpenGroup`, `PaceRead`, `PauseSend`, `ClaimQuota`, `InsertBatch`, `Post...`, `Mark...`,
`HaltPause`, `CloseBatch`, `ListCancelling`/`SweepCancelled`, `Finalize`,
`ReadCount` (one of the four concurrent counts at a time), `ReadSend`, `WriteFinal`. `Mishap` holds
the error paths (`GateError`, `InsertFails`, `FinalizeError`, refusals, `MarkLost` for an UPDATE of the
rows that fails, `Crash`). A try of a person is counted at the provider call itself
(`ProviderCall`), whatever becomes of its outcome; `lost` counts the outcomes that a crash or a
failed UPDATE kept from being recorded. The constant `Paced` selects the Slack binding (one message
per call, status read before each, conditional status writes) or the email bindings. The constant
`Hazards` names five events the code has no defence against, and with `Hazards = {}` they do not
happen:

| Hazard | Event |
|---|---|
| `window` | a crash between delivery and the rows' update (after which nothing on record tells of it) |
| `lost_update` | the same UPDATE fails, which is only logged |
| `lost_reply` | the provider delivered, all or in part, and the reply is an error: for e-mail and SMS any lost or partial reply, for Slack a reply that breaks off or is no JSON (a post without any reply is given up, with every setting) |
| `slow_tick` | a live tick holds rows for over 15 minutes |
| `blind_write` | the newsletter page or dispatcher sets the status of a send to `sending`, `failed` or `cancelled` whatever it is (`BlindWrite`; `blind` remembers which sends) |

**SendEngineInvariant** holds the inductive invariants of the engine, one for each thing it should
guarantee (section 5). **SendLifecycle** is the abstract promise: no ticks, claims, batches or time,
only the phase of a send, what is recorded of a person and what the person got.
**SendEngineRefinement** maps the tables to it and adds the invariant which that needs.
**SendEngineProofs** proves the types, the claims and the single copy; **SendOutcomeProofs**, which
extends it, everything else.

**DripQuota**: the two SQL functions as transactions that meet at a row lock. `current_date` is
read when a call begins, and midnight may fall before any later step; the cap arithmetic
(`(cap * 0.9)::integer`, rounding half up) is kept.

**KeysetPages**: `ORDER BY email LIMIT n WHERE email > cursor`, shared by both fan-outs.

**BroadcastDispatch**: one due broadcast, with `audience` chosen initially (segment or list),
members drifting in and out, suppression, the stored (possibly stale) segment membership, and
`after[w]`, the tick's cursor. `Write` is the one conditional status update. `loyal` is a history
variable: members all along and never suppressed.

**NewsletterDispatch**: one due newsletter send composed with the gate trigger, the admin page (with
the status it loaded, `shown`) and the engine in outline: what any number of engine ticks do to a row
(`ClaimRow`, then `Mail`, `Refuse`, `PutBack`, `SkipErased` or `SkipStopped`, each a step of its own
under the status the send has by then; `SkipUnsubscribed` at the claim) and to the send (`TripPause`,
`Finalize`, `Reopen`). That a row claimed is held by one tick and mailed at most once per claim is
SendEngine's subject. `loyal` are the subscribers who were there all along and were not erased,
`stopped` whether an admin ever cancelled the send. The gate's answer is one variable which research
runs and approvals open and close; how they do is the subject of the next two modules.

**EditionApproval**: one edition under its version lock. The content has three parts, because the
code treats them differently: `blocks`, their `bricks` (which the conflict handler does not fetch)
and the `research` layer. A page `p` has `mine` (the screen, `editionRef`), `ver`
(`editionVersionRef`), `base` (`serverBlocksRef`, which has no bricks) and `clean`
(`loadedSnapshotRef`); loading is `Open`, `LoadBlocks`, `LoadBricks`, one query each. `Save(p, after)`
is `handleSave`, alone or before a request or a decision: it commits and is heard of, commits with
its reply lost, or is refused, and then `FetchVersion` and `FetchBlocks` run side by side and end
in `Adopt` and one `Resave`, or in `GiveUp`. `PanelRefresh` is the same refetch started by the
Research panel. `Write` is every writer's content change with its version bump, `Snapshot` the
revision it leaves; `Request`, `Decide` and `Gate` are the three approval functions. The user may
type while a call is under way. Two history variables serve the properties: `past`, all contents the
edition ever had, and `adopted`, whether the page took a version over after a conflict.

**ResearchRuns**: the runs of one block whose research time has passed. `runs` is the table by
`seq`; a *starter* is a due tick or a run-now request, a *handler* a job in progress or a revert
request (which does the same steps without a queue). `Insert` is guarded by the partial unique index
(`SlotFree`), `End` by the transition trigger. `SweepStale` and `SweepOrphan` are the two sweeps at
the head of a tick, per run: the write is conditional on the status, so the read before it needs no
step. A run that some process still has in hand can only be that old if the process is slow, which
counts as a fault (`SlowIfInHand`). `jobs` holds deliveries, and a job can be lost, queued although
the call failed, or delivered twice. `StartSending` is a send passing the trigger, `Open` is
`newsletters_edition_research_open`. `newsletters_research_write` is two steps, one for each of its locks:
`CheckOpen` locks the edition and asks whether it is open, `Write` locks the run and lands the output, and
a send can start between them. `EditorWrites` is a save or a restore, which puts any layer the block
ever had (`past`: revisions, and what pages may still have on screen) over the present one and asks
nothing; `writer` and `edited` tell who wrote the layer last.

The file `PROJECT.json` names, for every definition that models code, the lines it models.

## 3. Runs

Eight runs hold, four refute a comment in the code (section 6). Rows, ticks and pages are few, and
what the smallness could hide is said in the last column.

| Run | What it asks | Instance | Why it is enough |
|---|---|---|---|
| `email_overlap` | one copy each, sent rows delivered, ended sends settled, and the inductive invariant `MailedOnce`, with two ticks in parallel | 2 rows, 1 send, 2 ticks, 1 row a batch, 3 batches, 1 fault, 1 click or blind write (`blind_write` is on) | a double send needs one row and two ticks; the two rows go out one after the other, with everything in between (a fourth batch adds no state); the theorems of section 5 cover every size, fault and click |
| `slack` | two Slack ticks implement `SendLifecycle` step by step; Pause takes hold, calls are capped, Stop is final | MCSlack: 2 rows, 2 attempts a row, 1 click, under one of three budgets: two ticks at once, with the click or 1 fault, in 2 calls; one tick at a time with both, in 2 calls; "retries", one tick at a time with 4 calls, 3 faults and no click, the faults no more than one ahead of the calls for a row | in the first every status write of a tick meets every one of another tick, of the page or of a crash; in the last three refusals or lost marks of one row reach and pass a cap of 2. The budgets are cuts for TLC's sake: the four properties are theorems for any numbers |
| `settle` | every send ends or waits for an admin; reported counts are true; erased addresses are never mailed; settled rows stay settled | 1 tick (crashing and starting again), 2 rows, one of them late, 6 batches, 2 faults, 1 click or erasure, `lost_reply` and `lost_update` on, no plan | repair paths are all reached: sweep, recovery, stranded sends, reopening, a missing batch row |
| `quota` | the day's grants stay under the margin | 2 replicas, cap 6 (5 may be granted), 2 days, 5 claims of at most 3 | two claims overdraw the cap if they do not see each other; proved for any numbers |
| `broadcast` | audience covered, no empty start, one decision, a decision in the end | 2 people, pages of 1, 2 ticks, one join/leave/suppression, 1 fault | the pages' boundary falls between the two; the safety part is proved for any number |
| `newsletter` | complete audience, one copy each, no start past the gate, a held send goes out | 2 people, pages of 1, 2 ticks, two closings of the gate, one change of the list, 2 faults, 1 click | two full pages and an empty one; two closings put one between check and flip and one before the next check. That a held send goes out is asked of the behaviours without faults and clicks, since a failed or cancelled send does not go out by design. The safety part is proved for any number |
| `edition` | no blind save, nothing lost, one row in force, the gate means seen, approvals stand, and the inductive invariant | 2 pages, both approvers, one a super admin, 2 changes, 3 versions, 2 rows, 1 lost reply, in two budgets (`WithinBudget`): conflicts and losses without approval, or approval with one change and 2 versions | a lost update needs two pages and two writes; every action fires; proved for any numbers |
| `research` | newer run wins, ended runs do not land, no run writes once the edition goes out, no run hangs, the slot is decided | 2 starters, 2 handlers, 3 events (requests of admins and editors, and faults, together) | two overtaking each other; three events are a run, its cancel or sweep, and a late worker; the safety part is proved for any number |
| `crash_in_window` | refutes `AtMostOneCopy` with the hazard `window` | 1 tick, 1 fault | |
| `newsletter_overlap` | refutes `OverlapHarmless` | 2 ticks, 1 fault, no click | |
| `edition_clobber` | refutes `AdoptsOnlyResearch` | 2 pages, 1 change, 2 versions, no approval | |
| `newsletter_uncancel` | refutes `CancelStands` | 1 person, 2 ticks, 1 click, no fault | |

The bounds are all constants: `MaxBatches`, `MaxFaults`, `MaxAdmin`, `MaxDrift`, `MaxClicks`,
`MaxGateMoves`, `MaxClaims`, `MaxDays`, `MaxRepeats`, `MaxChanges`, `MaxVersion`, `MaxRows`,
`MaxLost`, `MaxEvents`; MCSlack and MCEditionApproval cut what lies outside their budgets. Symmetry
among ticks and rows is used only in runs without liveness properties. Deadlock is checked for the
send engine, whose heartbeat never stops, and for the editor pages; the dispatch models, the quota
and the research runs end when their one send is decided, their claims are used up or the edition
is out, so it is off there.

Some properties are asked of less than the whole system, because the code does not promise more.
`EndedMeansSettled` and `ReportedCountIsTrue` leave out a send that a blind write ended, or ever wrote:
the newsletter page and dispatcher can end a send over open rows, and nothing in the engine prevents
it. `TriesCapped` allows one call more for each call whose outcome was never recorded (section 6 has
the stricter reading, refuted).
`PauseTakesHold` is about the paced binding: the email path reads the status once per group and
finishes the group. `ReportedCountIsTrue` is asked of one replica: with two, an unconditional write
of older counts may come last (section 6). `EndedMeansSettled` is asked without late rows: a send
can end before a slow dispatcher's last page is in, and reopening it within 20 minutes is the
repair (`engine.ts:598-620`); `settle` has that row. `RecoveryNet` is about blocks and bricks: the
research layer that a save or a restore overwrites is in the revision it leaves, but the layer that a
research write replaces is in none. `NoBlindSave` and `GateMeansSeen` excuse a page
that took a version over after a conflict: what such a page can miss is in section 6.
Every run of the send engine has one send: that groups of several sends in one claim do not disturb
each other is covered for every safety property by the theorems of section 5, which are about any
number of sends, and is open only for `EverySendSettles`.

## 4. Fairness

- *A tick that is running goes on, and ticks keep starting* (`WF` on `Tick(w)` in every module):
  the 60-second heartbeat crons in `modules/broadcasts/index.ts:78-95` and their newsletter
  counterparts. A crash is an action of its own, is never required, and is bounded by `MaxFaults`.
- *The research cron ticks, sweeps, and the queue delivers* (`WF` on `Ticks(t)`, `Works(h)` and
  `Sweeps` in ResearchRuns): `research-due` runs every five minutes, BullMQ hands a waiting job to a
  worker, a call returns. A sweep is fair only for a run that no process has in hand any more; a
  process that has one goes on by itself. Nothing is assumed of admins or of the send.
- *Time passes* (`WF` on `AgeRow`, `AgeSend`, `WindowCloses`): a clock that does not stop.
- *The gate opens in the end* (`WF` on `OpenGate` in `newsletter`): an assumption on the
  people and runs behind the gate: that research runs end or are swept is `NoRunHangs`, that
  somebody approves the edition is up to people. Without it a held send waits, as intended.

Nothing forces an admin, a fault, an erasure or a change of the list. Faults are finite in number;
the refresh of a segment is the exception, it may fail every time and `DueSendDecided` still holds.

## 5. Proofs

Checked by TLAPS for every value of the constants. Assumptions on constants are the `ASSUME`s of
each module (finite rows, positive page and batch sizes, natural bounds).

| Theorem | Statement | Under |
|---|---|---|
| `TypeCorrect` | `SendEngine!Spec => []TypeOK` | |
| `MailedAtMostOnce` | `SendEngine!Spec => []AtMostOneCopy` | `OnlyBlindWrites`: `Hazards \subseteq {"blind_write"}` |
| `SentWasDelivered` | `SendEngine!Spec => []SentMeansDelivered` | `OnlyBlindWrites` |
| `PromiseKept` | `SendLifecycle!Spec => []Promise` | |
| `OnceAlways` | `SendEngine!Spec => []MailedOnce`, the invariant behind the two | `OnlyBlindWrites` |
| `ClaimsHold` | `SendEngine!Spec => []ClaimInv`: who holds which row | no `slow_tick` |
| `SettledIsFinal` | `SendEngine!Spec => SettledRowsStay` (an action property) | |
| `SettleHolds`, `NobodyStranded` | `SendEngine!Spec => []SettleInv`, `=> []EndedMeansSettled` | `Late = {}` |
| `PaceHolds`, `PauseIsObeyed` | `SendEngine!Spec => []PaceInv`, `=> []PauseTakesHold` | |
| `StopIsFinal` | `SendEngine!Spec => StopStands` (an action property) | `Paced` |
| `TriesHold`, `TriesAreCapped` | `SendEngine!Spec => []TriesInv`, `=> []TriesCapped` | no `slow_tick` |
| `EraseHolds`, `ErasedAreSpared` | `SendEngine!Spec => []EraseInv`, `=> ErasedNotMailed` (an action property) | no `slow_tick` |
| `ReportHolds`, `ReportIsTrue` | `SendEngine!Spec => []ReportInv`, `=> []ReportedCountIsTrue` | one tick, no `slow_tick` |
| `StopHolds`, `KeepsLifecycle` | `SendEngine!Spec => []StopInv`, `=> ImplementsLifecycle` (a refinement) | `Paced`, `Hazards = {}`, `Late = {}` |
| `QuotaHeld`, `QuotaKept` | `DripQuota!Spec => []QuotaInv`, `=> []CapKept` | `MaxRepeats = 0`, `~LateRelease` |
| `DispatchCovers`, `StartedSendIsCovered` | `BroadcastDispatch!Spec => []DispatchInv`, `=> []AudienceCovered` | |
| `StartsForSomeone` | `BroadcastDispatch!Spec => []NeverStartsEmpty` | |
| `OneDecision` | `BroadcastDispatch!Spec => DecidedOnce` (an action property) | |
| `NewsletterIsComplete` | `NewsletterDispatch!Spec => []NewsletterInv` | |
| `StartedNewsletterIsComplete`, `NoSecondCopy` | `NewsletterDispatch!Spec => []CompleteAudience`, `=> []OneCopyEach` | |
| `TriggerHolds` | `NewsletterDispatch!Spec => GateNeverBypassed` (an action property) | |
| `EditionTypes`, `RunTypes` | `EditionApproval!Spec => []TypeOK`, `ResearchRuns!Spec => []TypeOK` | |
| `EditionHolds` | `EditionApproval!Spec => [](TypeOK /\ EditionInv)` | |
| `NoLostUpdate`, `OneRowInForce`, `ApprovedWasSeen`, `NothingIsLost` | `EditionApproval!Spec => []NoBlindSave`, `[]OneInForce`, `[]GateMeansSeen`, `[]RecoveryNet` | |
| `ApprovalIsKept` | `EditionApproval!Spec => ApprovalStands` (an action property) | |
| `LandingHolds` | `ResearchRuns!Spec => [](TypeOK /\ LandingInv)` | |
| `NewerRunWins` | `ResearchRuns!Spec => []NewestWins` | |
| `LateWorkerIsRefused`, `ResearchIsOver` | `ResearchRuns!Spec => EndedNeverLands`, `=> ResearchStops` (action properties) | |

**One copy each.** `AtMostOneCopy` is not inductive: a row that was mailed but is still `sending`
could be claimed again. `MailedOnce` adds what prevents it. No two ticks hold a row (`HeldApart`,
from `FOR UPDATE SKIP LOCKED`), nor one tick twice (`PartsApart`); a held row is `sending`, or
skipped by a cancel sweep (`HeldClaimed`); only rows that no live tick holds go stale
(`StaleAbandoned`, so the sweeper never takes a row from under a tick); a row gets its batch by the
same write that makes it `sent` (`LinkedSent`, so batch recovery never requeues a mailed row); and
a held or unsettled row is unmailed, unless its tick is between the provider's answer and the
marking (`HeldUnmailed`, `OpenUnmailed`). The proof has one step per action; each of the hazards but
`blind_write` breaks the invariant, which is why the theorems exclude them (`OnlyBlindWrites`).

**Ends, pauses, tries, erasures, counts.** Each has an invariant of its own, so that each theorem
has only the hypotheses it needs; most need no more of the hazards than that no tick is slow.
`ClaimInv` is the part of `MailedOnce` about who holds what, which lost replies and updates do not
disturb. The `.cfg` files list what these invariants are for and not the invariants, which would
only make the runs longer; added to `INVARIANTS`, TLC finds them to hold: `SettleInv` in
`email_overlap`, `PaceInv`, `TriesInv` and `StopInv` in `slack`, `EraseInv` and `ReportInv` in `settle`.

- *A send that ended left nobody waiting.* `finalizeSend` counts, and rows move before it writes.
  `SettleInv` says that a count of zero outstanding rows stays true (`ZeroStaysTrue`), because no step
  takes a settled row back: whatever puts rows in the queue again (releases, refusals, recovery, the
  sweeper) is conditional on `sending`. That is `SettledIsFinal`, which holds with every hazard. The four
  counts are answered at different moments; what counts is that the one of outstanding rows is in
  before the send is read (`ReadInFull`). Late rows (a dispatcher still inserting) break `SettleInv`, and
  are excluded; sends ended by a blind write are excluded in the property itself (`Ends`).
- *Pause and Stop take hold.* `PaceInv`: a paced tick that is committed to a call has seen its send
  `sending` and has made no call for it since, so one message of each tick can still go out.
- *Stop is final.* Every status write of the paced binding is a compare-and-swap, and none takes
  `cancelling` or `cancelled` back; the gate that pauses without a condition is never reached
  (`NeverTrips`).
- *The cap.* `TriesInv`: a row's attempts are counted at the claim, before the call, so they cover its
  calls (`TriesLeft`); a tick that has yet to call holds a row with a call to spare (`HeldHasTry`), so
  the attempt it gives back when it does not call is one too many. A refusal puts a row back only while
  a try is left, unless its mark is lost: then the call is one more of `lost`, and the sweeper queues the
  row whatever its attempts. That each call beyond the cap makes up for one such loss is what the
  theorem says; that there is no call beyond the cap is false (section 6).
- *Erasures.* `EraseInv`: a row claimed after its erasure is nowhere but in the claimed rows of a tick
  that has not passed the suppression gate.
- *Counts.* `ReportInv` says what a tick can hold at each of its calls (`HeldByStep`), so a lone
  replica ends a send with empty hands, and a row it marks belongs to a send that has not ended.

**The refinement.** `KeepsLifecycle` maps each action to a step of SendLifecycle or a stutter, under the
conjunction `LifeInv` of the types, `MailedOnce`, `SettleInv`, `PaceInv` and `StopInv`. `StopInv` is
what was missing: with `SettleInv` nothing is ever reopened (a premature end does not happen without
late rows), a send that a tick lists as cancelled stays stopped, and so does the send of a row which a
cancel sweep skipped while a tick held it: a call already on its way may still deliver to that row
(`MayDeliver` allows it for a stopped send) and record it as sent, and nothing else becomes of it.
The hypothesis `Hazards = {}` is a real one: a reply to a delivered message that breaks off is retried,
which is a second delivery and no step of the lifecycle (section 6). The email binding does
not implement the lifecycle: its reputation gate can relabel a stopped send (section 6).

**Quota.** `CapKept` needs that a transaction about to update the row holds its lock and so knows
what it says (`SeenIsCurrent`), and that the row never says less than what was granted. The two
hypotheses are exactly what `release_drip_quota` does not ensure by itself: a release called twice,
or after midnight, breaks the bound. No caller in the repository releases today.

**Dispatch.** A tick past a page knows that everyone who stayed and sorts before its cursor has a row
(`TickKnows`). It survives overlapping ticks because rows are only added and recalculation replaces
the stored members by a set that holds all who stayed. What it asks of the paging is the lemma
`LastPage` (a page that is not full is the last one) and that a page leaves nobody out between two
cursors.

For newsletters the engine's rows are part of the invariant. A row is claimed only once the send has
begun (`ClaimedBegun`), also when a cancel or a failure write has changed its status since; a skipped
row of someone who stayed is the work of a tick that found the send cancelled, which takes an admin
(`stopped`). So the conclusion for a send that is `sent` has its exceptions named: refused by the
provider, or skipped for a cancel that a late flip then took back (`newsletter_uncancel`).

**Edition.** `EditionInv` says that versions only grow, so a page that still has the present version
has read everything since the last write, also halfway through a load or a refetch; that a page's
`base`, `clean` and `mine` agree where the code keeps them in step; that one row is in force; and
that every approved row was decided by an entitled approver who saw what it hashes. `RecoveryNet` is
inductive together with the types: a writer that skips the revision leaves blocks and bricks alone.

**Research.** The partial unique index gives `LatestInFlight`: only the newest run is ever in flight,
so a run that writes cannot be overtaken by a completed newer one. Two processes with the same run
(a redelivery) carry the same output (`SameOutput`), and a handler about to complete a run that is
still running was the last of the runs to write (`HandlerKnows`); whether its output is still the layer
depends on the editors, and the invariant says so (`edited`). `ResearchStops` rests on two locks and the
gate: between the check of the edition and the lock on the run a send can start, but the gate lets none
start while the run is in flight, and a run that has ended meanwhile is not `running` when the write
looks (`HandlerKnows`: at `land`, with the run running, nothing is sending). It follows too that the
`SUPERSEDED_BY_NEWER_RUN` branch of `newsletters_research_write` is never taken, which the proof of a
handler's step shows on the way.

Every safety property that a passing run checks is thereby also a theorem. Only model-checked is
liveness (`EverySendSettles`, `DueSendDecided`, `HeldSendGoesOut`, `NoRunHangs`, `SlotDecided`), which
the prover does not cover. None of the modules uses a recursive operator, and no property needs
induction over data.

## 6. Where the code and its comments disagree

With a run that shows it:

- `crash_in_window`: `engine.ts:313` says "Recovery covers a crash here." A crash after the provider
  accepted and before the rows are marked leaves nothing that tells recovery they were mailed
  (`batch_id` and `provider_batch_id` are both written afterwards), and the sweeper queues them again.
- `newsletter_overlap`: "Overlapping ticks are safe" (`newsletters/workers/dispatch-scheduled.ts:59-60`);
  the failure write (line 184) is not conditional on `scheduled`, so a slower tick whose fan-out
  fails marks a send that is going out as failed, and the engine stops in the middle of it.
- `edition_clobber`: `research-conflict.ts:4-8` says that any difference but research falls back to the
  reload toast. Its refetch (`editions/[id].tsx:667`) reads blocks and no bricks, so a save that changed
  bricks alone is taken for research: the version is taken over, and the retried save overwrites the
  bricks.
- `newsletter_uncancel`: `engine.ts:552-553` says that a tick that finishes after the cancel must not
  relabel the send. The dispatch tick's flip
  (`newsletters/workers/dispatch-scheduled.ts:159`) has no condition: Cancel comes while the tick is
  fanning out, the flip writes `sending` over `cancelled`, and the newsletter goes out. With two ticks it
  can be worse: the first flips and the engine claims rows, a page that is behind cancels, the engine
  skips what it has claimed (`engine.ts:169`), the second tick flips, and the send ends `sent` with
  subscribers who stayed never mailed. `CompleteAudience` names that exception.

Refuted by TLC too, on the instance named, without a run of their own because each is one more case of
something the runs above show (a status written blindly, a delivery without a trace) or a claim that
`TriesCapped` and `NewestWins` replace by what does hold:

- *A stopped send is relabelled.* Against the same lines, 552-553: the reputation gate's pause
  (`engine.ts:207`) has no condition on the status, so a Stop that comes after the group's status read is
  overwritten. `StopStands`, with `Paced = FALSE`, 2 ticks, 1 fault, 1 click.
- *A person is tried once too often.* `dispatch-slack.ts:21-23` says a person is tried at most so many
  times. The cap is looked at after a refusal (`engine.ts:363`), never at the claim. If the UPDATE that
  fails the row is lost (`engine.ts:445` logs it) or the process dies before it, the sweeper queues the row
  and it is tried again. `tries[r] <= MaxAttempts`, with `Paced`, 1 tick, 1 row, a cap of 1, 2 faults.
- *A Slack message is posted twice.* `slack.ts:123-125` fails a post without a reply rather than risk a
  second copy. A reply that breaks off, or a 5xx without JSON, is an error of another name
  (`slack.ts:76-82`) and is retried (129), after delivery too. `AtMostOneCopy`, with `Paced`,
  `Hazards = {"lost_reply"}`, 1 tick, 1 row, 2 calls, 1 fault.
- *An edition goes out unresearched.* `093_research_runs.sql:4-5` says that the research layer is always
  the output of the latest completed run, and 14-15 that the research write is its only write path. Saves
  and restores (`069_edition_safe_save.sql:97-110`, `153-219`) write the block's whole content. A restore
  of a revision from before the run empties the layer; the gate (`096_edition_approval.sql:161-167`) looks
  at runs and not at the layer. `sending # "no" => layer # NoRun`, with 1 starter, 1 handler, 1 event.
  Nor do saves and restores ask whether the edition is still open: an editor can change the stored layer
  while the edition is going out, which is why `ResearchStops` speaks of runs alone.

Observed while modelling:

- `newsletters/workers/dispatch-scheduled.ts:184`, `sends/[id].tsx:87`: both writes can end a send whose
  rows are pending or in the hands of a tick. Nothing claims from it then, and nothing picks it up but
  an admin's Retry; rows in hand are still mailed after a failure write, since the engine reads only
  paused and cancelled (`engine.ts:169-170`).
- `engine.ts:207` and `094_send_gate.sql:47-65`: the trigger asks the gate about `scheduled` and `sending`
  only. The reputation gate's pause can turn a cancelled or failed send into `paused`, which counts as
  begun for `newsletters_edition_research_open`: research stops without the gate having been asked.
- `engine.ts:559-560`: a write of counts that does not settle the send has no condition, so with two
  overlapping ticks older counts may be written last (`ReportedCountIsTrue` fails for two ticks).
- `engine.ts:401`: after a crash between marking the rows and accepting the batch, recovery labels a
  delivered batch as one that "never reached the provider".
- `broadcasts/workers/dispatch-slack.ts:21-23`: a row swept back after a crash keeps the attempt it did
  not use.
- `010_send_engine_quota.sql:58-66`: `release_drip_quota` is called idempotent and is not, and it
  takes the date of its own call.
- `engine.ts:213-215`: a failed quota claim is taken for unlimited; the default daily cap does not
  fit the function's integer parameter.
- `engine.ts:258`: the batch row is called the recovery anchor. Rows are linked to it only when they
  are marked sent, so a failed insert of it changes nothing of who is mailed: `InsertFails` leaves
  every property as it was.
- `editions/[id].tsx:665-668`: version and blocks are read side by side. Blocks read before a save
  and a version read after it make a difference that is not seen, and the next save overwrites it.
  What the user types during the refetch is dropped (`setEdition(next)` starts from the edition the
  save began with).
- `editions/[id].tsx:996-999`, `ApprovalPanel.tsx:79`: a save refused for a version conflict returns
  quietly, so the request for approval that was to follow it is made for what is stored, not for
  what is on screen. The decision has a check of its own (`ensureSaved`), but its save may take
  research over that the approver has not looked at, and the decision follows at once.
- `research-due.ts:14-15`: "a backlog of ticks cannot double the AI spend". A tick that checked the
  slot before another's run was inserted inserts its own once that run has ended, and the slot is run
  twice; the index only keeps the two from being in flight together.
- `research-run.ts:129-140`: a run that is cancelled or swept between its write and its completion, or
  whose write commits with a lost reply, leaves the block with the output of a run that is not
  complete. The next run's write repairs it; `NewestWins` says exactly this much.
- `research-due.ts:88-98`: a run swept as stale is `failed` and satisfies its slot: it is not tried
  again, unlike one that was cancelled by the system.

## 7. What is not modelled

- In the engine: `rampPercent` below 100 (it limits the calls of a tick and not the messages, since
  what is put back is claimed again by the same tick), recipients without an address
  (`engine.ts:314`), the content of messages, log rows and statistics.
- The providers' own calls: SendEngine has the replies they can give. A SendGrid call without a
  reply, a partly delivered Twilio batch and a broken reply of Slack are the hazard `lost_reply`.
- Failed UPDATEs of rows other than the marks after a call (releases and skips), and an UPDATE of over
  100 rows that fails in the middle: such rows stay `sending` until the sweeper, as after a crash.
- The local send time of a recipient (`gw_tz_local_send_at`, migration 076).
- Several sends in one dispatch tick: they share nothing.
- In EditionApproval: the creation of an edition, title, preheader and dates with their check in the
  conflict handler, the separate write of the schedule (`editions/[id].tsx:864-882`), recovery of local
  drafts, filling from a document (a typed change and a save), approver lists and moves between
  publications, and the HTML of a send, which is rendered when the send is created: the gate hashes the
  edition and not that HTML. Research is taken to be open. Each database function is one step.
- In ResearchRuns: what a recipe computes and costs, several blocks of one edition (they share only the
  gate), daily blocks (the same code with another slot), notifications. What a save or a restore puts in
  the place of the layer is any layer there has been, which is more than the pages and revisions of one
  moment hold.
- The gate is asked by the trigger in the statement that writes the status, and the two are one step, in
  NewsletterDispatch and in ResearchRuns: a run inserted, or an edition edited, after that statement's
  snapshot and before its commit is not seen by the code either, and is not modelled.
- The gate of NewsletterDispatch is one variable: the three modules are not composed into one.
- The creation of editions by cadence (`cadence-tick.ts`, migration 095).
- The read-modify-write of a broadcast's metadata (`dispatch-scheduled.ts:194`): nothing else writes
  the metadata of a scheduled send.
- Everything outside sending. The events suite, administration, sites and integrations are
  single-statement edits or clients of outside services with no shared protocol; the AI and
  software-engineer modules are large systems of their own. `PROJECT.json` lists them all. Most of the
  repository's lines are admin pages, rendering and clients of this kind, so the share of lines with a
  model stays small whatever is added to the sending core.

## 8. Plan

Done: SendEngine with its refinement and proofs, DripQuota, BroadcastDispatch, NewsletterDispatch,
EditionApproval, ResearchRuns. In the order of importance, next:

1. **CadenceTick**: `095_cadence_occurrences.sql`, one edition per occurrence over crashes.
2. **The send gate composed**: NewsletterDispatch with the Gates of EditionApproval and ResearchRuns in
   place of its variable, and the HTML of a send: what goes out is what was approved.
3. **SendEngine**: `rampPercent`, rows without an address.
4. **Providers**: Slack's two calls and Twilio's per-recipient loop, refined to the replies SendEngine
   assumes.
5. **The local send time** as a pure function, against a reference definition.

Theorems to add: none of the safety properties above is left. The modules to come get theirs: one
edition per occurrence, and the composed gate from the gate theorems there are. For the email binding
a weaker lifecycle is worth stating and proving, one in which the reputation gate may hold a stopped
send (`StopIsFinal` and `KeepsLifecycle` are about the paced binding because of it).

## 9. Running it

```
tlc -config email_overlap.cfg MCSendEngine.tla       # the same for the other .cfg files
tlapm SendEngineProofs.tla                       # the same for the other *Proofs modules
```
