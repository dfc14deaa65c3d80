--------------------------- MODULE EditionApproval --------------------------
(***************************************************************************)
(* One newsletter edition, edited in several editor pages at once, written *)
(* by research runs, and approved before it may be sent.  The database     *)
(* keeps the content under an optimistic version lock, a revision of what  *)
(* each save overwrites, and the approval rows.  A page keeps a copy it    *)
(* types into, and what it remembers of the server to tell whether a       *)
(* version conflict was only research landing.  Every RPC or query is one  *)
(* step.  A page is one user; it runs one request at a time, and the user  *)
(* may type while it does.                                                 *)
(***************************************************************************)
EXTENDS Integers, Sequences, FiniteSets

CONSTANTS
  Pages,        \* open editor pages, one user each
  Approvers,    \* newsletters_collection_approvers of the publication
  SuperAdmins,  \* users for whom is_super_admin() holds
  MaxChanges,   \* bound: things typed or written by research
  MaxVersion,   \* bound: versions of the edition
  MaxRows,      \* bound: approval rows
  MaxLost       \* bound: save replies lost

ASSUME EditionAssumption ==
  /\ Approvers # {} /\ Approvers \subseteq Pages /\ SuperAdmins \subseteq Pages
  /\ MaxChanges \in Nat /\ MaxVersion \in Nat /\ MaxRows \in Nat /\ MaxLost \in Nat

VARIABLES
  version,      \* newsletters_editions.version
  stored,       \* the content: blocks, their bricks, their research layers
  revisions,    \* newsletters_edition_revisions
  approvals,    \* newsletters_edition_approvals, by created_at
  pc, then,     \* per page: the request it makes next, and what follows a save
  mine,         \* the edition on screen (editionRef)
  ver,          \* editionVersionRef
  base,         \* serverBlocksRef: blocks and research as last synced, no bricks
  clean,        \* loadedSnapshotRef: the edition as last loaded or saved
  payload,      \* the edition a save or a refetch started from
  freshVersion, \* what the refetch has read so far: the version,
  freshBlocks,  \*   and the blocks with their research
  adopted,      \* history: the page has taken a version over after a conflict
  past,         \* history: every content the edition has had
  changes, lost

dbVars     == <<version, stored, revisions>>
memoryVars == <<mine, ver, base, clean>>
readVars   == <<freshVersion, freshBlocks>>
fetchVars  == <<payload, readVars>>
pageVars   == <<pc, then, memoryVars, fetchVars, adopted>>
vars == <<dbVars, approvals, pageVars, past, changes, lost>>

Values  == 0..MaxChanges          \* what a part may hold; each change is new
Content == [blocks : Values, bricks : Values, research : Values]
Blank   == [blocks |-> 0, bricks |-> 0, research |-> 0]
Unread  == -1
NoBlocks == [blocks |-> Unread, research |-> Unread]
Loading == {"closed", "blocks", "bricks"}                    \* nothing on screen yet
Labels  == Loading \cup {"idle", "fetch", "resave", "request", "decide"}

SnapshotOf(c) == [blocks |-> c.blocks, research |-> c.research]

(* What a page has read or written of each part, as far as it knows.       *)
Known(p) == [blocks |-> base[p].blocks, bricks |-> clean[p].bricks,
             research |-> base[p].research]

Init ==
  /\ version = 0 /\ stored = Blank /\ revisions = {} /\ approvals = <<>>
  /\ pc = [p \in Pages |-> "closed"] /\ then = [p \in Pages |-> "idle"]
  /\ mine = [p \in Pages |-> Blank] /\ ver = [p \in Pages |-> 0]
  /\ base = [p \in Pages |-> SnapshotOf(Blank)] /\ clean = [p \in Pages |-> Blank]
  /\ payload = [p \in Pages |-> Blank]
  /\ freshVersion = [p \in Pages |-> Unread] /\ freshBlocks = [p \in Pages |-> NoBlocks]
  /\ adopted = [p \in Pages |-> FALSE]
  /\ past = {Blank} /\ changes = 0 /\ lost = 0

Goto(p, label) == pc' = [pc EXCEPT ![p] = label]
(* Between two calls of a save: what follows it and what it writes.        *)
Carry(p, after, c) ==
  /\ then' = [then EXCEPT ![p] = after] /\ payload' = [payload EXCEPT ![p] = c]
Done(p) == Carry(p, "idle", Blank)
Change == changes < MaxChanges /\ changes' = changes + 1

-----------------------------------------------------------------------------
(* The tables.                                                             *)

NextVersion == version + 1

(* A write of the edition's content; every writer bumps the version.       *)
Write(c) ==
  /\ version < MaxVersion
  /\ stored' = c /\ past' = past \cup {c} /\ version' = NextVersion

(* _newsletters_snapshot_edition: what a save or a restore overwrites.     *)
OverwrittenBlocks == [revision |-> version, content |-> [stored EXCEPT !.bricks = 0]] \* mutant
Overwritten == [revision |-> version, content |-> stored]
Snapshot == revisions' = revisions \cup {Overwritten}

ContentHash == stored

(* The request or decision in force: the newest row not superseded.        *)
InForce == {i \in DOMAIN approvals : approvals[i].status # "superseded"}
Latest == CHOOSE i \in InForce : \A j \in InForce : j <= i

(* newsletters_approval_gate, for a publication that has approvers.        *)
Gate ==
  /\ InForce # {}
  /\ approvals[Latest].status = "approved"
  /\ approvals[Latest].hash = ContentHash

SupersededPending(statuses) ==                                                   \* mutant
  [i \in DOMAIN approvals |->
     IF approvals[i].status = "pending"
     THEN [approvals[i] EXCEPT !.status = "superseded"] ELSE approvals[i]]
Superseded(statuses) ==
  [i \in DOMAIN approvals |->
     IF approvals[i].status \in statuses
     THEN [approvals[i] EXCEPT !.status = "superseded"] ELSE approvals[i]]

Row(p, status) ==
  [status |-> status, requester |-> p, decider |-> p, hash |-> ContentHash,
   asSeen |-> mine[p] = stored \/ adopted[p]]

-----------------------------------------------------------------------------
(* Opening and closing a page.  The version is read first.                 *)

Open(p) ==
  /\ pc[p] = "closed"
  /\ ver' = [ver EXCEPT ![p] = version]
  /\ Goto(p, "blocks")
  /\ UNCHANGED <<dbVars, approvals, then, mine, base, clean, fetchVars, adopted, past,
                 changes, lost>>

LoadBlocks(p) ==
  /\ pc[p] = "blocks"
  /\ base' = [base EXCEPT ![p] = SnapshotOf(stored)]
  /\ Goto(p, "bricks")
  /\ UNCHANGED <<dbVars, approvals, then, mine, ver, clean, fetchVars, adopted, past,
                 changes, lost>>

LoadBricks(p) ==
  LET loaded == [blocks |-> base[p].blocks, bricks |-> stored.bricks,
                 research |-> base[p].research]
  IN  /\ pc[p] = "bricks"
      /\ clean' = [clean EXCEPT ![p] = loaded] /\ mine' = [mine EXCEPT ![p] = loaded]
      /\ Goto(p, "idle")
      /\ UNCHANGED <<dbVars, approvals, then, ver, base, fetchVars, adopted, past, changes,
                     lost>>

(* Reload or leave: the page forgets everything.                           *)
Close(p) ==
  /\ pc[p] = "idle"
  /\ Goto(p, "closed")
  /\ mine' = [mine EXCEPT ![p] = Blank] /\ ver' = [ver EXCEPT ![p] = 0]
  /\ base' = [base EXCEPT ![p] = SnapshotOf(Blank)] /\ clean' = [clean EXCEPT ![p] = Blank]
  /\ adopted' = [adopted EXCEPT ![p] = FALSE]
  /\ UNCHANGED <<dbVars, approvals, then, fetchVars, past, changes, lost>>

(* The user types, also while a request is under way.                      *)
Type(p) ==
  /\ pc[p] \in {"idle", "fetch", "resave"} /\ Change
  /\ \E c \in {[mine[p] EXCEPT !.blocks = changes'], [mine[p] EXCEPT !.bricks = changes']} :
       mine' = [mine EXCEPT ![p] = c]
  /\ UNCHANGED <<dbVars, approvals, pc, then, ver, base, clean, fetchVars, adopted, past, lost>>

-----------------------------------------------------------------------------
(* Saving.                                                                 *)

(* newsletters_save_edition accepts the version the page sends.            *)
AcceptsAnyVersion(p) == ver[p] <= version                                        \* mutant
Accepts(p) == ver[p] = version

(* The save commits and the page hears of it: it holds what is stored.     *)
Saved(p, c, label) ==
  /\ Accepts(p) /\ Snapshot /\ Write(c)
  /\ ver' = [ver EXCEPT ![p] = NextVersion]
  /\ base' = [base EXCEPT ![p] = SnapshotOf(c)]
  /\ clean' = [clean EXCEPT ![p] = c]
  /\ Goto(p, label)
  /\ UNCHANGED <<approvals, mine, readVars, adopted, changes, lost>>

(* The save commits but its reply is lost: an error, and nothing follows.  *)
SavedUnheard(p, c) ==
  /\ lost < MaxLost /\ lost' = lost + 1
  /\ Accepts(p) /\ Snapshot /\ Write(c)
  /\ Goto(p, "idle")
  /\ UNCHANGED <<approvals, memoryVars, readVars, adopted, changes>>

(* version_conflict: nothing is written; the first time, refetch.          *)
Refused(p, label) ==
  /\ ~Accepts(p)
  /\ Goto(p, label)
  /\ UNCHANGED <<dbVars, approvals, memoryVars, readVars, adopted, past, changes, lost>>

(* The Save button, and the save that comes before a request for approval  *)
(* or (only when the page is dirty) before a decision.                     *)
Save(p, after) ==
  /\ pc[p] = "idle"
  /\ after = "decide" => mine[p] # clean[p]
  /\ \/ Saved(p, mine[p], after) /\ Done(p)
     \/ SavedUnheard(p, mine[p]) /\ Done(p)
     \/ Refused(p, "fetch") /\ Carry(p, after, mine[p])

(* The Research panel refetches when a run completes or its own write of   *)
(* the edit layer conflicts (then it tries that write again).              *)
PanelRefresh(p) ==
  /\ pc[p] = "idle"
  /\ Carry(p, "panel", mine[p])
  /\ Goto(p, "fetch")
  /\ UNCHANGED <<dbVars, approvals, memoryVars, readVars, adopted, past, changes, lost>>

(* The two queries of tryAdoptResearchChanges run side by side.            *)
FetchVersion(p) ==
  /\ pc[p] = "fetch" /\ freshVersion[p] = Unread
  /\ freshVersion' = [freshVersion EXCEPT ![p] = version]
  /\ UNCHANGED <<dbVars, approvals, pc, then, memoryVars, payload, freshBlocks, adopted, past,
                 changes, lost>>

FetchBlocks(p) ==
  /\ pc[p] = "fetch" /\ freshBlocks[p] = NoBlocks
  /\ freshBlocks' = [freshBlocks EXCEPT ![p] = SnapshotOf(stored)]
  /\ UNCHANGED <<dbVars, approvals, pc, then, memoryVars, payload, freshVersion, adopted, past,
                 changes, lost>>

Forget(p) ==
  /\ freshVersion' = [freshVersion EXCEPT ![p] = Unread]
  /\ freshBlocks' = [freshBlocks EXCEPT ![p] = NoBlocks]

(* diffResearchOnly: it compares blocks, and so sees no brick.             *)
OnlyResearchOrNot(p) == TRUE                                                     \* mutant
OnlyResearch(p) == freshBlocks[p].blocks = base[p].blocks

(* Where a page goes on once its save or refetch is over.                  *)
AfterAlways(p) == then[p]                                                        \* mutant
After(p) == IF then[p] = "panel" THEN "idle" ELSE then[p]

(* The research fields and the version are taken over into the edition the *)
(* fetch started from; a save is then tried once more.                     *)
Adopt(p) ==
  LET next == [payload[p] EXCEPT !.research = freshBlocks[p].research] IN
  /\ pc[p] = "fetch" /\ freshVersion[p] # Unread /\ freshBlocks[p] # NoBlocks
  /\ OnlyResearch(p)
  /\ mine' = [mine EXCEPT ![p] = next]
  /\ ver' = [ver EXCEPT ![p] = freshVersion[p]]
  /\ base' = [base EXCEPT ![p] = freshBlocks[p]]
  /\ adopted' = [adopted EXCEPT ![p] = @ \/ freshVersion[p] # ver[p]]
  /\ Forget(p)
  /\ IF then[p] = "panel" THEN Goto(p, "idle") /\ Done(p)
                          ELSE Goto(p, "resave") /\ Carry(p, then[p], next)
  /\ UNCHANGED <<dbVars, approvals, clean, past, changes, lost>>

(* Anything else changed, or the refetch failed: the reload toast.         *)
GiveUp(p) ==
  /\ pc[p] = "fetch"
  /\ freshBlocks[p] # NoBlocks => ~OnlyResearch(p)
  /\ Forget(p) /\ Done(p)
  /\ Goto(p, After(p))
  /\ UNCHANGED <<dbVars, approvals, memoryVars, adopted, past, changes, lost>>

(* The save once more; a second conflict is final.                         *)
Resave(p) ==
  /\ pc[p] = "resave"
  /\ \/ Saved(p, payload[p], then[p])
     \/ SavedUnheard(p, payload[p])
     \/ Refused(p, then[p])
  /\ Done(p)

(* A call that never reaches the server: an error, and nothing follows.    *)
FailedCall(p) ==
  /\ pc[p] \in {"resave", "request", "decide"}
  /\ Goto(p, "idle") /\ Done(p)
  /\ UNCHANGED <<dbVars, approvals, memoryVars, readVars, adopted, past, changes, lost>>

-----------------------------------------------------------------------------
(* Research, restores and approval.                                        *)

Researched == [stored EXCEPT !.research = changes']

(* newsletters_research_edits_write: the page's own write of the edit      *)
(* layer, under the same version lock but without a revision.              *)
EditResearch(p) ==
  /\ pc[p] = "idle" /\ Accepts(p) /\ Change
  /\ Write(Researched)
  /\ ver' = [ver EXCEPT ![p] = NextVersion]
  /\ base' = [base EXCEPT ![p] = [base[p] EXCEPT !.research = changes']]
  /\ mine' = [mine EXCEPT ![p] = [mine[p] EXCEPT !.research = changes']]
  /\ UNCHANGED <<revisions, approvals, pc, then, clean, fetchVars, adopted, lost>>

(* newsletters_research_write: a run lands its output.                     *)
ResearchWrite ==
  /\ Change /\ Write(Researched)
  /\ UNCHANGED <<revisions, approvals, pageVars, lost>>

(* newsletters_restore_edition_revision takes no expected version.         *)
Restore ==
  /\ \E r \in revisions : Write(r.content)
  /\ Snapshot
  /\ UNCHANGED <<approvals, pageVars, changes, lost>>

(* newsletters_request_edition_approval, refused while the content is      *)
(* approved as it stands.  The page asks even if its save was refused.     *)
NeverApproved == FALSE                                                           \* mutant
AlreadyApproved == Gate

Request(p) ==
  /\ pc[p] = "request"
  /\ \/ AlreadyApproved /\ UNCHANGED approvals
     \/ /\ ~AlreadyApproved /\ Len(approvals) < MaxRows
        /\ approvals' = Append(Superseded({"pending", "changes_requested", "approved"}),
                               Row(p, "pending"))
  /\ Goto(p, "idle")
  /\ UNCHANGED <<dbVars, then, memoryVars, fetchVars, adopted, past, changes, lost>>

(* The approver decides; a clean page needs no save first.                 *)
BeginDecide(p) ==
  /\ pc[p] = "idle" /\ mine[p] = clean[p]
  /\ Goto(p, "decide")
  /\ UNCHANGED <<dbVars, approvals, then, memoryVars, fetchVars, adopted, past, changes, lost>>

Pending == {i \in InForce : approvals[i].status = "pending"}
LatestPending == CHOOSE i \in Pending : \A j \in Pending : j <= i

(* The checks of newsletters_decide_edition_approval.                      *)
MayDecideUnchecked(p, decision) ==                                               \* mutant
  /\ p \in Approvers
  /\ Pending = {} => p \in SuperAdmins
  /\ Pending # {} /\ approvals[LatestPending].requester = p /\ decision = "approved"
       => p \in SuperAdmins
MayDecide(p, decision) ==
  /\ p \in Approvers /\ Accepts(p)
  /\ Pending = {} => p \in SuperAdmins
  /\ Pending # {} /\ approvals[LatestPending].requester = p /\ decision = "approved"
       => p \in SuperAdmins

Decided(p, decision) ==
  IF Pending = {}
  THEN Append(Superseded({"approved", "changes_requested"}), Row(p, decision))
  ELSE [approvals EXCEPT ![LatestPending] =
          [Row(p, decision) EXCEPT !.requester = approvals[LatestPending].requester]]

(* ensureSaved, then the decision, for the version the page holds.         *)
Decide(p) ==
  /\ pc[p] = "decide"
  /\ \E decision \in {"approved", "changes_requested"} :
       IF mine[p] = clean[p] /\ MayDecide(p, decision)
       THEN /\ Pending = {} => Len(approvals) < MaxRows
            /\ approvals' = Decided(p, decision)
       ELSE UNCHANGED approvals
  /\ Goto(p, "idle")
  /\ UNCHANGED <<dbVars, then, memoryVars, fetchVars, adopted, past, changes, lost>>

-----------------------------------------------------------------------------
PageStep(p) ==
  \/ Open(p) \/ LoadBlocks(p) \/ LoadBricks(p) \/ Close(p) \/ Type(p)
  \/ \E after \in {"idle", "request", "decide"} : Save(p, after)
  \/ PanelRefresh(p) \/ FetchVersion(p) \/ FetchBlocks(p) \/ Adopt(p) \/ GiveUp(p)
  \/ Resave(p) \/ FailedCall(p) \/ EditResearch(p)
  \/ Request(p) \/ BeginDecide(p) \/ Decide(p)

Next == ResearchWrite \/ Restore \/ \E p \in Pages : PageStep(p)
Spec == Init /\ [][Next]_vars

-----------------------------------------------------------------------------
Snapshots == [blocks : Values, research : Values]
Statuses  == {"pending", "approved", "changes_requested", "superseded"}
Rows == [status : Statuses, requester : Pages, decider : Pages, hash : Content,
         asSeen : BOOLEAN]

TableTypes ==
  /\ version \in Nat /\ stored \in Content /\ past \subseteq Content
  /\ revisions \subseteq [revision : Nat, content : Content]
  /\ approvals \in Seq(Rows) /\ changes \in 0..MaxChanges /\ lost \in Nat
PageTypes ==
  /\ pc \in [Pages -> Labels] /\ then \in [Pages -> {"idle", "panel", "request", "decide"}]
  /\ mine \in [Pages -> Content] /\ clean \in [Pages -> Content]
  /\ payload \in [Pages -> Content]
  /\ ver \in [Pages -> Nat] /\ base \in [Pages -> Snapshots]
  /\ freshVersion \in [Pages -> Nat \cup {Unread}]
  /\ freshBlocks \in [Pages -> Snapshots \cup {NoBlocks}]
  /\ adopted \in [Pages -> BOOLEAN]

(* The tables and the pages hold values of their type.                     *)
TypeOK == TableTypes /\ PageTypes

(* A page whose save would be accepted knows everything the save would     *)
(* overwrite.                                                              *)
KnowsAll(p) == pc[p] \notin Loading /\ Accepts(p) => Known(p) = stored

(* The lost update this lock was built against (069:8-10) cannot happen    *)
(* through a page that took no version over after a conflict, however its  *)
(* loads, saves, lost replies and refetches fall between those of others.  *)
NoBlindSave == \A p \in Pages : ~adopted[p] => KnowsAll(p)

(* research-conflict.ts:5-8: any difference but research falls back to the *)
(* reload toast, so that a page whose save would be accepted knows at      *)
(* least the bricks it would overwrite.                                    *)
AdoptsOnlyResearch ==
  \A p \in Pages : pc[p] \notin Loading /\ Accepts(p) => Known(p).bricks = stored.bricks

(* At most one request or decision is in force, whoever asks and decides   *)
(* in what order: which row is newest never matters.                       *)
OneInForce == Cardinality(InForce) <= 1

WellDecided(a) ==
  /\ a.decider \in Approvers
  /\ a.decider # a.requester \/ a.decider \in SuperAdmins
  /\ a.asSeen

(* While the gate is open, an approver who was not the requester (or is a  *)
(* super admin) had exactly the present content on screen when approving,  *)
(* unless a version was taken over unseen.                                 *)
GateMeansSeen == Gate => WellDecided(approvals[Latest])

(* Blocks and bricks that were ever stored are stored still or can be      *)
(* restored: the revisions are a recovery net (069:18-19).                 *)
Work(c) == <<c.blocks, c.bricks>>
RecoveryNet == \A c \in past : \/ Work(c) = Work(stored)
                               \/ \E r \in revisions : Work(r.content) = Work(c)

(* Why they hold.  A page that is behind is never let through; a page that *)
(* is not has read everything since the last write, also in a refetch or a *)
(* load half done; and every approved row was decided as GateMeansSeen     *)
(* wants, which it keeps for as long as the content stands.                *)
PageKnows(p) ==
  /\ ver[p] <= version /\ freshVersion[p] <= version
  /\ pc[p] = "bricks" /\ Accepts(p) => base[p] = SnapshotOf(stored)
  /\ freshBlocks[p] # NoBlocks =>
       pc[p] = "fetch" /\ (Accepts(p) => freshBlocks[p] = SnapshotOf(stored))
  /\ pc[p] = "resave" => then[p] # "panel" /\ payload[p].research = mine[p].research
  /\ pc[p] \notin Loading =>
       base[p].blocks = clean[p].blocks /\ base[p].research = mine[p].research
  /\ ~adopted[p] => KnowsAll(p)
RowsSound ==
  /\ \A i, j \in InForce : i = j
  /\ \A i \in DOMAIN approvals : approvals[i].status = "approved" => WellDecided(approvals[i])
EditionInv == RowsSound /\ \A p \in Pages : PageKnows(p)

(* An approval lapses only because the content changed or an approver asks *)
(* for changes; a new request does not throw it away.                      *)
ChangesWanted == \E i \in InForce : approvals[i].status = "changes_requested"
ApprovalStands == [][Gate /\ ~Gate' => stored' # stored \/ ChangesWanted']_vars
=============================================================================
