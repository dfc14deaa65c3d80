------------------------ MODULE EditionApprovalProofs ------------------------
(***************************************************************************)
(* NoBlindSave, OneInForce, GateMeansSeen, RecoveryNet and ApprovalStands  *)
(* for any number of pages, versions, changes and lost replies.  The       *)
(* argument is EditionInv: versions only grow, so a page that still has    *)
(* the present one has read everything since the last write.               *)
(***************************************************************************)
EXTENDS EditionApproval, FiniteSetTheorems, SequenceTheorems, TLAPS

USE DEF dbVars, memoryVars, readVars, fetchVars, pageVars

(* One part of a content, or of a snapshot, is replaced. *)
LEMMA Replace ==
  ASSUME NEW c \in Content, NEW v \in Values
  PROVE  /\ [c EXCEPT !.blocks = v] \in Content
         /\ [c EXCEPT !.blocks = v].research = c.research
         /\ [c EXCEPT !.bricks = v] \in Content
         /\ [c EXCEPT !.bricks = v].research = c.research
         /\ [c EXCEPT !.research = v] \in Content
         /\ [c EXCEPT !.research = v].blocks = c.blocks
         /\ [c EXCEPT !.research = v].bricks = c.bricks
         /\ [c EXCEPT !.research = v].research = v
  BY DEF Content

LEMMA ReplaceResearch ==
  ASSUME NEW s \in Snapshots, NEW v \in Values
  PROVE  /\ [s EXCEPT !.research = v] \in Snapshots
         /\ [s EXCEPT !.research = v].blocks = s.blocks
         /\ [s EXCEPT !.research = v].research = v
  BY DEF Snapshots

LEMMA SnapshotType ==
  ASSUME NEW c \in Content
  PROVE  /\ SnapshotOf(c) \in Snapshots
         /\ SnapshotOf(c).blocks = c.blocks /\ SnapshotOf(c).research = c.research
  BY DEF Content, Snapshots, SnapshotOf

LEMMA Constants ==
  /\ Blank \in Content /\ SnapshotOf(Blank) \in Snapshots /\ NoBlocks \notin Snapshots
  /\ Unread \notin Nat
<1>1. 0 \in Values /\ Unread \notin Values BY EditionAssumption DEF Values, Unread
<1>2. Blank \in Content BY <1>1 DEF Blank, Content
<1>3. NoBlocks \notin Snapshots BY <1>1 DEF NoBlocks, Snapshots
<1> QED BY <1>1, <1>2, <1>3, SnapshotType DEF Unread

LEMMA RowType ==
  ASSUME TypeOK, NEW p \in Pages, NEW status \in Statuses
  PROVE  Row(p, status) \in Rows /\ Row(p, status).status = status
         /\ Row(p, status).hash = stored
<1>1. stored \in Content /\ (mine[p] = stored \/ adopted[p]) \in BOOLEAN
  BY DEF TypeOK, TableTypes, PageTypes
<1> QED BY <1>1 DEF Row, Rows, ContentHash

(* The rows that are in force and not spared are superseded. *)
LEMMA SupersededRows ==
  ASSUME TypeOK, NEW statuses \in SUBSET Statuses
  PROVE  /\ Superseded(statuses) \in Seq(Rows)
         /\ Len(Superseded(statuses)) = Len(approvals)
         /\ DOMAIN Superseded(statuses) = DOMAIN approvals
         /\ \A i \in DOMAIN approvals :
              /\ approvals[i].status \in statuses =>
                   Superseded(statuses)[i].status = "superseded"
              /\ approvals[i].status \notin statuses =>
                   Superseded(statuses)[i] = approvals[i]
<1> DEFINE row(i) == IF approvals[i].status \in statuses
                     THEN [approvals[i] EXCEPT !.status = "superseded"] ELSE approvals[i]
<1>1. approvals \in Seq(Rows) /\ DOMAIN approvals = 1..Len(approvals) /\ Len(approvals) \in Nat
  BY DEF TypeOK, TableTypes
<1>2. \A i \in 1..Len(approvals) :
        /\ row(i) \in Rows
        /\ approvals[i].status \in statuses => row(i).status = "superseded"
        /\ approvals[i].status \notin statuses => row(i) = approvals[i]
  <2> SUFFICES ASSUME NEW i \in 1..Len(approvals)
      PROVE /\ row(i) \in Rows
            /\ approvals[i].status \in statuses => row(i).status = "superseded"
            /\ approvals[i].status \notin statuses => row(i) = approvals[i]
    OBVIOUS
  <2>1. approvals[i] \in Rows BY <1>1
  <2>2. [approvals[i] EXCEPT !.status = "superseded"] \in Rows
        /\ [approvals[i] EXCEPT !.status = "superseded"].status = "superseded"
    BY <2>1 DEF Rows, Statuses
  <2> QED BY <2>1, <2>2
<1>3. Superseded(statuses) = [i \in 1..Len(approvals) |-> row(i)]
  BY <1>1 DEF Superseded
<1> HIDE DEF row
<1>4. Superseded(statuses) \in Seq(Rows) /\ Len(Superseded(statuses)) = Len(approvals)
  BY <1>1, <1>2, <1>3, IsASeq
<1> QED BY <1>1, <1>2, <1>3, <1>4

-----------------------------------------------------------------------------
(* The approval rows.  At most one row is in force, and is the latest. *)
LEMMA OneRow ==
  ASSUME TypeOK, RowsSound
  PROVE  /\ InForce # {} => Latest \in InForce /\ InForce = {Latest}
         /\ Pending # {} => LatestPending \in Pending /\ InForce = {LatestPending}
<1>1. \A i \in InForce : i \in DOMAIN approvals /\ i <= i
  BY DEF TypeOK, TableTypes, InForce
<1>2. \A i, j \in InForce : i = j
  BY DEF RowsSound
<1>3. Pending \subseteq InForce
  BY DEF Pending
<1>4. ASSUME InForce # {} PROVE Latest \in InForce /\ InForce = {Latest}
  <2>1. \E i \in InForce : \A j \in InForce : j <= i BY <1>1, <1>2, <1>4
  <2>2. Latest \in InForce BY <2>1 DEF Latest
  <2> QED BY <1>2, <2>2
<1>5. ASSUME Pending # {} PROVE LatestPending \in Pending /\ InForce = {LatestPending}
  <2>1. \E i \in Pending : \A j \in Pending : j <= i BY <1>1, <1>2, <1>3, <1>5
  <2>2. LatestPending \in Pending BY <2>1 DEF LatestPending
  <2> QED BY <1>2, <1>3, <2>2
<1> QED BY <1>4, <1>5

(* A row is added that supersedes all that were in force. *)
LEMMA AddRow ==
  ASSUME TypeOK, RowsSound, NEW row \in Rows,
         NEW statuses \in SUBSET Statuses,
         \A i \in InForce : approvals[i].status \in statuses,
         approvals' = Append(Superseded(statuses), row),
         row.status # "superseded", row.status = "approved" => WellDecided(row)
  PROVE  /\ approvals' \in Seq(Rows) /\ RowsSound'
         /\ InForce' = {Len(approvals) + 1} /\ approvals'[Len(approvals) + 1] = row
<1>1. /\ Superseded(statuses) \in Seq(Rows) /\ Len(Superseded(statuses)) = Len(approvals)
      /\ \A i \in 1..Len(approvals) : Superseded(statuses)[i].status = "superseded"
  <2>1. DOMAIN approvals = 1..Len(approvals) BY DEF TypeOK, TableTypes
  <2> QED BY <2>1, SupersededRows DEF InForce
<1> DEFINE old == Superseded(statuses)
           n == Len(approvals)
<1>2. n \in Nat BY DEF TypeOK, TableTypes
<1> HIDE DEF old, n
<1>3. old \in Seq(Rows) /\ Len(old) = n /\ (\A i \in 1..n : old[i].status = "superseded")
      /\ approvals' = Append(old, row)
  BY <1>1 DEF old, n
<1>4. /\ approvals' \in Seq(Rows) /\ DOMAIN approvals' = 1..(n + 1)
      /\ approvals'[n + 1] = row /\ \A i \in 1..n : approvals'[i].status = "superseded"
  BY <1>2, <1>3, AppendProperties
<1>5. InForce' = {n + 1}
  <2>1. \A i \in 1..(n + 1) : i \in 1..n \/ i = n + 1 BY <1>2
  <2>2. n + 1 \in 1..(n + 1) BY <1>2
  <2> QED BY <1>4, <2>1, <2>2 DEF InForce
<1>6. RowsSound'
  <2>1. \A i \in DOMAIN approvals' : approvals'[i].status = "approved" => i = n + 1
    BY <1>2, <1>4
  <2>2. \A i \in DOMAIN approvals' :
          approvals'[i].status = "approved" => WellDecided(approvals'[i])
    BY <1>4, <2>1
  <2>3. \A a : WellDecided(a)' <=> WellDecided(a) BY DEF WellDecided
  <2> QED BY <1>5, <2>2 DEF RowsSound, WellDecided
<1> QED BY <1>4, <1>5, <1>6 DEF n

LEMMA StatusInForce ==
  ASSUME TypeOK, NEW i \in InForce
  PROVE  approvals[i] \in Rows
         /\ approvals[i].status \in {"pending", "changes_requested", "approved"}
<1>1. approvals[i] \in Rows /\ approvals[i].status # "superseded"
  BY DEF TypeOK, TableTypes, InForce
<1> QED BY <1>1 DEF Rows, Statuses

LEMMA RequestRows ==
  ASSUME TypeOK, RowsSound, NEW p \in Pages, Request(p)
  PROVE  approvals' \in Seq(Rows) /\ RowsSound'
<1>1. CASE UNCHANGED approvals
  BY <1>1 DEF TypeOK, TableTypes, RowsSound, InForce, WellDecided
<1>2. CASE approvals' = Append(Superseded({"pending", "changes_requested", "approved"}),
                               Row(p, "pending"))
  <2>1. Row(p, "pending") \in Rows /\ Row(p, "pending").status = "pending"
    BY RowType DEF Statuses
  <2>2. \A i \in InForce : approvals[i].status \in {"pending", "changes_requested", "approved"}
    BY StatusInForce
  <2> HIDE DEF Row
  <2> QED BY <1>2, <2>1, <2>2, AddRow DEF Statuses
<1> QED BY <1>1, <1>2 DEF Request

(* A page that may decide sees what is stored. *)
LEMMA DeciderSees ==
  ASSUME TypeOK, NEW p \in Pages, PageKnows(p), pc[p] = "decide", mine[p] = clean[p],
         Accepts(p)
  PROVE  mine[p] = stored \/ adopted[p]
<1> SUFFICES ASSUME ~adopted[p] PROVE mine[p] = stored
  OBVIOUS
<1>1. Known(p) = stored /\ base[p].blocks = mine[p].blocks /\ base[p].research = mine[p].research
  BY DEF PageKnows, KnowsAll, Loading
<1>2. Known(p).blocks = mine[p].blocks /\ Known(p).bricks = mine[p].bricks
      /\ Known(p).research = mine[p].research
  BY <1>1 DEF Known
<1>3. mine[p] \in Content /\ stored \in Content
  BY DEF TypeOK, TableTypes, PageTypes
<1> QED BY <1>1, <1>2, <1>3 DEF Content

(* A decision is a row of its own, or settles the one pending request. *)
LEMMA DecidedRows ==
  ASSUME TypeOK, RowsSound, NEW p \in Pages, PageKnows(p), pc[p] = "decide",
         NEW decision \in {"approved", "changes_requested"},
         mine[p] = clean[p], MayDecide(p, decision), approvals' = Decided(p, decision)
  PROVE  /\ approvals' \in Seq(Rows) /\ RowsSound'
         /\ \E i \in InForce' : /\ InForce' = {i} /\ approvals'[i].status = decision
                                /\ approvals'[i].hash = stored
<1>1. Row(p, decision) \in Rows /\ Row(p, decision).status = decision
      /\ Row(p, decision).hash = stored
  BY RowType DEF Statuses
<1>2. /\ Row(p, decision).decider = p /\ Row(p, decision).requester = p
      /\ Row(p, decision).asSeen
  BY DeciderSees DEF Row, MayDecide
<1>3. p \in Approvers /\ (Pending = {} => p \in SuperAdmins)
  BY DEF MayDecide
<1>4. CASE Pending = {}
  <2> DEFINE row == Row(p, decision)
  <2>1. approvals' = Append(Superseded({"approved", "changes_requested"}), row)
    BY <1>4 DEF Decided
  <2>2. \A i \in InForce : approvals[i].status \in {"approved", "changes_requested"}
    BY <1>4, StatusInForce DEF Pending
  <2>3. WellDecided(row) BY <1>2, <1>3, <1>4 DEF WellDecided
  <2>4. row \in Rows /\ row.status = decision /\ row.hash = stored BY <1>1
  <2> HIDE DEF row
  <2>5. /\ approvals' \in Seq(Rows) /\ RowsSound'
        /\ InForce' = {Len(approvals) + 1} /\ approvals'[Len(approvals) + 1] = row
    BY <2>1, <2>2, <2>3, <2>4, AddRow DEF Statuses
  <2> QED BY <2>4, <2>5
<1>5. CASE Pending # {}
  <2> DEFINE k == LatestPending
             row == [Row(p, decision) EXCEPT !.requester = approvals[k].requester]
  <2>1. k \in InForce /\ InForce = {k} /\ approvals[k].status = "pending"
    BY <1>5, OneRow DEF Pending
  <2>2. approvals[k] \in Rows BY <2>1, StatusInForce
  <2>3. row \in Rows /\ row.status = decision /\ row.hash = stored
        /\ row.requester = approvals[k].requester
        /\ row.decider = p /\ row.asSeen = Row(p, decision).asSeen
    <3> HIDE DEF Row
    <3> QED BY <1>1, <1>2, <2>2 DEF Rows
  <2>4. decision = "approved" => WellDecided(row)
    <3>1. decision = "approved" => row.requester # p \/ p \in SuperAdmins
      BY <1>5, <2>3 DEF MayDecide
    <3> HIDE DEF row
    <3> QED BY <1>2, <1>3, <2>3, <3>1 DEF WellDecided
  <2>5. approvals' = [approvals EXCEPT ![k] = row]
    BY <1>5 DEF Decided
  <2> HIDE DEF k, row
  <2>6. approvals \in Seq(Rows) /\ k \in 1..Len(approvals) /\ DOMAIN approvals = 1..Len(approvals)
    BY <2>1 DEF TypeOK, TableTypes, InForce
  <2>7. /\ approvals' \in Seq(Rows) /\ DOMAIN approvals' = DOMAIN approvals
        /\ \A i \in DOMAIN approvals : approvals'[i] = IF i = k THEN row ELSE approvals[i]
    BY <2>3, <2>5, <2>6, ExceptSeq
  <2>8. InForce' = {k}
    BY <2>1, <2>3, <2>6, <2>7 DEF InForce
  <2>9. \A i \in DOMAIN approvals' :
          approvals'[i].status = "approved" => WellDecided(approvals'[i])
    BY <2>3, <2>4, <2>7 DEF RowsSound
  <2> QED BY <2>3, <2>6, <2>7, <2>8, <2>9 DEF RowsSound, WellDecided
<1> QED BY <1>4, <1>5

LEMMA DecideRows ==
  ASSUME TypeOK, RowsSound, NEW p \in Pages, PageKnows(p), Decide(p)
  PROVE  approvals' \in Seq(Rows) /\ RowsSound'
<1>1. CASE UNCHANGED approvals
  BY <1>1 DEF TypeOK, TableTypes, RowsSound, InForce, WellDecided
<1> QED BY <1>1, DecidedRows DEF Decide

-----------------------------------------------------------------------------
(* Types.  What a change and a write of the content leave. *)
LEMMA ChangeType ==
  ASSUME TypeOK, Change
  PROVE  changes' \in 0..MaxChanges /\ changes' \in Values
  BY EditionAssumption DEF TypeOK, TableTypes, Change, Values

LEMMA WriteType ==
  ASSUME TypeOK, NEW c \in Content, Write(c)
  PROVE  /\ version' \in Nat /\ version' = version + 1 /\ stored' = c
         /\ stored' \in Content /\ past' \subseteq Content /\ past' = past \cup {c}
  BY DEF TypeOK, TableTypes, Write, NextVersion

LEMMA SnapshotKept ==
  ASSUME TypeOK, Snapshot
  PROVE  /\ revisions' \subseteq [revision : Nat, content : Content]
         /\ revisions \subseteq revisions'
         /\ \E r \in revisions' : r.content = stored
<1>1. Overwritten \in [revision : Nat, content : Content] /\ Overwritten.content = stored
  BY DEF TypeOK, TableTypes, Overwritten
<1> QED BY <1>1 DEF TypeOK, TableTypes, Snapshot

LEMMA ResearchedType ==
  ASSUME TypeOK, Change
  PROVE  /\ Researched \in Content /\ Work(Researched) = Work(stored)
         /\ Researched.research = changes'
  BY ChangeType, Replace DEF TypeOK, TableTypes, Researched, Work

LEMMA LabelsType ==
  /\ {"idle", "request", "decide", "fetch", "resave", "closed", "blocks", "bricks"}
       \subseteq Labels
  BY DEF Labels, Loading

(* The values a save writes. *)
LEMMA SavedTypes ==
  ASSUME TypeOK, NEW p \in Pages, NEW c \in Content, NEW label \in Labels, Saved(p, c, label)
  PROVE  /\ TableTypes'
         /\ pc' \in [Pages -> Labels] /\ ver' \in [Pages -> Nat]
         /\ base' \in [Pages -> Snapshots] /\ clean' \in [Pages -> Content]
         /\ UNCHANGED <<mine, readVars, adopted>>
<1>1. TableTypes'
  BY WriteType, SnapshotKept DEF Saved, TypeOK, TableTypes
<1>2. NextVersion \in Nat /\ SnapshotOf(c) \in Snapshots
  BY SnapshotType DEF NextVersion, TypeOK, TableTypes
<1> QED BY <1>1, <1>2 DEF Saved, Goto, TypeOK, PageTypes

LEMMA UnheardTypes ==
  ASSUME TypeOK, NEW p \in Pages, NEW c \in Content, SavedUnheard(p, c)
  PROVE  /\ TableTypes' /\ pc' \in [Pages -> Labels]
         /\ UNCHANGED <<memoryVars, readVars, adopted>>
<1>1. TableTypes'
  BY WriteType, SnapshotKept DEF SavedUnheard, TypeOK, TableTypes
<1> QED BY <1>1, LabelsType DEF SavedUnheard, Goto, TypeOK, PageTypes

(* What a save leaves, with what the page carries on to the next call. *)
LEMMA CarryTypes ==
  ASSUME TypeOK, TableTypes', NEW p \in Pages, pc' \in [Pages -> Labels],
         ver' \in [Pages -> Nat], base' \in [Pages -> Snapshots],
         clean' \in [Pages -> Content], mine' \in [Pages -> Content],
         freshVersion' \in [Pages -> Nat \cup {Unread}],
         freshBlocks' \in [Pages -> Snapshots \cup {NoBlocks}],
         adopted' \in [Pages -> BOOLEAN],
         NEW after \in {"idle", "panel", "request", "decide"}, NEW c \in Content,
         Carry(p, after, c)
  PROVE  TypeOK'
  BY DEF Carry, TypeOK, PageTypes

LEMMA TypeInit == Init => TypeOK
<1> SUFFICES ASSUME Init PROVE TypeOK
  OBVIOUS
<1>1. TableTypes
  BY Constants, EditionAssumption DEF Init, TableTypes
<1>2. PageTypes
  BY Constants, LabelsType DEF Init, PageTypes
<1> QED BY <1>1, <1>2 DEF TypeOK

(* A page that opens, loads, types or closes. *)
LEMMA ScreenTypes ==
  ASSUME TypeOK, NEW p \in Pages,
         Open(p) \/ LoadBlocks(p) \/ LoadBricks(p) \/ Close(p) \/ Type(p)
  PROVE  TypeOK'
<1> USE DEF TypeOK, TableTypes, PageTypes
<1>1. CASE Open(p)
  BY <1>1, LabelsType DEF Open, Goto
<1>2. CASE LoadBlocks(p)
  BY <1>2, LabelsType, SnapshotType DEF LoadBlocks, Goto
<1>3. CASE LoadBricks(p)
  <2> DEFINE loaded == [blocks |-> base[p].blocks, bricks |-> stored.bricks,
                        research |-> base[p].research]
  <2>1. base[p] \in Snapshots /\ stored \in Content OBVIOUS
  <2>2. loaded \in Content BY <2>1 DEF Content, Snapshots
  <2>3. clean' = [clean EXCEPT ![p] = loaded] /\ mine' = [mine EXCEPT ![p] = loaded]
        /\ Goto(p, "idle")
        /\ UNCHANGED <<dbVars, approvals, then, ver, base, fetchVars, adopted, past, changes,
                       lost>>
    BY <1>3 DEF LoadBricks
  <2> HIDE DEF loaded
  <2> QED BY <2>2, <2>3, LabelsType DEF Goto
<1>4. CASE Close(p)
  BY <1>4, LabelsType, Constants DEF Close, Goto
<1>5. CASE Type(p)
  <2>1. PICK c \in {[mine[p] EXCEPT !.blocks = changes'], [mine[p] EXCEPT !.bricks = changes']} :
          mine' = [mine EXCEPT ![p] = c]
    BY <1>5 DEF Type
  <2>2. mine[p] \in Content /\ changes' \in Values BY <1>5, ChangeType DEF Type
  <2> HIDE DEF TypeOK, TableTypes, PageTypes
  <2>3. c \in Content BY <2>1, <2>2, Replace
  <2> USE DEF TypeOK, TableTypes, PageTypes
  <2>4. mine' \in [Pages -> Content] /\ changes' \in 0..MaxChanges
    BY <1>5, <2>1, <2>3, ChangeType DEF Type
  <2> QED BY <1>5, <2>4 DEF Type
<1> QED BY <1>1, <1>2, <1>3, <1>4, <1>5

(* A save, first or second. *)
LEMMA SaveTypes ==
  ASSUME TypeOK, NEW p \in Pages, PageKnows(p),
         Resave(p) \/ \E after \in {"idle", "request", "decide"} : Save(p, after)
  PROVE  TypeOK'
<1>1. mine[p] \in Content /\ payload[p] \in Content /\ Blank \in Content
      /\ then[p] \in {"idle", "panel", "request", "decide"}
  BY Constants DEF TypeOK, PageTypes
<1>2. ASSUME NEW c \in Content, NEW label \in Labels, Saved(p, c, label), Done(p)
      PROVE  TypeOK'
  <2>1. /\ TableTypes'
        /\ pc' \in [Pages -> Labels] /\ ver' \in [Pages -> Nat]
        /\ base' \in [Pages -> Snapshots] /\ clean' \in [Pages -> Content]
        /\ UNCHANGED <<mine, readVars, adopted>>
    BY <1>2, SavedTypes
  <2> QED BY <1>1, <1>2, <2>1, CarryTypes DEF Done, TypeOK, PageTypes
<1>3. ASSUME NEW c \in Content, SavedUnheard(p, c), Done(p)
      PROVE  TypeOK'
  <2>1. /\ TableTypes' /\ pc' \in [Pages -> Labels]
        /\ UNCHANGED <<memoryVars, readVars, adopted>>
    BY <1>3, UnheardTypes
  <2> QED BY <1>1, <1>3, <2>1, CarryTypes DEF Done, TypeOK, PageTypes
<1>4. ASSUME NEW label \in Labels, Refused(p, label),
             NEW after \in {"idle", "panel", "request", "decide"}, NEW c \in Content,
             Carry(p, after, c)
      PROVE  TypeOK'
  <2>1. TableTypes' /\ pc' \in [Pages -> Labels]
        /\ UNCHANGED <<memoryVars, readVars, adopted>>
    BY <1>4 DEF Refused, Goto, TypeOK, TableTypes, PageTypes
  <2> QED BY <1>4, <2>1, CarryTypes DEF TypeOK, PageTypes
<1>5. CASE Resave(p)
  <2>1. then[p] \in Labels
    BY <1>1, <1>5, LabelsType DEF Resave, PageKnows
  <2> QED BY <1>1, <1>2, <1>3, <1>4, <1>5, <2>1 DEF Resave, Done
<1>6. ASSUME NEW after \in {"idle", "request", "decide"}, Save(p, after) PROVE TypeOK'
  BY <1>1, <1>2, <1>3, <1>4, <1>6, LabelsType DEF Save
<1> QED BY <1>5, <1>6

(* The edition a page goes on with, once it has read both. *)
LEMMA AdoptValues ==
  ASSUME TypeOK, NEW p \in Pages, Adopt(p)
  PROVE  LET next == [payload[p] EXCEPT !.research = freshBlocks[p].research] IN
         /\ next \in Content /\ next.research = freshBlocks[p].research
         /\ freshBlocks[p] \in Snapshots /\ freshVersion[p] \in Nat
<1>1. freshBlocks[p] \in Snapshots /\ freshVersion[p] \in Nat /\ payload[p] \in Content
  BY DEF Adopt, TypeOK, PageTypes
<1>2. freshBlocks[p].research \in Values
  BY <1>1 DEF Snapshots
<1> QED BY <1>1, <1>2, Replace

LEMMA FetchTypes ==
  ASSUME TypeOK, NEW p \in Pages,
         PanelRefresh(p) \/ FetchVersion(p) \/ FetchBlocks(p) \/ Adopt(p) \/ GiveUp(p)
  PROVE  TypeOK'
<1> USE DEF TypeOK, TableTypes, PageTypes
<1>1. CASE PanelRefresh(p)
  BY <1>1, LabelsType DEF PanelRefresh, Goto, Carry
<1>2. CASE FetchVersion(p)
  BY <1>2 DEF FetchVersion
<1>3. CASE FetchBlocks(p)
  BY <1>3, SnapshotType DEF FetchBlocks
<1>4. CASE Adopt(p)
  <2> DEFINE next == [payload[p] EXCEPT !.research = freshBlocks[p].research]
  <2>1. next \in Content /\ freshBlocks[p] \in Snapshots /\ freshVersion[p] \in Nat
    BY <1>4, AdoptValues
  <2>2. /\ mine' = [mine EXCEPT ![p] = next]
        /\ ver' = [ver EXCEPT ![p] = freshVersion[p]]
        /\ base' = [base EXCEPT ![p] = freshBlocks[p]]
        /\ Forget(p) /\ UNCHANGED <<dbVars, approvals, clean, past, changes, lost>>
        /\ \/ Goto(p, "idle") /\ Done(p)
           \/ Goto(p, "resave") /\ Carry(p, then[p], next)
    BY <1>4 DEF Adopt
  <2>3. adopted' \in [Pages -> BOOLEAN]
    <3> DEFINE after == adopted[p] \/ freshVersion[p] # ver[p]
    <3>1. adopted' = [adopted EXCEPT ![p] = after] BY <1>4 DEF Adopt
    <3>2. after \in BOOLEAN OBVIOUS
    <3> HIDE DEF after
    <3> QED BY <3>1, <3>2
  <2> HIDE DEF next
  <2>4. TableTypes' BY <2>2
  <2>5. /\ pc' \in [Pages -> Labels] /\ mine' \in [Pages -> Content]
        /\ ver' \in [Pages -> Nat] /\ base' \in [Pages -> Snapshots]
        /\ freshVersion' \in [Pages -> Nat \cup {Unread}]
        /\ freshBlocks' \in [Pages -> Snapshots \cup {NoBlocks}]
        /\ clean' \in [Pages -> Content]
    BY <2>1, <2>2, LabelsType DEF Goto, Forget
  <2>6. Blank \in Content /\ then[p] \in {"idle", "panel", "request", "decide"}
    BY Constants
  <2> QED BY <2>1, <2>2, <2>3, <2>4, <2>5, <2>6, CarryTypes DEF Done
<1>5. CASE GiveUp(p)
  <2>1. After(p) \in Labels
    BY LabelsType DEF After
  <2>2. /\ TableTypes' /\ pc' \in [Pages -> Labels]
        /\ freshVersion' \in [Pages -> Nat \cup {Unread}]
        /\ freshBlocks' \in [Pages -> Snapshots \cup {NoBlocks}]
        /\ UNCHANGED <<memoryVars, adopted>>
    BY <1>5, <2>1 DEF GiveUp, Goto, Forget
  <2> QED BY <1>5, <2>2, CarryTypes, Constants DEF GiveUp, Done
<1> QED BY <1>1, <1>2, <1>3, <1>4, <1>5

(* A failed call, the panel's own write, and approval. *)
LEMMA ApprovalTypes ==
  ASSUME TypeOK, RowsSound, NEW p \in Pages, PageKnows(p),
         FailedCall(p) \/ EditResearch(p) \/ Request(p) \/ BeginDecide(p) \/ Decide(p)
  PROVE  TypeOK'
<1>1. CASE FailedCall(p)
  <2>1. TableTypes' /\ pc' \in [Pages -> Labels]
        /\ UNCHANGED <<memoryVars, readVars, adopted>>
    BY <1>1, LabelsType DEF FailedCall, Goto, TypeOK, TableTypes, PageTypes
  <2> QED BY <1>1, <2>1, CarryTypes, Constants DEF FailedCall, Done, TypeOK, PageTypes
<1>2. CASE EditResearch(p)
  <2>1. Write(Researched) /\ Researched \in Content /\ changes' \in 0..MaxChanges
        /\ changes' \in Values
    BY <1>2, ResearchedType, ChangeType DEF EditResearch
  <2>2. TableTypes'
    BY <1>2, <2>1, WriteType DEF EditResearch, TypeOK, TableTypes
  <2>3. base[p] \in Snapshots /\ mine[p] \in Content /\ NextVersion \in Nat
    BY DEF TypeOK, TableTypes, PageTypes, NextVersion
  <2>4. [base[p] EXCEPT !.research = changes'] \in Snapshots
        /\ [mine[p] EXCEPT !.research = changes'] \in Content
    BY <2>1, <2>3, Replace, ReplaceResearch
  <2>5. PageTypes'
    BY <1>2, <2>3, <2>4 DEF EditResearch, TypeOK, PageTypes
  <2> QED BY <2>2, <2>5 DEF TypeOK
<1>3. CASE Request(p) \/ Decide(p)
  <2>1. approvals' \in Seq(Rows)
    BY <1>3, RequestRows, DecideRows
  <2> QED BY <1>3, <2>1, LabelsType DEF Request, Decide, Goto, TypeOK, TableTypes, PageTypes
<1>4. CASE BeginDecide(p)
  BY <1>4, LabelsType DEF BeginDecide, Goto, TypeOK, TableTypes, PageTypes
<1> QED BY <1>1, <1>2, <1>3, <1>4

LEMMA TypeStep == TypeOK /\ EditionInv /\ [Next]_vars => TypeOK'
<1> SUFFICES ASSUME TypeOK, EditionInv, [Next]_vars PROVE TypeOK'
  OBVIOUS
<1>1. CASE ResearchWrite
  <2>1. Write(Researched) /\ Researched \in Content /\ changes' \in 0..MaxChanges
    BY <1>1, ResearchedType, ChangeType DEF ResearchWrite
  <2>2. TableTypes'
    BY <1>1, <2>1, WriteType DEF ResearchWrite, TypeOK, TableTypes
  <2> QED BY <1>1, <2>2 DEF ResearchWrite, TypeOK, PageTypes
<1>2. CASE Restore
  <2>1. PICK r \in revisions : Write(r.content) BY <1>2 DEF Restore
  <2>2. r.content \in Content BY DEF TypeOK, TableTypes
  <2>3. TableTypes'
    BY <1>2, <2>1, <2>2, WriteType, SnapshotKept DEF Restore, TypeOK, TableTypes
  <2> QED BY <1>2, <2>3 DEF Restore, TypeOK, PageTypes
<1>3. ASSUME NEW p \in Pages, PageStep(p) PROVE TypeOK'
  BY <1>3, ScreenTypes, SaveTypes, FetchTypes, ApprovalTypes DEF PageStep, EditionInv
<1>4. CASE UNCHANGED vars
  BY <1>4 DEF vars, TypeOK, TableTypes, PageTypes
<1> QED BY <1>1, <1>2, <1>3, <1>4 DEF Next

-----------------------------------------------------------------------------
(* What a page knows.  It stays true of a page that does not move: either  *)
(* nothing was written, or the page is behind from now on. *)
SamePage(q) ==
  /\ pc'[q] = pc[q] /\ then'[q] = then[q] /\ mine'[q] = mine[q] /\ ver'[q] = ver[q]
  /\ base'[q] = base[q] /\ clean'[q] = clean[q] /\ payload'[q] = payload[q]
  /\ freshVersion'[q] = freshVersion[q] /\ freshBlocks'[q] = freshBlocks[q]
  /\ adopted'[q] = adopted[q]

Written == version' = version + 1
Unwritten == version' = version /\ stored' = stored

LEMMA OtherPage ==
  ASSUME TypeOK, NEW q \in Pages, PageKnows(q), SamePage(q), Written \/ Unwritten
  PROVE  PageKnows(q)'
<1>1. version \in Nat /\ ver[q] \in Nat /\ ver[q] <= version
      /\ freshVersion[q] \in Int /\ freshVersion[q] <= version
  BY DEF TypeOK, TableTypes, PageTypes, PageKnows, Unread
<1>2. CASE Unwritten
  BY <1>2 DEF Unwritten, SamePage, PageKnows, KnowsAll, Known, Accepts
<1>3. CASE Written
  <2>1. version' = version + 1 BY <1>3 DEF Written
  <2>2. ver'[q] <= version' /\ freshVersion'[q] <= version' /\ ver'[q] # version'
    BY <1>1, <2>1 DEF SamePage
  <2> QED BY <2>2 DEF SamePage, PageKnows, KnowsAll, Accepts
<1> QED BY <1>2, <1>3

(* A page that opens, loads, types or closes. *)
LEMMA ScreenKnows ==
  ASSUME TypeOK, NEW p \in Pages, PageKnows(p),
         Open(p) \/ LoadBlocks(p) \/ LoadBricks(p) \/ Close(p) \/ Type(p)
  PROVE  PageKnows(p)'
<1> USE DEF TypeOK, TableTypes, PageTypes
<1>1. version \in Nat /\ version <= version /\ 0 <= version /\ stored \in Content
      /\ base[p] \in Snapshots /\ mine[p] \in Content
  OBVIOUS
<1>2. pc[p] # "fetch" => freshBlocks[p] = NoBlocks
  BY DEF PageKnows
<1>3. CASE Open(p)
  BY <1>1, <1>2, <1>3 DEF Open, Goto, PageKnows, KnowsAll, Accepts, Loading
<1>4. CASE LoadBlocks(p)
  BY <1>1, <1>2, <1>4 DEF LoadBlocks, Goto, PageKnows, KnowsAll, Accepts, Loading
<1>5. CASE LoadBricks(p)
  <2> DEFINE loaded == [blocks |-> base[p].blocks, bricks |-> stored.bricks,
                        research |-> base[p].research]
  <2>1. loaded.blocks = base[p].blocks /\ loaded.bricks = stored.bricks
        /\ loaded.research = base[p].research
    OBVIOUS
  <2>2. clean' = [clean EXCEPT ![p] = loaded] /\ mine' = [mine EXCEPT ![p] = loaded]
        /\ pc' = [pc EXCEPT ![p] = "idle"] /\ pc[p] = "bricks"
        /\ UNCHANGED <<version, stored, ver, base, freshVersion, freshBlocks, adopted>>
    BY <1>5 DEF LoadBricks, Goto
  <2> HIDE DEF loaded
  <2>3. Accepts(p) => base[p] = SnapshotOf(stored) BY <2>2 DEF PageKnows
  <2>4. Accepts(p) => base[p].blocks = stored.blocks /\ base[p].research = stored.research
    BY <2>3, SnapshotType
  <2>5. KnowsAll(p)'
    BY <1>1, <2>1, <2>2, <2>4 DEF KnowsAll, Known, Accepts, Content
  <2> QED BY <1>2, <2>1, <2>2, <2>5 DEF PageKnows, Loading
<1>6. CASE Close(p)
  BY <1>1, <1>2, <1>6 DEF Close, Goto, PageKnows, KnowsAll, Accepts, Loading
<1>7. CASE Type(p)
  <2>1. PICK c \in {[mine[p] EXCEPT !.blocks = changes'], [mine[p] EXCEPT !.bricks = changes']} :
          mine' = [mine EXCEPT ![p] = c]
    BY <1>7 DEF Type
  <2>2. changes' \in Values BY <1>7, ChangeType DEF Type
  <2>3. c.research = mine[p].research
    <3> HIDE DEF TypeOK, TableTypes, PageTypes
    <3>1. [mine[p] EXCEPT !.blocks = changes'].research = mine[p].research
      BY <1>1, <2>2, Replace
    <3>2. [mine[p] EXCEPT !.bricks = changes'].research = mine[p].research
      BY <1>1, <2>2, Replace
    <3> QED BY <2>1, <3>1, <3>2
  <2>4. mine'[p].research = mine[p].research
        /\ UNCHANGED <<version, stored, pc, then, ver, base, clean, payload, freshVersion,
                       freshBlocks, adopted>>
    BY <1>7, <2>1, <2>3 DEF Type
  <2> QED BY <2>4 DEF PageKnows, KnowsAll, Known, Accepts
<1> QED BY <1>3, <1>4, <1>5, <1>6, <1>7

(* After a save the page holds what is stored; a save it does not hear of  *)
(* leaves it behind. *)
LEMMA SaveKnows ==
  ASSUME TypeOK, NEW p \in Pages, PageKnows(p),
         Resave(p) \/ \E after \in {"idle", "request", "decide"} : Save(p, after)
  PROVE  PageKnows(p)'
<1>1. mine[p] \in Content /\ payload[p] \in Content /\ version \in Nat
      /\ ver[p] \in Nat /\ freshVersion[p] \in Int
  BY DEF TypeOK, TableTypes, PageTypes, Unread
<1>2. pc[p] \in {"idle", "resave"} /\ freshBlocks[p] = NoBlocks
  BY DEF Resave, Save, PageKnows
<1>3. pc[p] \notin Loading /\ freshVersion[p] <= version /\ ver[p] <= version
      /\ base[p].blocks = clean[p].blocks /\ base[p].research = mine[p].research
  BY <1>2 DEF PageKnows, Loading
<1>4. ASSUME NEW c \in Content, c.research = mine[p].research,
             NEW label \in {"idle", "request", "decide"}, Saved(p, c, label)
      PROVE  PageKnows(p)'
  <2>1. version' = version + 1 /\ stored' = c BY <1>4, WriteType DEF Saved
  <2>2. /\ ver'[p] = version' /\ base'[p] = SnapshotOf(c) /\ clean'[p] = c
        /\ pc'[p] = label /\ UNCHANGED <<mine, freshVersion, freshBlocks, adopted>>
    BY <1>4, <2>1 DEF Saved, Goto, NextVersion, TypeOK, PageTypes
  <2>3. base'[p].blocks = c.blocks /\ base'[p].research = c.research
    BY <2>2, SnapshotType
  <2>4. Known(p)' = stored'
    BY <2>1, <2>2, <2>3 DEF Known, Content
  <2>5. ver'[p] <= version' /\ freshVersion'[p] <= version' BY <1>1, <1>3, <2>1, <2>2
  <2> QED BY <1>2, <1>4, <2>2, <2>3, <2>4, <2>5 DEF PageKnows, KnowsAll, Loading
<1>5. ASSUME NEW c \in Content, SavedUnheard(p, c) PROVE PageKnows(p)'
  <2>1. version' = version + 1 BY <1>5, WriteType DEF SavedUnheard
  <2>2. pc'[p] = "idle" /\ UNCHANGED <<memoryVars, freshVersion, freshBlocks, adopted>>
    BY <1>5 DEF SavedUnheard, Goto, TypeOK, PageTypes
  <2>3. ver'[p] <= version' /\ freshVersion'[p] <= version' /\ ver'[p] # version'
    BY <1>1, <1>3, <2>1, <2>2
  <2> QED BY <1>2, <1>3, <2>2, <2>3 DEF PageKnows, KnowsAll, Accepts, Loading
<1>6. ASSUME NEW label \in {"idle", "fetch", "request", "decide"}, Refused(p, label)
      PROVE  PageKnows(p)'
  <2>1. pc'[p] = label
        /\ UNCHANGED <<version, stored, memoryVars, freshVersion, freshBlocks, adopted>>
    BY <1>6 DEF Refused, Goto, TypeOK, PageTypes
  <2>2. ~adopted[p] => KnowsAll(p) BY DEF PageKnows
  <2>3. (~adopted[p] => KnowsAll(p))' BY <1>3, <2>1, <2>2 DEF KnowsAll, Known, Accepts, Loading
  <2> QED BY <1>2, <1>3, <1>6, <2>1, <2>3 DEF PageKnows, Loading
<1>7. CASE Resave(p)
  <2>1. then[p] \in {"idle", "request", "decide"} /\ payload[p].research = mine[p].research
    BY <1>7 DEF Resave, PageKnows, TypeOK, PageTypes
  <2> QED BY <1>1, <1>4, <1>5, <1>6, <1>7, <2>1 DEF Resave
<1>8. ASSUME NEW after \in {"idle", "request", "decide"}, Save(p, after) PROVE PageKnows(p)'
  BY <1>1, <1>4, <1>5, <1>6, <1>8 DEF Save
<1> QED BY <1>7, <1>8

(* A refetch reads what is stored; what it takes over is consistent. *)
LEMMA FetchKnows ==
  ASSUME TypeOK, NEW p \in Pages, PageKnows(p),
         PanelRefresh(p) \/ FetchVersion(p) \/ FetchBlocks(p) \/ Adopt(p) \/ GiveUp(p)
  PROVE  PageKnows(p)'
<1>1. version \in Nat /\ version <= version /\ stored \in Content /\ Unread <= version
      /\ base[p] \in Snapshots
  BY DEF TypeOK, TableTypes, PageTypes, Unread
<1>2. UNCHANGED <<version, stored>>
  BY DEF PanelRefresh, FetchVersion, FetchBlocks, Adopt, GiveUp
<1>3. pc[p] \in {"idle", "fetch"} /\ pc[p] \notin Loading
      /\ ver[p] <= version /\ freshVersion[p] <= version
      /\ base[p].blocks = clean[p].blocks /\ base[p].research = mine[p].research
  BY DEF PanelRefresh, FetchVersion, FetchBlocks, Adopt, GiveUp, PageKnows, Loading
<1>4. CASE PanelRefresh(p)
  <2>1. pc'[p] = "fetch" /\ UNCHANGED <<memoryVars, freshVersion, freshBlocks, adopted>>
        /\ pc[p] = "idle"
    BY <1>4 DEF PanelRefresh, Goto, TypeOK, PageTypes
  <2> QED BY <1>2, <1>3, <2>1 DEF PageKnows, KnowsAll, Known, Accepts, Loading
<1>5. CASE FetchVersion(p)
  <2>1. freshVersion'[p] = version
        /\ UNCHANGED <<pc, then, memoryVars, payload, freshBlocks, adopted>>
    BY <1>5 DEF FetchVersion, TypeOK, PageTypes
  <2> QED BY <1>1, <1>2, <1>3, <2>1 DEF PageKnows, KnowsAll, Known, Accepts
<1>6. CASE FetchBlocks(p)
  <2>1. freshBlocks'[p] = SnapshotOf(stored) /\ pc[p] = "fetch"
        /\ UNCHANGED <<pc, then, memoryVars, payload, freshVersion, adopted>>
    BY <1>6 DEF FetchBlocks, TypeOK, PageTypes
  <2> QED BY <1>2, <1>3, <2>1 DEF PageKnows, KnowsAll, Known, Accepts, Loading
<1>7. ASSUME Forget(p) PROVE freshVersion'[p] <= version' /\ freshBlocks'[p] = NoBlocks
  BY <1>1, <1>2, <1>7 DEF Forget, TypeOK, PageTypes
<1>8. CASE Adopt(p)
  <2> DEFINE next == [payload[p] EXCEPT !.research = freshBlocks[p].research]
  <2>1. next \in Content /\ next.research = freshBlocks[p].research
        /\ freshBlocks[p] \in Snapshots
    BY <1>8, AdoptValues
  <2>2. /\ mine' = [mine EXCEPT ![p] = next]
        /\ ver' = [ver EXCEPT ![p] = freshVersion[p]]
        /\ base' = [base EXCEPT ![p] = freshBlocks[p]]
        /\ Forget(p) /\ OnlyResearch(p) /\ freshBlocks[p] # NoBlocks /\ clean' = clean
        /\ \/ Goto(p, "idle") /\ Done(p)
           \/ then[p] # "panel" /\ Goto(p, "resave") /\ Carry(p, then[p], next)
    BY <1>8 DEF Adopt
  <2> HIDE DEF next
  <2>3. /\ mine'[p] = next /\ ver'[p] = freshVersion[p] /\ base'[p] = freshBlocks[p]
        /\ clean'[p] = clean[p]
        /\ \/ pc'[p] = "idle"
           \/ pc'[p] = "resave" /\ then'[p] = then[p] /\ payload'[p] = next /\ then[p] # "panel"
    BY <2>2 DEF Goto, Carry, TypeOK, PageTypes
  <2>4. base'[p].blocks = clean'[p].blocks /\ base'[p].research = mine'[p].research
    BY <1>3, <2>1, <2>2, <2>3 DEF OnlyResearch
  <2>5. ~adopted'[p] => ~adopted[p] /\ freshVersion[p] = ver[p]
    <3> DEFINE after == adopted[p] \/ freshVersion[p] # ver[p]
    <3>1. adopted' = [adopted EXCEPT ![p] = after] BY <1>8 DEF Adopt
    <3> HIDE DEF after
    <3>2. adopted'[p] = after BY <3>1 DEF TypeOK, PageTypes
    <3> QED BY <3>2 DEF after
  <2>6. ASSUME ~adopted'[p], Accepts(p)' PROVE Known(p)' = stored'
    <3>1. ~adopted[p] /\ Accepts(p) BY <1>2, <2>3, <2>5, <2>6 DEF Accepts
    <3>2. Known(p) = stored BY <1>3, <3>1 DEF PageKnows, KnowsAll
    <3>3. freshBlocks[p] = SnapshotOf(stored) BY <2>2, <3>1 DEF PageKnows
    <3>4. base'[p].blocks = stored.blocks /\ base'[p].research = stored.research
          /\ clean'[p].bricks = stored.bricks
      <4>1. clean[p].bricks = stored.bricks BY <3>2 DEF Known
      <4> QED BY <1>1, <2>3, <3>3, <4>1, SnapshotType
    <3> QED BY <1>1, <1>2, <3>4 DEF Known, Content
  <2> QED BY <1>2, <1>3, <1>7, <2>1, <2>2, <2>3, <2>4, <2>6 DEF PageKnows, KnowsAll, Loading
<1>9. CASE GiveUp(p)
  <2>1. pc'[p] = After(p) /\ UNCHANGED <<memoryVars, adopted>> /\ Forget(p)
    BY <1>9 DEF GiveUp, Goto, TypeOK, PageTypes
  <2>2. After(p) \in {"idle", "request", "decide"}
    BY DEF After, TypeOK, PageTypes
  <2> QED BY <1>2, <1>3, <1>7, <2>1, <2>2 DEF PageKnows, KnowsAll, Known, Accepts, Loading
<1> QED BY <1>4, <1>5, <1>6, <1>8, <1>9

(* The panel's own write, a failed call, and approval. *)
LEMMA ApprovalKnows ==
  ASSUME TypeOK, NEW p \in Pages, PageKnows(p),
         FailedCall(p) \/ EditResearch(p) \/ Request(p) \/ BeginDecide(p) \/ Decide(p)
  PROVE  PageKnows(p)'
<1>1. pc[p] \in {"idle", "resave", "request", "decide"} /\ pc[p] \notin Loading
      /\ freshBlocks[p] = NoBlocks
      /\ base[p].blocks = clean[p].blocks /\ base[p].research = mine[p].research
  BY DEF FailedCall, EditResearch, Request, BeginDecide, Decide, PageKnows, Loading
<1>2. CASE FailedCall(p) \/ Request(p) \/ BeginDecide(p) \/ Decide(p)
  <2>1. pc'[p] \in {"idle", "decide"}
        /\ UNCHANGED <<version, stored, memoryVars, freshVersion, freshBlocks, adopted>>
    BY <1>2 DEF FailedCall, Request, BeginDecide, Decide, Goto, TypeOK, PageTypes
  <2> QED BY <1>1, <2>1 DEF PageKnows, KnowsAll, Known, Accepts, Loading
<1>3. CASE EditResearch(p)
  <2>1. /\ version' = version + 1 /\ stored' = Researched /\ changes' \in Values
        /\ stored \in Content /\ base[p] \in Snapshots /\ mine[p] \in Content
        /\ version \in Nat /\ freshVersion[p] \in Int /\ freshVersion[p] <= version
    BY <1>3, WriteType, ResearchedType, ChangeType
    DEF EditResearch, TypeOK, TableTypes, PageTypes, PageKnows, Unread
  <2>2. /\ ver'[p] = version' /\ base'[p] = [base[p] EXCEPT !.research = changes']
        /\ mine'[p] = [mine[p] EXCEPT !.research = changes']
        /\ UNCHANGED <<pc, clean, freshVersion, freshBlocks, adopted>> /\ Accepts(p)
    BY <1>3, <2>1 DEF EditResearch, NextVersion, TypeOK, PageTypes
  <2>3. base'[p].blocks = base[p].blocks /\ base'[p].research = changes'
        /\ mine'[p].research = changes'
    BY <2>1, <2>2, Replace, ReplaceResearch
  <2>4. /\ stored' \in Content /\ stored'.blocks = stored.blocks
        /\ stored'.bricks = stored.bricks /\ stored'.research = changes'
    BY <2>1, Replace DEF Researched
  <2>5. ~adopted[p] => Known(p)' = stored'
    <3> SUFFICES ASSUME ~adopted[p] PROVE Known(p)' = stored'
      OBVIOUS
    <3>1. Known(p) = stored BY <1>1, <2>2 DEF PageKnows, KnowsAll
    <3>2. base[p].blocks = stored.blocks /\ clean[p].bricks = stored.bricks
      BY <3>1 DEF Known
    <3> QED BY <2>2, <2>3, <2>4, <3>2 DEF Known, Content
  <2>6. ver'[p] <= version' /\ freshVersion'[p] <= version' BY <2>1, <2>2
  <2>7. pc[p] = "idle" BY <1>3 DEF EditResearch
  <2> QED BY <1>1, <2>2, <2>3, <2>5, <2>6, <2>7 DEF PageKnows, KnowsAll, Loading
<1> QED BY <1>2, <1>3

(* A step of one page is not one of another. *)
LEMMA PagesApart ==
  ASSUME TypeOK, NEW p \in Pages, PageStep(p)
  PROVE  /\ \A q \in Pages : q # p => SamePage(q)
         /\ Written \/ Unwritten
<1> USE DEF TypeOK, PageTypes, SamePage, Written, Unwritten, Goto, Carry, Done, Forget
<1>1. CASE Open(p) \/ LoadBlocks(p) \/ LoadBricks(p) \/ Close(p) \/ Type(p)
  BY <1>1 DEF Open, LoadBlocks, LoadBricks, Close, Type
<1>2. CASE PanelRefresh(p) \/ FetchVersion(p) \/ FetchBlocks(p) \/ Adopt(p) \/ GiveUp(p)
  BY <1>2 DEF PanelRefresh, FetchVersion, FetchBlocks, Adopt, GiveUp
<1>3. ASSUME NEW c, NEW label, NEW after, NEW d, Carry(p, after, d),
             Saved(p, c, label) \/ SavedUnheard(p, c) \/ Refused(p, label)
      PROVE  (\A q \in Pages : q # p => SamePage(q)) /\ (Written \/ Unwritten)
  BY <1>3 DEF Saved, SavedUnheard, Refused, Write, NextVersion
<1>4. CASE Resave(p) \/ \E after \in {"idle", "request", "decide"} : Save(p, after)
  <2> HIDE DEF TypeOK, PageTypes, SamePage, Written, Unwritten, Goto, Carry
  <2> QED BY <1>3, <1>4 DEF Resave, Save
<1>5. CASE FailedCall(p) \/ EditResearch(p) \/ Request(p) \/ BeginDecide(p) \/ Decide(p)
  BY <1>5 DEF FailedCall, EditResearch, Request, BeginDecide, Decide, Write, NextVersion
<1> QED BY <1>1, <1>2, <1>4, <1>5 DEF PageStep

-----------------------------------------------------------------------------
(* The invariant. *)
LEMMA InvInit == Init => EditionInv
<1> SUFFICES ASSUME Init PROVE EditionInv
  OBVIOUS
<1>1. DOMAIN approvals = {}
  BY DEF Init
<1>2. RowsSound
  BY <1>1 DEF RowsSound, InForce
<1>3. ASSUME NEW p \in Pages PROVE PageKnows(p)
  BY <1>3 DEF Init, PageKnows, KnowsAll, Loading, Unread
<1> QED BY <1>2, <1>3 DEF EditionInv

LEMMA InvStep == TypeOK /\ EditionInv /\ [Next]_vars => EditionInv'
<1> SUFFICES ASSUME TypeOK, EditionInv, [Next]_vars PROVE EditionInv'
  OBVIOUS
<1>1. RowsSound /\ \A q \in Pages : PageKnows(q)
  BY DEF EditionInv
<1>2. ASSUME UNCHANGED approvals PROVE RowsSound'
  BY <1>1, <1>2 DEF RowsSound, InForce, WellDecided
<1>3. ASSUME UNCHANGED pageVars, Written \/ Unwritten PROVE \A q \in Pages : PageKnows(q)'
  <2>1. \A q \in Pages : SamePage(q) BY <1>3 DEF SamePage
  <2> QED BY <1>1, <1>3, <2>1, OtherPage
<1>4. CASE ResearchWrite \/ Restore \/ UNCHANGED vars
  <2>1. UNCHANGED <<approvals, pageVars>> /\ (Written \/ Unwritten)
    BY <1>4 DEF ResearchWrite, Restore, vars, Write, NextVersion, Written, Unwritten
  <2> QED BY <1>2, <1>3, <2>1 DEF EditionInv
<1>5. ASSUME NEW p \in Pages, PageStep(p) PROVE EditionInv'
  <2>1. PageKnows(p)'
    BY <1>1, <1>5, ScreenKnows, SaveKnows, FetchKnows, ApprovalKnows DEF PageStep
  <2>2. \A q \in Pages : q # p => PageKnows(q)'
    BY <1>1, <1>5, PagesApart, OtherPage
  <2>3. RowsSound'
    <3>1. CASE Request(p) \/ Decide(p)
      BY <1>1, <3>1, RequestRows, DecideRows
    <3>2. CASE ~(Request(p) \/ Decide(p))
      <4>1. UNCHANGED approvals
        BY <1>5, <3>2
        DEF PageStep, Open, LoadBlocks, LoadBricks, Close, Type, Save, Saved, SavedUnheard,
            Refused, PanelRefresh, FetchVersion, FetchBlocks, Adopt, GiveUp, Resave, FailedCall,
            EditResearch, BeginDecide
      <4> QED BY <1>2, <4>1
    <3> QED BY <3>1, <3>2
  <2> QED BY <2>1, <2>2, <2>3 DEF EditionInv
<1> QED BY <1>4, <1>5 DEF Next

(* A page that still has the present version has read everything since the *)
(* last write, at most one approval row is in force, and every approved    *)
(* row was decided by an approver who saw what it approves.                *)
THEOREM EditionHolds == Spec => [](TypeOK /\ EditionInv)
<1>1. Init => TypeOK /\ EditionInv BY TypeInit, InvInit
<1>2. (TypeOK /\ EditionInv) /\ [Next]_vars => (TypeOK /\ EditionInv)'
  BY TypeStep, InvStep
<1> QED BY <1>1, <1>2, PTL DEF Spec

(* The tables and every open page hold values of their type.               *)
THEOREM EditionTypes == Spec => []TypeOK
BY EditionHolds, PTL

(* No page overwrites what it does not know of, unless it took a version   *)
(* over after a conflict.                                                  *)
THEOREM NoLostUpdate == Spec => []NoBlindSave
<1>1. EditionInv => NoBlindSave
  BY DEF EditionInv, PageKnows, NoBlindSave
<1> QED BY <1>1, EditionHolds, PTL

(* Whoever asks and decides in what order, one row is in force at most.    *)
THEOREM OneRowInForce == Spec => []OneInForce
<1>1. TypeOK /\ EditionInv => OneInForce
  <2> SUFFICES ASSUME TypeOK, EditionInv PROVE Cardinality(InForce) <= 1
    BY DEF OneInForce
  <2>1. CASE InForce = {} BY <2>1, FS_EmptySet
  <2>2. CASE InForce # {}
    <3>1. InForce = {Latest} BY <2>2, OneRow DEF EditionInv
    <3>2. Cardinality({Latest}) = 1 BY FS_Singleton
    <3> QED BY <3>1, <3>2
  <2> QED BY <2>1, <2>2
<1> QED BY <1>1, EditionHolds, PTL

(* The gate is open only for content an approver other than the requester, *)
(* or a super admin, had on screen when approving it.                      *)
THEOREM ApprovedWasSeen == Spec => []GateMeansSeen
<1>1. TypeOK /\ EditionInv => GateMeansSeen
  <2> SUFFICES ASSUME TypeOK, EditionInv, Gate PROVE WellDecided(approvals[Latest])
    BY DEF GateMeansSeen
  <2>1. InForce # {} /\ approvals[Latest].status = "approved" BY DEF Gate
  <2>2. Latest \in InForce BY <2>1, OneRow DEF EditionInv
  <2> QED BY <2>1, <2>2 DEF EditionInv, RowsSound, InForce
<1> QED BY <1>1, EditionHolds, PTL

(* Every version of the blocks and bricks is stored or in a revision: what *)
(* does not record a revision does not touch them.                         *)
THEOREM NothingIsLost == Spec => []RecoveryNet
<1>1. Init => RecoveryNet
  BY DEF Init, RecoveryNet
<1>2. TypeOK /\ RecoveryNet /\ [Next]_vars => RecoveryNet'
  <2> SUFFICES ASSUME TypeOK, RecoveryNet, [Next]_vars PROVE RecoveryNet'
    OBVIOUS
  <2>1. CASE UNCHANGED <<stored, past, revisions>>
    BY <2>1 DEF RecoveryNet, Work
  <2>2. ASSUME NEW c, Write(c), UNCHANGED revisions, Work(c) = Work(stored)
        PROVE  RecoveryNet'
    <3>1. stored' = c /\ past' = past \cup {c} BY <2>2 DEF Write
    <3>2. \A d : Work(d)' = Work(d) BY DEF Work
    <3> HIDE DEF Work
    <3> QED BY <2>2, <3>1, <3>2 DEF RecoveryNet
  <2>3. ASSUME NEW c, Write(c), Snapshot PROVE RecoveryNet'
    <3>1. stored' = c /\ past' = past \cup {c} BY <2>3 DEF Write
    <3>2. revisions \subseteq revisions' /\ \E r \in revisions' : r.content = stored
      BY <2>3, SnapshotKept
    <3>3. \A d : Work(d)' = Work(d) BY DEF Work
    <3> HIDE DEF Work
    <3> QED BY <3>1, <3>2, <3>3 DEF RecoveryNet
  <2>4. CASE ResearchWrite
    BY <2>2, <2>4, ResearchedType DEF ResearchWrite
  <2>5. CASE Restore
    BY <2>3, <2>5 DEF Restore
  <2>6. CASE UNCHANGED vars
    BY <2>1, <2>6 DEF vars
  <2>7. ASSUME NEW p \in Pages, PageStep(p) PROVE RecoveryNet'
    <3>1. CASE Resave(p) \/ \E after \in {"idle", "request", "decide"} : Save(p, after)
      <4>1. ASSUME NEW c, NEW label,
                   Saved(p, c, label) \/ SavedUnheard(p, c) \/ Refused(p, label)
            PROVE  RecoveryNet'
        BY <2>1, <2>3, <4>1 DEF Saved, SavedUnheard, Refused
      <4> QED BY <3>1, <4>1 DEF Resave, Save
    <3>2. CASE EditResearch(p)
      BY <2>2, <3>2, ResearchedType DEF EditResearch
    <3>3. CASE ~(Resave(p) \/ EditResearch(p)
                 \/ \E after \in {"idle", "request", "decide"} : Save(p, after))
      <4>1. UNCHANGED <<stored, past, revisions>>
        BY <2>7, <3>3
        DEF PageStep, Open, LoadBlocks, LoadBricks, Close, Type, PanelRefresh, FetchVersion,
            FetchBlocks, Adopt, GiveUp, FailedCall, Request, BeginDecide, Decide
      <4> QED BY <2>1, <4>1
    <3> QED BY <3>1, <3>2, <3>3
  <2> QED BY <2>4, <2>5, <2>6, <2>7 DEF Next
<1> QED BY <1>1, <1>2, EditionHolds, PTL DEF Spec

(* A new request does not throw a standing approval away: the gate closes  *)
(* only when the content changes or an approver asks for changes.          *)
THEOREM ApprovalIsKept == Spec => ApprovalStands
<1> DEFINE Stands == Gate /\ ~Gate' => stored' # stored \/ ChangesWanted'
<1>1. TypeOK /\ EditionInv /\ [Next]_vars => [Stands]_vars
  <2> SUFFICES ASSUME TypeOK, EditionInv, Next, Gate, ~Gate', stored' = stored
               PROVE  ChangesWanted'
    OBVIOUS
  <2>1. approvals' # approvals
    BY DEF Gate, InForce, Latest, ContentHash
  <2>2. PICK p \in Pages : Request(p) \/ Decide(p)
    BY <2>1
    DEF Next, ResearchWrite, Restore, PageStep, Open, LoadBlocks, LoadBricks, Close, Type, Save,
        Saved, SavedUnheard, Refused, PanelRefresh, FetchVersion, FetchBlocks, Adopt, GiveUp,
        Resave, FailedCall, EditResearch, BeginDecide
  <2>3. Decide(p)
    BY <2>1, <2>2 DEF Request, AlreadyApproved
  <2>4. PICK decision \in {"approved", "changes_requested"} :
          mine[p] = clean[p] /\ MayDecide(p, decision) /\ approvals' = Decided(p, decision)
    BY <2>1, <2>3 DEF Decide
  <2>5. PICK i \in InForce' : /\ InForce' = {i} /\ approvals'[i].status = decision
                              /\ approvals'[i].hash = stored
    BY <2>3, <2>4, DecidedRows DEF Decide, EditionInv
  <2>6. decision # "approved"
    <3> SUFFICES ASSUME decision = "approved" PROVE FALSE
      OBVIOUS
    <3>1. TypeOK' /\ RowsSound' /\ InForce' # {}
      BY <2>5, TypeStep, InvStep DEF EditionInv
    <3>2. Latest' \in InForce'
      BY <3>1, <2>5 DEF Latest, TypeOK, TableTypes, InForce
    <3> QED BY <2>5, <3>2 DEF Gate, ContentHash
  <2> QED BY <2>4, <2>5, <2>6 DEF ChangesWanted
<1> QED BY <1>1, EditionHolds, PTL DEF Spec, ApprovalStands
=============================================================================
