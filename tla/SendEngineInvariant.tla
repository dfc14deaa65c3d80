------------------------- MODULE SendEngineInvariant -------------------------
(***************************************************************************)
(* The inductive invariants behind the safety properties of SendEngine,    *)
(* one section each.  The first is behind AtMostOneCopy and                *)
(* SentMeansDelivered when no hazard happens: rows are never shared        *)
(* between ticks, only abandoned rows go stale, and a row that was mailed  *)
(* is either settled or in a batch about to be marked.                     *)
(***************************************************************************)
EXTENDS SendEngine

(* FOR UPDATE SKIP LOCKED: no two ticks hold the same row. *)
HeldApart == \A v, w \in Workers : v # w => Held(v) \cap Held(w) = {}

(* A tick keeps a row in one place only. *)
PartsApart ==
  \A w \in Workers :
    /\ todo[w] \cap (grp[w] \cup slice[w] \cup rel[w]) = {}
    /\ grp[w] \cap (slice[w] \cup rel[w]) = {}
    /\ slice[w] \cap rel[w] = {}

(* A held row is 'sending' still, or a cancel sweep has skipped it. *)
HeldClaimed ==
  \A w \in Workers : \A r \in Held(w) : rowStatus[r] \in {"sending", "skipped"}

(* The sweeper only takes rows that no live tick holds. *)
StaleAbandoned ==
  \A r \in rowStale : rowStatus[r] = "sending" /\ \A w \in Workers : r \notin Held(w)

(* Rows are linked to a batch by the write that makes them 'sent', so batch *)
(* recovery, which only takes 'sending' rows, never finds one.              *)
LinkedSent == \A r \in Rows : rowBatch[r] # NoBatch => rowStatus[r] = "sent"
RecoverHasBatch == \A w \in Workers : At(w, "recover") => batch[w] # NoBatch

InFlight(w, r) == r \in slice[w] /\ InWindow(w)

(* What a tick holds is not mailed yet, unless it is waiting to be marked. *)
HeldUnmailed ==
  \A w \in Workers : \A r \in Held(w) : copies[r] = 0 \/ InFlight(w, r)
OpenUnmailed ==
  \A r \in Rows : rowStatus[r] \notin Settled =>
    copies[r] = 0 \/ \E w \in Workers : InFlight(w, r)

AcceptedDelivered ==
  \A w \in Workers : At(w, "mark") /\ reply[w] = "accepted" =>
    \A r \in slice[w] : copies[r] > 0

(* Who holds what; inductive as long as no tick is slow. *)
ClaimInv ==
  /\ HeldApart /\ PartsApart /\ HeldClaimed /\ StaleAbandoned
  /\ LinkedSent /\ RecoverHasBatch

(* Of the hazards, only the blind writes of a send leave the rows alone. *)
OnlyBlindWrites == Hazards \subseteq {"blind_write"}

(* The conjunction is inductive. *)
MailedOnce ==
  /\ ClaimInv
  /\ HeldUnmailed /\ OpenUnmailed /\ AcceptedDelivered
  /\ AtMostOneCopy /\ SentMeansDelivered

-----------------------------------------------------------------------------
(* Why a send that is over has nobody waiting, whatever happens: a settled *)
(* row is never queued again, so a count of zero outstanding rows stays    *)
(* true until finalizeSend has written its verdict, as long as no          *)
(* overlapping dispatch tick inserts rows late.                            *)
Finalizing == {"counts", "readSend", "write"}

StaleSending == \A r \in rowStale : rowStatus[r] = "sending"
AbsentLate == \A r \in Rows : rowStatus[r] = "absent" => r \in Late

(* Every count is in before the send is read. *)
ReadInFull == \A w \in Workers : pc[w] \in {"readSend", "write"} => read[w].unread = {}

ZeroStaysTrue ==
  \A w \in Workers :
    (pc[w] \in Finalizing /\ "open" \notin read[w].unread /\ read[w].count["open"] = 0)
    => Open(cur[w]) = {}

SettleInv == StaleSending /\ AbsentLate /\ ReadInFull /\ ZeroStaysTrue /\ EndedMeansSettled

-----------------------------------------------------------------------------
(* Why Pause and Stop take hold in the paced binding: only the reputation  *)
(* gate pauses without a compare-and-swap, and it has none; and a tick     *)
(* that is committed to a call saw its send 'sending' and has made no call *)
(* for it since.                                                           *)
NeverTrips == Paced => \A w \in Workers : "pauseSend" \notin {pc[w], next[w]}

(* "insert" is where a release returns to, never another helper. *)
InsertAfterRelease == \A w \in Workers : next[w] = "insert" => At(w, "release")

Committed(w) == pc[w] \in {"quota", "insert", "post"} \/ next[w] = "insert"

LateOnce ==
  Paced => /\ \A k \in Calls : late[k] <= 1
           /\ \A k \in Calls : sendStatus[k[2]] = "sending" => late[k] = 0
           /\ \A w \in Workers : Committed(w) => late[<<w, cur[w]>>] = 0

PaceInv == NeverTrips /\ InsertAfterRelease /\ LateOnce

-----------------------------------------------------------------------------
(* Why tries stay under the cap: the attempts of a row run ahead of its    *)
(* tries by one while a tick holds it untried, and a row goes back only    *)
(* with a try to spare, or after one that was lost.                        *)
Trying(w, r) == r \in slice[w] /\ At(w, "mark") /\ reply[w] # "halt"

TriesLeft ==
  \A r \in Rows : rowStatus[r] \notin Settled =>
     /\ tries[r] <= rowAttempts[r]
     /\ tries[r] < MaxAttempts + lost[r] \/ \E w \in Workers : Trying(w, r)
HeldHasTry ==
  \A w \in Workers : \A r \in Held(w) : ~Trying(w, r) =>
     /\ tries[r] < MaxAttempts + lost[r]
     /\ rowStatus[r] = "sending" => tries[r] < rowAttempts[r]

TriesInv == MaxAttempts > 0 => TriesLeft /\ HeldHasTry /\ TriesCapped

-----------------------------------------------------------------------------
(* Why an erased address is not mailed: every claim passes the suppression *)
(* gate before its rows reach a group.                                     *)
EraseInv ==
  /\ barred \subseteq erased
  /\ \A w \in Workers : \A r \in barred :
       r \notin grp[w] \cup slice[w] /\ (r \in todo[w] => At(w, "gate"))

-----------------------------------------------------------------------------
(* Why a lone replica reports true counts: it ends a send only while it    *)
(* holds no row, and marks only rows it holds.                             *)
HandsEmpty == Labels \ {"gate", "group", "pace", "quota", "insert", "post", "mark",
                        "haltPause", "close", "pauseSend", "release", "skip"}

(* What a tick can hold at each of its steps. *)
HeldByStep ==
  \A w \in Workers :
    /\ pc[w] \in HandsEmpty => Held(w) = {}
    /\ pc[w] \in {"gate", "group", "pauseSend"} => grp[w] \cup slice[w] \cup rel[w] = {}
    /\ pc[w] \in {"pace", "quota", "close", "haltPause"} => slice[w] \cup rel[w] = {}
    /\ pc[w] \in {"insert", "post", "mark"} => rel[w] = {}
    /\ pc[w] = "release" => /\ next[w] \in {"group", "pauseSend", "cancelling", "insert"}
                            /\ next[w] # "insert" => grp[w] \cup slice[w] = {}
                            /\ next[w] = "cancelling" => todo[w] = {}
    /\ pc[w] = "skip" => next[w] = "group" /\ grp[w] \cup slice[w] = {}
    /\ pc[w] \in Finalizing => next[w] \in {"stranded", "finalize"}

HeldNotEnded ==
  \A w \in Workers : \A r \in Held(w) :
     SendOf[r] \notin blind => sendStatus[SendOf[r]] \notin {"sent", "failed"}

SentCountTrue ==
  \A w \in Workers : pc[w] \in Finalizing /\ "sent" \notin read[w].unread =>
     read[w].count["sent"] = CountOf(cur[w], "sent")

ReportTrue ==
  \A s \in Sends \ blind :
     sendStatus[s] \in {"sent", "failed"} => reported[s].sent = CountOf(s, "sent")

ReportInv == HeldByStep /\ ReadInFull /\ HeldNotEnded /\ SentCountTrue /\ ReportTrue
=============================================================================
