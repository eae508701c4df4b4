-------------------------- MODULE LeaderboardSync --------------------------
(***************************************************************************)
(* The leaderboard's ingestion of score events: runScheduledLeaderboardSync*)
(* reads the events of the chain page by page from an RPC, or from the     *)
(* files of a data lake, writes a row for each score to D1 and keeps, in   *)
(* one row of D1, the state from which the next sync goes on.              *)
(*                                                                         *)
(* Nothing keeps two syncs apart: the cron starts one every minute however *)
(* long the last one takes, and a request may start another.  Every await  *)
(* (a page, a read or write of D1) ends a step.                            *)
(***************************************************************************)
EXTENDS Naturals, FiniteSets

CONSTANTS
  MaxSyncs,     \* bound: syncs that run at the same time
  MaxOverlaps,  \* bound: how often a sync starts while another one runs
  MaxLedger,    \* bound: the last ledger
  FormOf,       \* what each event of the score contract looks like
  PerLedger,    \* bound: events of the score contract in a ledger
  Retention,    \* how many ledgers the RPC keeps
  Limit,        \* LEADERBOARD_SYNC_CRON_LIMIT: events in a page, ledgers for the lake
  ScanLimit,    \* how many ledgers the RPC scans for a page
  MaxPages,     \* DEFAULT_LEADERBOARD_SYNC_MAX_PAGES
  ChunkSize,    \* SYNC_UPSERT_BATCH_SIZE
  Window,       \* DEFAULT_LEADERBOARD_FORWARD_REPLAY_WINDOW_LEDGERS
  FirstWindow,  \* DEFAULT_FORWARD_LEDGER_WINDOW
  CatchupWindow,\* LEADERBOARD_CATCHUP_WINDOW_LEDGERS
  HasLake,      \* is there a data lake of this network?
  PerFile,      \* ledgersPerBatch: ledgers in a file of the lake
  MaxMissing,   \* GALEXIE_DATALAKE_MAX_MISSING_FILES
  MaxFaults     \* bound: calls that fail, missing files and crashes

First == 2
Ledgers == First .. MaxLedger

(* The value of a score_submitted event may be one that the SDK decodes, one of which *)
(* only the first entries can be read, or one that cannot be read at all; other       *)
(* events are of other names.                                                          *)
Forms == {"whole", "cut", "damaged", "other"}

ASSUME SyncAssumption ==
  /\ {MaxSyncs, MaxOverlaps, FirstWindow, CatchupWindow, MaxFaults} \subseteq Nat
  /\ {MaxLedger, PerLedger, MaxPages, Limit, ScanLimit, ChunkSize, MaxMissing, PerFile,
      Retention, Window} \subseteq Nat \ {0}
  /\ \E E \in SUBSET (Ledgers \X (1 .. PerLedger)) : FormOf \in [E -> Forms]
  /\ HasLake \in BOOLEAN /\ MaxLedger >= First

VARIABLES
  latest,  \* the last ledger of the chain
  stored,  \* leaderboard_events
  state,   \* leaderboard_ingestion_state
  sync,    \* what each sync holds between two awaits
  left,    \* history: the events that forward syncs were bound to leave out
  faults, overlaps

vars == <<latest, stored, state, sync, left, faults, overlaps>>

Syncs == 1 .. MaxSyncs
Events == DOMAIN FormOf
Chain == {e \in Events : e[1] <= latest}
-----------------------------------------------------------------------------
(* What a source makes of the events of a page. *)

IsScoreEvent(e) == FormOf[e] # "other"
Scores == {e \in Events : IsScoreEvent(e)}

\* The parser of last resort keeps the entries before one whose type it does not know;
\* the claimant is the first of them.
Parsed(e) == IF FormOf[e] = "cut" THEN {"claimant"} ELSE {}
Decoded(e) == IF FormOf[e] = "whole" THEN {"claimant", "scores"} ELSE Parsed(e)

\* A score is never left out for what cannot be read of it: without a claimant the row is
\* one of "UNKNOWN", without scores they are zero.  Each source has ids of its own, so
\* an event may have two rows.
Sources == {"rpc", "galexie"}
Rows == [event : Scores, source : Sources, known : SUBSET {"claimant", "scores"}]
Row(e, source) == [event |-> e, source |-> source, known |-> Decoded(e)]
RowsOf(es, source) == {Row(e, source) : e \in {d \in es : IsScoreEvent(d)}}
EventsOf(rows) == {row.event : row \in rows}

-----------------------------------------------------------------------------
Greater(a, b) == IF a >= b THEN a ELSE b
Smaller(a, b) == IF a <= b THEN a ELSE b

\* The ledger n places behind ledger l.
Behind(l, n) == IF l >= n + First THEN l - n ELSE First
Oldest == Behind(latest + 1, Retention)
Highest(es) == IF es = {} THEN 0 ELSE CHOOSE l \in {e[1] : e \in es} : \A e \in es : e[1] <= l

(* A cursor is a position in the chain (an opaque cursor of the RPC: what   *)
(* is at or before it has been read), a ledger to begin with, or none.     *)
NoCursor == [kind |-> "none", ledger |-> 0, index |-> 0]
Cursors == {NoCursor} \cup
           [kind : {"opaque", "ledger"}, ledger : Nat, index : 0 .. PerLedger]
FromLedger(l) == [kind |-> "ledger", ledger |-> l, index |-> 0]
UpTo(l) == [kind |-> "opaque", ledger |-> l, index |-> PerLedger]

(* The total that is shown, and the time of the last sync, are left out. *)
StateRecord == [cursor : Cursors, highest : {0} \cup Ledgers,
                backfilled : BOOLEAN]  \* lastBackfillAt
NoState == [cursor |-> NoCursor, highest |-> 0, backfilled |-> FALSE]

SyncRecord ==
  [at : {"idle", "fetching", "fallback", "upserting", "saved", "tapes", "prune",
         "failed", "recording"},
   mode : {"forward", "backfill"},
   base : StateRecord,      \* existingState, or the state of the last save
   start : Cursors,         \* where the next page begins
   to : {0} \cup Ledgers,   \* toLedger
   pages : 0 .. MaxPages,
   got : SUBSET Rows,       \* allEvents that are not written yet
   top : {0} \cup Ledgers]  \* the highest ledger of allEvents
Idle == [at |-> "idle", mode |-> "forward", base |-> NoState, start |-> NoCursor, to |-> 0,
         pages |-> 0, got |-> {}, top |-> 0]

TypeOK ==
  /\ latest \in Ledgers
  /\ stored \subseteq Rows
  /\ state \in StateRecord
  /\ sync \in [Syncs -> SyncRecord]
  /\ left \subseteq Events
  /\ faults \in 0 .. MaxFaults /\ overlaps \in 0 .. MaxOverlaps

Init ==
  /\ latest = First
  /\ stored = {} /\ state = NoState
  /\ sync = [s \in Syncs |-> Idle]
  /\ left = {} /\ faults = 0 /\ overlaps = 0

Fault == faults < MaxFaults /\ faults' = faults + 1

\* A ledger closes.
NewLedger ==
  /\ latest < MaxLedger /\ latest' = latest + 1
  /\ UNCHANGED <<stored, state, sync, left, faults, overlaps>>
-----------------------------------------------------------------------------
(* Where a sync reads, and what a source answers. *)

\* runLeaderboardSync(): where the forward sync goes on.  A position of the RPC
\* that is not beyond the highest ledger is discarded for the ledger after it.
ForwardStart(st) ==
  LET anchor == IF st.highest # 0 THEN st.highest ELSE st.cursor.ledger
  IN IF st.cursor.kind = "opaque"
       THEN IF st.highest # 0 /\ st.cursor.ledger <= st.highest
              THEN FromLedger(st.highest + 1) ELSE st.cursor
       ELSE IF anchor = 0 THEN NoCursor ELSE FromLedger(Behind(anchor + 1, Window))

IsAfter(e, c) == e[1] > c.ledger \/ (e[1] = c.ledger /\ e[2] > c.index)
IsBefore(d, e) == d[1] < e[1] \/ (d[1] = e[1] /\ d[2] < e[2])
FirstOf(n, es) == {e \in es : Cardinality({d \in es : IsBefore(d, e)}) < n}

\* The RPC's health clamps a first ledger; an expired position becomes the oldest.
RpcStart(c) ==
  CASE c.kind = "none"   -> UpTo(Greater(Behind(latest + 1, FirstWindow), Oldest) - 1)
    [] c.kind = "ledger" -> UpTo(Smaller(Greater(c.ledger, Oldest), latest) - 1)
    [] c.kind = "opaque" -> IF c.ledger < Oldest THEN UpTo(Oldest - 1) ELSE c

\* getEvents of the RPC: endLedger (exclusive) goes only with a first ledger.
RpcPage(c, to) ==
  LET begin == RpcStart(c)
      reach == begin.ledger + ScanLimit
      last  == Smaller(latest, IF to # 0 /\ c.kind # "opaque" THEN Smaller(reach, to - 1)
                               ELSE reach)
      ahead == {e \in Chain : e[1] <= last /\ IsAfter(e, begin)}
      page  == FirstOf(Limit, ahead)
      full  == Cardinality(ahead) >= Limit
      end   == CHOOSE e \in page : \A d \in page : ~IsBefore(e, d)
  IN [events |-> page, rows |-> RowsOf(page, "rpc"), full |-> full,
      next |-> IF full THEN [kind |-> "opaque", ledger |-> end[1], index |-> end[2]]
               ELSE IF begin.ledger > last THEN begin ELSE UpTo(last)]

FileOf(l) == l - (l % PerFile)

\* The files of the lake, each named by its first ledger.  Those that the chain has not
\* filled yet are missing, and others may be (lost).  Without a last ledger, MaxMissing
\* missing files in a row end the page.  A page is full by the events of all contracts.
\* The RPC says which ledger is the last one (tip), or nothing (0).
LakePage(c, to, tip, lost, others) ==
  LET from == IF c.kind = "ledger" THEN Greater(First, c.ledger)
              ELSE IF tip # 0 THEN Behind(tip + 1, FirstWindow) ELSE First
      last == IF to # 0 THEN Greater(from, to)
              ELSE IF tip # 0 THEN Smaller(from + Limit - 1, tip) ELSE from + Limit - 1
      files == {f \in FileOf(from) .. last : FileOf(f) = f}
      missing == {f \in files : f + PerFile > latest + 1 \/ f \in lost}
      GivesUp(f) ==
        /\ to = 0 /\ f >= FileOf(from) + (MaxMissing - 1) * PerFile
        /\ {g \in files : g <= f /\ f < g + MaxMissing * PerFile} \subseteq missing
      tried == {f \in files : \A g \in files : g < f => ~GivesUp(g)}
      page == {e \in Chain : e[1] \in from .. last /\ FileOf(e[1]) \in tried \ missing}
  IN [events |-> page, rows |-> RowsOf(page, "galexie"),
      full |-> tried \ missing # {} /\ Cardinality(page) + others >= Limit,
      next |-> FromLedger(IF files = {} THEN from
                          ELSE PerFile + CHOOSE f \in tried : \A g \in tried : g <= f)]

\* Does who goes on from cursor c read event e, if the source still has it?
Reads(c, e) ==
  CASE c.kind = "none"   -> TRUE
    [] c.kind = "ledger" -> e[1] >= c.ledger
    [] c.kind = "opaque" -> IsAfter(e, c)

\* What a page from c leaves out for good: missing files, what comes before a first window,
\* the ledgers of a file beyond those asked for.
LeftOut(c, page) == {e \in Events : Reads(c, e) /\ ~Reads(page.next, e)} \ page.events

\* What is left out when a position of the RPC is discarded: the rest of the last ledger.
LeftAtStart(st) ==
  IF st.cursor.kind = "opaque" /\ st.cursor.ledger <= st.highest
  THEN {e \in Events : e[1] = st.highest} ELSE {}

\* Mutant: the highest ledger is the last one of the chain.
ReceivedToTheTip(r, page) ==
  LET more == r.pages + 1 < MaxPages /\ page.full
  IN [r EXCEPT !.at = IF more THEN "fetching" ELSE "upserting",
               !.pages = @ + 1, !.start = page.next, !.got = @ \cup page.rows,
               !.top = latest]

\* What a sync does once it has a page: another one while the pages are full, or
\* while the position the RPC has scanned to is behind the last ledger.
Received(r, page) ==
  LET more == /\ r.pages + 1 < MaxPages
              /\ page.full \/ (page.next.kind = "opaque" /\ page.next.ledger < latest)
  IN [r EXCEPT !.at = IF more THEN "fetching" ELSE "upserting",
               !.pages = @ + 1, !.start = page.next, !.got = @ \cup page.rows,
               !.top = Greater(@, Highest(EventsOf(page.rows)))]
-----------------------------------------------------------------------------
(* runScheduledLeaderboardSync(), one step for each await. *)

Goto(s, r) == sync' = [sync EXCEPT ![s] = r]

\* runLeaderboardSync() before its first page.
Fetching(mode, st, start, to) ==
  [Idle EXCEPT !.at = "fetching", !.mode = mode, !.base = st, !.start = start, !.to = to]

\* A tick of the cron, or a request: the forward sync loads its state.
Begin(s) ==
  /\ sync[s].at = "idle" /\ \A t \in 1 .. (s - 1) : sync[t].at # "idle"
  /\ IF \A t \in Syncs : sync[t].at = "idle" THEN UNCHANGED overlaps
     ELSE overlaps < MaxOverlaps /\ overlaps' = overlaps + 1
  /\ Goto(s, Fetching("forward", state, ForwardStart(state), 0))
  /\ left' = left \cup LeftAtStart(state)
  /\ UNCHANGED <<latest, stored, state, faults>>

\* The source that is asked first: the RPC, and for a backfill the lake.
AsksRpc(r) == ~HasLake \/ (r.mode = "forward") = (r.at = "fetching")

RpcAnswers(s) ==
  LET r == sync[s]
  IN /\ r.at \in {"fetching", "fallback"} /\ AsksRpc(r)
     /\ \E to \in {r.to, 0} :  \* the RPC may refuse endLedger: it is asked again without
          Goto(s, Received(r, RpcPage(r.start, to)))
     /\ left' = IF r.start.kind # "none" THEN left
                ELSE left \cup {e \in Events : ~Reads(RpcStart(r.start), e)}
     /\ UNCHANGED <<latest, stored, state, faults, overlaps>>

LakeAnswers(s) ==
  LET r == sync[s]
  IN /\ r.at \in {"fetching", "fallback"} /\ ~AsksRpc(r)
     /\ \E tip \in {latest, 0}, lost \in SUBSET {FileOf(l) : l \in Ledgers}, others \in {0, Limit} :
          LET page == LakePage(r.start, r.to, tip, lost, others)
          IN /\ Cardinality(lost) <= MaxMissing
             /\ IF tip # 0 /\ lost = {} THEN UNCHANGED faults ELSE Fault
             /\ Goto(s, Received(r, page))
             /\ left' = left \cup LeftOut(r.start, page)
     /\ UNCHANGED <<latest, stored, state, overlaps>>

\* No answer: the next source is asked.  When there is none, the first page fails
\* the sync, and a later one ends its pages.
FetchFails(s) ==
  LET r == sync[s]
  IN /\ r.at \in {"fetching", "fallback"} /\ Fault
     /\ Goto(s, [r EXCEPT !.at = IF HasLake /\ r.at = "fetching" THEN "fallback"
                                 ELSE IF r.pages = 0 THEN "failed" ELSE "upserting"])
     /\ UNCHANGED <<latest, stored, state, left, overlaps>>

\* The rows of a page come in the order of their events.
Precedes(row, other) ==
  IsBefore(row.event, other.event)
    \/ (row.event = other.event /\ row.source = "galexie" /\ other.source = "rpc")
FirstRows(n, rows) == {row \in rows : Cardinality({d \in rows : Precedes(d, row)}) < n}

\* The batch is written; one that fails is tried again in halves.
WriteChunk(s) ==
  LET r == sync[s]
      size == Smaller(ChunkSize, Cardinality(r.got))
  IN /\ r.at = "upserting" /\ r.got # {}
     /\ \E n \in 1 .. size :
          /\ IF n = size THEN UNCHANGED faults ELSE Fault
          /\ stored' = stored \cup FirstRows(n, r.got)
          /\ Goto(s, [r EXCEPT !.got = @ \ FirstRows(n, r.got)])
     /\ UNCHANGED <<latest, state, left, overlaps>>

\* The batch is written and the answer lost: it is tried again.
WriteUnanswered(s) ==
  LET r == sync[s]
  IN /\ r.at = "upserting" /\ r.got # {} /\ Fault
     /\ stored' = stored \cup FirstRows(ChunkSize, r.got)
     /\ UNCHANGED <<latest, state, sync, left, overlaps>>

\* A single row cannot be written.
WriteFails(s) ==
  /\ sync[s].at = "upserting" /\ sync[s].got # {} /\ Fault
  /\ Goto(s, [sync[s] EXCEPT !.at = "failed"])
  /\ UNCHANGED <<latest, stored, state, left, overlaps>>

NextState(r) ==
  [cursor |-> IF r.mode = "forward" THEN r.start ELSE r.base.cursor,
   highest |-> Greater(r.base.highest, r.top),
   backfilled |-> r.base.backfilled \/ r.mode = "backfill"]

\* setLeaderboardIngestionState(): the whole row.
Save(s) ==
  LET r == sync[s]
  IN /\ r.at = "upserting" /\ r.got = {}
     /\ state' = NextState(r)
     /\ Goto(s, [Idle EXCEPT !.at = IF r.mode = "forward" THEN "saved" ELSE "tapes",
                             !.base = NextState(r)])
     /\ UNCHANGED <<latest, stored, left, faults, overlaps>>

\* Mutant: the catch-up goes on from the highest ledger.
CatchupFromHighest(st) == FromLedger(st.highest)

CatchupStart(st) == FromLedger(Behind(st.highest, CatchupWindow))

\* The catch-up is due (for certain when there was none before): its sync loads the
\* state again, and reads up to the highest ledger.
CatchUp(s) ==
  LET r == sync[s]
  IN /\ r.at = "saved" /\ CatchupWindow > 0 /\ r.base.highest # 0
     /\ Goto(s, Fetching("backfill", state, CatchupStart(r.base), r.base.highest))
     /\ UNCHANGED <<latest, stored, state, left, faults, overlaps>>

NoCatchUp(s) ==
  LET r == sync[s]
  IN /\ r.at = "saved" /\ (CatchupWindow = 0 \/ r.base.highest = 0 \/ r.base.backfilled)
     /\ Goto(s, [r EXCEPT !.at = "tapes"])
     /\ UNCHANGED <<latest, stored, state, left, faults, overlaps>>

\* After the tape mappings are filled in, and after stale ones are removed, if either
\* is due, the state that this sync saved last is saved again.
Maintain(s) ==
  LET r == sync[s]
  IN /\ r.at \in {"tapes", "prune"}
     /\ state' \in {state, r.base}
     /\ Goto(s, IF r.at = "tapes" THEN [r EXCEPT !.at = "prune"] ELSE Idle)
     /\ UNCHANGED <<latest, stored, left, faults, overlaps>>

\* A request is answered with the error; the cron records it:
\* recordLeaderboardSyncFailure() loads the state, and saves it with the error.
Abort(s) ==
  /\ sync[s].at = "failed"
  /\ Goto(s, Idle) \/ Goto(s, [Idle EXCEPT !.at = "recording", !.base = state])
  /\ UNCHANGED <<latest, stored, state, left, faults, overlaps>>

RecordFailure(s) ==
  /\ sync[s].at = "recording"
  /\ state' = sync[s].base
  /\ Goto(s, Idle)
  /\ UNCHANGED <<latest, stored, left, faults, overlaps>>

\* The Worker is stopped between two awaits.
Crash(s) ==
  /\ sync[s].at # "idle" /\ Fault
  /\ Goto(s, Idle)
  /\ UNCHANGED <<latest, stored, state, left, overlaps>>
-----------------------------------------------------------------------------
Answers(s) == RpcAnswers(s) \/ LakeAnswers(s)
Writes(s) == WriteChunk(s) \/ Save(s)
Fails(s) == FetchFails(s) \/ WriteUnanswered(s) \/ WriteFails(s) \/ Crash(s)
Follows(s) == CatchUp(s) \/ NoCatchUp(s) \/ Maintain(s) \/ Abort(s) \/ RecordFailure(s)

Next ==
  \/ NewLedger
  \/ \E s \in Syncs : Begin(s) \/ Answers(s) \/ Writes(s) \/ Follows(s) \/ Fails(s)

Spec == Init /\ [][Next]_vars

\* The cron goes on starting syncs, what is asked is answered sooner or later, and the
\* interval of the catch-up passes again and again.
Fairness ==
  /\ WF_vars(\E s \in Syncs : Begin(s))
  /\ WF_vars(\E s \in Syncs : Answers(s) \/ Writes(s) \/ Follows(s))
  /\ SF_vars(\E s \in Syncs : CatchUp(s))
FairSpec == Spec /\ Fairness
-----------------------------------------------------------------------------
\* Whatever fails and whichever syncs run at the same time and save over each other, a
\* score that the RPC still has is stored, or the next forward sync still reads it: what can
\* be read of it decides nothing.  The exceptions are those that the sources' windows, the
\* lake's missing files and a discarded position leave to the catch-up
\* (leaderboard-sync.ts 298-500, leaderboard-ingestion.ts 1294-1296).
NothingSkipped ==
  \A e \in Scores \cap Chain :
    \/ e \in EventsOf(stored) \cup left \cup LeftAtStart(state)
    \/ e[1] < Oldest
    \/ Reads(ForwardStart(state), e)

\* Again and again the leaderboard has caught up with the chain: every score is stored, unless
\* the RPC has forgotten it, it is behind the window of the catch-up, or it was left out and
\* no later score has been read yet.  Neither a state that some sync saved nor the data lake
\* keeps the cron from reading on (leaderboard-sync.ts 298-535).
CatchesUp ==
  []<>(\A e \in Scores \cap Chain :
         \/ e \in EventsOf(stored)
         \/ e[1] < Greater(Oldest, Behind(state.highest, CatchupWindow))
         \/ e \in left /\ e[1] > state.highest)
=============================================================================
