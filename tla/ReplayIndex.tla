---------------------------- MODULE ReplayIndex ----------------------------
(***************************************************************************)
(* How a score of the leaderboard finds the tape that shows its game.      *)
(*                                                                         *)
(* A score event knows its transaction, a tape its job.  The claim queue,  *)
(* after a claim, writes two tables: proof_claim_index (job to             *)
(* transaction) and proof_tape_index (transaction to job).  What it could  *)
(* not write is recovered by the cron (backfillProofTapeMappings) and by   *)
(* the page of a player (selfHealRecentRunReplayMappings), from the claim  *)
(* index and from the jobs of the coordinator; the cron also removes rows  *)
(* whose tape has expired (pruneStaleProofTapeMappings).                   *)
(*                                                                         *)
(* A transaction is named by the job it claims, so the event of job j is j.*)
(* Every call of D1, R2 or the coordinator is a step, and may fail.        *)
(***************************************************************************)
EXTENDS Naturals, FiniteSets, Sequences, Functions

CONSTANTS
  LastJob,     \* jobs are numbered in the order they are created
  Game,        \* the claimant, seed and score of each job
  PageSize,    \* DEFAULT_LEADERBOARD_TAPE_BACKFILL_JOBS_PAGE_SIZE
  MaxJobs,     \* DEFAULT_LEADERBOARD_TAPE_BACKFILL_MAX_JOBS_PER_CLAIMANT
  BatchLimit,  \* how many scores a pass of the cron, or a page, looks at
  MaxPasses,   \* DEFAULT_LEADERBOARD_TAPE_BACKFILL_MAX_PASSES
  PruneLimit,  \* how many rows of each table a prune reads
  PruneEvery,  \* the runs of the cron from one prune to the next
  MaxAttempts, \* MAX_QUEUE_RETRIES
  MaxFaults    \* bound: calls that fail, handlers that die, answers that are lost

Jobs == 1 .. LastJob
None == 0

ASSUME ReplayAssumption ==
  /\ {LastJob, PageSize, MaxJobs, BatchLimit, MaxPasses, PruneLimit, PruneEvery, MaxAttempts}
       \subseteq Nat \ {0}
  /\ MaxFaults \in Nat
  /\ \A j \in Jobs : {"claimant", "score"} \subseteq DOMAIN Game[j]

VARIABLES
  job,       \* is a job not there yet, in the coordinator, or pruned from it?
  claim,     \* claim.status and claim.txHash of each job
  landed,    \* the claims the contract accepted
  scores,    \* leaderboard_events, oldest first
  aged,      \* scores that are older than the retention of jobs
  tape,      \* the jobs whose tape is in R2
  byClaim,   \* proof_claim_index, by recorded_at
  byTx,      \* proof_tape_index, by mapped_at
  delivery,  \* the message of each job in the claim queue
  walker,    \* a run of the cron's backfill, and a page of a player
  prune,     \* the prune that follows the backfill
  faults

indexVars == <<job, claim, landed, scores, aged, tape, byClaim, byTx, delivery, walker, prune,
               faults>>
chain == <<landed, scores, aged>>
tables == <<byClaim, byTx>>

Open == [status |-> "open", tx |-> None]
NoDelivery == [at |-> "none", attempts |-> 0]
Walkers == {"cron", "page"}
NoWalk == [at |-> "idle", queue |-> {}, left |-> {}, todo |-> {}, entries |-> {},
           found |-> {}, full |-> FALSE, writes |-> <<>>, passes |-> 0, wrote |-> FALSE,
           settled |-> {}, forgotten |-> {}]
NoPrune == [runs |-> 0, rows |-> {}]

IndexInit ==
  /\ job = [j \in Jobs |-> "new"]
  /\ claim = [j \in Jobs |-> Open]
  /\ landed = {} /\ scores = <<>> /\ aged = {} /\ tape = {}
  /\ byClaim = <<>> /\ byTx = <<>>
  /\ delivery = [j \in Jobs |-> NoDelivery]
  /\ walker = [w \in Walkers |-> NoWalk]
  /\ prune = NoPrune
  /\ faults = 0

Claims == [status : {"open", "succeeded"}, tx : Jobs \cup {None}]
Rows == [tx : Jobs, job : Jobs]
Stages == {"idle", "entries", "index", "list", "exact", "best", "end", "persist",
           "after", "mapped", "claims", "heads", "delete", "unindex"}
Walks == [at : Stages, queue : SUBSET Jobs, left : SUBSET Jobs, todo : SUBSET Jobs,
          entries : SUBSET Jobs, found : SUBSET [job : Jobs, claim : Claims, offset : Nat],
          full : BOOLEAN, writes : Seq(Rows), passes : 0 .. MaxPasses, wrote : BOOLEAN,
          settled : SUBSET Jobs, forgotten : SUBSET Jobs]

IndexTypeOK ==
  /\ job \in [Jobs -> {"new", "listed", "pruned"}]
  /\ claim \in [Jobs -> Claims]
  /\ landed \subseteq Jobs /\ scores \in Seq(landed) /\ aged \subseteq Range(scores)
  /\ tape \subseteq Jobs /\ byClaim \in Seq(Jobs) /\ byTx \in Seq(Rows)
  /\ delivery \in [Jobs -> [at : {"none", "queued", "answer", "index", "map"},
                            attempts : 0 .. (MaxAttempts - 1)]]
  /\ walker \in [Walkers -> Walks] /\ \A w \in Walkers : IsFiniteSet(walker[w].found)
  /\ prune \in [runs : 0 .. (PruneEvery - 1), rows : SUBSET Rows]
  /\ faults \in 0 .. MaxFaults

Fault == faults < MaxFaults /\ faults' = faults + 1
NoFault == UNCHANGED faults

(***************************************************************************)
(* The two tables.                                                         *)
(***************************************************************************)
Row(e, j) == [tx |-> e, job |-> j]
MappedTo(e) == {r.job : r \in {r \in Range(byTx) : r.tx = e}}
Mapped(e) == MappedTo(e) # {}

\* A table but for its k-th row, and a table but for the row in S, if it has one.
Without(table, k) == [i \in 1 .. (Len(table) - 1) |-> table[IF i < k THEN i ELSE i + 1]]
Dropped(table, S) ==
  IF \E k \in DOMAIN table : table[k] \in S
    THEN Without(table, CHOOSE k \in DOMAIN table : table[k] \in S)
    ELSE table
RowsOf(e) == {Row(e, j) : j \in Jobs}

\* INSERT ... ON CONFLICT(tx_hash) DO UPDATE: the row moves to the end of mapped_at.
WriteProofTapeMapping(e, j) == byTx' = Append(Dropped(byTx, RowsOf(e)), Row(e, j))
DeleteProofTapeMapping(e) == byTx' = Dropped(byTx, RowsOf(e))

\* The tape of a mapped score is served, by its key alone if the job is forgotten.
Shown(e) == \E j \in MappedTo(e) : j \in tape

\* ON CONFLICT(proof_job_id) DO UPDATE; the row of job j holds its own transaction.
WriteProofClaimIndexEntry(j) == byClaim' = Append(Dropped(byClaim, {j}), j)
DeleteProofClaimIndexEntry(e, j) == byClaim' = Dropped(Dropped(byClaim, {e}), {j})

\* Scores are looked at one after the other, the newest first.
IsNewer(f, e) == \E i, k \in DOMAIN scores : i > k /\ scores[i] = f /\ scores[k] = e
Newest(S) == {e \in S : \A f \in S \ {e} : IsNewer(e, f)}
FirstOf(S) == {e \in S : Cardinality({f \in S : IsNewer(f, e)}) < BatchLimit}

\* The cron looks at the newest scores without a mapping ...
GetUnmapped == FirstOf({e \in Range(scores) : ~Mapped(e)})

\* ... the page at those without one among the newest scores of its player.
RecentRuns(c) == FirstOf({e \in Range(scores) : Game[e].claimant = c})
UnresolvedRuns(c) == {e \in RecentRuns(c) : ~Mapped(e)}

FirstRows(table) == {table[k] : k \in DOMAIN table \cap 1 .. PruneLimit}

(***************************************************************************)
(* Which job a score belongs to.  A job is looked at as it was when its    *)
(* page was read; offset tells the pages apart.                            *)
(***************************************************************************)
Seen(j, offset) == [job |-> j, claim |-> claim[j], offset |-> offset]
MatchingJobs(found, e) == {s \in found : Game[s.job] = Game[e]}
JobsIn(S) == {s.job : s \in S}
Only(S) == {s.job : s \in {s \in S : S = {s}}}

ExactMatches(found, e) == JobsIn({s \in MatchingJobs(found, e) : s.claim.tx = e})

\* Mutant: the tape of any of the jobs that match will do.
AnyMatch(found, e, allowNonSucceeded) ==
  JobsIn({s \in MatchingJobs(found, e) : allowNonSucceeded \/ s.claim.status = "succeeded"})

BestMatches(found, e, allowNonSucceeded) ==
  LET matches == MatchingJobs(found, e)
      succeeded == {s \in matches : s.claim.status = "succeeded"}
  IN  IF ExactMatches(found, e) # {} THEN ExactMatches(found, e)
      ELSE IF succeeded # {} THEN Only(succeeded)
      ELSE IF allowNonSucceeded THEN Only(matches) ELSE {}

(***************************************************************************)
(* Jobs, tapes and claims.                                                 *)
(***************************************************************************)
CreateJob(j) ==
  /\ job[j] = "new" /\ \A k \in 1 .. (j - 1) : job[k] # "new"
  /\ job' = [job EXCEPT ![j] = "listed"]
  /\ tape' = tape \cup {j}
  /\ delivery' = [delivery EXCEPT ![j].at = "queued"]
  /\ UNCHANGED <<claim, chain, tables, walker, prune, faults>>

\* The claim queue has one consumer, which handles one message at a time.
ConsumerIsFree == \A j \in Jobs : delivery[j].at \in {"none", "queued"}
Goto(j, at) == delivery' = [delivery EXCEPT ![j].at = at]

\* Another job of this claimant and seed with at least this score has been claimed.
Superseded(j) ==
  \E k \in Jobs \ {j} : job[k] = "listed" /\ Game[k] = Game[j] /\ claim[k].status = "succeeded"
Improves(j) == \A k \in landed : Game[k] # Game[j]

\* The contract accepts the claim; the relayer's answer is still to come.
Relay(j) ==
  /\ delivery[j].at = "queued" /\ ConsumerIsFree
  /\ claim[j].status = "open" /\ ~Superseded(j) /\ Improves(j)
  /\ landed' = landed \cup {j}
  /\ Goto(j, "answer")
  /\ UNCHANGED <<job, claim, scores, aged, tape, tables, walker, prune, faults>>

MarkClaimSucceeded(j) ==
  /\ delivery[j].at = "answer"
  /\ claim' = [claim EXCEPT ![j] = [status |-> "succeeded", tx |-> j]]
  /\ Goto(j, "index")
  /\ UNCHANGED <<job, chain, tape, tables, walker, prune, faults>>

\* "superseded-by-higher-score" and "prior-attempt" are no transaction hashes.
MarkWithoutHash(j) ==
  /\ delivery[j].at = "queued" /\ ConsumerIsFree /\ claim[j].status = "open"
  /\ Superseded(j) \/ ~Improves(j)
  /\ claim' = [claim EXCEPT ![j].status = "succeeded"]
  /\ Goto(j, "none")
  /\ UNCHANGED <<job, chain, tape, tables, walker, prune, faults>>

\* A redelivery of a claim that has succeeded writes the tables again.
Redeliver(j) ==
  /\ delivery[j].at = "queued" /\ ConsumerIsFree /\ claim[j].status = "succeeded"
  /\ Goto(j, IF job[j] = "listed" /\ claim[j].tx = j THEN "index" ELSE "none")
  /\ UNCHANGED <<job, claim, chain, tape, tables, walker, prune, faults>>

\* message.retry, or the last attempt is over and the error is only logged.
PersistFails(j) ==
  /\ delivery[j].at \in {"index", "map"} /\ Fault
  /\ delivery' = [delivery EXCEPT ![j] =
       IF @.attempts + 1 < MaxAttempts THEN [at |-> "queued", attempts |-> @.attempts + 1]
                                       ELSE [@ EXCEPT !.at = "none"]]
  /\ UNCHANGED <<job, claim, chain, tape, tables, walker, prune>>

\* The worker dies, or the relayer does not answer: the message comes again.
HandlerDies(j) ==
  /\ delivery[j].at \in {"answer", "index", "map"} /\ Fault
  /\ Goto(j, "queued")
  /\ UNCHANGED <<job, claim, chain, tape, tables, walker, prune>>

\* persistClaimReplayIndexes: the claim index first, then the mapping.
PersistEntry(j) ==
  /\ delivery[j].at = "index"
  /\ WriteProofClaimIndexEntry(j)
  /\ Goto(j, "map")
  /\ UNCHANGED <<job, claim, chain, tape, byTx, walker, prune, faults>>
PersistMapping(j) ==
  /\ delivery[j].at = "map"
  /\ WriteProofTapeMapping(j, j)
  /\ Goto(j, "none")
  /\ UNCHANGED <<job, claim, chain, tape, byClaim, walker, prune, faults>>

Ingest(j) ==
  /\ j \in landed \ Range(scores)
  /\ scores' = Append(scores, j)
  /\ UNCHANGED <<job, claim, landed, aged, tape, tables, delivery, walker, prune, faults>>

\* The coordinator forgets a job after the retention; no run or message lasts that long.
PruneJob(j) ==
  /\ job[j] = "listed" /\ claim[j].status = "succeeded" /\ delivery[j].at = "none"
  /\ \A w \in Walkers : walker[w].at = "idle" \/ j \in walker[w].settled
  /\ job' = [job EXCEPT ![j] = "pruned"]
  /\ UNCHANGED <<claim, chain, tape, tables, delivery, walker, prune, faults>>

\* A claim is closed after its proof is complete, so an event is not older than its job.
EventAges(e) ==
  /\ e \in Range(scores) \ aged /\ job[e] = "pruned"
  /\ aged' = aged \cup {e}
  /\ UNCHANGED <<job, claim, landed, scores, tape, tables, delivery, walker, prune, faults>>

\* The lifecycle rule of the bucket: days after every job of the same seed was forgotten, and
\* after what ran then has ended.
TapeExpires(j) ==
  /\ j \in tape
  /\ \A k \in Jobs : Game[k] = Game[j] =>
       /\ job[k] = "pruned"
       /\ \A w \in Walkers : walker[w].at = "idle" \/ k \in walker[w].forgotten
  /\ tape' = tape \ {j}
  /\ UNCHANGED <<job, claim, chain, tables, delivery, walker, prune, faults>>

(***************************************************************************)
(* The backfill of the cron and the repair of a player's page.             *)
(***************************************************************************)
Set(w, r) == walker' = [walker EXCEPT ![w] = r]
InWalk(w) == UNCHANGED <<job, claim, chain, tape, byClaim, delivery>>

\* What was over when the run, and those it overlaps, began.
Running == {w \in Walkers : walker[w].at # "idle"}
Settled == {j \in Jobs : job[j] # "new" /\ delivery[j].at = "none"
                          /\ \A w \in Running : j \in walker[w].settled}
Forgotten == {j \in Jobs : job[j] = "pruned" /\ \A w \in Running : j \in walker[w].forgotten}
Afresh(me) == [NoWalk EXCEPT !.settled = me.settled, !.forgotten = me.forgotten]

Begin(w, unmapped, passes) ==
  LET first == passes = 1
  IN  Set(w, [Afresh(walker[w]) EXCEPT
                            !.at = IF unmapped # {} THEN "entries"
                                   ELSE IF w = "cron" THEN "after" ELSE "idle",
                            !.todo = unmapped, !.passes = passes,
                            !.settled = IF first THEN Settled ELSE @,
                            !.forgotten = IF first THEN Forgotten ELSE @])

CronBegins ==
  /\ walker["cron"].at = "idle"
  /\ Begin("cron", GetUnmapped, 1)
  /\ InWalk("cron") /\ NoFault /\ UNCHANGED <<byTx, prune>>
PageBegins(c) ==
  /\ walker["page"].at = "idle"
  /\ Begin("page", UnresolvedRuns(c), 1)
  /\ InWalk("page") /\ NoFault /\ UNCHANGED <<byTx, prune>>

\* Mutant: only entries of jobs the coordinator still knows.
KnownEntries(es) == {e \in es : e \in Range(byClaim) /\ job[e] = "listed"}
EntriesOf(es) == {e \in es : e \in Range(byClaim)}

\* getProofClaimIndexEntriesByTxHashes; if it fails, the jobs are looked at.
GetEntries(w) ==
  LET me == walker[w] IN
  /\ me.at = "entries"
  /\ \/ /\ Set(w, [me EXCEPT !.at = "index", !.queue = me.todo, !.todo = {},
                             !.entries = EntriesOf(me.todo)])
        /\ NoFault
     \/ Set(w, [me EXCEPT !.at = "index", !.left = me.todo, !.todo = {}]) /\ Fault
  /\ InWalk(w) /\ UNCHANGED <<byTx, prune>>

Matches(w, e) ==
  LET me == walker[w] IN
  CASE me.at = "index" -> me.entries \cap {e}
    [] me.at = "exact" -> ExactMatches(me.found, e)
    [] me.at = "best"  -> BestMatches(me.found, e, w = "cron")

Looking(w) == walker[w].at \in {"index", "exact", "best"}
WritesPending(w) == w = "cron" /\ walker[w].writes # <<>>

\* A job is taken only if R2 says that its tape is there; an error says it is not.
Try(w) ==
  LET me == walker[w] IN
  /\ Looking(w) /\ ~WritesPending(w)
  /\ \E e \in Newest(me.queue) :
       LET next == [me EXCEPT !.queue = @ \ {e}]
       IN \/ /\ Matches(w, e) \cap tape = {} /\ NoFault
             /\ Set(w, [next EXCEPT !.left = @ \cup {e}])
          \/ /\ Matches(w, e) \cap tape # {} /\ Fault
             /\ Set(w, [next EXCEPT !.left = @ \cup {e}])
          \/ \E j \in Matches(w, e) \cap tape :
               Set(w, [next EXCEPT !.writes = Append(@, Row(e, j))]) /\ NoFault
  /\ InWalk(w) /\ UNCHANGED <<byTx, prune>>

\* The cron writes a mapping when it is found, the page after it has answered.
Write(w) ==
  LET me == walker[w]
      r == Head(me.writes)
      rest == [me EXCEPT !.writes = Tail(@)]
  IN
  /\ me.writes # <<>>
  /\ IF w = "cron" THEN Looking(w) ELSE me.at = "persist"
  /\ \/ WriteProofTapeMapping(r.tx, r.job) /\ Set(w, [rest EXCEPT !.wrote = TRUE]) /\ NoFault
     \/ Set(w, rest) /\ UNCHANGED byTx /\ Fault
  /\ InWalk(w) /\ UNCHANGED prune

\* The next claimant, or the end of the pass.
NextClaimant(me) ==
  IF me.todo = {} THEN {[me EXCEPT !.at = "end", !.left = {}]}
  ELSE {[me EXCEPT !.at = "list", !.found = {}, !.full = FALSE,
                   !.left = {f \in me.todo : Game[f].claimant = Game[e].claimant},
                   !.todo = {f \in me.todo : Game[f].claimant # Game[e].claimant}] :
          e \in Newest(me.todo)}

\* The page looks for jobs only of runs within their retention.
AfterIndex(w, me) ==
  NextClaimant([me EXCEPT !.todo = {e \in me.left : w = "cron" \/ e \notin aged}])

AfterStage(w, me) ==
  IF me.at = "index" THEN AfterIndex(w, me)
  ELSE IF me.at = "exact" /\ me.left # {} /\ me.full
       THEN {[me EXCEPT !.at = "best", !.queue = me.left, !.left = {}]}
  ELSE IF me.at = "exact" /\ me.left # {} /\ Cardinality(me.found) < MaxJobs
       THEN {[me EXCEPT !.at = "list"]}
  ELSE NextClaimant(me)

EndStage(w) ==
  /\ Looking(w) /\ walker[w].queue = {} /\ ~WritesPending(w)
  /\ \E next \in AfterStage(w, walker[w]) : Set(w, next)
  /\ InWalk(w) /\ NoFault /\ UNCHANGED <<byTx, prune>>

\* A page of the jobs of claimant c, the newest first; its rows are as they are now.
JobsOf(c) == {j \in Jobs : job[j] = "listed" /\ Game[j].claimant = c}
PageOfJobs(c, offset) ==
  {j \in JobsOf(c) : Cardinality({k \in JobsOf(c) : k > j}) \in offset .. (offset + PageSize - 1)}

ListJobsForClaimant(w) ==
  LET me == walker[w]
      offset == Cardinality(me.found)
  IN
  /\ me.at = "list"
  /\ \/ /\ \E e \in Newest(me.left) :
             LET c == Game[e].claimant
                 read == PageOfJobs(c, offset)
             IN Set(w, [me EXCEPT !.at = "exact", !.queue = me.left, !.left = {},
                          !.found = @ \cup {Seen(j, offset) : j \in read},
                          !.full = \/ offset + Cardinality(read) >= Cardinality(JobsOf(c))
                                   \/ Cardinality(read) < PageSize])
        /\ NoFault
     \/ (\E next \in NextClaimant(me) : Set(w, next)) /\ Fault
  /\ InWalk(w) /\ UNCHANGED <<byTx, prune>>

EndPage ==
  /\ \/ walker["page"].at = "end" /\ Set("page", [Afresh(walker["page"]) EXCEPT
                                   !.at = "persist", !.writes = walker["page"].writes])
     \/ walker["page"].at = "persist" /\ walker["page"].writes = <<>> /\ Set("page", NoWalk)
  /\ InWalk("page") /\ NoFault /\ UNCHANGED <<byTx, prune>>

\* Another pass while the last one made progress.
EndPass ==
  LET me == walker["cron"] IN
  /\ me.at = "end"
  /\ IF me.wrote /\ me.passes < MaxPasses
       THEN Begin("cron", GetUnmapped, me.passes + 1)
       ELSE Set("cron", [Afresh(me) EXCEPT !.at = "after"])
  /\ InWalk("cron") /\ NoFault /\ UNCHANGED <<byTx, prune>>

WalkerDies(w) ==
  /\ walker[w].at # "idle" /\ Fault
  /\ Set(w, NoWalk)
  /\ prune' = IF w = "cron" THEN [prune EXCEPT !.rows = {}] ELSE prune
  /\ InWalk(w) /\ UNCHANGED byTx

(***************************************************************************)
(* The prune of stale rows.                                                *)
(***************************************************************************)
InPrune == UNCHANGED <<job, claim, chain, tape, delivery>>
CronGoto(at) == walker' = [walker EXCEPT !["cron"].at = at]
CronEnds == walker' = [walker EXCEPT !["cron"] = NoWalk]

AfterBackfill ==
  /\ walker["cron"].at = "after"
  /\ IF prune.runs + 1 < PruneEvery
       THEN CronEnds /\ prune' = [prune EXCEPT !.runs = @ + 1]
       ELSE CronGoto("mapped") /\ UNCHANGED prune
  /\ InPrune /\ NoFault /\ UNCHANGED tables

\* Mutant: only rows the claim index knows as well.
IndexedRows == {r \in FirstRows(byTx) : r.job \in Range(byClaim)}
MappedRows == FirstRows(byTx)

GetMapped ==
  /\ walker["cron"].at = "mapped"
  /\ \/ prune' = [prune EXCEPT !.rows = MappedRows] /\ CronGoto("claims") /\ NoFault
     \/ CronEnds /\ UNCHANGED prune /\ Fault
  /\ InPrune /\ UNCHANGED tables
GetClaims ==
  /\ walker["cron"].at = "claims"
  /\ \/ /\ prune' = [prune EXCEPT !.rows = @ \cup {Row(j, j) : j \in FirstRows(byClaim)}]
        /\ CronGoto("heads") /\ NoFault
     \/ CronEnds /\ prune' = [prune EXCEPT !.rows = {}] /\ Fault
  /\ InPrune /\ UNCHANGED tables

\* Mutant: a tape R2 could not say anything of is taken as gone.
StaleOrUnknown(rows, unknown) == {r \in rows : r.job \notin tape \/ r.job \in unknown}
Stale(rows, unknown) == {r \in rows : r.job \notin tape /\ r.job \notin unknown}

HeadTapes ==
  /\ walker["cron"].at = "heads"
  /\ \E unknown \in {{}} \cup {{r.job} : r \in prune.rows} :
       /\ IF unknown = {} THEN NoFault ELSE Fault
       /\ prune' = [prune EXCEPT !.rows = Stale(@, unknown)]
  /\ CronGoto("delete")
  /\ InPrune /\ UNCHANGED tables

DeleteMapping ==
  /\ walker["cron"].at = "delete"
  /\ \E r \in prune.rows :
       \/ /\ DeleteProofTapeMapping(r.tx)
          /\ walker' = [walker EXCEPT !["cron"].at = "unindex", !["cron"].writes = <<r>>]
          /\ UNCHANGED prune /\ NoFault
       \/ prune' = [prune EXCEPT !.rows = @ \ {r}] /\ UNCHANGED <<byTx, walker>> /\ Fault
  /\ InPrune /\ UNCHANGED byClaim
DeleteEntry ==
  LET r == walker["cron"].writes[1] IN
  /\ walker["cron"].at = "unindex"
  /\ \/ DeleteProofClaimIndexEntry(r.tx, r.job) /\ NoFault
     \/ UNCHANGED byClaim /\ Fault
  /\ prune' = [prune EXCEPT !.rows = @ \ {r}]
  /\ walker' = [walker EXCEPT !["cron"].at = "delete", !["cron"].writes = <<>>]
  /\ InPrune /\ UNCHANGED byTx
EndPrune ==
  /\ walker["cron"].at = "delete" /\ prune.rows = {}
  /\ CronEnds /\ prune' = NoPrune
  /\ InPrune /\ NoFault /\ UNCHANGED tables

WalkStep(w) ==
  \/ GetEntries(w) \/ Try(w) \/ Write(w) \/ EndStage(w) \/ ListJobsForClaimant(w) \/ WalkerDies(w)
CronStep ==
  \/ CronBegins \/ WalkStep("cron") \/ EndPass \/ AfterBackfill
  \/ GetMapped \/ GetClaims \/ HeadTapes \/ DeleteMapping \/ DeleteEntry \/ EndPrune
PageStep ==
  \/ \E c \in {Game[j].claimant : j \in Jobs} : PageBegins(c)
  \/ WalkStep("page") \/ EndPage
ClaimStep ==
  \E j \in Jobs : \/ CreateJob(j) \/ Relay(j) \/ MarkClaimSucceeded(j) \/ MarkWithoutHash(j)
                  \/ Redeliver(j) \/ PersistFails(j) \/ HandlerDies(j)
                  \/ PersistEntry(j) \/ PersistMapping(j) \/ Ingest(j)
TimeStep == \E j \in Jobs : PruneJob(j) \/ EventAges(j) \/ TapeExpires(j)

IndexNext == CronStep \/ PageStep \/ ClaimStep \/ TimeStep

IndexSpec == IndexInit /\ [][IndexNext]_indexVars

\* The cron runs every minute for as long as the worker is deployed; a score of the chain is
\* ingested in the end.
FairSpec == IndexSpec /\ WF_indexVars(CronStep) /\ \A j \in Jobs : WF_indexVars(Ingest(j))

(***************************************************************************)
(* Properties.                                                             *)
(***************************************************************************)
\* No score shows the tape of another game.  And if the jobs are listed in one page, none shows
\* that of a job which was not claimed by it while the coordinator still knows the job that was:
\* the several writers of the mapping, with their guesses from jobs read a while ago, never guess
\* when they could know.  (From two pages they may: a claim that succeeds in between is not seen.)
ShowsItsOwnGame ==
  \A r \in Range(byTx) :
    /\ Game[r.job] = Game[r.tx]
    /\ LastJob <= PageSize => r.job = r.tx \/ job[r.tx] = "pruned" \/ claim[r.tx].tx # r.tx

\* A score that shows a game stays mapped as long as its own tape is there: the prune reads rows,
\* asks R2 and deletes by transaction only, in steps between which others write, and an error of
\* R2 is no answer.  (One that shows another tape of the game may lose it when its own expires.)
LiveTapeStaysMapped ==
  [][\A e \in Jobs : Shown(e) /\ e \in tape => Mapped(e)']_indexVars

\* A mapping whose tape has expired is removed in the end, whoever wrote it ("to remove
\* proof_tape_index rows whose R2 tape has expired").
StaleIsRemoved ==
  \A j \in Jobs : (j \notin tape /\ \E r \in Range(byTx) : r.job = j)
                    ~> (\A r \in Range(byTx) : r.job # j)

\* A score whose claim was indexed shows its tape in the end, if the tape stays: also when the
\* claim queue gave up on the mapping and the coordinator has forgotten the job.  (Unless a prune
\* is about to take its row: it has read a mapping of this score to the tape of another job.)
IndexedIsShown ==
  \A j \in Jobs :
    (j \in Range(byClaim) /\ j \in tape /\ \A r \in prune.rows : r.tx = j => r.job = j)
      ~> (Mapped(j) \/ j \notin tape)
=============================================================================
