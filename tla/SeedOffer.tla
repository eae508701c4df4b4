----------------------------- MODULE SeedOffer -----------------------------
(***************************************************************************)
(* How the seed of a ten-minute window gets from the score contract to the *)
(* page: the worker's cron job and POST /api/seed/refresh have the         *)
(* contract make the seed, GET /api/seed/current reads it, and the page    *)
(* (useSeed.ts) asks, caches, retries, and drops what it shows when a      *)
(* window begins.                                                          *)
(*                                                                         *)
(* There is one seed per window, so a seed is named by its window.  The    *)
(* page and the worker wait on each other and on the network: a window may *)
(* end between any question and its answer.                                *)
(***************************************************************************)
EXTENDS Naturals

CONSTANTS
  MaxWindow,   \* bound: the last window
  MaxSent,     \* bound: transactions the relayer holds at a time
  MaxEvents,   \* bound: failures of the network, an RPC node or the relayer, pages closed,
               \* runs of the cron job, and requests of somebody else
  CronTries    \* SEED_REFRESH_MAX_ATTEMPTS

ASSUME SeedAssumption ==
  /\ MaxWindow \in Nat \ {0, 1}
  /\ {MaxSent, MaxEvents} \subseteq Nat /\ CronTries \in Nat \ {0}

None == 0
Windows == 1 .. MaxWindow
MaybeWindow == 0 .. MaxWindow

\* Who calls ensureCurrentEpochSeed: two requests and the cron job.
Callers == {"page", "tool", "cron"}

VARIABLES
  now,       \* the window
  ledger,    \* the windows whose seed the contract holds (SeedById)
  sent,      \* how many current_seed transactions the relayer has not got into a ledger
  page,      \* the module state of useSeed.ts
  calls,     \* the calls of ensureCurrentEpochSeed
  attempted, \* lastSeedRefreshAttemptSeedId
  cooling,   \* is lastSeedRefreshAttemptAt less than SEED_REFRESH_COOLDOWN_MS ago?
  shared,    \* whose promise inFlightSeedEnsurePromise is
  cron,      \* the scheduled handler
  events

vars == <<now, ledger, sent, page, calls, attempted, cooling, shared, cron, events>>
chain == <<ledger, sent>>
worker == <<calls, attempted, cooling, shared, cron>>

Nothing == [kind |-> "none", id |-> None]

\* late is not in the code: it says that the page went by an answer to a question of a window
\* that had passed.
PageRecord ==
  [cache : MaybeWindow, shown : MaybeWindow, asked : MaybeWindow,
   reply : [kind : {"none", "lost", "error", "unseeded", "seed"}, id : MaybeWindow],
   timer : BOOLEAN, observed : Windows, mounted : BOOLEAN, rested : BOOLEAN, late : BOOLEAN]

Stages == {"idle", "asked", "joined", "submitting", "looking", "again", "answered"}
CallRecord ==
  [at : Stages, since : MaybeWindow, id : MaybeWindow, near : MaybeWindow, owner : Callers,
   done : BOOLEAN]
NoCall(c) ==
  [at |-> "idle", since |-> None, id |-> None, near |-> None, owner |-> c, done |-> FALSE]

TypeOK ==
  /\ now \in Windows /\ ledger \subseteq Windows
  /\ sent \in 0 .. MaxSent
  /\ page \in PageRecord
  /\ calls \in [Callers -> CallRecord]
  /\ attempted \in MaybeWindow /\ cooling \in BOOLEAN
  /\ shared \in Callers \cup {"nobody"}
  /\ cron \in [window : MaybeWindow, tries : 0 .. CronTries, done : BOOLEAN]
  /\ events \in 0 .. MaxEvents

Init ==
  /\ now = 2
  /\ ledger = {1} /\ sent = 0
  /\ page = [cache |-> None, shown |-> None, asked |-> None, reply |-> Nothing,
             timer |-> FALSE, observed |-> 2, mounted |-> FALSE, rested |-> TRUE,
             late |-> FALSE]
  /\ calls = [c \in Callers |-> NoCall(c)]
  /\ attempted = None /\ cooling = FALSE /\ shared = "nobody"
  /\ cron = [window |-> None, tries |-> 0, done |-> FALSE]
  /\ events = 0

Event == events < MaxEvents /\ events' = events + 1
EventIf(bad) == IF bad THEN Event ELSE UNCHANGED events

-----------------------------------------------------------------------------
(* The page *)

\* Mutant: no retry is scheduled.
NoRetry(p) == p

\* scheduleMissingSeedRetry(): while somebody listens.
ScheduleMissingSeedRetry(p) == [p EXCEPT !.timer = @ \/ p.mounted]

\* Mutant: the cache is not compared with the window.
AnyCacheIsFresh(p) ==
  IF p.asked # None THEN p
  ELSE IF p.cache # None THEN [p EXCEPT !.shown = p.cache]
  ELSE [p EXCEPT !.asked = now, !.timer = FALSE]

\* refreshSeed() up to its await: one request at a time, none if the cache is fresh.
RefreshSeed(p) ==
  IF p.asked # None THEN p
  ELSE IF p.cache = now THEN [p EXCEPT !.shown = now]
  ELSE [p EXCEPT !.asked = now, !.timer = FALSE]

\* The page stores the seed of window k, now or late.
Offer(p, k) == [p EXCEPT !.cache = k, !.shown = k, !.late = k # now]

\* triggerSeedRefresh(k) up to its await: not while another waits or has just been sent.
MayTrigger(p) == calls["page"].at = "idle" /\ p.rested
Call(c, k) == [NoCall(c) EXCEPT !.at = "asked", !.since = k]
TriggerSeedRefresh(p, k) ==
  IF MayTrigger(p)
  THEN /\ page' = [p EXCEPT !.rested = FALSE]
       /\ calls' = [calls EXCEPT !["page"] = Call("page", k)]
  ELSE page' = p /\ UNCHANGED calls

\* subscribe(): the first listener; what was shown when the last one left is still there.
Subscribe ==
  /\ ~page.mounted
  /\ page' = RefreshSeed([page EXCEPT !.mounted = TRUE, !.observed = now])
  /\ UNCHANGED <<now, chain, worker, events>>

\* The last listener leaves.
Unsubscribe ==
  /\ page.mounted /\ Event
  /\ page' = [page EXCEPT !.mounted = FALSE, !.timer = FALSE]
  /\ UNCHANGED <<now, chain, worker>>

\* tick(): each second; nothing but the countdown changes until a window has begun.
Tick ==
  /\ page.mounted /\ page.observed # now
  /\ page' = RefreshSeed([page EXCEPT !.observed = now, !.cache = None, !.shown = None,
                                      !.timer = FALSE, !.late = FALSE])
  /\ UNCHANGED <<now, chain, worker, events>>

\* The retry that was scheduled.
Retry ==
  /\ page.timer
  /\ page' = RefreshSeed([page EXCEPT !.timer = FALSE])
  /\ UNCHANGED <<now, chain, worker, events>>

\* SERVER_REFRESH_COOLDOWN_MS have passed.
Rest ==
  /\ ~page.rested
  /\ page' = [page EXCEPT !.rested = TRUE]
  /\ UNCHANGED <<now, chain, worker, events>>

\* GET /api/seed/current: the worker takes its own window when the request arrives, and asks
\* an RPC node for that window's seed; a failure to read it is no seed.
AnswerCurrent ==
  /\ page.asked # None /\ page.reply.kind = "none"
  /\ \E id \in page.asked .. now, bad \in {"no", "unread", "error", "lost"} :
       /\ EventIf(bad # "no")
       /\ page' = [page EXCEPT !.reply =
            IF bad \in {"error", "lost"} THEN [kind |-> bad, id |-> None]
            ELSE [kind |-> IF bad = "no" /\ id \in ledger THEN "seed" ELSE "unseeded",
                  id |-> id]]
  /\ UNCHANGED <<now, chain, worker>>

\* refreshSeed() with its answer, fetchPending being cleared: the seed that was asked for is
\* stored, one of another window is not.
ReceiveCurrent ==
  LET k == page.asked
      r == page.reply
      p == [page EXCEPT !.asked = None, !.reply = Nothing]
      none == ScheduleMissingSeedRetry([p EXCEPT !.shown = None])
  IN /\ r.kind # "none"
     /\ \/ /\ r.kind = "seed" /\ r.id = k
           /\ page' = Offer(p, k) /\ UNCHANGED calls
        \/ /\ r.kind = "seed" /\ r.id # k
           /\ TriggerSeedRefresh(none, k)
        \/ /\ r.kind \in {"unseeded", "error"} /\ page.shown = k
           /\ page' = ScheduleMissingSeedRetry([p EXCEPT !.late = k # now])
           /\ UNCHANGED calls
        \/ /\ r.kind \in {"unseeded", "error"} /\ page.shown # k
           /\ TriggerSeedRefresh(none, k)
        \/ /\ r.kind = "lost"
           /\ page' = IF page.shown # now THEN none ELSE ScheduleMissingSeedRetry(p)
           /\ UNCHANGED calls
     /\ UNCHANGED <<now, chain, attempted, cooling, shared, cron, events>>

\* triggerSeedRefresh() with its answer: the id must be the one the page asked for.
ReceiveRefresh ==
  LET call == calls["page"]
  IN /\ call.at = "answered"
     /\ calls' = [calls EXCEPT !["page"] = NoCall("page")]
     /\ page' = IF call.done /\ call.id = call.since THEN Offer(page, call.since)
                ELSE ScheduleMissingSeedRetry(page)
     /\ UNCHANGED <<now, chain, attempted, cooling, shared, cron, events>>

\* The answer is lost: fetch throws, and nothing catches it.
LoseRefresh ==
  /\ calls["page"].at = "answered"
  /\ Event
  /\ calls' = [calls EXCEPT !["page"] = NoCall("page")]
  /\ UNCHANGED <<now, chain, page, attempted, cooling, shared, cron>>

-----------------------------------------------------------------------------
(* ensureCurrentEpochSeed *)

\* A call returns, and with it the calls that wait for its promise; the page's answer is on
\* its way then.
Returned(c, id, done) ==
  [d \in Callers |->
     IF d # c /\ ~(calls[d].at = "joined" /\ calls[d].owner = c) THEN calls[d]
     ELSE IF d # "page" THEN NoCall(d)
     ELSE [calls[d] EXCEPT !.at = "answered", !.id = id, !.done = done, !.near = None]]
Return(c, id, done) ==
  /\ calls' = Returned(c, id, done)
  /\ shared' = IF shared = c THEN "nobody" ELSE shared
  /\ cron' = IF c = "cron" THEN [cron EXCEPT !.done = done] ELSE cron

SharedFor(id) == shared # "nobody" /\ calls[shared].id = id

\* readCurrentEpochSeedState(), and what is decided before the next await: the seed is there;
\* a request joins the one in flight for its window; the last attempt was a moment ago; or the
\* call attempts it.  The cron job, which has a deadline, neither joins nor is joined.
ReadState(c) ==
  /\ calls[c].at = "asked"
  /\ \E bad \in BOOLEAN :
       LET id == now
           seeded == ~bad /\ id \in ledger
           joins == c # "cron" /\ SharedFor(id)
           tooSoon == attempted = id /\ cooling
       IN /\ EventIf(bad)
          /\ \/ /\ seeded
                /\ Return(c, id, TRUE)
                /\ UNCHANGED <<attempted, cooling>>
             \/ /\ ~seeded /\ joins
                /\ calls' = [calls EXCEPT ![c].at = "joined", ![c].owner = shared]
                /\ UNCHANGED <<attempted, cooling, shared, cron>>
             \/ /\ ~seeded /\ ~joins /\ tooSoon
                /\ Return(c, id, FALSE)
                /\ UNCHANGED <<attempted, cooling>>
             \/ /\ ~seeded /\ ~joins /\ ~tooSoon
                /\ calls' = [calls EXCEPT ![c].at = "submitting",
                                           ![c].id = IF c = "cron" THEN None ELSE id]
                /\ attempted' = id /\ cooling' = TRUE
                /\ shared' = IF c = "cron" THEN shared ELSE c
                /\ UNCHANGED cron
  /\ UNCHANGED <<now, chain, page>>

\* SEED_REFRESH_COOLDOWN_MS have passed.
Cool ==
  /\ cooling /\ cooling' = FALSE
  /\ UNCHANGED <<now, chain, page, calls, attempted, shared, cron, events>>

\* submitSeedRefresh(): the relayer confirms the transaction, takes it without saying which it
\* is, or fails, in a way that is worth another look or not, and perhaps only seemingly.
Submit(c) ==
  /\ calls[c].at = "submitting"
  /\ \/ /\ ledger' = ledger \cup {now}
        /\ calls' = [calls EXCEPT ![c].at = "looking", ![c].near = now]
        /\ UNCHANGED <<sent, shared, cron, events>>
     \/ /\ sent < MaxSent /\ sent' = sent + 1
        /\ calls' = [calls EXCEPT ![c].at = "looking", ![c].near = now]
        /\ UNCHANGED <<ledger, shared, cron, events>>
     \/ /\ Event
        /\ \/ sent < MaxSent /\ sent' = sent + 1
           \/ UNCHANGED sent
        /\ \/ Return(c, calls[c].id, FALSE)
           \/ /\ calls' = [calls EXCEPT ![c].at = "again"]
              /\ UNCHANGED <<shared, cron>>
        /\ UNCHANGED ledger
  /\ UNCHANGED <<now, page, attempted, cooling>>

\* The transaction gets into a ledger, and makes the seed of that ledger's window.
Include ==
  /\ sent > 0 /\ sent' = sent - 1
  /\ ledger' = ledger \cup {now}
  /\ UNCHANGED <<now, page, worker, events>>

\* What a look finds: the seed of the window of the submission, or else of the one before it.
Found(c, bad) ==
  {w \in {calls[c].near - 1, calls[c].near} : w \in ledger /\ ~(bad /\ w = calls[c].near)}

\* The looks after a submission, a second or so apart.  A look that finds nothing changes
\* nothing, so only the last of them is a step; the cron job's deadline may come before any.
Look(c) ==
  /\ calls[c].at = "looking"
  /\ \E bad \in BOOLEAN :
       /\ EventIf(bad)
       /\ LET found == Found(c, bad)
          IN \/ /\ found # {} /\ Return(c, IF calls[c].near \in found THEN calls[c].near
                                          ELSE calls[c].near - 1, TRUE)
             \/ /\ found = {} \/ c = "cron"
                /\ Return(c, calls[c].id, FALSE)
  /\ UNCHANGED <<now, chain, page, attempted, cooling>>

\* The one more reading after a failure that may not have been one.
LookAgain(c) ==
  /\ calls[c].at = "again"
  /\ \E bad \in BOOLEAN :
       /\ EventIf(bad)
       /\ Return(c, now, ~bad /\ now \in ledger)
  /\ UNCHANGED <<now, chain, page, attempted, cooling>>

-----------------------------------------------------------------------------
(* The cron job, the command line tool, and time *)

\* scheduled(): each ten minutes; and again after a failure.
CronAsks ==
  /\ calls["cron"].at = "idle"
  /\ \/ /\ cron.window # now /\ Event
        /\ cron' = [window |-> now, tries |-> 1, done |-> FALSE]
     \/ /\ cron.window # None /\ ~cron.done /\ cron.tries < CronTries
        /\ cron' = [cron EXCEPT !.tries = @ + 1] /\ UNCHANGED events
  /\ calls' = [calls EXCEPT !["cron"] = Call("cron", None)]
  /\ UNCHANGED <<now, chain, page, attempted, cooling, shared>>

\* The command line tool's preflight sends POST /api/seed/refresh too.
ToolAsks ==
  /\ calls["tool"].at = "idle" /\ Event
  /\ calls' = [calls EXCEPT !["tool"] = Call("tool", None)]
  /\ UNCHANGED <<now, chain, page, attempted, cooling, shared, cron>>

NextWindow ==
  /\ now < MaxWindow /\ now' = now + 1
  /\ UNCHANGED <<chain, page, worker, events>>

PageStep == Tick \/ Retry \/ Rest \/ ReceiveCurrent \/ ReceiveRefresh
WorkerStep ==
  \/ AnswerCurrent \/ Cool \/ Include \/ CronAsks
  \/ \E c \in Callers : ReadState(c) \/ Submit(c) \/ Look(c) \/ LookAgain(c)

Next ==
  \/ PageStep \/ WorkerStep
  \/ Subscribe \/ Unsubscribe \/ LoseRefresh \/ ToolAsks \/ NextWindow

Spec == Init /\ [][Next]_vars

\* The browser runs its timers and callbacks, and the worker, the relayer and the nodes answer.
Fairness ==
  /\ WF_vars(Tick) /\ WF_vars(Retry) /\ WF_vars(Rest)
  /\ WF_vars(ReceiveCurrent) /\ WF_vars(ReceiveRefresh)
  /\ WF_vars(AnswerCurrent) /\ WF_vars(Cool) /\ WF_vars(Include)
  /\ \A c \in Callers :
       WF_vars(ReadState(c)) /\ WF_vars(Submit(c)) /\ WF_vars(Look(c)) /\ WF_vars(LookAgain(c))

FairSpec == Spec /\ Fairness

-----------------------------------------------------------------------------
(* Properties *)

\* While the page is open and has seen the window begin, it shows the seed of this window or
\* none, except while the answer that will tell is on its way, and except for an answer that
\* came in a later window than its question (useSeed.ts:105, 172).
OfferIsCurrent ==
  page.mounted /\ page.observed = now =>
    page.shown \in {None, now} \/ page.asked # None \/ page.late

\* useSeed.ts:35: "Seed-id-aligned cache so the same seed is returned within one 10-minute
\* interval."  An answer that comes after the window it was asked in is stored all the same.
SameSeedInAWindow ==
  page.mounted /\ page.observed = now =>
    page.shown \in {None, now} \/ page.asked # None

\* Whatever fails, and whether or not the cron job runs: an open page comes to show the seed of
\* the window, unless it holds one that came late.
OfferCatchesUp == <>[](page.mounted => page.shown = now \/ page.late)

\* index.ts:166: "Materialize/index the on-chain seed for the current 10-min window ... Retry up
\* to 3 times": when the cron job is done, there is the seed of its window or of a later one.
CronLeavesASeed == cron.done => \E w \in ledger : w >= cron.window
=============================================================================
