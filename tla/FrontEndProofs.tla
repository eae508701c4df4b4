--------------------------- MODULE FrontEndProofs ---------------------------
(***************************************************************************)
(* Proofs about the two components that run in the browser: SeedOffer, the *)
(* seed the page shows, and AsteroidsGame, the game and its recording.     *)
(*                                                                         *)
(* SeedOffer, for any number of windows, transactions, tries and failures: *)
(* the page shows the seed of the window it has seen begin.  The page      *)
(* stores an answer without a look at the clock, so what it shows is said  *)
(* of the window it has observed: the page never observes a window before  *)
(* it begins, so that a new window makes it look again.                    *)
(*                                                                         *)
(* AsteroidsGame, for any rules of the game that GameAssumption admits:    *)
(* the caps, the length of the tape, and what the verifier may refuse.     *)
(* Things are counted by kind and age, so the proofs begin with lemmas     *)
(* about sums of counts.                                                   *)
(***************************************************************************)
EXTENDS SeedOffer, AsteroidsGame, FiniteSetTheorems, TLAPS

\* What the page shows, if it has seen this window begin.
Shows(p) ==
  p.mounted /\ p.observed = now => p.shown \in {None, now} \/ p.asked # None \/ p.late

OfferInv == TypeOK /\ page.observed <= now /\ Shows(page)
-----------------------------------------------------------------------------
(* What the page's functions return.                                       *)

\* A page with its record's types, which has observed no window to come.
Fits(p) == p \in PageRecord /\ p.observed <= now /\ Shows(p)

\* Windows are numbered from 1, and None is 0.
LEMMA NoneIsNoWindow ==
  None \in MaybeWindow /\ None \notin Windows /\ Windows \subseteq MaybeWindow
BY SeedAssumption DEF None, MaybeWindow, Windows

\* refreshSeed(): whatever was shown before, it is this window's seed or is asked for.
LEMMA RefreshedFits ==
  ASSUME now \in Windows, NEW p \in PageRecord, p.observed <= now
  PROVE  Fits(RefreshSeed(p))
<1>1. now \in MaybeWindow /\ now # None
  BY DEF Windows, MaybeWindow, None
<1>2. CASE p.asked # None
  BY <1>2 DEF RefreshSeed, Fits, Shows
<1>3. CASE p.asked = None /\ p.cache = now
  <2> DEFINE q == [p EXCEPT !.shown = now]
  <2>1. q \in PageRecord /\ q.observed = p.observed /\ q.shown = now
    BY <1>1 DEF PageRecord
  <2>2. RefreshSeed(p) = q
    BY <1>3 DEF RefreshSeed
  <2>3. QED
    BY <2>1, <2>2 DEF Fits, Shows
<1>4. CASE p.asked = None /\ p.cache # now
  <2> DEFINE q == [p EXCEPT !.asked = now, !.timer = FALSE]
  <2>1. q \in PageRecord /\ q.observed = p.observed /\ q.asked = now
    BY <1>1 DEF PageRecord
  <2>2. RefreshSeed(p) = q
    BY <1>4 DEF RefreshSeed
  <2>3. QED
    BY <1>1, <2>1, <2>2 DEF Fits, Shows
<1>5. QED
  BY <1>2, <1>3, <1>4

\* A stored answer is this window's, or is known to be late.
LEMMA OfferedFits ==
  ASSUME NEW p \in PageRecord, p.observed <= now, NEW k \in MaybeWindow
  PROVE  Fits(Offer(p, k))
<1> DEFINE q == [p EXCEPT !.cache = k, !.shown = k, !.late = k # now]
<1>1. q \in PageRecord /\ q.observed = p.observed /\ q.shown = k /\ q.late = (k # now)
  BY DEF PageRecord
<1>2. QED
  BY <1>1 DEF Offer, Fits, Shows

\* scheduleMissingSeedRetry() touches the timer alone.
LEMMA ScheduledFits ==
  ASSUME NEW p, Fits(p)
  PROVE  Fits(ScheduleMissingSeedRetry(p))
BY DEF Fits, Shows, ScheduleMissingSeedRetry, PageRecord

\* triggerSeedRefresh() sends a call of the page's, or does nothing.
LEMMA TriggeredFits ==
  ASSUME TypeOK, NEW p, Fits(p), NEW k \in MaybeWindow, TriggerSeedRefresh(p, k)
  PROVE  Fits(page') /\ calls' \in [Callers -> CallRecord]
<1>1. Call("page", k) \in CallRecord
  BY NoneIsNoWindow DEF Call, NoCall, CallRecord, Stages, Callers
<1>2. CASE MayTrigger(p)
  <2>1. page' = [p EXCEPT !.rested = FALSE] /\ calls' = [calls EXCEPT !["page"] = Call("page", k)]
    BY <1>2 DEF TriggerSeedRefresh
  <2>2. QED
    BY <1>1, <2>1 DEF Fits, Shows, PageRecord, TypeOK
<1>3. CASE ~MayTrigger(p)
  BY <1>3 DEF TriggerSeedRefresh, TypeOK
<1>4. QED
  BY <1>2, <1>3
-----------------------------------------------------------------------------
(* What a step may do: to the page, to a call of the worker's, and to the rest. *)

\* Nothing but the page changes, and it still fits.
LEMMA PageSteps ==
  ASSUME OfferInv, Fits(page'), UNCHANGED <<now, chain, worker>>, events' \in 0 .. MaxEvents
  PROVE  OfferInv'
BY DEF OfferInv, Fits, Shows, TypeOK, chain, worker

\* The page and its call change.
LEMMA PageCalls ==
  ASSUME OfferInv, Fits(page'), calls' \in [Callers -> CallRecord],
         UNCHANGED <<now, chain, attempted, cooling, shared, cron, events>>
  PROVE  OfferInv'
BY DEF OfferInv, Fits, Shows, TypeOK, chain

\* The worker goes on, and the page does not see it.
LEMMA WorkerSteps ==
  ASSUME OfferInv, UNCHANGED <<now, page>>,
         ledger' \subseteq Windows, sent' \in 0 .. MaxSent, calls' \in [Callers -> CallRecord],
         attempted' \in MaybeWindow, cooling' \in BOOLEAN, shared' \in Callers \cup {"nobody"},
         cron' \in [window : MaybeWindow, tries : 0 .. CronTries, done : BOOLEAN],
         events' \in 0 .. MaxEvents
  PROVE  OfferInv'
BY DEF OfferInv, Shows, TypeOK

\* What is counted stays within its bound.
LEMMA EventsCounted ==
  ASSUME TypeOK, Event \/ UNCHANGED events PROVE events' \in 0 .. MaxEvents
BY SeedAssumption DEF TypeOK, Event

\* A call that returns, and those that waited for it, have an answer or are gone.
LEMMA Returns ==
  ASSUME TypeOK, NEW c \in Callers, NEW id \in MaybeWindow, NEW done \in BOOLEAN,
         Return(c, id, done)
  PROVE  /\ calls' \in [Callers -> CallRecord]
         /\ shared' \in Callers \cup {"nobody"}
         /\ cron' \in [window : MaybeWindow, tries : 0 .. CronTries, done : BOOLEAN]
<1>1. \A d \in Callers : NoCall(d) \in CallRecord
  BY NoneIsNoWindow DEF NoCall, CallRecord, Stages
<1>2. \A d \in Callers : calls[d] \in CallRecord
  BY DEF TypeOK
<1>3. \A d \in Callers :
        [calls[d] EXCEPT !.at = "answered", !.id = id, !.done = done, !.near = None] \in CallRecord
  <2> TAKE d \in Callers
  <2>1. calls[d] \in CallRecord
    BY <1>2
  <2>2. QED
    BY <2>1, NoneIsNoWindow DEF CallRecord, Stages
<1>4. Returned(c, id, done) \in [Callers -> CallRecord]
  BY <1>1, <1>2, <1>3 DEF Returned
<1>5. QED
  BY <1>4 DEF Return, TypeOK

\* A call that goes on to another stage.
LEMMA CallGoesOn ==
  ASSUME TypeOK, NEW c \in Callers, NEW s \in Stages, NEW d \in Callers, NEW w \in MaybeWindow
  PROVE  /\ [calls EXCEPT ![c].at = s] \in [Callers -> CallRecord]
         /\ [calls EXCEPT ![c].at = s, ![c].owner = d] \in [Callers -> CallRecord]
         /\ [calls EXCEPT ![c].at = s, ![c].id = w] \in [Callers -> CallRecord]
         /\ [calls EXCEPT ![c].at = s, ![c].near = w] \in [Callers -> CallRecord]
<1>1. calls \in [Callers -> CallRecord] /\ calls[c] \in CallRecord
  BY DEF TypeOK
<1>2. [calls[c] EXCEPT !.at = s] \in CallRecord
  BY <1>1 DEF CallRecord
<1>3. [calls[c] EXCEPT !.at = s, !.owner = d] \in CallRecord
  BY <1>1 DEF CallRecord
<1>4. [calls[c] EXCEPT !.at = s, !.id = w] \in CallRecord
  BY <1>1 DEF CallRecord
<1>5. [calls[c] EXCEPT !.at = s, !.near = w] \in CallRecord
  BY <1>1 DEF CallRecord
<1>6. [calls EXCEPT ![c].at = s] \in [Callers -> CallRecord]
  BY <1>1, <1>2
<1>7. [calls EXCEPT ![c].at = s, ![c].owner = d] \in [Callers -> CallRecord]
  BY <1>1, <1>3
<1>8. [calls EXCEPT ![c].at = s, ![c].id = w] \in [Callers -> CallRecord]
  BY <1>1, <1>4
<1>9. [calls EXCEPT ![c].at = s, ![c].near = w] \in [Callers -> CallRecord]
  BY <1>1, <1>5
<1>10. QED
  BY <1>6, <1>7, <1>8, <1>9
-----------------------------------------------------------------------------
(* Every step keeps the invariant. *)

\* The steps of the page alone.
LEMMA PageKeeps ==
  ASSUME OfferInv, Subscribe \/ Unsubscribe \/ Tick \/ Retry \/ Rest
  PROVE  OfferInv'
<1>1. now \in Windows /\ now <= now /\ page \in PageRecord /\ page.observed <= now /\ Shows(page)
  BY DEF OfferInv, TypeOK, Windows
<1>2. CASE Subscribe
  <2> DEFINE p == [page EXCEPT !.mounted = TRUE, !.observed = now]
  <2>1. p \in PageRecord /\ p.observed <= now
    BY <1>1 DEF PageRecord
  <2>2. page' = RefreshSeed(p)
    BY <1>2 DEF Subscribe
  <2> HIDE DEF p
  <2>3. Fits(page')
    BY <1>1, <2>1, <2>2, RefreshedFits
  <2>4. QED
    BY <1>2, <2>3, PageSteps, EventsCounted DEF Subscribe, OfferInv
<1>3. CASE Unsubscribe
  <2>1. Fits(page')
    BY <1>1, <1>3 DEF Unsubscribe, Fits, Shows, PageRecord
  <2>2. QED
    BY <1>3, <2>1, PageSteps, EventsCounted DEF Unsubscribe, OfferInv
<1>4. CASE Tick
  <2> DEFINE p == [page EXCEPT !.observed = now, !.cache = None, !.shown = None,
                               !.timer = FALSE, !.late = FALSE]
  <2>1. p \in PageRecord /\ p.observed <= now
    BY <1>1, NoneIsNoWindow DEF PageRecord, Windows
  <2>2. page' = RefreshSeed(p)
    BY <1>4 DEF Tick
  <2> HIDE DEF p
  <2>3. Fits(page')
    BY <1>1, <2>1, <2>2, RefreshedFits
  <2>4. QED
    BY <1>4, <2>3, PageSteps, EventsCounted DEF Tick, OfferInv
<1>5. CASE Retry
  <2> DEFINE p == [page EXCEPT !.timer = FALSE]
  <2>1. p \in PageRecord /\ p.observed <= now
    BY <1>1 DEF PageRecord
  <2>2. page' = RefreshSeed(p)
    BY <1>5 DEF Retry
  <2> HIDE DEF p
  <2>3. Fits(page')
    BY <1>1, <2>1, <2>2, RefreshedFits
  <2>4. QED
    BY <1>5, <2>3, PageSteps, EventsCounted DEF Retry, OfferInv
<1>6. CASE Rest
  <2>1. Fits(page')
    BY <1>1, <1>6 DEF Rest, Fits, Shows, PageRecord
  <2>2. QED
    BY <1>6, <2>1, PageSteps, EventsCounted DEF Rest, OfferInv
<1>7. QED
  BY <1>2, <1>3, <1>4, <1>5, <1>6

\* The answers the page waits for.
LEMMA AnswersKeep ==
  ASSUME OfferInv, AnswerCurrent \/ ReceiveCurrent \/ ReceiveRefresh \/ LoseRefresh
  PROVE  OfferInv'
<1>1. /\ now \in Windows /\ page \in PageRecord /\ page.observed <= now /\ Shows(page)
      /\ calls \in [Callers -> CallRecord] /\ None \in MaybeWindow
  BY SeedAssumption DEF OfferInv, TypeOK, None, MaybeWindow
<1>2. CASE AnswerCurrent
  <2>1. PICK id \in page.asked .. now, bad \in {"no", "unread", "error", "lost"} :
          /\ EventIf(bad # "no")
          /\ page' = [page EXCEPT !.reply =
               IF bad \in {"error", "lost"} THEN [kind |-> bad, id |-> None]
               ELSE [kind |-> IF bad = "no" /\ id \in ledger THEN "seed" ELSE "unseeded",
                     id |-> id]]
    BY <1>2 DEF AnswerCurrent
  <2>2. id \in MaybeWindow
    BY <1>1, SeedAssumption DEF PageRecord, MaybeWindow, Windows
  <2>3. Fits(page')
    BY <1>1, <2>1, <2>2 DEF Fits, Shows, PageRecord
  <2>4. events' \in 0 .. MaxEvents
    BY <2>1, EventsCounted DEF EventIf, OfferInv
  <2>5. QED
    BY <1>2, <2>3, <2>4, PageSteps DEF AnswerCurrent
<1>3. CASE ReceiveCurrent
  <2> DEFINE k == page.asked
             r == page.reply
             p == [page EXCEPT !.asked = None, !.reply = Nothing]
             blank == [p EXCEPT !.shown = None]
             known == [p EXCEPT !.late = k # now]
  <2>1. k \in MaybeWindow
    BY <1>1 DEF PageRecord
  <2>2. p \in PageRecord /\ p.observed = page.observed /\ p.shown = page.shown
    BY <1>1 DEF PageRecord, Nothing
  <2>3. Fits(blank)
    BY <1>1, <2>2 DEF Fits, Shows, PageRecord
  <2>4. page.shown = k => Fits(known)
    BY <1>1, <2>1, <2>2 DEF Fits, Shows, PageRecord
  <2>5. page.shown = now => Fits(p)
    BY <1>1, <2>2 DEF Fits, Shows
  <2>6. \/ page' = Offer(p, k) /\ UNCHANGED calls
        \/ TriggerSeedRefresh(ScheduleMissingSeedRetry(blank), k)
        \/ page.shown = k /\ page' = ScheduleMissingSeedRetry(known) /\ UNCHANGED calls
        \/ page' = ScheduleMissingSeedRetry(blank) /\ UNCHANGED calls
        \/ page.shown = now /\ page' = ScheduleMissingSeedRetry(p) /\ UNCHANGED calls
    BY <1>3 DEF ReceiveCurrent
  <2> HIDE DEF k, p, blank, known
  <2>7. Fits(page') /\ calls' \in [Callers -> CallRecord]
    <3>1. CASE page' = Offer(p, k) /\ UNCHANGED calls
      <4>1. p.observed <= now
        BY <1>1, <2>2
      <4>2. QED
        BY <1>1, <2>1, <2>2, <3>1, <4>1, OfferedFits
    <3>2. CASE TriggerSeedRefresh(ScheduleMissingSeedRetry(blank), k)
      BY <2>1, <2>3, <3>2, ScheduledFits, TriggeredFits DEF OfferInv
    <3>3. CASE page.shown = k /\ page' = ScheduleMissingSeedRetry(known) /\ UNCHANGED calls
      BY <1>1, <2>4, <3>3, ScheduledFits
    <3>4. CASE page' = ScheduleMissingSeedRetry(blank) /\ UNCHANGED calls
      BY <1>1, <2>3, <3>4, ScheduledFits
    <3>5. CASE page.shown = now /\ page' = ScheduleMissingSeedRetry(p) /\ UNCHANGED calls
      BY <1>1, <2>5, <3>5, ScheduledFits
    <3>6. QED
      BY <2>6, <3>1, <3>2, <3>3, <3>4, <3>5
  <2>8. QED
    BY <1>3, <2>7, PageCalls DEF ReceiveCurrent
<1>4. NoCall("page") \in CallRecord
  BY <1>1 DEF NoCall, CallRecord, Stages, Callers
<1>5. CASE ReceiveRefresh
  <2>1. calls' \in [Callers -> CallRecord]
    BY <1>1, <1>4, <1>5 DEF ReceiveRefresh
  <2>2. Fits(page)
    BY <1>1 DEF Fits
  <2>3. calls["page"].since \in MaybeWindow
    BY <1>1 DEF CallRecord, Callers
  <2>4. Fits(page')
    BY <1>1, <1>5, <2>2, <2>3, OfferedFits, ScheduledFits DEF ReceiveRefresh
  <2>5. QED
    BY <1>5, <2>1, <2>4, PageCalls DEF ReceiveRefresh
<1>6. CASE LoseRefresh
  <2>1. calls' \in [Callers -> CallRecord]
    BY <1>1, <1>4, <1>6 DEF LoseRefresh
  <2>2. events' \in 0 .. MaxEvents
    BY <1>6, EventsCounted DEF LoseRefresh, OfferInv
  <2>3. QED
    BY <1>6, <2>1, <2>2 DEF LoseRefresh, OfferInv, TypeOK, Shows, chain
<1>7. QED
  BY <1>2, <1>3, <1>5, <1>6

\* The stages of ensureCurrentEpochSeed.
LEMMA CallsKeep ==
  ASSUME OfferInv, NEW c \in Callers, ReadState(c) \/ Submit(c) \/ Look(c) \/ LookAgain(c)
  PROVE  OfferInv'
<1>1. /\ now \in Windows /\ now \in MaybeWindow /\ calls \in [Callers -> CallRecord]
      /\ calls[c].id \in MaybeWindow
  BY NoneIsNoWindow DEF OfferInv, TypeOK, CallRecord
<1>2. CASE ReadState(c)
  <2>1. PICK bad \in BOOLEAN :
          /\ EventIf(bad)
          /\ \/ /\ \E done \in BOOLEAN : Return(c, now, done)
                /\ UNCHANGED <<attempted, cooling>>
             \/ /\ shared # "nobody"
                /\ calls' = [calls EXCEPT ![c].at = "joined", ![c].owner = shared]
                /\ UNCHANGED <<attempted, cooling, shared, cron>>
             \/ /\ calls' = [calls EXCEPT ![c].at = "submitting",
                                           ![c].id = IF c = "cron" THEN None ELSE now]
                /\ attempted' = now /\ cooling' = TRUE
                /\ shared' \in {shared, c}
                /\ UNCHANGED cron
    BY <1>2 DEF ReadState, SharedFor
  <2>2. UNCHANGED <<now, chain, page>>
    BY <1>2 DEF ReadState
  <2>3. events' \in 0 .. MaxEvents
    BY <2>1, EventsCounted DEF EventIf, OfferInv
  <2>4. CASE \E done \in BOOLEAN : Return(c, now, done) /\ UNCHANGED <<attempted, cooling>>
    BY <1>1, <2>2, <2>3, <2>4, Returns, WorkerSteps DEF OfferInv, TypeOK, chain
  <2>5. CASE /\ shared # "nobody"
             /\ calls' = [calls EXCEPT ![c].at = "joined", ![c].owner = shared]
             /\ UNCHANGED <<attempted, cooling, shared, cron>>
    <3>1. calls' \in [Callers -> CallRecord]
      BY <2>5, CallGoesOn, NoneIsNoWindow DEF OfferInv, TypeOK, Stages
    <3>2. QED
      BY <2>2, <2>3, <2>5, <3>1, WorkerSteps DEF OfferInv, TypeOK, chain
  <2>6. CASE /\ calls' = [calls EXCEPT ![c].at = "submitting",
                                        ![c].id = IF c = "cron" THEN None ELSE now]
             /\ attempted' = now /\ cooling' = TRUE
             /\ shared' \in {shared, c}
             /\ UNCHANGED cron
    <3>1. calls' \in [Callers -> CallRecord]
      BY <1>1, <2>6, CallGoesOn, NoneIsNoWindow DEF OfferInv, Stages
    <3>2. QED
      BY <1>1, <2>2, <2>3, <2>6, <3>1, WorkerSteps DEF OfferInv, TypeOK, chain
  <2>7. QED
    BY <2>1, <2>4, <2>5, <2>6
<1>3. CASE Submit(c)
  <2>1. /\ UNCHANGED <<now, page, attempted, cooling>>
        /\ ledger' \in {ledger, ledger \cup {now}}
        /\ \/ sent < MaxSent /\ sent' = sent + 1
           \/ UNCHANGED sent
        /\ Event \/ UNCHANGED events
        /\ \/ /\ calls' = [calls EXCEPT ![c].at = "looking", ![c].near = now]
              /\ UNCHANGED <<shared, cron>>
           \/ Return(c, calls[c].id, FALSE)
           \/ /\ calls' = [calls EXCEPT ![c].at = "again"]
              /\ UNCHANGED <<shared, cron>>
    BY <1>3 DEF Submit
  <2>2. ledger' \subseteq Windows /\ sent' \in 0 .. MaxSent /\ events' \in 0 .. MaxEvents
    BY <1>1, <2>1, EventsCounted, SeedAssumption DEF OfferInv, TypeOK
  <2>3. /\ calls' \in [Callers -> CallRecord] /\ shared' \in Callers \cup {"nobody"}
        /\ cron' \in [window : MaybeWindow, tries : 0 .. CronTries, done : BOOLEAN]
    <3>1. CASE Return(c, calls[c].id, FALSE)
      BY <1>1, <3>1, Returns DEF OfferInv
    <3>2. CASE /\ calls' = [calls EXCEPT ![c].at = "looking", ![c].near = now]
               /\ UNCHANGED <<shared, cron>>
      BY <1>1, <3>2, CallGoesOn DEF OfferInv, TypeOK, Stages
    <3>3. CASE calls' = [calls EXCEPT ![c].at = "again"] /\ UNCHANGED <<shared, cron>>
      BY <1>1, <3>3 DEF OfferInv, TypeOK, CallRecord, Stages
    <3>4. QED
      BY <2>1, <3>1, <3>2, <3>3
  <2>4. QED
    BY <2>1, <2>2, <2>3, WorkerSteps DEF OfferInv, TypeOK
<1>4. CASE Look(c)
  <2>1. /\ UNCHANGED <<now, chain, page, attempted, cooling>> /\ (Event \/ UNCHANGED events)
        /\ \/ \E w \in Windows : Return(c, w, TRUE)
           \/ Return(c, calls[c].id, FALSE)
    BY <1>4 DEF Look, Found, EventIf, OfferInv, TypeOK
  <2>2. QED
    BY <1>1, <2>1, Returns, EventsCounted, NoneIsNoWindow, WorkerSteps DEF OfferInv, TypeOK, chain
<1>5. CASE LookAgain(c)
  <2>1. /\ UNCHANGED <<now, chain, page, attempted, cooling>> /\ (Event \/ UNCHANGED events)
        /\ \E done \in BOOLEAN : Return(c, now, done)
    BY <1>5 DEF LookAgain, EventIf
  <2>2. QED
    BY <1>1, <2>1, Returns, EventsCounted, WorkerSteps DEF OfferInv, TypeOK, chain
<1>6. QED
  BY <1>2, <1>3, <1>4, <1>5

\* The chain, the cron job, the tool and time.
LEMMA OthersKeep ==
  ASSUME OfferInv, Cool \/ Include \/ CronAsks \/ ToolAsks \/ NextWindow \/ UNCHANGED vars
  PROVE  OfferInv'
<1>1. \A c \in Callers : Call(c, None) \in CallRecord
  BY NoneIsNoWindow DEF Call, NoCall, CallRecord, Stages
<1>2. CASE Cool
  BY <1>2, WorkerSteps DEF Cool, OfferInv, TypeOK, chain
<1>3. CASE Include
  <2>1. sent' \in 0 .. MaxSent /\ ledger' \subseteq Windows
    BY <1>3, SeedAssumption DEF Include, OfferInv, TypeOK
  <2>2. QED
    BY <1>3, <2>1, WorkerSteps DEF Include, OfferInv, TypeOK, worker
<1>4. CASE CronAsks
  <2>1. calls' \in [Callers -> CallRecord]
    BY <1>1, <1>4 DEF CronAsks, OfferInv, TypeOK, Callers
  <2>2. cron' \in [window : MaybeWindow, tries : 0 .. CronTries, done : BOOLEAN]
    <3>1. cron \in [window : MaybeWindow, tries : 0 .. CronTries, done : BOOLEAN] /\ now \in MaybeWindow
      BY NoneIsNoWindow DEF OfferInv, TypeOK
    <3>2. CASE cron' = [window |-> now, tries |-> 1, done |-> FALSE]
      BY <3>1, <3>2, SeedAssumption
    <3>3. CASE cron.tries < CronTries /\ cron' = [cron EXCEPT !.tries = @ + 1]
      <4>1. cron.tries + 1 \in 0 .. CronTries
        BY <3>1, <3>3, SeedAssumption
      <4>2. QED
        BY <3>1, <3>3, <4>1
    <3>4. QED
      BY <1>4, <3>2, <3>3 DEF CronAsks
  <2>3. events' \in 0 .. MaxEvents
    BY <1>4, EventsCounted DEF CronAsks, OfferInv
  <2>4. QED
    BY <1>4, <2>1, <2>2, <2>3, WorkerSteps DEF CronAsks, OfferInv, TypeOK, chain
<1>5. CASE ToolAsks
  <2>1. calls' \in [Callers -> CallRecord]
    BY <1>1, <1>5 DEF ToolAsks, OfferInv, TypeOK, Callers
  <2>2. QED
    BY <1>5, <2>1, EventsCounted, WorkerSteps DEF ToolAsks, OfferInv, TypeOK, chain
<1>6. CASE NextWindow
  <2>1. now \in Nat /\ now' = now + 1 /\ now' \in Windows /\ page.observed \in Nat
    BY <1>6, SeedAssumption DEF NextWindow, OfferInv, TypeOK, PageRecord, Windows
  <2>2. page' = page /\ page.observed <= now' /\ page.observed # now'
    BY <1>6, <2>1 DEF NextWindow, OfferInv
  <2>3. QED
    BY <1>6, <2>1, <2>2 DEF NextWindow, OfferInv, TypeOK, Shows, chain, worker
<1>7. CASE UNCHANGED vars
  BY <1>7 DEF vars, OfferInv, TypeOK, Shows
<1>8. QED
  BY <1>2, <1>3, <1>4, <1>5, <1>6, <1>7

\* The invariant holds at first, and every step keeps it.
LEMMA OfferInvariant == Spec => []OfferInv
<1>1. ASSUME Init PROVE OfferInv
  <2>1. 1 \in Windows /\ 2 \in Windows /\ 0 \in 0 .. MaxSent /\ 0 \in 0 .. CronTries
        /\ 0 \in 0 .. MaxEvents
    BY SeedAssumption DEF Windows
  <2>2. page \in PageRecord /\ ~page.mounted /\ page.observed = 2
    BY <1>1, <2>1, NoneIsNoWindow DEF Init, PageRecord, Nothing
  <2>3. calls \in [Callers -> CallRecord]
    BY <1>1, NoneIsNoWindow DEF Init, NoCall, CallRecord, Stages
  <2>4. cron \in [window : MaybeWindow, tries : 0 .. CronTries, done : BOOLEAN]
    BY <1>1, <2>1, NoneIsNoWindow DEF Init
  <2>5. /\ now = 2 /\ ledger = {1} /\ sent = 0 /\ attempted = None /\ cooling = FALSE
        /\ shared = "nobody" /\ events = 0
    BY <1>1 DEF Init
  <2>6. TypeOK
    BY <2>1, <2>2, <2>3, <2>4, <2>5, NoneIsNoWindow DEF TypeOK
  <2>7. QED
    BY <2>2, <2>5, <2>6 DEF OfferInv, Shows
<1>2. OfferInv /\ [Next]_vars => OfferInv'
  BY PageKeeps, AnswersKeep, CallsKeep, OthersKeep DEF Next, PageStep, WorkerStep
<1>3. QED
  BY <1>1, <1>2, PTL DEF Spec

\* The page, the calls, the cron job and the contract keep their types.
THEOREM SeedTypeCorrect == Spec => []TypeOK
<1>1. OfferInv => TypeOK
  BY DEF OfferInv
<1>2. QED
  BY <1>1, OfferInvariant, PTL

\* An open page that has seen its window begin shows that window's seed, or none, or is
\* asking for it, or has stored an answer that came in a later window than its question,
\* however many windows end between questions and answers (refreshSeed, tick, subscribe).
THEOREM OffersAreCurrent == Spec => []OfferIsCurrent
<1>1. OfferInv => OfferIsCurrent
  BY DEF OfferInv, Shows, OfferIsCurrent
<1>2. QED
  BY <1>1, OfferInvariant, PTL
-----------------------------------------------------------------------------
(* The game: sums of counts. *)

\* Counting takes finitely many things.
LEMMA EachFinite ==
  ASSUME NEW D, IsFiniteSet(D), NEW f \in [D -> Nat]
  PROVE  IsFiniteSet(Each(f))
<1> DEFINE T == {{x} \X (1 .. f[x]) : x \in D}
           g == [x \in D |-> {x} \X (1 .. f[x])]
<1>1. g \in Surjection(D, T)
  BY DEF Surjection
<1>2. IsFiniteSet(T)
  <2> HIDE DEF g, T
  <2>1. QED
    BY <1>1, FS_Surjection
<1>3. \A S \in T : IsFiniteSet(S)
  <2> SUFFICES ASSUME NEW x \in D PROVE IsFiniteSet({x} \X (1 .. f[x]))
    OBVIOUS
  <2>1. 1 \in Int /\ f[x] \in Int
    OBVIOUS
  <2>2. IsFiniteSet(1 .. f[x])
    BY <2>1, FS_Interval
  <2>3. IsFiniteSet({x})
    BY FS_Singleton
  <2>4. QED
    BY <2>2, <2>3, FS_Product
<1>4. Each(f) = UNION T
  BY DEF Each
<1>5. QED
  <2> HIDE DEF T
  <2>1. QED
    BY <1>2, <1>3, <1>4, FS_UNION

\* How many things there are is a number.
LEMMA TotalType ==
  ASSUME NEW D, IsFiniteSet(D), NEW f \in [D -> Nat]
  PROVE  Total(f) \in Nat
BY EachFinite, FS_CardinalityType DEF Total

\* The things of a kind that are counted from a + 1 to a + b.
OfKind(x, a, b) == {x} \X (a + 1 .. a + b)

\* As many things of one kind as are counted.
LEMMA CardinalityOfKind ==
  ASSUME NEW x, NEW a \in Nat, NEW b \in Nat
  PROVE  /\ IsFiniteSet(OfKind(x, a, b))
         /\ Cardinality(OfKind(x, a, b)) = b
<1>1. a + 1 \in Int /\ a + b \in Int
  OBVIOUS
<1>2. IsFiniteSet(a + 1 .. a + b) /\ Cardinality(a + 1 .. a + b) = b
  BY <1>1, FS_Interval
<1>3. IsFiniteSet({x}) /\ Cardinality({x}) = 1
  BY FS_Singleton
<1>4. QED
  BY <1>2, <1>3, FS_Product DEF OfKind

\* n things more of a kind are n things more.
LEMMA TotalAdd ==
  ASSUME NEW D, IsFiniteSet(D), NEW f \in [D -> Nat], NEW g \in [D -> Nat],
         NEW x \in D, NEW n \in Nat,
         g[x] = f[x] + n, \A y \in D : y # x => g[y] = f[y]
  PROVE  Total(g) = Total(f) + n
<1> DEFINE a == f[x]
           more == OfKind(x, a, n)
<1>1. a \in Nat /\ g[x] = a + n /\ DOMAIN g = D /\ DOMAIN f = D
  OBVIOUS
<1>2. 1 .. g[x] = (1 .. f[x]) \cup (a + 1 .. a + n)
  BY <1>1
<1>3. Each(g) = Each(f) \cup more
  <2>1. ASSUME NEW p \in Each(g) PROVE p \in Each(f) \cup more
    <3>1. PICK y \in D : p \in {y} \X (1 .. g[y])
      BY <1>1, <2>1 DEF Each
    <3>2. CASE y = x
      BY <1>1, <1>2, <3>1, <3>2 DEF Each, OfKind
    <3>3. CASE y # x
      BY <1>1, <3>1, <3>3 DEF Each
    <3>4. QED
      BY <3>2, <3>3
  <2>2. ASSUME NEW p \in Each(f) PROVE p \in Each(g)
    <3>1. PICK y \in D : p \in {y} \X (1 .. f[y])
      BY <1>1, <2>2 DEF Each
    <3>2. CASE y = x
      BY <1>1, <1>2, <3>1, <3>2 DEF Each
    <3>3. CASE y # x
      BY <1>1, <3>1, <3>3 DEF Each
    <3>4. QED
      BY <3>2, <3>3
  <2>3. more \subseteq Each(g)
    BY <1>1, <1>2 DEF Each, OfKind
  <2>4. QED
    BY <2>1, <2>2, <2>3
<1>4. Each(f) \cap more = {}
  <2>1. ASSUME NEW p \in Each(f), p \in more PROVE FALSE
    <3>1. PICK y \in D : p \in {y} \X (1 .. f[y])
      BY <1>1, <2>1 DEF Each
    <3>2. p[1] = y /\ p[2] \in 1 .. f[y] /\ p[1] = x /\ p[2] \in a + 1 .. a + n
      BY <2>1, <3>1 DEF OfKind
    <3>3. QED
      BY <1>1, <3>2
  <2>2. QED
    BY <2>1
<1>5. IsFiniteSet(Each(f)) /\ Cardinality(Each(f)) \in Nat
  BY EachFinite, FS_CardinalityType
<1>6. IsFiniteSet(more) /\ Cardinality(more) = n
  <2> HIDE DEF a
  <2>1. QED
    BY <1>1, CardinalityOfKind
<1>7. Cardinality(Each(f) \cap more) = 0
  BY <1>4, FS_EmptySet
<1>8. QED
  <2> HIDE DEF more
  <2>1. Cardinality(Each(g)) = Cardinality(Each(f)) + n - 0
    BY <1>3, <1>5, <1>6, <1>7, FS_Union
  <2>2. QED
    BY <1>5, <2>1 DEF Total

\* One thing more of a kind is one thing more.
LEMMA TotalOneMore ==
  ASSUME NEW D, IsFiniteSet(D), NEW f \in [D -> Nat], NEW x \in D
  PROVE  /\ [f EXCEPT ![x] = @ + 1] \in [D -> Nat]
         /\ Total([f EXCEPT ![x] = @ + 1]) = Total(f) + 1
<1> DEFINE g == [f EXCEPT ![x] = @ + 1]
<1>1. /\ g \in [D -> Nat] /\ g[x] = f[x] + 1 /\ 1 \in Nat
      /\ \A y \in D : y # x => g[y] = f[y]
  OBVIOUS
<1> HIDE DEF g
<1>2. Total(g) = Total(f) + 1
  BY <1>1, TotalAdd
<1>3. QED
  BY <1>1, <1>2 DEF g

\* One thing less of a kind is one thing less.
LEMMA TotalTake ==
  ASSUME NEW D, IsFiniteSet(D), NEW f \in [D -> Nat], NEW x \in D, f[x] > 0
  PROVE  /\ [f EXCEPT ![x] = @ - 1] \in [D -> Nat]
         /\ Total([f EXCEPT ![x] = @ - 1]) = Total(f) - 1
<1> DEFINE g == [f EXCEPT ![x] = @ - 1]
<1>1. /\ g \in [D -> Nat] /\ f[x] = g[x] + 1
      /\ \A y \in D : y # x => f[y] = g[y]
  OBVIOUS
<1>2. Total(f) = Total(g) + 1 /\ Total(g) \in Nat
  <2> HIDE DEF g
  <2>1. QED
    BY <1>1, TotalAdd, TotalType
<1>3. QED
  BY <1>1, <1>2

\* There are no more things of one kind than there are things.
LEMMA TotalBounds ==
  ASSUME NEW D, IsFiniteSet(D), NEW f \in [D -> Nat], NEW x \in D
  PROVE  f[x] <= Total(f)
<1>1. OfKind(x, 0, f[x]) \in SUBSET Each(f)
  BY DEF Each, OfKind
<1>2. f[x] \in Nat
  OBVIOUS
<1>3. Cardinality(OfKind(x, 0, f[x])) = f[x]
  BY <1>2, CardinalityOfKind
<1>4. QED
  BY <1>1, <1>3, EachFinite, FS_Subset DEF Total

\* No kind, no thing.
LEMMA TotalZero ==
  ASSUME NEW D, IsFiniteSet(D), NEW f \in [D -> Nat]
  PROVE  Total(f) = 0 <=> f = NoneOf(D)
<1>1. f = NoneOf(D) => Each(f) = {}
  BY DEF NoneOf, Each
<1>2. f = NoneOf(D) => Total(f) = 0
  BY <1>1, FS_EmptySet DEF Total
<1>3. ASSUME Total(f) = 0 PROVE f = NoneOf(D)
  <2>1. \A x \in D : f[x] <= 0 /\ f[x] \in Nat
    BY <1>3, TotalBounds
  <2>2. \A x \in D : f[x] = 0
    BY <2>1
  <2>3. QED
    BY <2>2 DEF NoneOf
<1>4. QED
  BY <1>2, <1>3

\* Fewer of each kind are fewer.
LEMMA TotalMonotone ==
  ASSUME NEW D, IsFiniteSet(D), NEW f \in [D -> Nat], NEW g \in [D -> Nat],
         \A x \in D : f[x] <= g[x]
  PROVE  Total(f) <= Total(g)
<1>1. Each(f) \in SUBSET Each(g)
  <2>1. \A x \in D : 1 .. f[x] \subseteq 1 .. g[x]
    OBVIOUS
  <2>2. ASSUME NEW p \in Each(f) PROVE p \in Each(g)
    <3>1. PICK y \in D : p \in {y} \X (1 .. f[y])
      BY <2>2 DEF Each
    <3>2. p \in {y} \X (1 .. g[y])
      BY <2>1, <3>1
    <3>3. QED
      BY <3>2 DEF Each
  <2>3. QED
    BY <2>2
<1>2. QED
  BY <1>1, EachFinite, FS_Subset DEF Total

\* A frame later there are no more bullets than before.
LEMMA TotalAged ==
  ASSUME NEW k \in Nat, NEW f \in [1 .. BulletLife -> 0 .. k]
  PROVE  Aged(f) \in [1 .. BulletLife -> 0 .. k] /\ Total(Aged(f)) <= Total(f)
<1> DEFINE g == Aged(f)
           up == [p \in Each(g) |-> <<p[1] + 1, p[2]>>]
<1>1. BulletLife \in Nat \ {0}
  BY GameAssumption
<1>2. DOMAIN f = 1 .. BulletLife /\ DOMAIN g = 1 .. BulletLife
  BY DEF Aged
<1>3. \A n \in 1 .. BulletLife : g[n] = IF n = BulletLife THEN 0 ELSE f[n + 1]
  BY <1>2 DEF Aged
<1>4. g \in [1 .. BulletLife -> 0 .. k]
  BY <1>1, <1>2 DEF Aged
<1>5. ASSUME NEW p \in Each(g)
      PROVE  <<p[1] + 1, p[2]>> \in Each(f) /\ p = <<p[1], p[2]>> /\ p[1] \in Nat
  <2>1. PICK n \in 1 .. BulletLife : p \in {n} \X (1 .. g[n])
    BY <1>2, <1>5 DEF Each
  <2>2. p[1] = n /\ p[2] \in 1 .. g[n] /\ p = <<p[1], p[2]>>
    BY <2>1
  <2>3. n # BulletLife /\ g[n] = f[n + 1] /\ n + 1 \in 1 .. BulletLife
    BY <1>1, <1>3, <2>2
  <2>4. <<n + 1, p[2]>> \in {n + 1} \X (1 .. f[n + 1])
    BY <2>2, <2>3
  <2>5. QED
    BY <1>2, <2>2, <2>3, <2>4 DEF Each
<1>6. up \in Injection(Each(g), Each(f))
  <2> HIDE DEF g
  <2>1. up \in [Each(g) -> Each(f)]
    BY <1>5
  <2>2. ASSUME NEW p \in Each(g), NEW q \in Each(g), up[p] = up[q] PROVE p = q
    <3>1. p[1] + 1 = q[1] + 1 /\ p[2] = q[2]
      BY <2>2
    <3>2. p[1] \in Nat /\ q[1] \in Nat
      BY <1>5
    <3>3. p[1] = q[1]
      BY <3>1, <3>2
    <3>4. p = <<p[1], p[2]>> /\ q = <<q[1], q[2]>>
      BY <1>5
    <3>5. QED
      BY <3>1, <3>3, <3>4
  <2>3. DOMAIN up = Each(g)
    OBVIOUS
  <2>4. QED
    <3> HIDE DEF up
    <3>1. IsInjective(up)
      BY <2>2, <2>3 DEF IsInjective
    <3>2. QED
      BY <2>1, <3>1 DEF Injection
<1>7. IsFiniteSet(1 .. BulletLife) /\ f \in [1 .. BulletLife -> Nat]
  <2>1. 1 \in Int /\ BulletLife \in Int
    BY <1>1
  <2>2. IsFiniteSet(1 .. BulletLife)
    BY <2>1, FS_Interval
  <2>3. QED
    BY <2>2
<1>8. QED
  <2> HIDE DEF up
  <2>1. IsFiniteSet(Each(f))
    BY <1>7, EachFinite
  <2>2. Cardinality(Each(g)) <= Cardinality(Each(f))
    <3> HIDE DEF g
    <3>1. QED
      BY <1>6, <2>1, FS_Injection
  <2>3. QED
    BY <1>4, <2>2 DEF Total
-----------------------------------------------------------------------------
\* Every size, kind and age can be counted.
LEMMA FinitePlaces == IsFiniteSet(Sizes) /\ IsFiniteSet(Kinds) /\ IsFiniteSet(1 .. BulletLife)
<1>1. IsFiniteSet({})
  BY FS_EmptySet
<1>2. IsFiniteSet({} \cup {"large"})
  BY <1>1, FS_AddElement
<1>3. IsFiniteSet(({} \cup {"large"}) \cup {"medium"})
  BY <1>2, FS_AddElement
<1>4. IsFiniteSet((({} \cup {"large"}) \cup {"medium"}) \cup {"small"})
  BY <1>3, FS_AddElement
<1>5. Sizes = (({} \cup {"large"}) \cup {"medium"}) \cup {"small"}
  BY DEF Sizes
<1>6. IsFiniteSet({} \cup {"large saucer"})
  BY <1>1, FS_AddElement
<1>7. IsFiniteSet(({} \cup {"large saucer"}) \cup {"small saucer"})
  BY <1>6, FS_AddElement
<1>8. Kinds = ({} \cup {"large saucer"}) \cup {"small saucer"}
  BY DEF Kinds
<1>9. 1 \in Int /\ BulletLife \in Int
  BY GameAssumption
<1>10. IsFiniteSet(1 .. BulletLife)
  BY <1>9, FS_Interval
<1>11. QED
  BY <1>4, <1>5, <1>7, <1>8, <1>10

\* The lists of the waves have an entry for every wave.
LEMMA WavesAreListed ==
  ASSUME NEW w \in Nat \ {0}
  PROVE  OfWave(WaveAsteroids, w) \in 1 .. AsteroidCap /\ OfWave(WaveSaucers, w) \in Nat
<1>1. /\ WaveAsteroids \in Seq(1 .. AsteroidCap) /\ WaveSaucers \in Seq(Nat)
      /\ Len(WaveAsteroids) > 0 /\ Len(WaveSaucers) > 0
  BY GameAssumption
<1>2. Len(WaveAsteroids) \in Nat /\ Len(WaveSaucers) \in Nat
  BY <1>1
<1>3. Smaller(w, Len(WaveAsteroids)) \in 1 .. Len(WaveAsteroids)
  BY <1>1, <1>2 DEF Smaller
<1>4. Smaller(w, Len(WaveSaucers)) \in 1 .. Len(WaveSaucers)
  BY <1>1, <1>2 DEF Smaller
<1>5. \A T, s : s \in Seq(T) => \A i \in 1 .. Len(s) : s[i] \in T
  OBVIOUS
<1>6. WaveSaucers[Smaller(w, Len(WaveSaucers))] \in Nat
  BY <1>1, <1>4, <1>5
<1>7. WaveAsteroids[Smaller(w, Len(WaveAsteroids))] \in 1 .. AsteroidCap
  <2> DEFINE T == 1 .. AsteroidCap
  <2>1. WaveAsteroids \in Seq(T)
    BY <1>1
  <2> HIDE DEF T
  <2>2. WaveAsteroids[Smaller(w, Len(WaveAsteroids))] \in T
    BY <1>3, <1>5, <2>1
  <2>3. QED
    BY <2>2 DEF T
<1>8. QED
  BY <1>6, <1>7 DEF OfWave

\* What holds of a game at any time: the caps, the next extra life, and that it is over when
\* the last life is lost.
GameFits(g) ==
  /\ g \in GameRecord
  /\ Total(g.asteroids) <= AsteroidCap
  /\ Total(g.bullets) <= BulletLimit /\ Total(g.shots) <= ShotLimit
  /\ g.score < g.next /\ ExtraLifeStep <= g.next
  /\ g.over \/ g.lives > 0
  /\ g.wave > 0 => Total(g.saucers) <= OfWave(WaveSaucers, g.wave)

\* What is left alone by what happens to others.
SameShip(g, h) ==
  /\ h.control = g.control /\ h.respawn = g.respawn /\ h.safe = g.safe
  /\ h.cooldown = g.cooldown /\ h.latch = g.latch
SameRun(g, h) == h.wave = g.wave /\ h.over = g.over
SameThings(g, h) ==
  /\ h.asteroids = g.asteroids /\ h.saucers = g.saucers
  /\ h.bullets = g.bullets /\ h.shots = g.shots
SamePoints(g, h) == h.score = g.score /\ h.lives = g.lives /\ h.next = g.next

\* A game's counts are numbers, and so are their sums.
LEMMA CountsAreNumbers ==
  ASSUME NEW g \in GameRecord
  PROVE  /\ g.asteroids \in [Sizes -> Nat] /\ Total(g.asteroids) \in Nat
         /\ g.saucers \in [Kinds -> Nat] /\ Total(g.saucers) \in Nat
         /\ g.bullets \in [1 .. BulletLife -> Nat] /\ Total(g.bullets) \in Nat
         /\ g.shots \in [1 .. BulletLife -> Nat] /\ Total(g.shots) \in Nat
<1>1. AsteroidCap \in Nat /\ BulletLimit \in Nat /\ ShotLimit \in Nat
  BY GameAssumption
<1>2. /\ g.asteroids \in [Sizes -> 0 .. AsteroidCap] /\ g.saucers \in [Kinds -> Nat]
      /\ g.bullets \in [1 .. BulletLife -> 0 .. BulletLimit]
      /\ g.shots \in [1 .. BulletLife -> 0 .. ShotLimit]
  BY DEF GameRecord
<1>3. g.asteroids \in [Sizes -> Nat]
  BY <1>1, <1>2
<1>4. g.bullets \in [1 .. BulletLife -> Nat]
  BY <1>1, <1>2
<1>5. g.shots \in [1 .. BulletLife -> Nat]
  BY <1>1, <1>2
<1>6. QED
  BY <1>2, <1>3, <1>4, <1>5, FinitePlaces, TotalType

\* A bullet is gone.
LEMMA BulletGone ==
  ASSUME NEW g, GameFits(g), NEW n \in With(g.bullets)
  PROVE  LET h == [g EXCEPT !.bullets[n] = @ - 1]
         IN /\ GameFits(h) /\ Total(h.bullets) = Total(g.bullets) - 1
            /\ SameShip(g, h) /\ SameRun(g, h) /\ SamePoints(g, h)
            /\ h.asteroids = g.asteroids /\ h.saucers = g.saucers /\ h.shots = g.shots
<1> DEFINE b == [g.bullets EXCEPT ![n] = @ - 1]
           h == [g EXCEPT !.bullets = b]
<1>1. g \in GameRecord /\ BulletLimit \in Nat
  BY GameAssumption DEF GameFits
<1>2. g.bullets \in [1 .. BulletLife -> 0 .. BulletLimit]
  BY <1>1 DEF GameRecord
<1>3. n \in 1 .. BulletLife /\ g.bullets[n] > 0 /\ g.bullets[n] \in 0 .. BulletLimit
  BY <1>2 DEF With
<1>4. b \in [1 .. BulletLife -> 0 .. BulletLimit]
  BY <1>1, <1>2, <1>3
<1>5. g.bullets \in [1 .. BulletLife -> Nat] /\ Total(g.bullets) \in Nat
  BY <1>1, CountsAreNumbers
<1>6. Total(b) = Total(g.bullets) - 1
  <2> DEFINE D == 1 .. BulletLife
             f == g.bullets
  <2>1. IsFiniteSet(D) /\ f \in [D -> Nat] /\ n \in D /\ f[n] > 0
    BY <1>3, <1>5, FinitePlaces
  <2> HIDE DEF D, f
  <2>2. Total([f EXCEPT ![n] = @ - 1]) = Total(f) - 1
    BY <2>1, TotalTake
  <2>3. QED
    BY <2>2 DEF f
<1> HIDE DEF b
<1>7. h \in GameRecord
  BY <1>1, <1>4 DEF GameRecord
<1>8. /\ h.bullets = b /\ SameShip(g, h) /\ SameRun(g, h) /\ SamePoints(g, h)
      /\ h.asteroids = g.asteroids /\ h.saucers = g.saucers /\ h.shots = g.shots
  BY <1>1 DEF GameRecord, SameShip, SameRun, SamePoints
<1> HIDE DEF h
<1>9. GameFits(h)
  BY <1>1, <1>5, <1>6, <1>7, <1>8 DEF GameFits, SameRun, SamePoints
<1>10. QED
  BY <1>6, <1>8, <1>9 DEF b, h

\* A shot is gone.
LEMMA ShotGone ==
  ASSUME NEW g, GameFits(g), NEW n \in With(g.shots)
  PROVE  LET h == [g EXCEPT !.shots[n] = @ - 1]
         IN /\ GameFits(h)
            /\ SameShip(g, h) /\ SameRun(g, h) /\ SamePoints(g, h)
            /\ h.asteroids = g.asteroids /\ h.saucers = g.saucers /\ h.bullets = g.bullets
<1> DEFINE b == [g.shots EXCEPT ![n] = @ - 1]
           h == [g EXCEPT !.shots = b]
<1>1. g \in GameRecord /\ ShotLimit \in Nat
  BY GameAssumption DEF GameFits
<1>2. g.shots \in [1 .. BulletLife -> 0 .. ShotLimit]
  BY <1>1 DEF GameRecord
<1>3. n \in 1 .. BulletLife /\ g.shots[n] > 0 /\ g.shots[n] \in 0 .. ShotLimit
  BY <1>2 DEF With
<1>4. b \in [1 .. BulletLife -> 0 .. ShotLimit]
  BY <1>1, <1>2, <1>3
<1>5. g.shots \in [1 .. BulletLife -> Nat] /\ Total(g.shots) \in Nat
  BY <1>1, CountsAreNumbers
<1>6. Total(b) = Total(g.shots) - 1
  <2> DEFINE D == 1 .. BulletLife
             f == g.shots
  <2>1. IsFiniteSet(D) /\ f \in [D -> Nat] /\ n \in D /\ f[n] > 0
    BY <1>3, <1>5, FinitePlaces
  <2> HIDE DEF D, f
  <2>2. Total([f EXCEPT ![n] = @ - 1]) = Total(f) - 1
    BY <2>1, TotalTake
  <2>3. QED
    BY <2>2 DEF f
<1> HIDE DEF b
<1>7. h \in GameRecord
  BY <1>1, <1>4 DEF GameRecord
<1>8. /\ h.shots = b /\ SameShip(g, h) /\ SameRun(g, h) /\ SamePoints(g, h)
      /\ h.asteroids = g.asteroids /\ h.saucers = g.saucers /\ h.bullets = g.bullets
  BY <1>1 DEF GameRecord, SameShip, SameRun, SamePoints
<1> HIDE DEF h
<1>9. GameFits(h)
  BY <1>1, <1>5, <1>6, <1>7, <1>8 DEF GameFits, SameRun, SamePoints
<1>10. QED
  BY <1>8, <1>9 DEF b, h

\* A saucer is gone.
LEMMA SaucerGone ==
  ASSUME NEW g, GameFits(g), NEW k \in With(g.saucers)
  PROVE  LET h == [g EXCEPT !.saucers[k] = @ - 1]
         IN /\ GameFits(h)
            /\ SameShip(g, h) /\ SameRun(g, h) /\ SamePoints(g, h)
            /\ h.asteroids = g.asteroids /\ h.bullets = g.bullets /\ h.shots = g.shots
<1> DEFINE b == [g.saucers EXCEPT ![k] = @ - 1]
           h == [g EXCEPT !.saucers = b]
<1>1. g \in GameRecord
  BY DEF GameFits
<1>2. g.saucers \in [Kinds -> Nat] /\ Total(g.saucers) \in Nat
  BY <1>1, CountsAreNumbers
<1>3. k \in Kinds /\ g.saucers[k] > 0
  BY <1>2 DEF With
<1>4. b \in [Kinds -> Nat] /\ Total(b) = Total(g.saucers) - 1
  BY <1>2, <1>3, FinitePlaces, TotalTake
<1> HIDE DEF b
<1>5. h \in GameRecord
  BY <1>1, <1>4 DEF GameRecord
<1>6. /\ h.saucers = b /\ SameShip(g, h) /\ SameRun(g, h) /\ SamePoints(g, h)
      /\ h.asteroids = g.asteroids /\ h.bullets = g.bullets /\ h.shots = g.shots
  BY <1>1 DEF GameRecord, SameShip, SameRun, SamePoints
<1>7. g.wave \in Nat
  BY <1>1 DEF GameRecord
<1> HIDE DEF h
<1>8. GameFits(h)
  <2>1. g.wave > 0 => OfWave(WaveSaucers, g.wave) \in Nat
    BY <1>7, WavesAreListed
  <2>2. QED
    BY <1>2, <1>4, <1>5, <1>6, <1>7, <2>1 DEF GameFits, SameRun, SamePoints
<1>9. QED
  BY <1>6, <1>8 DEF b, h

\* Points are scored, perhaps with an extra life.
LEMMA PointsScored ==
  ASSUME NEW g, GameFits(g), NEW x \in Sizes \cup Kinds
  PROVE  LET h == AddScore(g, Points[x])
         IN /\ GameFits(h) /\ h.score = g.score + Points[x] /\ h.lives >= g.lives
            /\ SameShip(g, h) /\ SameRun(g, h) /\ SameThings(g, h)
<1>1. g \in GameRecord
  BY DEF GameFits
<1>2. /\ Points[x] \in Nat \ {0} /\ Points[x] < ExtraLifeStep /\ ExtraLifeStep \in Nat \ {0}
      /\ g.score \in Nat /\ g.lives \in Nat /\ g.next \in Nat
  BY <1>1, GameAssumption DEF GameRecord
<1> DEFINE score == g.score + Points[x]
           extra == IF score >= g.next THEN 1 ELSE 0
           lives == g.lives + extra
           next == g.next + extra * ExtraLifeStep
           h == [g EXCEPT !.score = score, !.lives = lives, !.next = next]
<1>3. /\ score \in Nat /\ lives \in Nat /\ next \in Nat /\ lives >= g.lives
      /\ score < next /\ ExtraLifeStep <= next
  <2>1. g.score < g.next /\ ExtraLifeStep <= g.next
    BY DEF GameFits
  <2>2. CASE score >= g.next
    BY <1>2, <2>1, <2>2
  <2>3. CASE ~(score >= g.next)
    BY <1>2, <2>1, <2>3
  <2>4. QED
    BY <2>2, <2>3
<1>4. h = AddScore(g, Points[x])
  BY DEF AddScore
<1> HIDE DEF score, lives, next
<1>5. h \in GameRecord
  BY <1>1, <1>3 DEF GameRecord
<1>6. /\ h.score = score /\ h.lives = lives /\ h.next = next
      /\ SameShip(g, h) /\ SameRun(g, h) /\ SameThings(g, h)
  BY <1>1 DEF GameRecord, SameShip, SameRun, SameThings
<1> HIDE DEF h
<1>7. GameFits(h)
  BY <1>2, <1>3, <1>5, <1>6 DEF GameFits, SameRun, SameThings
<1>8. QED
  BY <1>3, <1>4, <1>6, <1>7 DEF score
-----------------------------------------------------------------------------
\* An asteroid that is hit leaves at most two smaller ones, and no more than there is room for.
LEMMA AsteroidDestroyed ==
  ASSUME NEW g, GameFits(g), NEW s \in With(g.asteroids), NEW award \in BOOLEAN
  PROVE  LET h == DestroyAsteroid(g, s, award)
         IN /\ GameFits(h) /\ h.score = g.score + (IF award THEN Points[s] ELSE 0)
            /\ h.lives >= g.lives
            /\ SameShip(g, h) /\ SameRun(g, h)
            /\ h.saucers = g.saucers /\ h.bullets = g.bullets /\ h.shots = g.shots
<1> DEFINE gone  == [g.asteroids EXCEPT ![s] = @ - 1]
           child == IF s = "large" THEN "medium" ELSE "small"
           split == Smaller(2, Less(AsteroidCap, Total(gone)))
           more  == [gone EXCEPT ![child] = @ + split]
           rest  == IF s = "small" THEN gone ELSE more
           k     == IF award THEN AddScore(g, Points[s]) ELSE g
           h     == [k EXCEPT !.asteroids = rest]
<1>1. g \in GameRecord /\ Total(g.asteroids) <= AsteroidCap /\ AsteroidCap \in Nat
  BY GameAssumption DEF GameFits
<1>2. g.asteroids \in [Sizes -> Nat] /\ Total(g.asteroids) \in Nat
  BY <1>1, CountsAreNumbers
<1>3. s \in Sizes /\ g.asteroids[s] > 0 /\ child \in Sizes
  BY <1>2 DEF With, Sizes
<1>4. gone \in [Sizes -> Nat] /\ Total(gone) = Total(g.asteroids) - 1 /\ Total(gone) \in Nat
  <2>1. gone \in [Sizes -> Nat] /\ Total(gone) = Total(g.asteroids) - 1
    BY <1>2, <1>3, FinitePlaces, TotalTake
  <2> HIDE DEF gone
  <2>2. QED
    BY <2>1, FinitePlaces, TotalType
<1> HIDE DEF gone, child
<1>5. split \in Nat /\ Total(gone) + split <= AsteroidCap
  BY <1>1, <1>2, <1>4 DEF Smaller, Less
<1> HIDE DEF split
<1>6. more \in [Sizes -> Nat] /\ Total(more) = Total(gone) + split
  <2>1. /\ more \in [Sizes -> Nat] /\ more[child] = gone[child] + split
        /\ \A y \in Sizes : y # child => more[y] = gone[y]
    BY <1>3, <1>4, <1>5
  <2> HIDE DEF more
  <2>2. QED
    BY <1>3, <1>4, <1>5, <2>1, FinitePlaces, TotalAdd
<1> HIDE DEF more
<1>7. rest \in [Sizes -> Nat] /\ Total(rest) <= AsteroidCap /\ Total(rest) \in Nat
  BY <1>1, <1>2, <1>4, <1>5, <1>6
<1> HIDE DEF rest
<1>8. rest \in [Sizes -> 0 .. AsteroidCap]
  <2>1. \A x \in Sizes : rest[x] \in Nat /\ rest[x] <= Total(rest)
    BY <1>7, FinitePlaces, TotalBounds
  <2>2. \A x \in Sizes : rest[x] \in 0 .. AsteroidCap
    BY <1>1, <1>7, <2>1
  <2>3. QED
    BY <1>7, <2>2
<1>9. /\ GameFits(k) /\ k.score = g.score + (IF award THEN Points[s] ELSE 0)
      /\ k.lives >= g.lives /\ SameShip(g, k) /\ SameRun(g, k) /\ SameThings(g, k)
  <2>1. CASE award
    <3>1. s \in Sizes \cup Kinds
      BY <1>3
    <3>2. QED
      BY <2>1, <3>1, PointsScored
  <2>2. CASE ~award
    <3>1. g.lives \in Nat /\ g.score \in Nat
      BY <1>1 DEF GameRecord
    <3>2. QED
      BY <2>2, <3>1 DEF SameShip, SameRun, SameThings
  <2>3. QED
    BY <2>1, <2>2
<1> HIDE DEF k
<1>10. k \in GameRecord
  BY <1>9 DEF GameFits
<1>11. h \in GameRecord
  BY <1>8, <1>10 DEF GameRecord
<1>12. /\ h.asteroids = rest /\ SameShip(k, h) /\ SameRun(k, h) /\ SamePoints(k, h)
       /\ h.saucers = k.saucers /\ h.bullets = k.bullets /\ h.shots = k.shots
  BY <1>10 DEF GameRecord, SameShip, SameRun, SamePoints
<1> HIDE DEF h
<1>13. GameFits(h)
  BY <1>7, <1>9, <1>11, <1>12 DEF GameFits, SameRun, SamePoints
<1>14. /\ h.score = g.score + (IF award THEN Points[s] ELSE 0) /\ h.lives >= g.lives
       /\ SameShip(g, h) /\ SameRun(g, h)
       /\ h.saucers = g.saucers /\ h.bullets = g.bullets /\ h.shots = g.shots
  BY <1>9, <1>12 DEF SameShip, SameRun, SamePoints, SameThings
<1>15. h = DestroyAsteroid(g, s, award)
  BY DEF h, k, rest, more, split, child, gone, DestroyAsteroid
<1>16. QED
  BY <1>13, <1>14, <1>15

\* What one collision of the kinds before the ship's does: a bullet scores once, or nothing is
\* scored.
Scores(g, h) ==
  /\ GameFits(h) /\ SameShip(g, h) /\ SameRun(g, h) /\ h.lives >= g.lives
  /\ \/ h.score = g.score /\ Total(h.bullets) <= Total(g.bullets)
     \/ \E x \in Sizes \cup Kinds :
          h.score = g.score + Points[x] /\ Total(h.bullets) = Total(g.bullets) - 1

LEMMA CollisionScores ==
  ASSUME NEW g, GameFits(g), NEW p \in 1 .. 4, NEW h \in Kind(p, g)
  PROVE  Scores(g, h)
<1>0. g \in GameRecord
  BY DEF GameFits
<1>1. g.score \in Nat /\ g.lives \in Nat /\ Total(g.bullets) \in Nat
  BY <1>0, CountsAreNumbers DEF GameRecord
<1>2. ASSUME h \in AsteroidShot(g) PROVE Scores(g, h)
  <2>1. PICK n \in With(g.bullets), s \in With(g.asteroids) :
          h = DestroyAsteroid([g EXCEPT !.bullets[n] = @ - 1], s, TRUE)
    BY <1>2 DEF AsteroidShot
  <2> DEFINE b == [g EXCEPT !.bullets[n] = @ - 1]
  <2>2. /\ GameFits(b) /\ Total(b.bullets) = Total(g.bullets) - 1
        /\ SameShip(g, b) /\ SameRun(g, b) /\ SamePoints(g, b)
        /\ b.asteroids = g.asteroids
    BY BulletGone
  <2> HIDE DEF b
  <2>3. s \in With(b.asteroids) /\ h = DestroyAsteroid(b, s, TRUE) /\ TRUE \in BOOLEAN
    BY <2>1, <2>2 DEF b
  <2>4. /\ GameFits(h) /\ h.score = b.score + Points[s] /\ h.lives >= b.lives
        /\ SameShip(b, h) /\ SameRun(b, h) /\ h.bullets = b.bullets
    BY <2>2, <2>3, AsteroidDestroyed
  <2>5. s \in Sizes \cup Kinds
    <3>1. g.asteroids \in [Sizes -> Nat]
      BY <1>0, CountsAreNumbers
    <3>2. QED
      BY <2>1, <3>1 DEF With
  <2>6. QED
    BY <2>2, <2>4, <2>5 DEF Scores, SameShip, SameRun, SamePoints
<1>3. ASSUME h \in AsteroidHit(g) PROVE Scores(g, h)
  <2>1. PICK n \in With(g.shots), s \in With(g.asteroids) :
          h = DestroyAsteroid([g EXCEPT !.shots[n] = @ - 1], s, FALSE)
    BY <1>3 DEF AsteroidHit
  <2> DEFINE b == [g EXCEPT !.shots[n] = @ - 1]
  <2>2. /\ GameFits(b) /\ SameShip(g, b) /\ SameRun(g, b) /\ SamePoints(g, b)
        /\ b.asteroids = g.asteroids /\ b.bullets = g.bullets
    BY ShotGone
  <2> HIDE DEF b
  <2>3. s \in With(b.asteroids) /\ h = DestroyAsteroid(b, s, FALSE) /\ FALSE \in BOOLEAN
    BY <2>1, <2>2 DEF b
  <2>4. /\ GameFits(h) /\ h.score = b.score + 0 /\ h.lives >= b.lives
        /\ SameShip(b, h) /\ SameRun(b, h) /\ h.bullets = b.bullets
    BY <2>2, <2>3, AsteroidDestroyed
  <2>5. h.score = g.score
    BY <1>1, <2>2, <2>4 DEF SamePoints
  <2>6. QED
    BY <1>1, <2>2, <2>4, <2>5 DEF Scores, SameShip, SameRun, SamePoints
<1>4. ASSUME h \in SaucerShot(g) PROVE Scores(g, h)
  <2>1. PICK n \in With(g.bullets), k \in With(g.saucers) :
          h = AddScore([g EXCEPT !.bullets[n] = @ - 1, !.saucers[k] = @ - 1], Points[k])
    BY <1>4 DEF SaucerShot
  <2> DEFINE b == [g EXCEPT !.bullets[n] = @ - 1]
             c == [b EXCEPT !.saucers[k] = @ - 1]
  <2>2. /\ GameFits(b) /\ Total(b.bullets) = Total(g.bullets) - 1
        /\ SameShip(g, b) /\ SameRun(g, b) /\ SamePoints(g, b)
        /\ b.saucers = g.saucers
    BY BulletGone
  <2>3. c = [g EXCEPT !.bullets[n] = @ - 1, !.saucers[k] = @ - 1]
    BY <1>0 DEF GameRecord
  <2> HIDE DEF b
  <2>4. k \in With(b.saucers)
    BY <2>1, <2>2
  <2>5. /\ GameFits(c) /\ SameShip(b, c) /\ SameRun(b, c) /\ SamePoints(b, c)
        /\ c.bullets = b.bullets
    BY <2>2, <2>4, SaucerGone
  <2> HIDE DEF c
  <2>6. k \in Sizes \cup Kinds
    <3>1. g.saucers \in [Kinds -> Nat]
      BY <1>0, CountsAreNumbers
    <3>2. QED
      BY <2>1, <3>1 DEF With
  <2>7. h = AddScore(c, Points[k])
    BY <2>1, <2>3
  <2>8. /\ GameFits(h) /\ h.score = c.score + Points[k] /\ h.lives >= c.lives
        /\ SameShip(c, h) /\ SameRun(c, h) /\ SameThings(c, h)
    BY <2>5, <2>6, <2>7, PointsScored
  <2>9. QED
    BY <2>2, <2>5, <2>6, <2>8 DEF Scores, SameShip, SameRun, SamePoints, SameThings
<1>5. ASSUME h \in SaucerCrash(g) PROVE Scores(g, h)
  <2>1. PICK k \in With(g.saucers) : h = [g EXCEPT !.saucers[k] = @ - 1]
    BY <1>5 DEF SaucerCrash
  <2>2. /\ GameFits(h) /\ SameShip(g, h) /\ SameRun(g, h) /\ SamePoints(g, h)
        /\ h.bullets = g.bullets
    BY <2>1, SaucerGone
  <2>3. QED
    BY <1>1, <2>2 DEF Scores, SamePoints
<1>6. QED
  BY <1>2, <1>3, <1>4, <1>5 DEF Kind
-----------------------------------------------------------------------------
\* A ship that is lost waits, without a shot.
LEMMA ShipQueued ==
  ASSUME NEW g \in GameRecord, NEW delay \in Nat
  PROVE  LET h == QueueRespawn(g, delay)
         IN /\ h \in GameRecord /\ SameThings(g, h) /\ SamePoints(g, h) /\ SameRun(g, h)
            /\ ~h.control /\ h.cooldown = 0 /\ ~h.latch /\ h.respawn = delay
<1>1. 0 \in 0 .. SafeFrames /\ 0 \in 0 .. CooldownFrames
  BY GameAssumption
<1> DEFINE a == [g EXCEPT !.control = FALSE]
           b == [a EXCEPT !.respawn = delay]
           c == [b EXCEPT !.cooldown = 0]
           d == [c EXCEPT !.safe = 0]
           h == [d EXCEPT !.latch = FALSE]
<1>2. h = QueueRespawn(g, delay)
  BY DEF QueueRespawn
<1>3. a \in GameRecord /\ SameThings(g, a) /\ SamePoints(g, a) /\ SameRun(g, a) /\ ~a.control
  BY DEF GameRecord, SameThings, SamePoints, SameRun
<1> HIDE DEF a
<1>4. /\ b \in GameRecord /\ SameThings(a, b) /\ SamePoints(a, b) /\ SameRun(a, b)
      /\ ~b.control /\ b.respawn = delay
  BY <1>3 DEF GameRecord, SameThings, SamePoints, SameRun
<1> HIDE DEF b
<1>5. /\ c \in GameRecord /\ SameThings(b, c) /\ SamePoints(b, c) /\ SameRun(b, c)
      /\ ~c.control /\ c.respawn = delay /\ c.cooldown = 0
  BY <1>1, <1>4 DEF GameRecord, SameThings, SamePoints, SameRun
<1> HIDE DEF c
<1>6. /\ d \in GameRecord /\ SameThings(c, d) /\ SamePoints(c, d) /\ SameRun(c, d)
      /\ ~d.control /\ d.respawn = delay /\ d.cooldown = 0
  BY <1>1, <1>5 DEF GameRecord, SameThings, SamePoints, SameRun
<1> HIDE DEF d
<1>7. /\ h \in GameRecord /\ SameThings(d, h) /\ SamePoints(d, h) /\ SameRun(d, h)
      /\ ~h.control /\ h.respawn = delay /\ h.cooldown = 0 /\ ~h.latch
  BY <1>6 DEF GameRecord, SameThings, SamePoints, SameRun
<1> HIDE DEF h
<1>8. SameThings(g, h) /\ SamePoints(g, h) /\ SameRun(g, h)
  BY <1>3, <1>4, <1>5, <1>6, <1>7 DEF SameThings, SamePoints, SameRun
<1>9. QED
  BY <1>2, <1>7, <1>8

\* A ship that comes back is invulnerable for a while.
LEMMA ShipRespawned ==
  ASSUME NEW g \in GameRecord
  PROVE  LET h == RespawnShip(g)
         IN /\ h \in GameRecord /\ SameThings(g, h) /\ SamePoints(g, h) /\ SameRun(g, h)
            /\ h.control /\ h.safe > 0 /\ h.cooldown = g.cooldown /\ h.latch = g.latch
<1>1. SafeFrames \in 0 .. SafeFrames /\ SafeFrames > 0
  BY GameAssumption
<1> DEFINE a == [g EXCEPT !.control = TRUE]
           h == [a EXCEPT !.safe = SafeFrames]
<1>2. h = RespawnShip(g)
  BY DEF RespawnShip
<1>3. /\ a \in GameRecord /\ SameThings(g, a) /\ SamePoints(g, a) /\ SameRun(g, a) /\ a.control
      /\ a.cooldown = g.cooldown /\ a.latch = g.latch
  BY DEF GameRecord, SameThings, SamePoints, SameRun
<1> HIDE DEF a
<1>4. /\ h \in GameRecord /\ SameThings(a, h) /\ SamePoints(a, h) /\ SameRun(a, h)
      /\ h.control /\ h.safe > 0 /\ h.cooldown = a.cooldown /\ h.latch = a.latch
  BY <1>1, <1>3 DEF GameRecord, SameThings, SamePoints, SameRun
<1> HIDE DEF h
<1>5. QED
  BY <1>2, <1>3, <1>4 DEF SameThings, SamePoints, SameRun

\* The ship is lost: it comes back after a while or, with the last life, not in this run.
LEMMA ShipDestroyed ==
  ASSUME NEW g, GameFits(g)
  PROVE  LET h == DestroyShip(g)
         IN /\ GameFits(h)
            /\ ~h.control /\ h.cooldown = 0 /\ ~h.latch /\ h.respawn >= RespawnFrames
            /\ h.over => g.over \/ h.respawn = NeverFrames
            /\ h.wave = g.wave /\ h.score = g.score /\ SameThings(g, h)
<1>1. g \in GameRecord /\ g.lives \in Nat
  BY DEF GameFits, GameRecord
<1>2. /\ RespawnFrames \in Nat \ {0} /\ NeverFrames \in Nat /\ NeverFrames >= RespawnFrames
      /\ SafeFrames \in Nat /\ CooldownFrames \in Nat
  BY GameAssumption
<1> DEFINE lives == Less(g.lives, 1)
           a == [g EXCEPT !.lives = lives]
           lost == QueueRespawn(a, RespawnFrames)
           dead == [lost EXCEPT !.over = TRUE, !.respawn = NeverFrames]
           h == IF lost.lives > 0 THEN lost ELSE dead
<1>3. lives \in Nat
  BY <1>1 DEF Less
<1>4. h = DestroyShip(g)
  BY DEF DestroyShip
<1> HIDE DEF lives
<1>5. /\ a \in GameRecord /\ a.lives = lives /\ a.over = g.over /\ a.score = g.score
      /\ a.next = g.next /\ a.wave = g.wave /\ SameThings(g, a)
  BY <1>1, <1>3 DEF GameRecord, SameThings
<1> HIDE DEF a
<1>6. /\ lost \in GameRecord /\ lost.lives = lives /\ lost.over = g.over /\ lost.score = g.score
      /\ lost.next = g.next /\ lost.wave = g.wave /\ SameThings(g, lost)
      /\ ~lost.control /\ lost.cooldown = 0 /\ ~lost.latch /\ lost.respawn = RespawnFrames
  BY <1>2, <1>5, ShipQueued DEF SameThings, SamePoints, SameRun
<1> HIDE DEF lost
<1>7. /\ dead \in GameRecord /\ dead.over /\ dead.score = g.score
      /\ dead.next = g.next /\ dead.wave = g.wave /\ SameThings(g, dead)
      /\ ~dead.control /\ dead.cooldown = 0 /\ ~dead.latch /\ dead.respawn = NeverFrames
  BY <1>2, <1>6 DEF GameRecord, SameThings
<1> HIDE DEF dead
<1>8. h.over \/ h.lives > 0
  BY <1>6, <1>7
<1>9. h.next = g.next /\ h \in GameRecord /\ h.over => g.over \/ h.respawn = NeverFrames
  BY <1>6, <1>7
<1>10. /\ ~h.control /\ h.cooldown = 0 /\ ~h.latch /\ h.respawn >= RespawnFrames
       /\ h.wave = g.wave /\ h.score = g.score /\ SameThings(g, h) /\ h.next = g.next
       /\ h \in GameRecord
  BY <1>2, <1>6, <1>7
<1> HIDE DEF h
<1>11. GameFits(h)
  BY <1>8, <1>10 DEF GameFits, SameThings
<1>12. QED
  BY <1>4, <1>9, <1>10, <1>11

\* The ship is hit only when there is one that is not invulnerable.
LEMMA ShipHitFits ==
  ASSUME NEW g, GameFits(g), NEW h \in ShipHit(g)
  PROVE  /\ GameFits(h) /\ g.control /\ ~(g.safe > 0)
         /\ ~h.control /\ h.cooldown = 0 /\ ~h.latch /\ h.respawn >= RespawnFrames
         /\ h.over => g.over \/ h.respawn = NeverFrames
         /\ h.wave = g.wave /\ h.score = g.score /\ Total(h.bullets) <= Total(g.bullets)
<1>1. g \in GameRecord /\ Total(g.bullets) \in Nat
  BY CountsAreNumbers DEF GameFits
<1>2. PICK k : /\ h = DestroyShip(k)
               /\ \/ k = g
                  \/ \E n \in With(g.shots) : k = [g EXCEPT !.shots[n] = @ - 1]
                  \/ \E n \in With(g.saucers) : k = [g EXCEPT !.saucers[n] = @ - 1]
  BY DEF ShipHit
<1>3. g.control /\ ~(g.safe > 0)
  BY DEF ShipHit
<1>4. /\ GameFits(k) /\ k.over = g.over /\ k.wave = g.wave /\ k.score = g.score
      /\ k.bullets = g.bullets
  <2>1. CASE k = g
    BY <2>1
  <2>2. ASSUME NEW n \in With(g.shots), k = [g EXCEPT !.shots[n] = @ - 1]
        PROVE  GameFits(k) /\ SameRun(g, k) /\ SamePoints(g, k) /\ k.bullets = g.bullets
    BY <2>2, ShotGone
  <2>3. ASSUME NEW n \in With(g.saucers), k = [g EXCEPT !.saucers[n] = @ - 1]
        PROVE  GameFits(k) /\ SameRun(g, k) /\ SamePoints(g, k) /\ k.bullets = g.bullets
    BY <2>3, SaucerGone
  <2>4. QED
    BY <1>2, <2>1, <2>2, <2>3 DEF SameRun, SamePoints
<1>5. QED
  BY <1>1, <1>2, <1>3, <1>4, ShipDestroyed DEF SameThings

\* A wave comes when no asteroid and no saucer is left.
LEMMA WaveSpawned ==
  ASSUME NEW g, GameFits(g), Total(g.asteroids) = 0, Total(g.saucers) = 0
  PROVE  LET h == SpawnWave(g)
         IN /\ GameFits(h) /\ h.wave = g.wave + 1
            /\ Total(h.asteroids) = OfWave(WaveAsteroids, h.wave) /\ Total(h.saucers) = 0
            /\ h.control /\ h.cooldown = 0 /\ ~h.latch /\ h.over = g.over
            /\ h.score = g.score /\ h.lives = g.lives
<1>1. g \in GameRecord /\ g.wave \in Nat /\ g.wave + 1 \in Nat \ {0}
  BY DEF GameFits, GameRecord
<1>2. SafeFrames \in Nat /\ AsteroidCap \in Nat
  BY GameAssumption
<1> DEFINE n == OfWave(WaveAsteroids, g.wave + 1)
           rocks == [g.asteroids EXCEPT !["large"] = @ + n]
           a == [g EXCEPT !.wave = g.wave + 1, !.asteroids = rocks]
           b == QueueRespawn(a, 0)
           h == RespawnShip(b)
<1>3. n \in 1 .. AsteroidCap /\ n \in Nat
  BY <1>1, <1>2, WavesAreListed
<1> HIDE DEF n
<1>4. g.asteroids \in [Sizes -> Nat] /\ "large" \in Sizes
  BY <1>1, CountsAreNumbers DEF Sizes
<1>5. rocks \in [Sizes -> Nat] /\ Total(rocks) = n
  <2>1. /\ rocks \in [Sizes -> Nat] /\ rocks["large"] = g.asteroids["large"] + n
        /\ \A x \in Sizes : x # "large" => rocks[x] = g.asteroids[x]
    BY <1>3, <1>4
  <2> HIDE DEF rocks
  <2>2. Total(rocks) = Total(g.asteroids) + n
    BY <1>3, <1>4, <2>1, FinitePlaces, TotalAdd
  <2>3. QED
    BY <1>3, <2>1, <2>2
<1>6. rocks \in [Sizes -> 0 .. AsteroidCap]
  <2> HIDE DEF rocks
  <2>1. \A x \in Sizes : rocks[x] \in Nat /\ rocks[x] <= n
    BY <1>5, FinitePlaces, TotalBounds
  <2>2. \A x \in Sizes : rocks[x] \in 0 .. AsteroidCap
    BY <1>2, <1>3, <2>1
  <2>3. QED
    BY <1>5, <2>2
<1>7. h = SpawnWave(g)
  BY DEF SpawnWave, n
<1> HIDE DEF rocks
<1>8. /\ a \in GameRecord /\ a.wave = g.wave + 1 /\ a.asteroids = rocks
      /\ a.over = g.over /\ SamePoints(g, a)
      /\ a.saucers = g.saucers /\ a.bullets = g.bullets /\ a.shots = g.shots
  BY <1>1, <1>6 DEF GameRecord, SamePoints
<1> HIDE DEF a
<1>9. /\ b \in GameRecord /\ b.cooldown = 0 /\ ~b.latch
      /\ SameThings(a, b) /\ SamePoints(a, b) /\ SameRun(a, b)
  BY <1>8, ShipQueued
<1> HIDE DEF b
<1>10. /\ h \in GameRecord /\ h.control /\ h.cooldown = 0 /\ ~h.latch
       /\ SameThings(b, h) /\ SamePoints(b, h) /\ SameRun(b, h)
  BY <1>9, ShipRespawned
<1> HIDE DEF h
<1>11. /\ h.wave = g.wave + 1 /\ h.asteroids = rocks /\ h.over = g.over /\ SamePoints(g, h)
       /\ h.saucers = g.saucers /\ h.bullets = g.bullets /\ h.shots = g.shots
  BY <1>8, <1>9, <1>10 DEF SamePoints, SameThings, SameRun
<1>12. Total(h.saucers) <= OfWave(WaveSaucers, h.wave)
  BY <1>1, <1>11, WavesAreListed
<1>13. GameFits(h)
  <2>1. Total(h.asteroids) <= AsteroidCap
    BY <1>2, <1>3, <1>5, <1>11
  <2>2. QED
    BY <1>10, <1>11, <1>12, <2>1 DEF GameFits, SamePoints
<1>14. QED
  BY <1>5, <1>7, <1>10, <1>11, <1>13 DEF n, SamePoints

\* A game that begins has its wave, and nothing has been scored.
LEMMA FreshGameFits ==
  /\ GameFits(FreshGame) /\ Total(FreshGame.asteroids) = 0 /\ Total(FreshGame.saucers) = 0
  /\ Total(FreshGame.bullets) = 0 /\ Total(FreshGame.shots) = 0
<1>1. /\ {StartingLives, ExtraLifeStep, SafeFrames, CooldownFrames, BulletLife, BulletLimit,
          ShotLimit, AsteroidCap} \subseteq Nat \ {0}
  BY GameAssumption
<1>2. /\ NoneOf(Sizes) \in [Sizes -> 0 .. AsteroidCap] /\ NoneOf(Kinds) \in [Kinds -> Nat]
      /\ NoneOf(1 .. BulletLife) \in [1 .. BulletLife -> 0 .. BulletLimit]
      /\ NoneOf(1 .. BulletLife) \in [1 .. BulletLife -> 0 .. ShotLimit]
  BY <1>1 DEF NoneOf
<1>3. FreshGame \in GameRecord
  BY <1>1, <1>2 DEF FreshGame, GameRecord
<1>4. /\ FreshGame.asteroids = NoneOf(Sizes) /\ FreshGame.saucers = NoneOf(Kinds)
      /\ FreshGame.bullets = NoneOf(1 .. BulletLife) /\ FreshGame.shots = NoneOf(1 .. BulletLife)
      /\ FreshGame.score = 0 /\ FreshGame.next = ExtraLifeStep /\ FreshGame.lives = StartingLives
      /\ FreshGame.wave = 0
  BY DEF FreshGame
<1>5. Total(NoneOf(Sizes)) = 0
  <2>1. NoneOf(Sizes) \in [Sizes -> Nat]
    BY DEF NoneOf
  <2>2. QED
    BY <2>1, FinitePlaces, TotalZero
<1>6. Total(NoneOf(Kinds)) = 0
  <2>1. NoneOf(Kinds) \in [Kinds -> Nat]
    BY DEF NoneOf
  <2>2. QED
    BY <2>1, FinitePlaces, TotalZero
<1>7. Total(NoneOf(1 .. BulletLife)) = 0
  <2> DEFINE D == 1 .. BulletLife
  <2>1. IsFiniteSet(D) /\ NoneOf(D) \in [D -> Nat]
    BY FinitePlaces DEF NoneOf
  <2> HIDE DEF D
  <2>2. Total(NoneOf(D)) = 0
    BY <2>1, TotalZero
  <2>3. QED
    BY <2>2 DEF D
<1>8. QED
  BY <1>1, <1>3, <1>4, <1>5, <1>6, <1>7 DEF GameFits
-----------------------------------------------------------------------------
\* What a step does to the ship: the timers run, a ship comes back, or fires.
ShipMoves(g, fire, h) ==
  /\ h.latch = fire
  /\ ~g.control =>
       /\ h.cooldown = Less(g.cooldown, 1)
       /\ h.control => Less(g.respawn, 1) = 0 /\ h.safe > 0
       /\ ~h.control => h.respawn = Less(g.respawn, 1)
  /\ g.control =>
       h.control /\ h.cooldown = IF Fires(g, fire) THEN CooldownFrames ELSE Less(g.cooldown, 1)

LEMMA ShipUpdated ==
  ASSUME NEW g, GameFits(g), NEW fire \in BOOLEAN
  PROVE  LET h == UpdateShip(g, fire)
         IN GameFits(h) /\ SamePoints(g, h) /\ SameRun(g, h) /\ ShipMoves(g, fire, h)
<1>1. /\ g \in GameRecord /\ g.respawn \in Nat /\ g.safe \in 0 .. SafeFrames
      /\ g.cooldown \in 0 .. CooldownFrames /\ g.control \in BOOLEAN
      /\ g.bullets \in [1 .. BulletLife -> 0 .. BulletLimit]
  BY DEF GameFits, GameRecord
<1>2. /\ SafeFrames \in Nat \ {0} /\ CooldownFrames \in Nat \ {0} /\ BulletLimit \in Nat \ {0}
      /\ BulletLife \in Nat \ {0}
  BY GameAssumption
<1> DEFINE cool == Less(g.cooldown, 1)
           a == [g EXCEPT !.cooldown = cool]
           cooled == [a EXCEPT !.latch = fire]
           timed == [cooled EXCEPT !.respawn = Less(@, 1)]
           flies == [cooled EXCEPT !.safe = Less(@, 1)]
           shot == [g.bullets EXCEPT ![BulletLife] = @ + 1]
           b == [flies EXCEPT !.bullets = shot]
           fired == [b EXCEPT !.cooldown = CooldownFrames]
           h == UpdateShip(g, fire)
<1>3. h = IF ~g.control THEN IF timed.respawn = 0 THEN RespawnShip(timed) ELSE timed
          ELSE IF Fires(g, fire) THEN fired ELSE flies
  <2>1. flies.bullets = g.bullets
    BY <1>1 DEF GameRecord
  <2>2. fired = [flies EXCEPT !.bullets[BulletLife] = @ + 1, !.cooldown = CooldownFrames]
    BY <2>1
  <2>3. cooled = [g EXCEPT !.cooldown = Less(@, 1), !.latch = fire]
    OBVIOUS
  <2> HIDE DEF fired, cooled
  <2>4. QED
    BY <2>2, <2>3 DEF UpdateShip
<1>4. cool \in 0 .. CooldownFrames
  BY <1>1, <1>2 DEF Less
<1> HIDE DEF cool, h
<1>5. /\ a \in GameRecord /\ SameThings(g, a) /\ SamePoints(g, a) /\ SameRun(g, a)
      /\ a.cooldown = cool /\ a.control = g.control /\ a.respawn = g.respawn /\ a.safe = g.safe
  BY <1>1, <1>4 DEF GameRecord, SameThings, SamePoints, SameRun
<1> HIDE DEF a
<1>6. /\ cooled \in GameRecord /\ SameThings(g, cooled) /\ SamePoints(g, cooled)
      /\ SameRun(g, cooled) /\ cooled.latch = fire /\ cooled.cooldown = cool
      /\ cooled.control = g.control /\ cooled.respawn = g.respawn /\ cooled.safe = g.safe
  BY <1>5 DEF GameRecord, SameThings, SamePoints, SameRun
<1> HIDE DEF cooled
<1>7. Less(g.respawn, 1) \in Nat /\ Less(g.safe, 1) \in 0 .. SafeFrames
  BY <1>1, <1>2 DEF Less
<1>8. /\ timed \in GameRecord /\ SameThings(g, timed) /\ SamePoints(g, timed)
      /\ SameRun(g, timed) /\ timed.latch = fire /\ timed.cooldown = cool
      /\ timed.control = g.control /\ timed.respawn = Less(g.respawn, 1)
  BY <1>6, <1>7 DEF GameRecord, SameThings, SamePoints, SameRun
<1>9. /\ flies \in GameRecord /\ SameThings(g, flies) /\ SamePoints(g, flies)
      /\ SameRun(g, flies) /\ flies.latch = fire /\ flies.cooldown = cool
      /\ flies.control = g.control
  BY <1>6, <1>7 DEF GameRecord, SameThings, SamePoints, SameRun
<1> HIDE DEF timed, flies
<1>10. CASE ~g.control /\ timed.respawn # 0
  <2>1. h = timed
    BY <1>3, <1>10
  <2>2. GameFits(h)
    BY <1>8, <2>1 DEF GameFits, SameThings, SamePoints, SameRun
  <2>3. ShipMoves(g, fire, h) /\ SamePoints(g, h) /\ SameRun(g, h)
    BY <1>8, <1>10, <2>1 DEF ShipMoves, cool
  <2>4. QED
    BY <2>2, <2>3 DEF h
<1>11. CASE ~g.control /\ timed.respawn = 0
  <2>1. h = RespawnShip(timed)
    BY <1>3, <1>11
  <2>2. /\ h \in GameRecord /\ SameThings(timed, h) /\ SamePoints(timed, h) /\ SameRun(timed, h)
        /\ h.control /\ h.safe > 0 /\ h.cooldown = timed.cooldown /\ h.latch = timed.latch
    BY <1>8, <2>1, ShipRespawned
  <2>3. GameFits(h) /\ SamePoints(g, h) /\ SameRun(g, h)
    BY <1>8, <2>2 DEF GameFits, SameThings, SamePoints, SameRun
  <2>4. ShipMoves(g, fire, h)
    BY <1>8, <1>11, <2>2 DEF ShipMoves, cool
  <2>5. QED
    BY <2>3, <2>4 DEF h
<1>12. CASE g.control /\ ~Fires(g, fire)
  <2>1. h = flies
    BY <1>3, <1>12
  <2>2. GameFits(h)
    BY <1>9, <2>1 DEF GameFits, SameThings, SamePoints, SameRun
  <2>3. ShipMoves(g, fire, h) /\ SamePoints(g, h) /\ SameRun(g, h)
    BY <1>9, <1>12, <2>1 DEF ShipMoves, cool
  <2>4. QED
    BY <2>2, <2>3 DEF h
<1>13. CASE g.control /\ Fires(g, fire)
  <2>1. h = fired
    BY <1>3, <1>13
  <2>2. g.bullets \in [1 .. BulletLife -> Nat] /\ Total(g.bullets) \in Nat
    BY <1>1, CountsAreNumbers
  <2>3. Total(g.bullets) < BulletLimit
    BY <1>13 DEF Fires
  <2>4. shot \in [1 .. BulletLife -> Nat] /\ Total(shot) = Total(g.bullets) + 1
    <3> DEFINE D == 1 .. BulletLife
               f == g.bullets
    <3>1. /\ IsFiniteSet(D) /\ f \in [D -> Nat] /\ shot \in [D -> Nat] /\ BulletLife \in D
          /\ shot[BulletLife] = f[BulletLife] + 1
          /\ \A y \in D : y # BulletLife => shot[y] = f[y]
      BY <1>2, <2>2, FinitePlaces
    <3> HIDE DEF D, f, shot
    <3>2. Total(shot) = Total(f) + 1
      BY <3>1, TotalAdd
    <3>3. QED
      BY <3>1, <3>2 DEF D, f
  <2>5. shot \in [1 .. BulletLife -> 0 .. BulletLimit]
    <3> DEFINE D == 1 .. BulletLife
    <3>1. IsFiniteSet(D) /\ shot \in [D -> Nat]
      BY <2>4, FinitePlaces
    <3> HIDE DEF D, shot
    <3>2. \A y \in D : shot[y] \in Nat /\ shot[y] <= Total(shot)
      BY <3>1, TotalBounds
    <3>3. \A y \in D : shot[y] \in 0 .. BulletLimit
      BY <1>2, <2>2, <2>3, <2>4, <3>2
    <3>4. QED
      BY <3>1, <3>3 DEF D
  <2> HIDE DEF shot
  <2>6. /\ b \in GameRecord /\ b.bullets = shot /\ b.asteroids = g.asteroids
        /\ b.saucers = g.saucers /\ b.shots = g.shots /\ SamePoints(g, b) /\ SameRun(g, b)
        /\ b.latch = fire /\ b.control = g.control
    BY <1>9, <2>5 DEF GameRecord, SameThings, SamePoints, SameRun
  <2> HIDE DEF b
  <2>7. /\ fired \in GameRecord /\ fired.bullets = shot /\ fired.asteroids = g.asteroids
        /\ fired.saucers = g.saucers /\ fired.shots = g.shots /\ SamePoints(g, fired)
        /\ SameRun(g, fired) /\ fired.latch = fire /\ fired.control = g.control
        /\ fired.cooldown = CooldownFrames
    <3>1. CooldownFrames \in 0 .. CooldownFrames
      BY <1>2
    <3>2. fired \in GameRecord /\ fired.cooldown = CooldownFrames
      BY <2>6, <3>1 DEF GameRecord
    <3>3. QED
      BY <2>6, <3>2 DEF GameRecord, SamePoints, SameRun
  <2> HIDE DEF fired
  <2>8. GameFits(h)
    BY <1>2, <2>1, <2>2, <2>3, <2>4, <2>7 DEF GameFits, SamePoints, SameRun
  <2>9. ShipMoves(g, fire, h) /\ SamePoints(g, h) /\ SameRun(g, h)
    BY <1>13, <2>1, <2>7 DEF ShipMoves
  <2>10. QED
    BY <2>8, <2>9 DEF h
<1>14. QED
  BY <1>10, <1>11, <1>12, <1>13

\* Bullets grow older.
LEMMA BulletsAge ==
  ASSUME NEW g, GameFits(g)
  PROVE  LET h == [g EXCEPT !.bullets = Aged(@)]
         IN /\ GameFits(h) /\ SameShip(g, h) /\ SameRun(g, h) /\ SamePoints(g, h)
            /\ h.saucers = g.saucers /\ h.shots = g.shots
<1>1. g \in GameRecord /\ BulletLimit \in Nat /\ Total(g.bullets) \in Nat
  BY CountsAreNumbers, GameAssumption DEF GameFits
<1> DEFINE b == Aged(g.bullets)
           h == [g EXCEPT !.bullets = b]
<1>2. b \in [1 .. BulletLife -> 0 .. BulletLimit] /\ Total(b) <= Total(g.bullets)
  <2>1. g.bullets \in [1 .. BulletLife -> 0 .. BulletLimit]
    BY <1>1 DEF GameRecord
  <2>2. QED
    BY <1>1, <2>1, TotalAged
<1> HIDE DEF b
<1>3. /\ h \in GameRecord /\ h.bullets = b /\ SameShip(g, h) /\ SameRun(g, h) /\ SamePoints(g, h)
      /\ h.asteroids = g.asteroids /\ h.saucers = g.saucers /\ h.shots = g.shots
  BY <1>1, <1>2 DEF GameRecord, SameShip, SameRun, SamePoints
<1>4. Total(b) \in Nat
  BY <1>3, CountsAreNumbers
<1> HIDE DEF h
<1>5. GameFits(h)
  BY <1>1, <1>2, <1>3, <1>4 DEF GameFits, SameRun, SamePoints
<1>6. QED
  BY <1>3, <1>5 DEF b, h

\* Shots grow older.
LEMMA ShotsAge ==
  ASSUME NEW g, GameFits(g)
  PROVE  LET h == [g EXCEPT !.shots = Aged(@)]
         IN /\ GameFits(h) /\ SameShip(g, h) /\ SameRun(g, h) /\ SamePoints(g, h)
            /\ h.bullets = g.bullets
<1>1. g \in GameRecord /\ ShotLimit \in Nat /\ Total(g.shots) \in Nat
  BY CountsAreNumbers, GameAssumption DEF GameFits
<1> DEFINE b == Aged(g.shots)
           h == [g EXCEPT !.shots = b]
<1>2. b \in [1 .. BulletLife -> 0 .. ShotLimit] /\ Total(b) <= Total(g.shots)
  <2>1. g.shots \in [1 .. BulletLife -> 0 .. ShotLimit]
    BY <1>1 DEF GameRecord
  <2>2. QED
    BY <1>1, <2>1, TotalAged
<1> HIDE DEF b
<1>3. /\ h \in GameRecord /\ h.shots = b /\ SameShip(g, h) /\ SameRun(g, h) /\ SamePoints(g, h)
      /\ h.asteroids = g.asteroids /\ h.saucers = g.saucers /\ h.bullets = g.bullets
  BY <1>1, <1>2 DEF GameRecord, SameShip, SameRun, SamePoints
<1>4. Total(b) \in Nat
  BY <1>3, CountsAreNumbers
<1> HIDE DEF h
<1>5. GameFits(h)
  BY <1>1, <1>2, <1>3, <1>4 DEF GameFits, SameRun, SamePoints
<1>6. QED
  BY <1>3, <1>5 DEF b, h

\* The saucers of a wave stay within its number, and so do their shots.
LEMMA SaucersFit ==
  ASSUME NEW g, GameFits(g), g.wave > 0, NEW h \in SaucersMove(g)
  PROVE  /\ GameFits(h) /\ SameShip(g, h) /\ SameRun(g, h) /\ SamePoints(g, h)
         /\ h.bullets = g.bullets
<1>1. /\ g \in GameRecord /\ ShotLimit \in Nat /\ BulletLife \in Nat \ {0}
      /\ g.wave \in Nat \ {0}
  <2>1. ShotLimit \in Nat /\ BulletLife \in Nat \ {0}
    BY GameAssumption
  <2>2. g \in GameRecord
    BY DEF GameFits
  <2>3. g.wave \in Nat
    BY <2>2 DEF GameRecord
  <2>4. QED
    BY <2>1, <2>2, <2>3
<1>2. /\ g.saucers \in [Kinds -> Nat] /\ Total(g.saucers) \in Nat
      /\ g.shots \in [1 .. BulletLife -> Nat] /\ Total(g.shots) \in Nat
  BY <1>1, CountsAreNumbers
<1> DEFINE most == OfWave(WaveSaucers, g.wave)
           kinds == IF Total(g.saucers) < most THEN Kinds ELSE {}
           came == {g.saucers} \cup {[g.saucers EXCEPT ![k] = @ + 1] : k \in kinds}
<1>3. most \in Nat /\ Total(g.saucers) <= most
  BY <1>1, WavesAreListed DEF GameFits
<1>4. PICK s \in [Kinds -> 0 .. Total(g.saucers) + 1], n \in 0 .. Less(ShotLimit, Total(g.shots)) :
        /\ \E c \in came : \A k \in Kinds : s[k] <= c[k]
        /\ h = [g EXCEPT !.saucers = s, !.shots[BulletLife] = @ + n]
  <2> DEFINE stay == {s \in [Kinds -> 0 .. Total(g.saucers) + 1] :
                        \E c \in came : \A k \in Kinds : s[k] <= c[k]}
             some(s) == {m \in 0 .. Less(ShotLimit, Total(g.shots)) : m <= Total(s)}
             moved(s) == {[g EXCEPT !.saucers = s, !.shots[BulletLife] = @ + n] : n \in some(s)}
  <2>1. h \in UNION {moved(s) : s \in stay}
    BY DEF SaucersMove
  <2>2. PICK s \in stay : h \in moved(s)
    <3> HIDE DEF stay, moved
    <3>1. QED
      BY <2>1
  <2>3. PICK n \in some(s) : h = [g EXCEPT !.saucers = s, !.shots[BulletLife] = @ + n]
    <3> HIDE DEF some
    <3>1. QED
      BY <2>2
  <2>4. QED
    BY <2>2, <2>3
<1> HIDE DEF most
<1>5. \A c \in came : c \in [Kinds -> Nat] /\ Total(c) <= most
  <2>1. ASSUME NEW k \in Kinds, Total(g.saucers) < most
        PROVE  LET c == [g.saucers EXCEPT ![k] = @ + 1]
               IN c \in [Kinds -> Nat] /\ Total(c) <= most
    <3> DEFINE c == [g.saucers EXCEPT ![k] = @ + 1]
    <3>1. c \in [Kinds -> Nat] /\ Total(c) = Total(g.saucers) + 1
      BY <1>2, FinitePlaces, TotalOneMore
    <3> HIDE DEF c
    <3>2. Total(c) <= most
      BY <1>2, <1>3, <2>1, <3>1
    <3>3. QED
      BY <3>1, <3>2 DEF c
  <2>2. ASSUME NEW c \in came, c # g.saucers
        PROVE  c \in [Kinds -> Nat] /\ Total(c) <= most
    <3>1. PICK k \in kinds : c = [g.saucers EXCEPT ![k] = @ + 1]
      BY <2>2
    <3>2. k \in Kinds /\ Total(g.saucers) < most
      OBVIOUS
    <3>3. QED
      BY <2>1, <3>1, <3>2
  <2>3. QED
    BY <1>2, <1>3, <2>2
<1>6. s \in [Kinds -> Nat] /\ Total(s) <= most
  <2>1. PICK c \in came : \A k \in Kinds : s[k] <= c[k]
    BY <1>4
  <2>2. s \in [Kinds -> Nat]
    BY <1>2
  <2>3. c \in [Kinds -> Nat] /\ Total(c) <= most
    BY <1>5
  <2> HIDE DEF came
  <2>4. Total(s) <= Total(c) /\ Total(s) \in Nat /\ Total(c) \in Nat
    BY <2>1, <2>2, <2>3, FinitePlaces, TotalMonotone, TotalType
  <2>5. QED
    BY <1>3, <2>2, <2>3, <2>4
<1> DEFINE shots == [g.shots EXCEPT ![BulletLife] = @ + n]
           a == [g EXCEPT !.saucers = s]
           k == [a EXCEPT !.shots = shots]
<1>7. n \in Nat /\ Total(g.shots) + n <= ShotLimit
  <2>1. Total(g.shots) <= ShotLimit
    BY DEF GameFits
  <2>2. QED
    BY <1>1, <1>2, <2>1 DEF Less
<1>8. shots \in [1 .. BulletLife -> Nat] /\ Total(shots) = Total(g.shots) + n
  <2> DEFINE D == 1 .. BulletLife
             f == g.shots
  <2>1. /\ IsFiniteSet(D) /\ f \in [D -> Nat] /\ shots \in [D -> Nat] /\ BulletLife \in D
        /\ shots[BulletLife] = f[BulletLife] + n
        /\ \A y \in D : y # BulletLife => shots[y] = f[y]
    BY <1>1, <1>2, <1>7, FinitePlaces
  <2> HIDE DEF D, f, shots
  <2>2. Total(shots) = Total(f) + n
    BY <1>7, <2>1, TotalAdd
  <2>3. QED
    BY <2>1, <2>2 DEF D, f
<1> HIDE DEF shots
<1>9. shots \in [1 .. BulletLife -> 0 .. ShotLimit]
  <2> DEFINE D == 1 .. BulletLife
  <2>1. IsFiniteSet(D) /\ shots \in [D -> Nat]
    BY <1>8, FinitePlaces
  <2> HIDE DEF D
  <2>2. \A y \in D : shots[y] \in Nat /\ shots[y] <= Total(shots)
    BY <2>1, TotalBounds
  <2>3. \A y \in D : shots[y] \in 0 .. ShotLimit
    BY <1>1, <1>2, <1>7, <1>8, <2>2
  <2>4. QED
    BY <2>1, <2>3 DEF D
<1>10. h = k
  BY <1>1, <1>4 DEF GameRecord, shots
<1>11. /\ a \in GameRecord /\ a.saucers = s /\ a.shots = g.shots /\ SameShip(g, a)
       /\ SameRun(g, a) /\ SamePoints(g, a) /\ a.bullets = g.bullets /\ a.asteroids = g.asteroids
  BY <1>1, <1>6 DEF GameRecord, SameShip, SameRun, SamePoints
<1> HIDE DEF a
<1>12. /\ k \in GameRecord /\ k.saucers = s /\ k.shots = shots /\ SameShip(g, k)
       /\ SameRun(g, k) /\ SamePoints(g, k) /\ k.bullets = g.bullets /\ k.asteroids = g.asteroids
  BY <1>9, <1>11 DEF GameRecord, SameShip, SameRun, SamePoints
<1> HIDE DEF k
<1>13. GameFits(k)
  BY <1>6, <1>7, <1>8, <1>12 DEF GameFits, SameRun, SamePoints, most
<1>14. QED
  BY <1>10, <1>12, <1>13

\* A step as far as the collisions.
LEMMA StepMoves ==
  ASSUME NEW g, GameFits(g), g.wave > 0, NEW fire \in BOOLEAN,
         NEW k \in SaucersMove([UpdateShip(g, fire) EXCEPT !.bullets = Aged(@)])
  PROVE  LET h == [k EXCEPT !.shots = Aged(@)]
         IN GameFits(h) /\ SamePoints(g, h) /\ SameRun(g, h) /\ ShipMoves(g, fire, h)
<1> DEFINE a == UpdateShip(g, fire)
           b == [a EXCEPT !.bullets = Aged(@)]
           h == [k EXCEPT !.shots = Aged(@)]
<1>1. GameFits(a) /\ SamePoints(g, a) /\ SameRun(g, a) /\ ShipMoves(g, fire, a)
  BY ShipUpdated
<1> HIDE DEF a
<1>2. GameFits(b) /\ SamePoints(a, b) /\ SameRun(a, b) /\ SameShip(a, b)
  BY <1>1, BulletsAge
<1>3. k \in SaucersMove(b) /\ b.wave > 0
  BY <1>1, <1>2 DEF a, SameRun
<1> HIDE DEF b
<1>4. GameFits(k) /\ SamePoints(b, k) /\ SameRun(b, k) /\ SameShip(b, k)
  BY <1>2, <1>3, SaucersFit
<1>5. GameFits(h) /\ SamePoints(k, h) /\ SameRun(k, h) /\ SameShip(k, h)
  BY <1>4, ShotsAge
<1> HIDE DEF h
<1>6. QED
  BY <1>1, <1>2, <1>4, <1>5 DEF SamePoints, SameRun, SameShip, ShipMoves, h
-----------------------------------------------------------------------------
\* What a bullet may score.
Worth == {0} \cup {Points[x] : x \in Sizes \cup Kinds}

\* What has been scored since b was taken was scored by n bullets, which are gone.
Scored(b, g) ==
  \E f \in [1 .. BulletLimit -> Worth], n \in 0 .. BulletLimit :
    /\ \A i \in 1 .. BulletLimit : i > n => f[i] = 0
    /\ g.score = b.score + Total(f)
    /\ n + Total(g.bullets) <= BulletLimit

\* What may be scored is a number.
LEMMA WorthIsNatural ==
  Worth \subseteq Nat /\ IsFiniteSet(1 .. BulletLimit) /\ BulletLimit \in Nat \ {0}
<1>1. Points \in [Sizes \cup Kinds -> Nat \ {0}] /\ BulletLimit \in Nat \ {0}
  BY GameAssumption
<1>2. 1 \in Int /\ BulletLimit \in Int
  BY <1>1
<1>3. IsFiniteSet(1 .. BulletLimit)
  BY <1>2, FS_Interval
<1>4. QED
  BY <1>1, <1>3 DEF Worth

\* Nothing has been scored yet.
LEMMA NothingScored ==
  ASSUME NEW b, NEW g, GameFits(g), g.score = b.score
  PROVE  Scored(b, g)
<1> DEFINE D == 1 .. BulletLimit
           f == NoneOf(D)
<1>1. f \in [D -> Worth] /\ f \in [D -> Nat] /\ \A i \in D : f[i] = 0
  BY DEF NoneOf, Worth
<1>2. IsFiniteSet(D) /\ BulletLimit \in Nat
  BY WorthIsNatural
<1>3. Total(f) = 0
  <2> HIDE DEF D
  <2>1. QED
    BY <1>1, <1>2, TotalZero
<1>4. g.score \in Nat /\ Total(g.bullets) \in Nat /\ Total(g.bullets) <= BulletLimit
  BY CountsAreNumbers DEF GameFits, GameRecord
<1> HIDE DEF f
<1>5. 0 \in 0 .. BulletLimit /\ g.score = b.score + Total(f) /\ 0 + Total(g.bullets) <= BulletLimit
  BY <1>2, <1>3, <1>4
<1>6. QED
  BY <1>1, <1>5 DEF Scored

\* A collision scores with a bullet that is gone then.
LEMMA ScoredByCollision ==
  ASSUME NEW b, NEW g, NEW h, b.score \in Nat, GameFits(g), Scored(b, g), Scores(g, h)
  PROVE  Scored(b, h)
<1> DEFINE D == 1 .. BulletLimit
<1>1. PICK f \in [D -> Worth], n \in 0 .. BulletLimit :
        /\ \A i \in D : i > n => f[i] = 0
        /\ g.score = b.score + Total(f)
        /\ n + Total(g.bullets) <= BulletLimit
  BY DEF Scored
<1>2. Worth \subseteq Nat /\ IsFiniteSet(D) /\ BulletLimit \in Nat \ {0} /\ n \in Nat
  BY WorthIsNatural
<1>3. f \in [D -> Nat]
  BY <1>1, <1>2
<1>4. Total(f) \in Nat
  <2> HIDE DEF D
  <2>1. QED
    BY <1>2, <1>3, TotalType
<1>5. /\ Total(g.bullets) \in Nat /\ g.score \in Nat /\ Total(h.bullets) \in Nat
      /\ h.score \in Nat
  BY CountsAreNumbers DEF GameFits, GameRecord, Scores
<1>6. CASE h.score = g.score /\ Total(h.bullets) <= Total(g.bullets)
  <2>1. h.score = b.score + Total(f) /\ n + Total(h.bullets) <= BulletLimit
    BY <1>1, <1>2, <1>5, <1>6
  <2>2. QED
    BY <1>1, <2>1 DEF Scored
<1>7. ASSUME NEW x \in Sizes \cup Kinds,
             h.score = g.score + Points[x], Total(h.bullets) = Total(g.bullets) - 1
      PROVE  Scored(b, h)
  <2> DEFINE e == [f EXCEPT ![n + 1] = Points[x]]
  <2>1. n + 1 \in D /\ n + 1 \in 0 .. BulletLimit
    BY <1>1, <1>2, <1>5, <1>7
  <2>2. Points[x] \in Worth /\ Points[x] \in Nat
    BY <1>2 DEF Worth
  <2>3. f[n + 1] = 0
    BY <1>1, <1>2, <2>1
  <2>4. e \in [D -> Worth] /\ e[n + 1] = f[n + 1] + Points[x]
        /\ \A y \in D : y # n + 1 => e[y] = f[y]
    BY <1>1, <2>1, <2>2, <2>3
  <2>5. e \in [D -> Nat]
    BY <1>2, <2>4
  <2>6. Total(e) = Total(f) + Points[x]
    <3> DEFINE k == n + 1
               p == Points[x]
    <3>1. k \in D /\ p \in Nat /\ e[k] = f[k] + p /\ \A y \in D : y # k => e[y] = f[y]
      BY <2>1, <2>2, <2>4
    <3> HIDE DEF D, e, k, p
    <3>2. Total(e) = Total(f) + p
      BY <1>2, <1>3, <2>5, <3>1, TotalAdd
    <3>3. QED
      BY <3>2 DEF p
  <2> HIDE DEF e
  <2>7. /\ \A i \in D : i > n + 1 => e[i] = 0
        /\ h.score = b.score + Total(e)
        /\ (n + 1) + Total(h.bullets) <= BulletLimit
    <3>1. \A i \in D : i > n + 1 => i > n /\ i # n + 1
      BY <1>2
    <3>2. \A i \in D : i > n + 1 => e[i] = 0
      BY <1>1, <2>4, <3>1
    <3>3. QED
      BY <1>1, <1>2, <1>4, <1>5, <1>7, <2>2, <2>6, <3>2
  <2>8. QED
    BY <2>1, <2>4, <2>7 DEF Scored
<1>8. QED
  BY <1>6, <1>7 DEF Scores

\* What bullets score in a step is what the verifier takes.
LEMMA ScoreIsLegal ==
  ASSUME NEW b, NEW g, b.score \in Nat, Scored(b, g)
  PROVE  g.score - b.score \in LegalScoreDeltas
<1> DEFINE D == 1 .. BulletLimit
<1>1. PICK f \in [D -> Worth] : g.score = b.score + Total(f)
  BY DEF Scored
<1>2. Worth \subseteq Nat /\ IsFiniteSet(D)
  BY WorthIsNatural
<1>3. Total(f) \in Nat
  <2>1. f \in [D -> Nat]
    BY <1>1, <1>2
  <2> HIDE DEF D
  <2>2. QED
    BY <1>2, <2>1, TotalType
<1>4. g.score - b.score = Total(f)
  BY <1>1, <1>3
<1>5. QED
  BY <1>1, <1>4 DEF LegalScoreDeltas, Worth

-----------------------------------------------------------------------------
\* A live run, under way or over.
Run == Live /\ mode # "menu"

\* Only a run or a tape that is shown takes steps; a tape that is shown has a frame for each.
ModeFits ==
  /\ Live => mode # "replay"
  /\ mode \in {"playing", "paused"} => Live
  /\ steps > 0 => mode # "menu" /\ (Live \/ mode = "replay")
  /\ phase > 0 => steps > 0 /\ ~Complete

\* Only a live run comes to the cap, and it comes to it once.
FramesFit ==
  /\ frames + steps <= MaxFrames + MaxSubsteps
  /\ mode \in {"playing", "paused"} \/ phase > 0 => frames <= MaxFrames
  /\ ~Live => frames + shown[1] <= MaxFrames + (IF phase > 0 THEN 1 ELSE 0)
  /\ Run /\ (mode = "game-over" \/ phase > 0) => frames > 0

WaveFits == mode # "menu" => game.wave > 0

\* A ship that is gone does not fire; after the last one no ship comes back, since the timer
\* outlasts the run.
ShipFits ==
  Run =>
    /\ ~game.control => game.cooldown = 0 \/ frames > MaxFrames
    /\ game.over =>
         ~game.control /\ mode = "game-over" /\ game.respawn + frames > MaxFrames

\* Within a step, what the verifier will look at is what it expects.
StepFits ==
  Live /\ phase > 0 =>
    /\ Scored(before, game)
    /\ game.wave = before.wave
    /\ game.cooldown = ExpectedCooldown(before, game)
    /\ game.latch = ExpectedLatch(before, game)
    /\ ~before.control /\ game.control => game.safe > 0
    /\ before.control /\ ~game.control => game.respawn >= RespawnFrames

RefusedFits ==
  Run =>
    /\ refused \subseteq {"GlobalModeLivesConsistency"}
    /\ refused # {} => game.over /\ game.lives > 0

GameInv ==
  /\ GameTypeOK /\ GameFits(game) /\ ModeFits /\ FramesFit /\ WaveFits /\ ShipFits /\ StepFits
  /\ RefusedFits /\ TapeHoldsTheRun
-----------------------------------------------------------------------------
\* The verifier's rules find nothing in a step but a life after the end.
LEMMA StepIsLegal ==
  ASSUME NEW b, NEW g, GameFits(g), g.wave > 0, g.score - b.score \in LegalScoreDeltas,
         \/ g.wave = b.wave
         \/ /\ g.wave = b.wave + 1
            /\ Total(g.asteroids) = OfWave(WaveAsteroids, g.wave) /\ Total(g.saucers) = 0,
         b.wave \in Nat,
         g.cooldown = ExpectedCooldown(b, g), g.latch = ExpectedLatch(b, g)
  PROVE  /\ BrokenByTheStep(b, g) = {}
         /\ BrokenInTheGame(g) \subseteq {"GlobalModeLivesConsistency"}
         /\ BrokenInTheGame(g) # {} => g.over /\ g.lives > 0
<1>1. /\ g \in GameRecord /\ g.wave \in Nat /\ g.score \in Nat /\ g.next \in Nat
      /\ g.lives \in Nat /\ g.over \in BOOLEAN
  BY DEF GameFits, GameRecord
<1>2. /\ Total(g.bullets) \in Nat /\ Total(g.shots) \in Nat /\ Total(g.saucers) \in Nat
      /\ OfWave(WaveSaucers, g.wave) \in Nat
  BY <1>1, CountsAreNumbers, WavesAreListed
<1>3. /\ BulletLimit \in Nat /\ ShotLimit \in Nat /\ ExtraLifeStep \in Nat
  BY GameAssumption
<1>4. BrokenByTheStep(b, g) = {}
  <2>1. ~(g.score - b.score \notin LegalScoreDeltas)
    OBVIOUS
  <2>2. ~(IF g.wave = b.wave + 1
            THEN \/ Total(g.asteroids) # OfWave(WaveAsteroids, g.wave)
                 \/ Total(g.saucers) # 0
            ELSE g.wave # b.wave)
    BY <1>1
  <2>3. ~(\/ g.cooldown # ExpectedCooldown(b, g)
          \/ g.latch # ExpectedLatch(b, g))
    OBVIOUS
  <2>4. QED
    BY <2>1, <2>2, <2>3 DEF BrokenByTheStep
<1>5. BrokenInTheGame(g) \subseteq {"GlobalModeLivesConsistency"}
  <2>1. ~(g.wave < 1) /\ ~(g.next <= g.score \/ g.next < ExtraLifeStep)
    BY <1>1, <1>3 DEF GameFits
  <2>2. /\ ~(Total(g.bullets) > BulletLimit) /\ ~(Total(g.shots) > ShotLimit)
        /\ ~(Total(g.saucers) > OfWave(WaveSaucers, g.wave))
    BY <1>2, <1>3 DEF GameFits
  <2>3. QED
    BY <2>1, <2>2 DEF BrokenInTheGame
<1>6. ASSUME BrokenInTheGame(g) # {} PROVE g.over /\ g.lives > 0
  <2>1. "GlobalModeLivesConsistency" \in BrokenInTheGame(g)
    BY <1>5, <1>6
  <2>2. g.over # (g.lives = 0)
    BY <2>1 DEF BrokenInTheGame
  <2>3. g.over \/ g.lives > 0
    BY DEF GameFits
  <2>4. QED
    BY <1>1, <2>2, <2>3
<1>7. QED
  BY <1>4, <1>5, <1>6
-----------------------------------------------------------------------------
\* The constants that bound the counters.
LEMMA GameBounds ==
  /\ MaxFrames \in Nat \ {0} /\ MaxSubsteps \in Nat \ {0} /\ NeverFrames \in Nat
  /\ NeverFrames > MaxFrames /\ BulletLimit \in Nat /\ CooldownFrames \in Nat
BY GameAssumption

\* A tape that is shown is one number, and none is the empty tape.
LEMMA ShownIsOneNumber ==
  ASSUME GameTypeOK, ~Live
  PROVE  \E n \in 0 .. MaxFrames : shown = <<n>> /\ shown[1] = n
BY DEF GameTypeOK, Live

\* Between two steps nothing has been done yet.
LEMMA BetweenFits ==
  Between \in [score : Nat, wave : Nat, control : BOOLEAN, cooldown : 0 .. CooldownFrames,
               latch : BOOLEAN, bullets : 0 .. BulletLimit, fire : BOOLEAN]
<1>1. FreshGame \in GameRecord /\ Total(FreshGame.bullets) = 0
  BY FreshGameFits DEF GameFits
<1>2. /\ FreshGame.score \in Nat /\ FreshGame.wave \in Nat /\ FreshGame.control \in BOOLEAN
      /\ FreshGame.cooldown \in 0 .. CooldownFrames /\ FreshGame.latch \in BOOLEAN
  BY <1>1 DEF GameRecord
<1>3. 0 \in 0 .. BulletLimit
  BY GameBounds
<1>4. QED
  BY <1>1, <1>2, <1>3 DEF Between, Snapshot

\* A game begins with its first wave.
LEMMA FirstWave ==
  LET h == SpawnWave(FreshGame)
  IN GameFits(h) /\ h.wave = 1 /\ h.control /\ h.cooldown = 0 /\ ~h.over
<1>1. FreshGame.wave = 0 /\ ~FreshGame.over
  BY DEF FreshGame
<1>2. QED
  BY <1>1, FreshGameFits, WaveSpawned

\* The game is begun anew.
LEMMA NewGameStep ==
  ASSUME GameInv, Idle, NEW film, film = <<>> \/ film \in Films, NewGame(film),
         UNCHANGED <<steps, phase, before>>, hidden' \in BOOLEAN, offered' \in BOOLEAN
  PROVE  GameInv'
<1>1. /\ mode' = (IF film = <<>> THEN "playing" ELSE "replay") /\ shown' = film
      /\ waiting' = FALSE /\ pending' = FALSE /\ game' = SpawnWave(FreshGame)
      /\ frames' = 0 /\ tape' = 0 /\ refused' = {} /\ steps' = 0 /\ phase' = 0
      /\ before' = before
  BY DEF NewGame, Idle
<1>2. GameFits(game') /\ game'.wave = 1 /\ game'.control /\ game'.cooldown = 0 /\ ~game'.over
  BY <1>1, FirstWave
<1>3. \/ film = <<>> /\ Live' /\ mode' = "playing"
      \/ ~Live' /\ mode' = "replay" /\ \E n \in 1 .. MaxFrames : shown' = <<n>> /\ shown'[1] = n
  BY <1>1 DEF Films, Live
<1>4. GameTypeOK'
  <2>1. shown' = <<>> \/ \E n \in 0 .. MaxFrames : shown' = <<n>>
    BY <1>1, GameBounds DEF Films
  <2>2. game' \in GameRecord /\ Total(game'.asteroids) <= AsteroidCap
    BY <1>2 DEF GameFits
  <2>3. /\ steps' \in 0 .. MaxSubsteps /\ frames' \in 0 .. (MaxFrames + MaxSubsteps)
        /\ tape' \in 0 .. MaxFrames
    BY <1>1, GameBounds
  <2>4. QED
    BY <1>1, <2>1, <2>2, <2>3 DEF GameTypeOK, GameInv
<1>5. ModeFits'
  BY <1>1, <1>3 DEF ModeFits
<1>6. FramesFit'
  BY <1>1, <1>3, GameBounds DEF FramesFit, Run
<1>7. WaveFits' /\ ShipFits' /\ StepFits' /\ RefusedFits'
  BY <1>1, <1>2 DEF WaveFits, ShipFits, StepFits, RefusedFits
<1>8. TapeHoldsTheRun'
  BY <1>1, GameBounds DEF TapeHoldsTheRun, Smaller
<1>9. QED
  BY <1>2, <1>4, <1>5, <1>6, <1>7, <1>8 DEF GameInv

\* Between two animation frames the mode changes, and the game stays.
LEMMA ModeStep ==
  ASSUME GameInv, Idle, UNCHANGED <<steps, phase, before, game, recording, shown>>,
         {hidden', offered', waiting', pending'} \subseteq BOOLEAN,
         \/ mode' = mode
         \/ mode' = "menu" /\ Live
         \/ {mode, mode'} = {"playing", "paused"}
  PROVE  GameInv'
<1>1. /\ steps' = 0 /\ phase' = 0 /\ steps = 0 /\ phase = 0
      /\ UNCHANGED <<before, game, frames, tape, refused, shown, Live>>
  BY DEF Idle, recording, Live
<1>2. GameTypeOK' /\ GameFits(game')
  BY <1>1 DEF GameInv, GameTypeOK
<1>3. ModeFits'
  BY <1>1 DEF GameInv, ModeFits
<1>4. FramesFit'
  BY <1>1, <1>3 DEF GameInv, FramesFit, Run
<1>5. WaveFits' /\ ShipFits' /\ StepFits' /\ RefusedFits' /\ TapeHoldsTheRun'
  BY <1>1 DEF GameInv, WaveFits, ShipFits, StepFits, RefusedFits, TapeHoldsTheRun, Run
<1>6. QED
  BY <1>2, <1>3, <1>4, <1>5 DEF GameInv

\* What an empty board keeps of a game.
LEMMA EmptyBoard ==
  ASSUME NEW g, GameFits(g)
  PROVE  GameFits([FreshGame EXCEPT !.score = g.score, !.lives = g.lives, !.wave = g.wave,
                                    !.next = g.next, !.over = g.over])
<1> DEFINE h == [FreshGame EXCEPT !.score = g.score, !.lives = g.lives, !.wave = g.wave,
                                  !.next = g.next, !.over = g.over]
<1>1. /\ GameFits(FreshGame) /\ FreshGame \in GameRecord /\ g \in GameRecord
      /\ Total(FreshGame.saucers) = 0
  BY FreshGameFits DEF GameFits
<1>2. g.score \in Nat /\ g.lives \in Nat /\ g.wave \in Nat /\ g.next \in Nat /\ g.over \in BOOLEAN
  BY <1>1 DEF GameRecord
<1> DEFINE a == [FreshGame EXCEPT !.score = g.score]
           b == [a EXCEPT !.lives = g.lives]
           c == [b EXCEPT !.wave = g.wave]
           d == [c EXCEPT !.next = g.next]
           e == [d EXCEPT !.over = g.over]
<1>3. h = e
  OBVIOUS
<1> HIDE DEF h
<1>4. a \in GameRecord /\ SameThings(FreshGame, a) /\ a.score = g.score
  BY <1>1, <1>2 DEF GameRecord, SameThings
<1> HIDE DEF a
<1>5. b \in GameRecord /\ SameThings(a, b) /\ b.score = g.score /\ b.lives = g.lives
  BY <1>2, <1>4 DEF GameRecord, SameThings
<1> HIDE DEF b
<1>6. /\ c \in GameRecord /\ SameThings(b, c) /\ c.score = g.score /\ c.lives = g.lives
      /\ c.wave = g.wave
  BY <1>2, <1>5 DEF GameRecord, SameThings
<1> HIDE DEF c
<1>7. /\ d \in GameRecord /\ SameThings(c, d) /\ d.score = g.score /\ d.lives = g.lives
      /\ d.wave = g.wave /\ d.next = g.next
  BY <1>2, <1>6 DEF GameRecord, SameThings
<1> HIDE DEF d
<1>8. /\ e \in GameRecord /\ SameThings(d, e) /\ e.score = g.score /\ e.lives = g.lives
      /\ e.wave = g.wave /\ e.next = g.next /\ e.over = g.over
  BY <1>2, <1>7 DEF GameRecord, SameThings
<1> HIDE DEF e
<1>9. g.wave > 0 => Total(e.saucers) <= OfWave(WaveSaucers, g.wave)
  <2>1. Total(e.saucers) = 0
    BY <1>1, <1>4, <1>5, <1>6, <1>7, <1>8 DEF SameThings
  <2>2. QED
    BY <1>2, <2>1, WavesAreListed
<1>10. SameThings(FreshGame, e)
  BY <1>4, <1>5, <1>6, <1>7, <1>8 DEF SameThings
<1>11. GameFits(e)
  BY <1>1, <1>8, <1>9, <1>10 DEF GameFits, SameThings
<1>12. QED
  BY <1>3, <1>11 DEF h

\* The player leaves the run, or the tape, for the menu.
LEMMA ResetToMenuStep ==
  ASSUME GameInv, ResetToMenu
  PROVE  GameInv'
<1>1. /\ steps = 0 /\ phase = 0 /\ steps' = 0 /\ phase' = 0
      /\ mode' = "menu" /\ waiting' = FALSE /\ pending' = FALSE /\ shown' = <<>>
      /\ UNCHANGED <<hidden, offered, before, frames, tape, refused>>
      /\ game' = [FreshGame EXCEPT !.score = game.score, !.lives = game.lives, !.wave = game.wave,
                                   !.next = game.next, !.over = game.over]
  BY DEF ResetToMenu, Idle, recording
<1>2. GameFits(game')
  BY <1>1, EmptyBoard DEF GameInv
<1>3. GameTypeOK'
  <2>1. game' \in GameRecord /\ Total(game'.asteroids) <= AsteroidCap
    BY <1>2 DEF GameFits
  <2>2. QED
    BY <1>1, <2>1 DEF GameInv, GameTypeOK
<1>4. ModeFits' /\ WaveFits' /\ ShipFits' /\ StepFits' /\ RefusedFits' /\ TapeHoldsTheRun'
  BY <1>1 DEF ModeFits, WaveFits, ShipFits, StepFits, RefusedFits, TapeHoldsTheRun, Run, Live
<1>5. FramesFit'
  BY <1>1 DEF GameInv, FramesFit, Run, Live
<1>6. QED
  BY <1>2, <1>3, <1>4, <1>5 DEF GameInv

\* Time has passed that is worth some steps.
LEMMA AnimationFrameStep ==
  ASSUME GameInv, NEW n \in 1 .. MaxSubsteps, AnimationFrame(n)
  PROVE  GameInv'
<1>1. /\ phase = 0 /\ phase' = 0 /\ steps' = n /\ mode \in {"playing", "replay"} /\ ~Complete
      /\ UNCHANGED <<mode, hidden, offered, waiting, pending, shown, game, before, frames, tape,
                     refused, Live, Complete>>
  BY DEF AnimationFrame, Idle, setting, recording, Live, Complete
<1>2. GameTypeOK' /\ GameFits(game')
  <2>1. steps' \in 0 .. MaxSubsteps
    BY <1>1, GameBounds
  <2>2. QED
    BY <1>1, <2>1 DEF GameInv, GameTypeOK
<1>3. ModeFits'
  BY <1>1 DEF GameInv, ModeFits
<1>4. FramesFit'
  <2>1. frames <= MaxFrames /\ frames \in Nat
    <3>1. CASE mode = "playing"
      BY <3>1 DEF GameInv, FramesFit, GameTypeOK
    <3>2. CASE mode = "replay"
      <4>1. ~Live
        BY <3>2 DEF GameInv, ModeFits
      <4>2. shown[1] \in Nat
        BY <4>1, ShownIsOneNumber DEF GameInv
      <4>3. QED
        BY <1>1, <4>1, <4>2, GameBounds DEF GameInv, FramesFit, GameTypeOK
    <3>3. QED
      BY <1>1, <3>1, <3>2
  <2>2. frames' + steps' <= MaxFrames + MaxSubsteps
    BY <1>1, <2>1, GameBounds
  <2>3. QED
    BY <1>1, <2>1, <2>2 DEF GameInv, FramesFit, Run
<1>5. WaveFits' /\ ShipFits' /\ StepFits' /\ RefusedFits' /\ TapeHoldsTheRun'
  BY <1>1 DEF GameInv, WaveFits, ShipFits, StepFits, RefusedFits, TapeHoldsTheRun, Run
<1>6. QED
  BY <1>2, <1>3, <1>4, <1>5 DEF GameInv

\* The frame that is one too many.
LEMMA FrameCapStep ==
  ASSUME GameInv, FrameCap
  PROVE  GameInv'
<1>1. /\ steps > 0 /\ phase = 0 /\ phase' = 0 /\ frames >= MaxFrames /\ mode # "replay"
      /\ mode' = "game-over" /\ frames' = frames + 1 /\ steps' = steps - 1
      /\ game' = [game EXCEPT !.control = FALSE, !.respawn = NeverFrames]
      /\ UNCHANGED <<hidden, offered, waiting, pending, shown, before, tape, refused, Live>>
  BY DEF FrameCap, LastFrame, setting, Live
<1>2. Live /\ Live' /\ mode # "menu" /\ Run
  BY <1>1 DEF GameInv, ModeFits, Run
<1>3. steps \in 0 .. MaxSubsteps /\ frames \in Nat /\ frames + steps <= MaxFrames + MaxSubsteps
  BY DEF GameInv, GameTypeOK, FramesFit
<1>4. game \in GameRecord /\ GameFits(game)
  BY DEF GameInv, GameFits
<1>5. /\ game' \in GameRecord /\ ~game'.control /\ game'.respawn = NeverFrames
      /\ SamePoints(game, game') /\ SameRun(game, game') /\ SameThings(game, game')
  <2> DEFINE a == [game EXCEPT !.control = FALSE]
             b == [a EXCEPT !.respawn = NeverFrames]
  <2>1. /\ a \in GameRecord /\ ~a.control /\ SamePoints(game, a) /\ SameRun(game, a)
        /\ SameThings(game, a)
    BY <1>4 DEF GameRecord, SamePoints, SameRun, SameThings
  <2>2. game' = b
    BY <1>1
  <2> HIDE DEF a
  <2>3. /\ b \in GameRecord /\ ~b.control /\ b.respawn = NeverFrames /\ SamePoints(a, b)
        /\ SameRun(a, b) /\ SameThings(a, b)
    BY <2>1, GameBounds DEF GameRecord, SamePoints, SameRun, SameThings
  <2> HIDE DEF b
  <2>4. QED
    BY <2>1, <2>2, <2>3 DEF SamePoints, SameRun, SameThings
<1>6. GameFits(game')
  BY <1>4, <1>5 DEF GameFits, SamePoints, SameRun, SameThings
<1>7. GameTypeOK'
  <2>1. steps' \in 0 .. MaxSubsteps /\ frames' \in 0 .. (MaxFrames + MaxSubsteps)
    BY <1>1, <1>3, GameBounds
  <2>2. Total(game'.asteroids) <= AsteroidCap
    BY <1>6 DEF GameFits
  <2>3. QED
    BY <1>1, <1>5, <2>1, <2>2 DEF GameInv, GameTypeOK
<1>8. ModeFits' /\ WaveFits' /\ StepFits'
  <2>1. game'.wave > 0
    BY <1>2, <1>5 DEF GameInv, WaveFits, SameRun
  <2>2. QED
    BY <1>1, <1>2, <2>1 DEF ModeFits, WaveFits, StepFits
<1>9. FramesFit'
  BY <1>1, <1>2, <1>3, GameBounds DEF FramesFit
<1>10. ShipFits'
  BY <1>1, <1>3, <1>5, GameBounds DEF ShipFits
<1>11. RefusedFits'
  BY <1>1, <1>2, <1>5 DEF GameInv, RefusedFits, SameRun, SamePoints
<1>12. TapeHoldsTheRun'
  BY <1>1, <1>2, <1>3, GameBounds DEF GameInv, TapeHoldsTheRun, Smaller
<1>13. QED
  BY <1>6, <1>7, <1>8, <1>9, <1>10, <1>11, <1>12 DEF GameInv
-----------------------------------------------------------------------------
\* A step begins: the ship moves as the verifier expects it, and nothing has been hit yet.
LEMMA StepExpected ==
  ASSUME NEW g, NEW h, NEW fire \in BOOLEAN, GameFits(g), GameFits(h), ShipMoves(g, fire, h),
         SameRun(g, h), SamePoints(g, h), ~g.control => g.cooldown = 0
  PROVE  LET b == Snapshot(g, fire)
         IN /\ Scored(b, h) /\ h.wave = b.wave
            /\ h.cooldown = ExpectedCooldown(b, h) /\ h.latch = ExpectedLatch(b, h)
            /\ ~b.control /\ h.control => h.safe > 0
            /\ b.control => h.control
<1> DEFINE b == Snapshot(g, fire)
<1>1. /\ b.score = g.score /\ b.wave = g.wave /\ b.control = g.control /\ b.fire = fire
      /\ b.cooldown = g.cooldown /\ b.latch = g.latch /\ b.bullets = Total(g.bullets)
  BY DEF Snapshot
<1>2. /\ g.wave \in Nat /\ h.wave \in Nat /\ g.control \in BOOLEAN /\ h.control \in BOOLEAN
      /\ g.cooldown \in Nat /\ g.latch \in BOOLEAN
  BY GameAssumption DEF GameFits, GameRecord
<1> HIDE DEF b
<1>3. Scored(b, h)
  BY <1>1, NothingScored DEF SamePoints
<1>4. h.wave = b.wave /\ h.wave # b.wave + 1
  BY <1>1, <1>2 DEF SameRun
<1>5. b.control => h.control
  BY <1>1 DEF ShipMoves
<1>6. ~b.control /\ h.control => h.safe > 0
  BY <1>1 DEF ShipMoves
<1>7. ~Died(b, h)
  BY <1>5 DEF Died
<1>8. h.latch = ExpectedLatch(b, h)
  BY <1>1, <1>4, <1>7 DEF ExpectedLatch, ShipMoves
<1>9. h.cooldown = ExpectedCooldown(b, h)
  <2>1. CASE ~g.control
    <3>1. h.cooldown = 0 /\ Less(b.cooldown, 1) = 0
      BY <1>1, <2>1 DEF ShipMoves, Less
    <3>2. QED
      BY <1>1, <1>4, <1>7, <2>1, <3>1 DEF ExpectedCooldown
  <2>2. CASE g.control
    <3>1. (Less(g.cooldown, 1) = 0) <=> (g.cooldown <= 1)
      BY <1>2 DEF Less
    <3>2. Fires(g, fire) <=> /\ b.fire /\ ~b.latch /\ Less(b.cooldown, 1) = 0
                             /\ b.bullets < BulletLimit
      BY <1>1, <3>1 DEF Fires
    <3>3. h.cooldown = IF Fires(g, fire) THEN CooldownFrames ELSE Less(b.cooldown, 1)
      BY <1>1, <2>2 DEF ShipMoves
    <3>4. QED
      BY <1>1, <1>4, <1>7, <2>2, <3>2, <3>3 DEF ExpectedCooldown
  <2>3. QED
    BY <1>2, <2>1, <2>2
<1>10. QED
  BY <1>3, <1>4, <1>5, <1>6, <1>8, <1>9 DEF b

\* A step reads the input and moves all there is.
LEMMA StepStep ==
  ASSUME GameInv, NEW fire \in BOOLEAN, Step(fire)
  PROVE  GameInv'
<1>1. /\ steps > 0 /\ phase = 0 /\ phase' = 1 /\ ~(frames >= MaxFrames /\ mode # "replay")
      /\ ~Complete /\ ~Complete' /\ before' = Snapshot(game, fire) /\ frames' = frames + 1
      /\ tape' = (IF Live THEN tape + 1 ELSE tape)
      /\ UNCHANGED <<hidden, offered, waiting, pending, mode, shown, steps, refused, Live>>
  BY DEF Step, LastFrame, setting, Live, Complete
<1>2. mode # "menu" /\ (Live \/ mode = "replay") /\ (Live => mode # "replay")
  BY <1>1 DEF GameInv, ModeFits
<1>3. GameFits(game) /\ game.wave > 0
  BY <1>2 DEF GameInv, WaveFits
<1>4. /\ GameFits(game') /\ SamePoints(game, game') /\ SameRun(game, game')
      /\ ShipMoves(game, fire, game')
  <2>1. PICK g \in SaucersMove([UpdateShip(game, fire) EXCEPT !.bullets = Aged(@)]) :
          game' = [g EXCEPT !.shots = Aged(@)]
    BY DEF Step
  <2>2. QED
    BY <1>3, <2>1, StepMoves
<1>5. /\ frames \in Nat /\ steps \in 0 .. MaxSubsteps /\ tape \in 0 .. MaxFrames
      /\ frames + steps <= MaxFrames + MaxSubsteps
  BY DEF GameInv, GameTypeOK, FramesFit
<1>6. /\ game.wave \in Nat /\ game.control \in BOOLEAN /\ game.respawn \in Nat
      /\ game.cooldown \in 0 .. CooldownFrames /\ game.latch \in BOOLEAN /\ game.score \in Nat
      /\ Total(game.bullets) \in Nat /\ Total(game.bullets) <= BulletLimit
      /\ game \in GameRecord /\ game' \in GameRecord
  BY <1>3, <1>4, CountsAreNumbers DEF GameFits, GameRecord
<1>7. Live => frames < MaxFrames /\ tape = frames
  BY <1>1, <1>2, <1>5, GameBounds DEF GameInv, TapeHoldsTheRun, Smaller
<1>8. ~Live => shown[1] \in Nat \ {0} /\ frames + shown[1] <= MaxFrames
  <2>1. SUFFICES ASSUME ~Live PROVE shown[1] \in Nat \ {0} /\ frames + shown[1] <= MaxFrames
    OBVIOUS
  <2>2. PICK n \in 0 .. MaxFrames : shown = <<n>> /\ shown[1] = n
    BY <2>1, ShownIsOneNumber DEF GameInv
  <2>3. n # 0
    BY <1>1, <2>2 DEF Complete
  <2>4. QED
    BY <1>1, <1>5, <2>1, <2>2, <2>3, GameBounds DEF GameInv, FramesFit
<1>9. frames' <= MaxFrames /\ frames' \in Nat \ {0}
  BY <1>1, <1>5, <1>7, <1>8, GameBounds
<1>10. Live => (~game.control => game.cooldown = 0)
  BY <1>2, <1>5, <1>7, GameBounds DEF GameInv, ShipFits, Run
<1>11. GameTypeOK'
  <2>1. frames' \in 0 .. (MaxFrames + MaxSubsteps) /\ tape' \in 0 .. MaxFrames
    BY <1>1, <1>5, <1>7, <1>9, GameBounds
  <2>2. before' \in [score : Nat, wave : Nat, control : BOOLEAN, cooldown : 0 .. CooldownFrames,
                     latch : BOOLEAN, bullets : 0 .. BulletLimit, fire : BOOLEAN]
    BY <1>1, <1>6, GameBounds DEF Snapshot
  <2>3. game' \in GameRecord /\ Total(game'.asteroids) <= AsteroidCap
    BY <1>4 DEF GameFits
  <2>4. QED
    BY <1>1, <2>1, <2>2, <2>3 DEF GameInv, GameTypeOK
<1>12. ModeFits' /\ WaveFits'
  <2>1. game'.wave > 0
    BY <1>3, <1>4 DEF SameRun
  <2>2. QED
    BY <1>1, <2>1 DEF GameInv, ModeFits, WaveFits
<1>13. FramesFit'
  <2>1. ~Live' => frames' + shown'[1] <= MaxFrames + 1
    BY <1>1, <1>5, <1>8, GameBounds
  <2>2. frames' + steps' <= MaxFrames + MaxSubsteps
    BY <1>1, <1>5, <1>9, GameBounds
  <2>3. QED
    BY <1>1, <1>9, <2>1, <2>2 DEF FramesFit
<1>14. ShipFits'
  <2>1. SUFFICES ASSUME Live, Live'
                 PROVE  /\ ~game'.control => game'.cooldown = 0
                        /\ game'.over => /\ ~game'.control /\ mode' = "game-over"
                                         /\ game'.respawn + frames' > MaxFrames
    BY <1>1 DEF ShipFits, Run
  <2>2. ASSUME ~game'.control PROVE game'.cooldown = 0
    <3>1. ~game.control /\ game.cooldown = 0
      BY <1>4, <1>10, <2>1, <2>2 DEF ShipMoves
    <3>2. QED
      BY <1>4, <3>1 DEF ShipMoves, Less
  <2>3. ASSUME game'.over
        PROVE  ~game'.control /\ mode' = "game-over" /\ game'.respawn + frames' > MaxFrames
    <3>1. ~game.control /\ mode = "game-over" /\ game.respawn + frames > MaxFrames
      BY <1>2, <1>4, <2>1, <2>3 DEF GameInv, ShipFits, Run, SameRun
    <3>2. Less(game.respawn, 1) = game.respawn - 1 /\ Less(game.respawn, 1) # 0
      BY <1>5, <1>6, <1>7, <2>1, <3>1, GameBounds DEF Less
    <3>3. ~game'.control /\ game'.respawn = game.respawn - 1
      BY <1>4, <3>1, <3>2 DEF ShipMoves
    <3>4. QED
      BY <1>1, <1>5, <1>6, <3>1, <3>3, GameBounds
  <2>4. QED
    BY <2>2, <2>3
<1>15. StepFits'
  <2>1. SUFFICES ASSUME Live, Live' PROVE StepFits'
    BY <1>1 DEF StepFits
  <2> DEFINE h == game'
  <2>2. /\ Scored(before', h) /\ h.wave = before'.wave
        /\ h.cooldown = ExpectedCooldown(before', h) /\ h.latch = ExpectedLatch(before', h)
        /\ ~before'.control /\ h.control => h.safe > 0
        /\ before'.control => h.control
    <3>1. GameFits(h) /\ ShipMoves(game, fire, h) /\ SameRun(game, h) /\ SamePoints(game, h)
      BY <1>4
    <3> HIDE DEF h
    <3>2. QED
      BY <1>1, <1>3, <1>10, <2>1, <3>1, StepExpected
  <2>3. QED
    BY <2>2 DEF StepFits
<1>16. RefusedFits' /\ TapeHoldsTheRun'
  <2>1. RefusedFits'
    BY <1>1, <1>4 DEF GameInv, RefusedFits, Run, SameRun, SamePoints
  <2>2. TapeHoldsTheRun'
    BY <1>1, <1>5, <1>7, <1>9, GameBounds DEF TapeHoldsTheRun, Smaller
  <2>3. QED
    BY <2>1, <2>2
<1>17. QED
  BY <1>4, <1>11, <1>12, <1>13, <1>14, <1>15, <1>16 DEF GameInv
-----------------------------------------------------------------------------
\* Within a step the run goes on, and the frame is counted.
LEMMA WithinAStep ==
  ASSUME GameInv, phase > 0
  PROVE  /\ steps > 0 /\ ~Complete /\ mode # "menu" /\ (Live \/ mode = "replay")
         /\ (Live => mode # "replay") /\ (Live => Run) /\ frames <= MaxFrames /\ frames \in Nat
         /\ (Live => frames > 0) /\ game.wave > 0 /\ before.score \in Nat
         /\ before.wave \in Nat /\ before.control \in BOOLEAN
<1>1. /\ steps > 0 /\ ~Complete /\ mode # "menu" /\ (Live \/ mode = "replay")
      /\ (Live => mode # "replay")
  BY DEF GameInv, ModeFits
<1>2. (Live => Run) /\ frames <= MaxFrames /\ (Live => frames > 0) /\ game.wave > 0
  BY <1>1 DEF GameInv, FramesFit, WaveFits, Run
<1>3. /\ frames \in Nat /\ before.score \in Nat /\ before.wave \in Nat
      /\ before.control \in BOOLEAN
  BY DEF GameInv, GameTypeOK
<1>4. QED
  BY <1>1, <1>2, <1>3

\* A bullet, a shot or a saucer hits something.
LEMMA HitStep ==
  ASSUME GameInv, NEW p \in 1 .. 4, Collide(p)
  PROVE  GameInv'
<1>1. /\ phase \in 1 .. p /\ phase > 0 /\ phase' = p /\ phase' > 0 /\ phase' \in 0 .. 5
      /\ mode' = mode
      /\ UNCHANGED <<hidden, offered, waiting, pending, shown, steps, before, frames, tape,
                     refused, Live, Complete, Run>>
  BY DEF Collide, setting, recording, Live, Complete, Run
<1>2. Scores(game, game')
  BY CollisionScores DEF Collide, GameInv
<1>3. GameFits(game') /\ SameShip(game, game') /\ SameRun(game, game')
  BY <1>2 DEF Scores
<1>4. /\ game.lives \in Nat /\ game'.lives \in Nat /\ game'.lives >= game.lives
      /\ game' \in GameRecord /\ Total(game'.asteroids) <= AsteroidCap
  BY <1>2, <1>3 DEF Scores, GameInv, GameFits, GameRecord
<1>5. GameTypeOK'
  BY <1>1, <1>4 DEF GameInv, GameTypeOK
<1>6. ModeFits' /\ WaveFits' /\ TapeHoldsTheRun'
  BY <1>1, <1>3 DEF GameInv, ModeFits, WaveFits, TapeHoldsTheRun, SameRun
<1>7. FramesFit'
  BY <1>1 DEF GameInv, FramesFit
<1>8. ShipFits'
  BY <1>1, <1>3 DEF GameInv, ShipFits, SameShip, SameRun
<1>9. RefusedFits'
  BY <1>1, <1>3, <1>4 DEF GameInv, RefusedFits, SameRun
<1>10. StepFits'
  <2>1. SUFFICES ASSUME Live, Live' PROVE StepFits'
    BY <1>1 DEF StepFits
  <2> DEFINE h == game'
  <2>2. /\ Scored(before, game) /\ game.wave = before.wave
        /\ game.cooldown = ExpectedCooldown(before, game)
        /\ game.latch = ExpectedLatch(before, game)
        /\ ~before.control /\ game.control => game.safe > 0
        /\ before.control /\ ~game.control => game.respawn >= RespawnFrames
    BY <1>1, <2>1 DEF GameInv, StepFits
  <2>3. SameShip(game, h) /\ SameRun(game, h) /\ Scores(game, h)
    BY <1>2, <1>3
  <2> HIDE DEF h
  <2>4. Scored(before, h)
    BY <1>1, <2>2, <2>3, WithinAStep, ScoredByCollision DEF GameInv
  <2>5. h.cooldown = ExpectedCooldown(before, h) /\ h.latch = ExpectedLatch(before, h)
    BY <2>2, <2>3 DEF SameShip, SameRun, ExpectedCooldown, ExpectedLatch, Died
  <2>6. /\ h.wave = before.wave /\ (~before.control /\ h.control => h.safe > 0)
        /\ (before.control /\ ~h.control => h.respawn >= RespawnFrames)
    BY <2>2, <2>3 DEF SameShip, SameRun
  <2>7. QED
    BY <1>1, <2>4, <2>5, <2>6 DEF StepFits, h
<1>11. QED
  BY <1>3, <1>5, <1>6, <1>7, <1>8, <1>9, <1>10 DEF GameInv

\* The ship is hit.
LEMMA ShipHitStep ==
  ASSUME GameInv, Collide(5)
  PROVE  GameInv'
<1>1. /\ phase > 0 /\ phase' = 5
      /\ mode' = (IF game'.over /\ mode # "replay" THEN "game-over" ELSE mode)
      /\ UNCHANGED <<hidden, offered, waiting, pending, shown, steps, before, frames, tape,
                     refused, Live, Complete>>
  BY DEF Collide, setting, recording, Live, Complete
<1>2. game' \in ShipHit(game)
  BY DEF Collide, Kind
<1>3. /\ GameFits(game') /\ game.control /\ ~(game.safe > 0)
      /\ ~game'.control /\ game'.cooldown = 0 /\ ~game'.latch /\ game'.respawn >= RespawnFrames
      /\ game'.over => game.over \/ game'.respawn = NeverFrames
      /\ game'.wave = game.wave /\ game'.score = game.score
      /\ Total(game'.bullets) <= Total(game.bullets)
  BY <1>2, ShipHitFits DEF GameInv
<1>4. /\ game' \in GameRecord /\ Total(game'.asteroids) <= AsteroidCap
      /\ game'.latch \in BOOLEAN /\ game'.over \in BOOLEAN /\ game'.control \in BOOLEAN
  BY <1>3 DEF GameFits, GameRecord
<1>5. /\ mode # "menu" /\ (Live \/ mode = "replay") /\ (Live => mode # "replay")
      /\ (Live => Run) /\ frames \in Nat /\ (Live => frames > 0) /\ frames <= MaxFrames
      /\ steps > 0 /\ ~Complete /\ game.wave > 0 /\ before.control \in BOOLEAN
  BY <1>1, WithinAStep
<1>6. Live => ~game.over
  BY <1>3, <1>5 DEF GameInv, ShipFits
<1>7. /\ mode' \in {"playing", "paused", "game-over", "replay"}
      /\ (mode' = mode \/ (mode' = "game-over" /\ Live)) /\ (Live => mode' # "replay")
      /\ (~Live => mode' = mode)
  <2>1. mode \in {"menu", "playing", "paused", "game-over", "replay"}
    BY DEF GameInv, GameTypeOK
  <2>2. QED
    BY <1>1, <1>5, <2>1
<1>8. GameTypeOK'
  BY <1>1, <1>4, <1>7 DEF GameInv, GameTypeOK
<1>9. ModeFits' /\ WaveFits'
  BY <1>1, <1>3, <1>5, <1>7 DEF GameInv, ModeFits, WaveFits
<1>10. FramesFit'
  BY <1>1, <1>5 DEF GameInv, FramesFit, Run
<1>11. ShipFits'
  BY <1>1, <1>3, <1>5, <1>6, GameBounds DEF ShipFits, Run
<1>12. StepFits'
  <2>1. SUFFICES ASSUME Live, Live' PROVE StepFits'
    BY <1>1 DEF StepFits
  <2> DEFINE h == game'
  <2>2. /\ Scored(before, game) /\ game.wave = before.wave
        /\ ~before.control /\ game.control => game.safe > 0
    BY <1>1, <2>1 DEF GameInv, StepFits
  <2>3. before.control
    BY <1>3, <1>5, <2>2
  <2>4. Scored(before, h)
    <3>1. Total(h.bullets) \in Nat /\ Total(game.bullets) \in Nat
      BY <1>3, CountsAreNumbers DEF GameInv, GameFits
    <3>2. h.score = game.score /\ Total(h.bullets) <= Total(game.bullets) /\ BulletLimit \in Nat
      BY <1>3, GameBounds
    <3> HIDE DEF h
    <3>3. QED
      BY <2>2, <3>1, <3>2 DEF Scored
  <2>5. /\ h.wave = before.wave /\ h.wave \in Nat /\ ~h.control /\ h.cooldown = 0
        /\ h.latch = FALSE /\ h.respawn >= RespawnFrames
    BY <1>3, <1>4, <2>2 DEF GameRecord
  <2> HIDE DEF h
  <2>6. Died(before, h)
    BY <2>3, <2>5 DEF Died
  <2>7. h.cooldown = ExpectedCooldown(before, h) /\ h.latch = ExpectedLatch(before, h)
    BY <2>5, <2>6 DEF ExpectedCooldown, ExpectedLatch
  <2>8. QED
    BY <1>1, <2>4, <2>5, <2>7 DEF StepFits, h
<1>13. RefusedFits' /\ TapeHoldsTheRun'
  <2>1. Live => refused = {}
    BY <1>5, <1>6 DEF GameInv, RefusedFits
  <2>2. RefusedFits'
    BY <1>1, <2>1 DEF RefusedFits, Run
  <2>3. TapeHoldsTheRun'
    BY <1>1, <1>5 DEF GameInv, TapeHoldsTheRun
  <2>4. QED
    BY <2>2, <2>3
<1>14. QED
  BY <1>3, <1>8, <1>9, <1>10, <1>11, <1>12, <1>13 DEF GameInv

\* The game as the step leaves it: the next wave, when nothing is left of this one.
LEMMA EndOfStep ==
  ASSUME GameInv, EndStep
  PROVE  /\ GameFits(game') /\ game'.over = game.over /\ game'.lives = game.lives
         /\ game'.score = game.score
         /\ \/ game' = game
            \/ /\ game'.wave = game.wave + 1 /\ game'.control /\ game'.cooldown = 0
               /\ ~game'.latch /\ Total(game'.asteroids) = OfWave(WaveAsteroids, game'.wave)
               /\ Total(game'.saucers) = 0 /\ (Live => ~game'.over)
<1>1. GameFits(game) /\ phase > 0
  BY DEF GameInv, EndStep
<1>2. CASE game' = game
  BY <1>1, <1>2
<1>3. CASE game' # game
  <2>1. /\ game' = SpawnWave(game) /\ Total(game.asteroids) = 0 /\ Total(game.saucers) = 0
        /\ mode = "playing" \/ mode = "replay"
    BY <1>3 DEF EndStep
  <2>2. Live => ~game.over
    BY <1>1, <2>1, WithinAStep DEF GameInv, ShipFits
  <2>3. QED
    BY <1>1, <2>1, <2>2, WaveSpawned
<1>4. QED
  BY <1>2, <1>3
-----------------------------------------------------------------------------
\* The step ends, and the verifier judges it.
LEMMA EndStepStep ==
  ASSUME GameInv, EndStep
  PROVE  GameInv'
<1>1. /\ phase > 0 /\ phase' = 0 /\ steps' = steps - 1 /\ before' = Between
      /\ shown' = (IF Live THEN shown ELSE <<shown[1] - 1>>)
      /\ UNCHANGED <<hidden, offered, waiting, pending, mode, frames, tape>>
  BY DEF EndStep, setting
<1>2. /\ steps > 0 /\ ~Complete /\ mode # "menu" /\ (Live \/ mode = "replay")
      /\ (Live => mode # "replay") /\ (Live => Run) /\ frames <= MaxFrames /\ frames \in Nat
      /\ (Live => frames > 0) /\ game.wave > 0 /\ before.wave \in Nat
  BY <1>1, WithinAStep
<1>3. /\ GameFits(game') /\ game'.over = game.over /\ game'.lives = game.lives
      /\ game'.score = game.score
      /\ \/ game' = game
         \/ /\ game'.wave = game.wave + 1 /\ game'.control /\ game'.cooldown = 0
            /\ ~game'.latch /\ Total(game'.asteroids) = OfWave(WaveAsteroids, game'.wave)
            /\ Total(game'.saucers) = 0 /\ (Live => ~game'.over)
  BY EndOfStep
<1>4. /\ game \in GameRecord /\ game' \in GameRecord /\ game.wave \in Nat /\ game'.wave \in Nat
      /\ game'.wave > 0 /\ Total(game'.asteroids) <= AsteroidCap /\ game'.latch \in BOOLEAN
  BY <1>2, <1>3 DEF GameInv, GameFits, GameRecord
<1>5. ~Live => \E n \in 1 .. MaxFrames : /\ shown[1] = n /\ shown' = <<n - 1>>
                                         /\ shown'[1] = n - 1 /\ n - 1 \in 0 .. MaxFrames
  <2>1. SUFFICES ASSUME ~Live
                 PROVE  \E n \in 1 .. MaxFrames : /\ shown[1] = n /\ shown' = <<n - 1>>
                                                  /\ shown'[1] = n - 1 /\ n - 1 \in 0 .. MaxFrames
    OBVIOUS
  <2>2. PICK n \in 0 .. MaxFrames : shown = <<n>> /\ shown[1] = n
    BY <2>1, ShownIsOneNumber DEF GameInv
  <2>3. n # 0
    BY <1>2, <2>2 DEF Complete
  <2>4. n \in 1 .. MaxFrames /\ n - 1 \in 0 .. MaxFrames
    BY <2>3, GameBounds
  <2>5. shown' = <<n - 1>>
    BY <1>1, <2>1, <2>2
  <2>6. shown'[1] = n - 1
    BY <2>5
  <2>7. QED
    BY <2>2, <2>4, <2>5, <2>6
<1>6. /\ Live' = Live
      /\ shown' = <<>> \/ \E n \in 0 .. MaxFrames : shown' = <<n>>
  <2>1. CASE Live
    BY <1>1, <2>1 DEF Live
  <2>2. CASE ~Live
    <3>1. PICK n \in 0 .. MaxFrames : shown' = <<n>>
      BY <1>5, <2>2
    <3>2. shown' # <<>>
      BY <3>1
    <3>3. QED
      BY <2>2, <3>1, <3>2 DEF Live
  <2>3. QED
    BY <2>1, <2>2
<1>7. /\ steps' \in 0 .. MaxSubsteps /\ frames' + steps' <= MaxFrames + MaxSubsteps
  BY <1>1, <1>2, GameBounds DEF GameInv, GameTypeOK, FramesFit
<1>8. GameTypeOK'
  <2>1. /\ phase' \in 0 .. 5
        /\ before' \in [score : Nat, wave : Nat, control : BOOLEAN, cooldown : 0 .. CooldownFrames,
                        latch : BOOLEAN, bullets : 0 .. BulletLimit, fire : BOOLEAN]
    BY <1>1, BetweenFits
  <2>2. QED
    BY <1>1, <1>4, <1>6, <1>7, <2>1 DEF GameInv, GameTypeOK
<1>9. ModeFits' /\ WaveFits' /\ StepFits' /\ TapeHoldsTheRun'
  <2>1. ModeFits' /\ WaveFits' /\ StepFits'
    BY <1>1, <1>2, <1>4, <1>6 DEF GameInv, ModeFits, WaveFits, StepFits
  <2>2. TapeHoldsTheRun'
    BY <1>1, <1>6 DEF GameInv, TapeHoldsTheRun
  <2>3. QED
    BY <2>1, <2>2
<1>10. FramesFit'
  <2>1. ~Live' => frames' + shown'[1] <= MaxFrames
    <3>1. SUFFICES ASSUME ~Live PROVE frames' + shown'[1] <= MaxFrames
      BY <1>6
    <3>2. PICK n \in 1 .. MaxFrames : shown[1] = n /\ shown'[1] = n - 1
      BY <1>5, <3>1
    <3>3. frames + n <= MaxFrames + 1
      BY <1>1, <3>1, <3>2 DEF GameInv, FramesFit
    <3>4. QED
      BY <1>1, <1>2, <3>2, <3>3, GameBounds
  <2>2. QED
    BY <1>1, <1>2, <1>6, <1>7, <2>1, GameBounds DEF FramesFit, Run
<1>11. ShipFits'
  BY <1>1, <1>2, <1>3, <1>6 DEF GameInv, ShipFits, Run
<1>12. RefusedFits'
  <2>1. SUFFICES ASSUME Live, Run PROVE RefusedFits'
    BY <1>1, <1>6 DEF RefusedFits, Run
  <2>2. /\ Scored(before, game) /\ game.wave = before.wave
        /\ game.cooldown = ExpectedCooldown(before, game)
        /\ game.latch = ExpectedLatch(before, game)
    BY <1>1, <2>1 DEF GameInv, StepFits
  <2>3. refused' = refused \cup BrokenByTheStep(before, game') \cup BrokenInTheGame(game')
    BY <2>1 DEF EndStep
  <2> DEFINE h == game'
  <2>4. GameFits(h) /\ h.wave > 0
    BY <1>3, <1>4
  <2>5. h.score - before.score \in LegalScoreDeltas
    BY <1>1, <1>3, <2>2, WithinAStep, ScoreIsLegal
  <2>6. \/ h.wave = before.wave
        \/ /\ h.wave = before.wave + 1
           /\ Total(h.asteroids) = OfWave(WaveAsteroids, h.wave) /\ Total(h.saucers) = 0
    BY <1>3, <2>2
  <2>7. h.cooldown = ExpectedCooldown(before, h) /\ h.latch = ExpectedLatch(before, h)
    <3>1. CASE h = game
      BY <2>2, <3>1
    <3>2. CASE h # game
      <4>1. h.wave = before.wave + 1 /\ h.cooldown = 0 /\ h.latch = FALSE
        BY <1>3, <1>4, <2>2, <3>2
      <4> HIDE DEF h
      <4>2. QED
        BY <4>1 DEF ExpectedCooldown, ExpectedLatch
    <3>3. QED
      BY <3>1, <3>2
  <2> HIDE DEF h
  <2>8. /\ BrokenByTheStep(before, h) = {}
        /\ BrokenInTheGame(h) \subseteq {"GlobalModeLivesConsistency"}
        /\ BrokenInTheGame(h) # {} => h.over /\ h.lives > 0
    BY <1>2, <2>4, <2>5, <2>6, <2>7, StepIsLegal
  <2>9. /\ refused \subseteq {"GlobalModeLivesConsistency"}
        /\ refused # {} => h.over /\ h.lives > 0
    BY <1>3, <2>1 DEF GameInv, RefusedFits, h
  <2>10. /\ refused' \subseteq {"GlobalModeLivesConsistency"}
         /\ refused' # {} => h.over /\ h.lives > 0
    BY <2>3, <2>8, <2>9 DEF h
  <2>11. QED
    BY <2>10 DEF RefusedFits, h
<1>13. QED
  BY <1>3, <1>8, <1>9, <1>10, <1>11, <1>12 DEF GameInv

\* The tape that is shown has ended.
LEMMA ReplayEndsStep ==
  ASSUME GameInv, ReplayEnds
  PROVE  GameInv'
<1>1. /\ phase = 0 /\ phase' = 0 /\ steps' = 0 /\ mode = "replay" /\ mode' = "game-over"
      /\ UNCHANGED <<hidden, offered, waiting, pending, shown, game, before, frames, tape,
                     refused, Live>>
  BY DEF ReplayEnds, setting, recording, Live
<1>2. ~Live /\ ~Live'
  BY <1>1 DEF GameInv, ModeFits
<1>3. frames \in 0 .. (MaxFrames + MaxSubsteps)
  BY DEF GameInv, GameTypeOK
<1>4. GameTypeOK' /\ GameFits(game')
  BY <1>1, GameBounds DEF GameInv, GameTypeOK
<1>5. ModeFits' /\ WaveFits' /\ ShipFits' /\ StepFits' /\ RefusedFits' /\ TapeHoldsTheRun'
  BY <1>1, <1>2
  DEF GameInv, ModeFits, WaveFits, ShipFits, StepFits, RefusedFits, TapeHoldsTheRun, Run
<1>6. FramesFit'
  BY <1>1, <1>2, <1>3, GameBounds DEF GameInv, FramesFit, Run
<1>7. QED
  BY <1>4, <1>5, <1>6 DEF GameInv

\* The player starts, with a seed at once and without one in the menu.
LEMMA PlayerStartsStep ==
  ASSUME GameInv, PlayerStarts
  PROVE  GameInv'
<1>1. /\ Idle /\ Live /\ StartNewGame
      /\ UNCHANGED <<hidden, offered, steps, phase, before>>
      /\ hidden' \in BOOLEAN /\ offered' \in BOOLEAN /\ pending \in BOOLEAN
  BY DEF PlayerStarts, CanStart, Live, GameInv, GameTypeOK
<1>2. CASE offered
  <2> DEFINE film == <<>>
  <2>1. film = <<>> /\ NewGame(film)
    BY <1>1, <1>2 DEF StartNewGame
  <2> HIDE DEF film
  <2>2. QED
    BY <1>1, <2>1, NewGameStep
<1>3. CASE ~offered
  <2>1. /\ mode' = "menu" /\ waiting' = TRUE
        /\ UNCHANGED <<pending, shown, game, recording, steps, phase, before>>
    BY <1>1, <1>3 DEF StartNewGame
  <2>2. QED
    BY <1>1, <2>1, ModeStep
<1>4. QED
  BY <1>2, <1>3

\* The page gets a seed, or loses the one it has.
LEMMA SeedStep ==
  ASSUME GameInv, NEW seed \in BOOLEAN, SetCurrentSeed(seed)
  PROVE  GameInv'
<1>1. /\ Idle /\ offered' = seed /\ UNCHANGED <<hidden, steps, phase, before>>
      /\ hidden' \in BOOLEAN /\ offered' \in BOOLEAN /\ {waiting, pending} \subseteq BOOLEAN
  BY DEF SetCurrentSeed, GameInv, GameTypeOK
<1>2. CASE seed /\ waiting
  <2> DEFINE film == <<>>
  <2>1. film = <<>> /\ NewGame(film)
    BY <1>2 DEF SetCurrentSeed
  <2> HIDE DEF film
  <2>2. QED
    BY <1>1, <2>1, NewGameStep
<1>3. CASE ~(seed /\ waiting)
  <2>1. UNCHANGED <<mode, waiting, pending, shown, game, recording>>
    BY <1>3 DEF SetCurrentSeed
  <2>2. QED
    BY <1>1, <2>1, ModeStep
<1>4. QED
  BY <1>2, <1>3

\* The player or the page pauses and goes on, and the page waits for a tape to show.
LEMMA PauseStep ==
  ASSUME GameInv, NEW b \in BOOLEAN, Pause(b) \/ Resume(b) \/ SetReplayPending
  PROVE  GameInv'
<1>1. {hidden, offered, waiting, pending} \subseteq BOOLEAN
  BY DEF GameInv, GameTypeOK
<1>2. /\ Idle /\ UNCHANGED <<steps, phase, before, game, recording, shown>>
      /\ {hidden', offered', waiting', pending'} \subseteq BOOLEAN
      /\ mode' = mode \/ {mode, mode'} = {"playing", "paused"}
  <2>1. CASE Pause(b)
    BY <1>1, <2>1 DEF Pause
  <2>2. CASE Resume(b)
    BY <1>1, <2>2 DEF Resume
  <2>3. CASE SetReplayPending
    BY <1>1, <2>3 DEF SetReplayPending
  <2>4. QED
    BY <2>1, <2>2, <2>3
<1>3. QED
  BY <1>2, ModeStep
-----------------------------------------------------------------------------
\* The invariant holds when the page opens.
LEMMA GameStarts == GameInit => GameInv
<1> SUFFICES ASSUME GameInit PROVE GameInv
  OBVIOUS
<1>1. /\ mode = "menu" /\ pending = FALSE /\ shown = <<>> /\ steps = 0 /\ phase = 0
      /\ hidden = FALSE /\ waiting = FALSE /\ offered \in BOOLEAN
      /\ game = FreshGame /\ before = Between
      /\ frames = 0 /\ tape = 0 /\ refused = {}
  BY DEF GameInit
<1>2. GameFits(game)
  BY <1>1, FreshGameFits
<1>3. GameTypeOK
  <2>1. game \in GameRecord /\ Total(game.asteroids) <= AsteroidCap
    BY <1>2 DEF GameFits
  <2>2. /\ steps \in 0 .. MaxSubsteps /\ frames \in 0 .. (MaxFrames + MaxSubsteps)
        /\ tape \in 0 .. MaxFrames
    BY <1>1, GameBounds
  <2>3. before \in [score : Nat, wave : Nat, control : BOOLEAN, cooldown : 0 .. CooldownFrames,
                    latch : BOOLEAN, bullets : 0 .. BulletLimit, fire : BOOLEAN]
    BY <1>1, BetweenFits
  <2>4. {hidden, offered, waiting, pending} \subseteq BOOLEAN
    BY <1>1
  <2>5. mode \in {"menu", "playing", "paused", "game-over", "replay"} /\ phase \in 0 .. 5
    BY <1>1
  <2>6. QED
    BY <1>1, <2>1, <2>2, <2>3, <2>4, <2>5 DEF GameTypeOK
<1>4. FramesFit
  BY <1>1, GameBounds DEF FramesFit, Run, Live
<1>5. ModeFits /\ WaveFits /\ ShipFits /\ StepFits /\ RefusedFits /\ TapeHoldsTheRun
  BY <1>1 DEF ModeFits, WaveFits, ShipFits, StepFits, RefusedFits, TapeHoldsTheRun, Run, Live
<1>6. QED
  BY <1>2, <1>3, <1>4, <1>5 DEF GameInv

\* No step of the player, of the page or of the simulation breaks the invariant.
LEMMA GameGoesOn == GameInv /\ [GameNext]_gameVars => GameInv'
<1> SUFFICES ASSUME GameInv, [GameNext]_gameVars PROVE GameInv'
  OBVIOUS
<1>1. CASE PlayerStarts
  BY <1>1, PlayerStartsStep
<1>2. CASE SetReplayPending
  BY <1>2, PauseStep
<1>3. CASE ResetToMenu
  BY <1>3, ResetToMenuStep
<1>4. ASSUME NEW b \in BOOLEAN, SetCurrentSeed(b) \/ Pause(b) \/ Resume(b)
      PROVE  GameInv'
  BY <1>4, SeedStep, PauseStep
<1>5. ASSUME NEW film \in Films, LoadReplay(film)
      PROVE  GameInv'
  <2>1. /\ Idle /\ NewGame(film) /\ UNCHANGED <<steps, phase, before>>
        /\ hidden' \in BOOLEAN /\ offered' \in BOOLEAN
    BY <1>5 DEF LoadReplay, GameInv, GameTypeOK
  <2>2. QED
    BY <2>1, NewGameStep
<1>6. ASSUME NEW n \in 1 .. MaxSubsteps, AnimationFrame(n)
      PROVE  GameInv'
  BY <1>6, AnimationFrameStep
<1>7. CASE FrameCap
  BY <1>7, FrameCapStep
<1>8. CASE ReplayEnds
  BY <1>8, ReplayEndsStep
<1>9. CASE EndStep
  BY <1>9, EndStepStep
<1>10. ASSUME NEW b \in BOOLEAN, Step(b)
       PROVE  GameInv'
  BY <1>10, StepStep
<1>11. ASSUME NEW p \in 1 .. 5, Collide(p)
       PROVE  GameInv'
  <2>1. p \in 1 .. 4 \/ p = 5
    OBVIOUS
  <2>2. QED
    BY <1>11, <2>1, HitStep, ShipHitStep
<1>12. CASE UNCHANGED gameVars
  <2>1. UNCHANGED <<mode, hidden, offered, waiting, pending, shown, steps, phase, game, before,
                    frames, tape, refused, Live, Complete>>
    BY <1>12 DEF gameVars, Live, Complete
  <2>2. GameTypeOK' /\ GameFits(game')
    BY <2>1 DEF GameInv, GameTypeOK
  <2>3. ModeFits' /\ FramesFit' /\ WaveFits'
    BY <2>1 DEF GameInv, ModeFits, FramesFit, WaveFits, Run
  <2>4. ShipFits' /\ StepFits' /\ RefusedFits' /\ TapeHoldsTheRun'
    BY <2>1 DEF GameInv, ShipFits, StepFits, RefusedFits, TapeHoldsTheRun, Run
  <2>5. QED
    BY <2>2, <2>3, <2>4 DEF GameInv
<1>13. QED
  BY <1>1, <1>2, <1>3, <1>4, <1>5, <1>6, <1>7, <1>8, <1>9, <1>10, <1>11, <1>12 DEF GameNext

LEMMA GameInductive == GameSpec => []GameInv
BY GameStarts, GameGoesOn, PTL DEF GameSpec

\* The counters of the game and of the page stay within their caps, whatever hits whatever.
THEOREM GameTypeCorrect == GameSpec => []GameTypeOK
<1>1. GameInv => GameTypeOK
  BY DEF GameInv
<1>2. QED
  BY <1>1, GameInductive, PTL

\* The recorder has the input of every frame of the run, and no more: the length of the tape is
\* the frame count, which may pass the cap where the tape may not.
THEOREM TapesHoldTheRun == GameSpec => []TapeHoldsTheRun
<1>1. GameInv => TapeHoldsTheRun
  BY DEF GameInv
<1>2. QED
  BY <1>1, GameInductive, PTL

\* The verifier takes the tape of every run that is over, but for the run in which a bullet
\* brings a life after the end.
THEOREM RunsAreRefusedOnlyForALateLife == GameSpec => []RefusedOnlyForALateLife
<1>1. GameInv => RefusedOnlyForALateLife
  <2> SUFFICES ASSUME GameInv, mode = "game-over", Live, ~Accepted
               PROVE  /\ refused = {"GlobalModeLivesConsistency"}
                      /\ game.over /\ game.lives > 0
    BY DEF RefusedOnlyForALateLife
  <2>1. Run
    BY DEF Run
  <2>2. tape = Smaller(frames, MaxFrames) /\ frames > 0 /\ frames \in Nat
    BY <2>1 DEF GameInv, TapeHoldsTheRun, FramesFit, GameTypeOK
  <2>3. LengthFits(tape)
    BY <2>2, GameBounds DEF LengthFits, Smaller
  <2>4. refused # {}
    BY <2>3 DEF Accepted
  <2>5. QED
    BY <2>1, <2>4 DEF GameInv, RefusedFits
<1>2. QED
  BY <1>1, GameInductive, PTL
=============================================================================
