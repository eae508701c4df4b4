--------------------------- MODULE ClaimPipeline ---------------------------
(***************************************************************************)
(* The claim side of the Cloudflare Worker: what happens between a proof   *)
(* and the reward it is paid.  The durable object queues a claim for every *)
(* proof (worker/durable/coordinator.ts), one queue consumer submits it    *)
(* through a relayer (worker/queue/consumer.ts, worker/claim/direct.ts),   *)
(* the score contract accepts or refuses it, and cron revives claims that  *)
(* came to nothing.                                                        *)
(*                                                                         *)
(* As in ProofCoordinator an action is the code between two awaits of the  *)
(* network.  A handler of the durable object that awaits one keeps the     *)
(* record it loaded and saves it afterwards, whatever was saved meanwhile: *)
(* enqueueClaimJob() and enrichBoundlessCycles() do.                       *)
(*                                                                         *)
(* The jobs are those of one claimant and one seed: others never meet.     *)
(***************************************************************************)
EXTENDS Naturals, FiniteSets

CONSTANTS
  Jobs,
  Score,          \* the score that each job proves
  MaxDeliveries,  \* MAX_QUEUE_RETRIES, which is also max_retries of the queue
  MaxAuto,        \* MAX_CLAIM_AUTO_RETRIES
  MaxMessages,    \* bound: claim messages ever sent
  Faults,         \* bound: the events that may happen, each of them once
  MaxFaults       \* bound: how many of them happen in one behaviour

ASSUME ScoreAssumption == Score \in [Jobs -> Nat]
ASSUME BoundAssumption ==
  /\ {MaxDeliveries, MaxAuto, MaxMessages, MaxFaults} \subseteq Nat

VARIABLES
  rec,       \* the jobs table, as far as claims go
  message,   \* the claim messages, from the call that sends them to the ack
  call,      \* the enqueueClaimJob() call that waits for the send of a message
  enriching, \* the enrichBoundlessCycles() call that waits for the indexer
  corrupt,   \* jobs whose proof artifact is unusable
  pending,   \* jobs with a transaction that is neither applied nor dropped
  landed,    \* jobs whose journal the contract has accepted
  chain,     \* what the contract says to the seed of these jobs
  indexed,   \* jobs whose transaction is in the replay indexes
  events     \* the bounded events that have happened, and overwrites

vars == <<rec, message, call, enriching, corrupt, pending, landed, chain, indexed, events>>
world == <<corrupt, pending, landed, chain, indexed>>

Messages == 1 .. MaxMessages
Events == {"again", "retry", "cancel", "enrich", "crash", "restart", "false", "pause",
           "lost", "slow", "recrash", "overwrite"}
ErrorClass == {"none", "other", "final"}

JobRecord ==
  [proof : {"running", "succeeded", "failed"},
   claim : {"queued", "submitting", "retrying", "failed", "succeeded"},
   tx : {"none", "hash", "prior", "superseded"}, \* claim.txHash: a chain hash or a reason
   last : ErrorClass,    \* claim.lastError; final: shouldSkipAutomaticClaimRetry()
   tried : ErrorClass,   \* the error of the latest attempt that has one
   open : BOOLEAN,       \* is an attempt in progress?
   attempts : Nat]       \* claimAttempts.length

NoMessage == [job |-> "none", at |-> "unsent", attempts |-> 0, outcome |-> "none"]
MessageRecord ==
  [job : Jobs \cup {"none"},
   at : {"unsent", "unpinning", "sending", "waiting", "begun", "answered", "recorded",
         "dead", "gone"},
   attempts : Nat,
   outcome : {"none", "retry", "other", "final", "hash", "prior", "superseded"}]

New == [proof |-> "running", claim |-> "queued", tx |-> "none", last |-> "none",
        tried |-> "none", open |-> FALSE, attempts |-> 0]
NoCall == [waits |-> FALSE, snap |-> New]
CallRecord == [waits : BOOLEAN, snap : JobRecord]

TypeOK ==
  /\ rec \in [Jobs -> JobRecord]
  /\ message \in [Messages -> MessageRecord]
  /\ \A m \in Messages : message[m].at # "unsent" => message[m].job \in Jobs
  /\ call \in [Messages -> CallRecord]
  /\ enriching \in [Jobs -> CallRecord]
  /\ {corrupt, pending, landed, indexed} \subseteq SUBSET Jobs
  /\ chain \in {"open", "paused", "expired"}
  /\ events \subseteq Events

Init ==
  /\ rec = [j \in Jobs |-> New]
  /\ message = [m \in Messages |-> NoMessage]
  /\ call = [m \in Messages |-> NoCall]
  /\ enriching = [j \in Jobs |-> NoCall]
  /\ corrupt \in {{}} \cup {{j} : j \in Jobs}
  /\ pending = {} /\ landed = {} /\ indexed = {}
  /\ chain = "open"
  /\ events = {}

MayHappen(e) == e \in Faults \ events /\ Cardinality(events \cap Faults) < MaxFaults
Happens(e) == MayHappen(e) /\ events' = events \cup {e}

\* A consumer that has crashed may crash once more.
Crashes ==
  \/ Happens("crash")
  \/ {"crash", "recrash"} \cap events = {"crash"} /\ events' = events \cup {"recrash"}

\* Does saving the record that was loaded for j undo what was saved meanwhile?
Overwrites(j, loaded) == IF rec[j] = loaded THEN {} ELSE {"overwrite"}
-----------------------------------------------------------------------------
(* Writing a claim: what the mark...() calls of the durable object save.  *)

\* closeActiveClaimAttempt(); the error of an attempt outlives the attempt.
Closed(r, error) ==
  [r EXCEPT !.open = FALSE, !.tried = IF r.open /\ error # "none" THEN error ELSE @]

Unclaimed(r) == r.proof = "succeeded" /\ r.claim # "succeeded"

\* beginClaimAttempt(): a second delivery goes on with an attempt that was left open.
Begun(r) ==
  [r EXCEPT !.claim = "submitting", !.last = "none", !.open = TRUE,
            !.attempts = IF r.open THEN @ ELSE @ + 1]

ClaimRetry(r, error) ==
  IF Unclaimed(r) THEN [Closed(r, error) EXCEPT !.claim = "retrying", !.last = error] ELSE r

ClaimSucceeded(r, tx) ==
  IF Unclaimed(r)
  THEN [Closed(r, "none") EXCEPT !.claim = "succeeded", !.tx = tx, !.last = "none"]
  ELSE r

\* markClaimFailed(): a claim that has a transaction is promoted instead.
ClaimFailed(r, error) ==
  CASE ~Unclaimed(r) -> r
    [] Unclaimed(r) /\ r.tx # "none" ->
         [Closed(r, "none") EXCEPT !.claim = "succeeded", !.last = "none"]
    [] Unclaimed(r) /\ r.tx = "none" ->
         [Closed(r, error) EXCEPT !.claim = "failed", !.last = error]

\* A claim is queued again; activeAttemptIndex is cleared, the attempt stays open.
Requeued(r) == [r EXCEPT !.claim = "queued", !.last = "none"]

Fresh(m) == message[m].at = "unsent" /\ \A n \in 1 .. (m - 1) : message[n].at # "unsent"

\* Record r is saved for job j, and enqueueClaimJob() loads it and calls send().
SaveAndEnqueue(j, r) ==
  /\ rec' = [rec EXCEPT ![j] = r]
  /\ \E m \in Messages :
       /\ Fresh(m)
       /\ message' = [message EXCEPT ![m] = [NoMessage EXCEPT !.job = j, !.at = "sending"]]
       /\ call' = [call EXCEPT ![m] = [waits |-> TRUE, snap |-> r]]
-----------------------------------------------------------------------------
(* Queueing a claim. *)

\* markSucceeded(), up to the call that unpins the input.  It looks at nothing in
\* the record it overwrites, and two pollers may call it for the same job.
ProofSucceeds(j) ==
  /\ \/ rec[j].proof = "running" /\ UNCHANGED events
     \/ rec[j].proof # "running" /\ Happens("again")
  /\ rec' = [rec EXCEPT ![j] = [Requeued(@) EXCEPT !.proof = "succeeded"]]
  /\ \E m \in Messages :
       /\ Fresh(m)
       /\ message' = [message EXCEPT ![m] = [NoMessage EXCEPT !.job = j, !.at = "unpinning"]]
  /\ UNCHANGED <<call, enriching>> /\ UNCHANGED world

\* enqueueClaimJob() of markSucceeded(), once the input is unpinned.
EnqueueClaimJob(m) ==
  /\ message[m].at = "unpinning"
  /\ IF rec[message[m].job].claim = "succeeded"
     THEN message' = [message EXCEPT ![m].at = "gone"] /\ UNCHANGED call
     ELSE /\ message' = [message EXCEPT ![m].at = "sending"]
          /\ call' = [call EXCEPT ![m] = [waits |-> TRUE, snap |-> rec[message[m].job]]]
  /\ UNCHANGED <<rec, enriching, events>> /\ UNCHANGED world

\* The queue has the message; the caller does not know yet.  Unless the answer is
\* slow, the caller knows before the message is delivered.
SendArrives(m) ==
  /\ message[m].at = "sending"
  /\ message' = [message EXCEPT ![m].at = "waiting"]
  /\ UNCHANGED events \/ Happens("slow")
  /\ UNCHANGED <<rec, call, enriching>> /\ UNCHANGED world

\* send() returns: the record loaded before it is saved.
SendReturns(m) ==
  /\ call[m].waits /\ message[m].at # "sending"
  /\ rec' = [rec EXCEPT ![message[m].job] = [call[m].snap EXCEPT !.claim = "queued"]]
  /\ call' = [call EXCEPT ![m] = NoCall]
  /\ events' = events \cup Overwrites(message[m].job, call[m].snap)
  /\ UNCHANGED <<message, enriching>> /\ UNCHANGED world

\* send() throws, although the queue may have the message.
SendThrows(m) ==
  LET j == message[m].job
      loaded == call[m].snap
      e == IF message[m].at = "sending" THEN "lost" ELSE "false"
  IN /\ call[m].waits /\ MayHappen(e)
     /\ events' = events \cup {e} \cup Overwrites(j, loaded)
     /\ message' = IF e = "lost" THEN [message EXCEPT ![m].at = "gone"] ELSE message
     /\ rec' = [rec EXCEPT ![j] = [loaded EXCEPT !.claim = "failed", !.last = "other"]]
     /\ call' = [call EXCEPT ![m] = NoCall]
     /\ UNCHANGED enriching /\ UNCHANGED world

\* POST /jobs/:id/retry-claim.
RetryFailedClaim(j) ==
  /\ rec[j].proof = "succeeded" /\ rec[j].claim = "failed"
  /\ Happens("retry")
  /\ SaveAndEnqueue(j, Requeued(rec[j]))
  /\ UNCHANGED enriching /\ UNCHANGED world

InHand(m) == message[m].at \in {"begun", "answered", "recorded"}

\* MAX_CLAIM_AUTO_RETRIES and shouldSkipAutomaticClaimRetry().
MayRecover(r) == r.attempts < MaxAuto /\ "final" \notin {r.last, r.tried}

\* Cron: autoRecoverUnfinishedClaims() for one job.  The cooldown of five minutes
\* is longer than a consumer works on a claim (the relayer has 30 seconds).
AutoRecover(j) ==
  LET r == rec[j]
  IN /\ r.proof = "succeeded" /\ r.claim \in {"failed", "retrying", "submitting"}
     /\ MayRecover(r)
     /\ \A m \in Messages : InHand(m) => message[m].job # j
     /\ SaveAndEnqueue(j, Requeued(IF r.claim = "submitting" THEN Closed(r, "other") ELSE r))
     /\ UNCHANGED <<enriching, events>> /\ UNCHANGED world
-----------------------------------------------------------------------------
(* The score contract. *)

Beaten(j) == \E k \in landed : Score[k] >= Score[j]

\* Mutant: a journal that is claimed already counts as a failure.
ContractErrorStrict(j) ==
  CASE chain # "open" \/ j \in landed -> "final"
    [] chain = "open" /\ j \notin landed /\ Beaten(j) -> "superseded"
    [] OTHER -> "none"

\* What submit_score says to the journal of j, in the order of its checks.
ContractError(j) ==
  CASE chain # "open" -> "final"
    [] chain = "open" /\ j \in landed -> "prior"
    [] chain = "open" /\ j \notin landed /\ Beaten(j) -> "superseded"
    [] OTHER -> "none"

Lands(j) == ContractError(j) = "none" /\ landed' = landed \cup {j}

\* A transaction that the relayer had given up on is applied, or dropped.
TxSettles(j) ==
  /\ j \in pending
  /\ pending' = pending \ {j}
  /\ Lands(j) \/ UNCHANGED landed
  /\ UNCHANGED <<rec, message, call, enriching, corrupt, chain, indexed, events>>

\* The contract is paused and unpaused; the seed of the window dies of age.
ChainChanges ==
  /\ \/ chain = "open" /\ chain' = "paused" /\ Happens("pause")
     \/ chain = "paused" /\ chain' = "open" /\ UNCHANGED events
     \/ chain = "open" /\ chain' = "expired" /\ UNCHANGED events
  /\ UNCHANGED <<rec, message, call, enriching, corrupt, pending, landed, indexed>>
-----------------------------------------------------------------------------
(* The consumer of the claim queue: one message at a time. *)

Gone(msg) == [msg EXCEPT !.at = "gone", !.outcome = "none"]

\* Not acked: delivered again, or dead-lettered after max_retries.
Redelivered(msg) ==
  [msg EXCEPT !.at = IF msg.attempts > MaxDeliveries THEN "dead" ELSE "waiting",
              !.outcome = "none"]

\* The consumer acks the message msgs[m], or crashes before it does.
AckIn(msgs, m) ==
  \/ message' = [msgs EXCEPT ![m] = Gone(@)] /\ UNCHANGED events
  \/ message' = [msgs EXCEPT ![m] = Redelivered(@)] /\ Crashes
Ack(m) == AckIn(message, m)

\* Mutant: the indexes are not healed.
IndexOrRetryNever(msgs, m) == AckIn(msgs, m) /\ UNCHANGED indexed

\* persistClaimReplayIndexes(), and what becomes of the message msgs[m].
IndexOrRetry(msgs, m) ==
  \/ indexed' = indexed \cup {msgs[m].job} /\ AckIn(msgs, m)
  \/ /\ msgs[m].attempts < MaxDeliveries
     /\ message' = [msgs EXCEPT ![m] = [Redelivered(@) EXCEPT !.at = "waiting"]]
     /\ UNCHANGED <<indexed, events>>
  \/ msgs[m].attempts >= MaxDeliveries /\ AckIn(msgs, m) /\ UNCHANGED indexed

\* Another job's claim for this seed has succeeded with no lower a score.
Superseded(j) ==
  \E k \in Jobs \ {j} : rec[k].claim = "succeeded" /\ Score[k] >= Score[j]

\* beginClaimAttempt() and the early returns of processClaimQueueMessage().
Deliver(m) ==
  LET j == message[m].job
      msgs == [message EXCEPT ![m].attempts = @ + 1]
  IN /\ message[m].at = "waiting" /\ \A n \in Messages : ~InHand(n)
     /\ "slow" \in events \/ \A n \in Messages : call[n].waits => message[n].job # j
     /\ \/ /\ rec[j].proof # "succeeded"
           /\ AckIn(msgs, m)
           /\ UNCHANGED <<rec, indexed>>
        \/ /\ rec[j].proof = "succeeded" /\ rec[j].claim = "succeeded"
           /\ IF rec[j].tx = "hash" THEN IndexOrRetry(msgs, m)
                                    ELSE AckIn(msgs, m) /\ UNCHANGED indexed
           /\ UNCHANGED rec
        \/ /\ Unclaimed(rec[j])
           /\ rec' = [rec EXCEPT ![j] = Begun(@)]
           /\ message' = [msgs EXCEPT ![m].at = "begun"]
           /\ UNCHANGED <<events, indexed>>
     /\ UNCHANGED <<call, enriching, corrupt, pending, landed, chain>>

SkipSuperseded(m) ==
  LET j == message[m].job
  IN /\ message[m].at = "begun" /\ Superseded(j)
     /\ rec' = [rec EXCEPT ![j] = ClaimSucceeded(@, "superseded")]
     /\ Ack(m)
     /\ UNCHANGED <<call, enriching>> /\ UNCHANGED world

Answer(m, o) == message' = [message EXCEPT ![m].at = "answered", ![m].outcome = o]

\* The artifact cannot be read for now, or is not what was proved.
ReadArtifactFails(m) ==
  LET j == message[m].job
  IN /\ message[m].at = "begun" /\ ~Superseded(j)
     /\ \/ Answer(m, "retry")
        \/ j \in corrupt /\ Answer(m, "final")
     /\ UNCHANGED <<rec, call, enriching, events>> /\ UNCHANGED world

(* What the relayer's errors say: a code, and the kind of sentence it comes with. *)

\* transport: no answer; no_hash: accepted without a hash; no_status: refused without
\* one; busy: it takes no more for now; unknown: any other code, or none.
RelayError ==
  [code : {"transport", "no_hash", "no_status", "busy", "simulation_failed",
           "onchain_failed", "unknown"},
   says : {"claim is refused", "try later", "fee too low", "something else"}]

\* hasFatalClaimIndicator() goes before everything else that a sentence may hold.
RetryableMessage(e) == e.says \in {"try later", "fee too low"}

\* A transaction that failed on the chain is tried again only for its fee.
RetryableOnchainFailure(e) == e.code = "onchain_failed" /\ e.says = "fee too low"

\* An opaque failure of the simulation, without the number of a contract error.
RetryableExecution(e) ==
  e.code = "busy" \/ (e.code \in {"simulation_failed", "unknown"} /\ RetryableMessage(e))

Classified(e) ==
  IF \/ e.code \in {"transport", "no_hash"}
     \/ RetryableOnchainFailure(e) \/ RetryableExecution(e)
  THEN "retry" ELSE "other"

\* Nothing is known of the transaction: it may be applied all the same.
MayStillLand(e) == e.code \in {"transport", "no_hash", "unknown"}

\* submitClaim(): the simulation refuses the journal, the transaction is applied,
\* or the relayer fails.
SubmitClaim(m) ==
  LET j == message[m].job
  IN /\ message[m].at = "begun" /\ ~Superseded(j) /\ j \notin corrupt
     /\ \/ /\ ContractError(j) # "none"
           /\ Answer(m, ContractError(j))
           /\ UNCHANGED <<pending, landed>>
        \/ Lands(j) /\ Answer(m, "hash") /\ UNCHANGED pending
        \/ \E e \in RelayError :
             /\ Answer(m, Classified(e))
             /\ pending' = pending \/ (MayStillLand(e) /\ pending' = pending \cup {j})
             /\ UNCHANGED landed
     /\ UNCHANGED <<rec, call, enriching, corrupt, chain, indexed, events>>

\* A call to the durable object throws: handleClaimQueueBatch() catches it.
ConsumerThrows(m) ==
  /\ message[m].at \in {"begun", "answered"}
  /\ Answer(m, "retry")
  /\ UNCHANGED <<rec, call, enriching, events>> /\ UNCHANGED world

SettleSucceeded(m) ==
  LET o == message[m].outcome
      j == message[m].job
  IN /\ message[m].at = "answered" /\ o \in {"hash", "prior", "superseded"}
     /\ rec' = [rec EXCEPT ![j] = ClaimSucceeded(@, o)]
     /\ IF o = "hash"
        THEN message' = [message EXCEPT ![m].at = "recorded"] /\ UNCHANGED events
        ELSE Ack(m)
     /\ UNCHANGED <<call, enriching>> /\ UNCHANGED world

PersistIndexes(m) ==
  /\ message[m].at = "recorded"
  /\ IndexOrRetry(message, m)
  /\ UNCHANGED <<rec, call, enriching, corrupt, pending, landed, chain>>

\* Mutants: the message is acked; an unclear answer counts as a success.
SettleRetryAcks(m) ==
  /\ message[m].at = "answered" /\ message[m].outcome = "retry"
  /\ message[m].attempts < MaxDeliveries
  /\ rec' = [rec EXCEPT ![message[m].job] = ClaimRetry(@, "other")]
  /\ Ack(m)
  /\ UNCHANGED <<call, enriching>> /\ UNCHANGED world
SettleRetryAsPaid(m) ==
  /\ message[m].at = "answered" /\ message[m].outcome = "retry"
  /\ message[m].attempts < MaxDeliveries
  /\ rec' = [rec EXCEPT ![message[m].job] = ClaimSucceeded(@, "prior")]
  /\ Ack(m)
  /\ UNCHANGED <<call, enriching>> /\ UNCHANGED world

SettleRetry(m) ==
  /\ message[m].at = "answered" /\ message[m].outcome = "retry"
  /\ message[m].attempts < MaxDeliveries
  /\ rec' = [rec EXCEPT ![message[m].job] = ClaimRetry(@, "other")]
  /\ message' = [message EXCEPT ![m].at = "waiting", ![m].outcome = "none"]
  /\ UNCHANGED <<call, enriching, events>> /\ UNCHANGED world

\* Fatal, or out of deliveries.
SettleFailed(m) ==
  LET o == message[m].outcome
  IN /\ message[m].at = "answered"
     /\ o \in {"other", "final"} \/ (o = "retry" /\ message[m].attempts >= MaxDeliveries)
     /\ rec' = [rec EXCEPT ![message[m].job] =
                  ClaimFailed(@, IF o = "final" THEN "final" ELSE "other")]
     /\ Ack(m)
     /\ UNCHANGED <<call, enriching>> /\ UNCHANGED world

ConsumerCrash(m) ==
  /\ InHand(m)
  /\ message' = [message EXCEPT ![m] = Redelivered(@)]
  /\ Crashes
  /\ UNCHANGED <<rec, call, enriching>> /\ UNCHANGED world

\* handleClaimDlqBatch(): the last error is kept.
DeadLetter(m) ==
  /\ message[m].at = "dead"
  /\ rec' = [rec EXCEPT ![message[m].job] =
               ClaimFailed(@, IF @.last = "final" THEN "final" ELSE "other")]
  /\ message' = [message EXCEPT ![m] = Gone(@)]
  /\ UNCHANGED <<call, enriching, events>> /\ UNCHANGED world
-----------------------------------------------------------------------------
(* What else saves the record of a job. *)

\* DELETE /jobs/:id of a job that is proved: markFailed() of a job in any status.
Cancel(j) ==
  /\ rec[j].proof = "succeeded"
  /\ Happens("cancel")
  /\ rec' = [rec EXCEPT ![j].proof = "failed",
                        ![j].claim = IF @ = "succeeded" THEN @ ELSE "failed",
                        ![j].last = IF rec[j].claim = "succeeded" THEN @ ELSE "other"]
  /\ UNCHANGED <<message, call, enriching>> /\ UNCHANGED world

\* GET /jobs/:id of a proved job whose cycles are unknown: the indexer is asked ...
EnrichStarts(j) ==
  /\ rec[j].proof = "succeeded" /\ ~enriching[j].waits
  /\ Happens("enrich")
  /\ enriching' = [enriching EXCEPT ![j] = [waits |-> TRUE, snap |-> rec[j]]]
  /\ UNCHANGED <<rec, message, call>> /\ UNCHANGED world

\* ... and the record loaded before is saved with the answer, if there is one.
EnrichEnds(j) ==
  /\ enriching[j].waits
  /\ enriching' = [enriching EXCEPT ![j] = NoCall]
  /\ \/ /\ rec' = [rec EXCEPT ![j] = enriching[j].snap]
        /\ events' = events \cup Overwrites(j, enriching[j].snap)
     \/ UNCHANGED <<rec, events>>
  /\ UNCHANGED <<message, call>> /\ UNCHANGED world

\* The durable object is evicted, and with it the calls that wait.
CoordinatorRestart ==
  /\ Happens("restart")
  /\ \/ \E m \in Messages : call[m].waits \/ message[m].at = "unpinning"
     \/ \E j \in Jobs : enriching[j].waits
  /\ message' = [m \in Messages |-> IF message[m].at \in {"unpinning", "sending"}
                                    THEN Gone(message[m]) ELSE message[m]]
  /\ call' = [m \in Messages |-> NoCall]
  /\ enriching' = [j \in Jobs |-> NoCall]
  /\ UNCHANGED rec /\ UNCHANGED world
-----------------------------------------------------------------------------
Consume(m) ==
  \/ Deliver(m) \/ SkipSuperseded(m) \/ ReadArtifactFails(m) \/ SubmitClaim(m)
  \/ ConsumerThrows(m) \/ SettleSucceeded(m) \/ PersistIndexes(m)
  \/ SettleRetry(m) \/ SettleFailed(m) \/ DeadLetter(m)

Next ==
  \/ \E j \in Jobs : ProofSucceeds(j) \/ RetryFailedClaim(j) \/ AutoRecover(j)
                       \/ TxSettles(j) \/ Cancel(j) \/ EnrichStarts(j) \/ EnrichEnds(j)
  \/ \E m \in Messages : EnqueueClaimJob(m) \/ SendArrives(m) \/ SendReturns(m)
                           \/ SendThrows(m) \/ Consume(m) \/ ConsumerCrash(m)
  \/ ChainChanges \/ CoordinatorRestart

Spec == Init /\ [][Next]_vars

(***************************************************************************)
(* Fairness: calls return, the queue delivers what it holds, the consumer  *)
(* runs to the end of a message, cron runs.                                *)
(***************************************************************************)
Fairness ==
  /\ \A m \in Messages :
       /\ WF_vars(EnqueueClaimJob(m)) /\ WF_vars(SendArrives(m)) /\ WF_vars(SendReturns(m))
       /\ WF_vars(Consume(m))
  /\ \A j \in Jobs : WF_vars(AutoRecover(j)) /\ WF_vars(EnrichEnds(j))

FairSpec == Spec /\ Fairness
-----------------------------------------------------------------------------
\* A claim that is shown as succeeded has been paid for: the contract has accepted
\* this journal, or one of the same claimant and seed that scores no less, whatever
\* answers were lost, messages delivered twice and old records saved again.
Paid(j) == \E k \in landed : Score[k] >= Score[j]
SucceededMeansPaid == \A j \in Jobs : rec[j].claim = "succeeded" => Paid(j)

\* A claim whose journal the contract has accepted is written off for good only
\* when the contract was closed to it: a lost answer is otherwise made up for by
\* the refusal of the next attempt (classifySimulationContractError).
WrittenOffOnlyIfClosed ==
  \A j \in landed :
    rec[j].proof = "succeeded" /\ rec[j].claim = "failed" /\ "final" \in {rec[j].last, rec[j].tried}
      => chain # "open" \/ "pause" \in events

\* A claim paid by a transaction of its own is in the replay indexes, or a message
\* is still there to put it there, or one was delivered as often as it may be. A read
\* of the job that saves its old record over a cancellation can end that, if the worker
\* also dies before the acknowledgement (enrichBoundlessCycles, cancelProofJob): the
\* redelivered message is dropped, and the claim is shown as succeeded afterwards.
IndexedOrExhausted ==
  "again" \notin events =>
    \A j \in Jobs :
      rec[j].proof = "succeeded" /\ rec[j].claim = "succeeded" /\ rec[j].tx = "hash"
        => \/ j \in indexed
           \/ \E m \in Messages :
                /\ message[m].job = j
                /\ message[m].at # "gone" \/ message[m].attempts >= MaxDeliveries

\* No old record has been saved over a newer one.
Undisturbed(e) == e \cap {"again", "overwrite"} = {}

\* Undisturbed, every claim ends: it is not left queued, submitting or retrying.
ClaimsSettle ==
  [](Undisturbed(events) /\ "restart" \notin events) =>
    \A j \in Jobs :
      <>[](rec[j].proof = "succeeded" => rec[j].claim \in {"succeeded", "failed"})

\* "auto-recover unfinished claims that got stuck in queued/retrying/submitting/failed
\* states" (coordinator.ts:1059): a claim does not stay queued.
QueuedIsRecovered ==
  \A j \in Jobs :
    rec[j].proof = "succeeded" /\ rec[j].claim = "queued"
      ~> ~(rec[j].proof = "succeeded" /\ rec[j].claim = "queued")
=============================================================================
