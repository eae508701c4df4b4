------------------------- MODULE ProofCoordinator -------------------------
(***************************************************************************)
(* The proof side of the Cloudflare Worker: the ProofCoordinatorDO durable *)
(* object (worker/durable/coordinator.ts), the two queue consumers that    *)
(* dispatch its jobs to an external prover (worker/queue/consumer.ts), the *)
(* API routes that create, cancel and retry jobs (api/routes-proofs.ts),   *)
(* and the two pollers of the durable object, alarm() and kickAlarm().     *)
(*                                                                         *)
(* A durable object runs one event at a time but lets another event in     *)
(* whenever a handler awaits the network.  An action is therefore the code *)
(* between two such awaits; reads and writes of the object's own storage   *)
(* between them are atomic.  Everything else (consumers, queues, provers,  *)
(* HTTP routes) interleaves freely with it.                                *)
(***************************************************************************)
EXTENDS Naturals, FiniteSets

CONSTANTS
  Jobs,           \* job identifiers (crypto.randomUUID), each used at most once
  Replays,        \* replay hashes
  ReplayOf,       \* the replay that a job proves
  Backends,       \* the configured prover backends
  MaxAttempts,    \* MAX_TOTAL_PROVER_ATTEMPTS
  MaxDeliveries,  \* MAX_QUEUE_RETRIES and MAX_VAST_QUEUE_RETRIES
  SlowConsumers,  \* may a consumer outlive DISPATCH_LEASE_TIMEOUT_MS?
  MayOverrun,     \* may a job outlive MAX_PROOF_TOTAL_WALL_TIME_MS, and its replay window?
  MayExpire,      \* may a completed job outlive its retention?
  MaxMessages,    \* bound: queue messages ever sent
  MaxRequests,    \* bound: requests ever created at a prover
  \* bounds on how often an event happens:
  MaxCancels, MaxRetries, MaxCrashes, MaxRestarts, MaxLostSends, MaxFalseErrors

ASSUME BackendsAssumption == Backends \subseteq {"boundless", "vast"} /\ Backends # {}
ASSUME ReplayAssumption == ReplayOf \in [Jobs -> Replays]
ASSUME BoundAssumption ==
  /\ {MaxAttempts, MaxDeliveries, MaxMessages, MaxRequests} \subseteq Nat
  /\ {MaxCancels, MaxRetries, MaxCrashes, MaxRestarts, MaxLostSends,
      MaxFalseErrors} \subseteq Nat
  /\ {SlowConsumers, MayOverrun, MayExpire} \subseteq BOOLEAN

VARIABLES
  job,        \* the jobs table: the record stored for each job
  registry,   \* the replay_registry table
  alarm,      \* is an alarm set on the durable object?
  poller,     \* the running alarm() and kickAlarm() handlers
  recovering, \* jobs whose recoverBoundlessFulfillment() awaits the prover
  message,    \* the queue messages, from the send to the ack
  request,    \* every request ever created at an external prover
  age,        \* how long ago a job was created or completed
  spent       \* how often each bounded event has happened

stored == <<job, registry, age>>
vars == <<job, registry, alarm, poller, recovering, message, request, age, spent>>

Messages == 1 .. MaxMessages
Requests == 1 .. MaxRequests
NoJob == "no job"
ASSUME NoJobAssumption == NoJob \notin Jobs
NoRow == [job |-> NoJob, state |-> "none"]

ActiveStatus == {"queued", "dispatching", "prover_running", "retrying"}
TerminalStatus == {"succeeded", "failed"}
Pollers == {"alarm", "kick"}
Events == {"cancel", "retry", "crash", "restart", "lost", "false"}

JobRecord ==
  [status : ActiveStatus \cup TerminalStatus \cup {"absent", "pruned"},
   lock : {"none", "reserved", "dispatching", "dispatched", "released"},
   lockedBy : Backends \cup {"none"},
   lease : {0} \cup Messages,      \* queue.activeDeliveryId
   prover : {0} \cup Requests,     \* prover.jobId
   result : {0} \cup Requests,     \* the request whose proof is the result
   error : {"none", "superseded", "total_wall", "other"},
   tries : Nat]                    \* closed attempts that never reached a prover

RowRecord == [job : Jobs, state : {"reserved", "dispatching", "dispatched"}] \cup {NoRow}

PollerRecord ==
  [running : BOOLEAN, todo : SUBSET Jobs, at : Jobs \cup {NoJob},
   snap : JobRecord, unfinished : BOOLEAN, anyStillActive : BOOLEAN]

MessageRecord ==
  [job : Jobs \cup {NoJob}, backend : Backends,
   at : {"unsent", "sending", "waiting", "kicking", "begun", "late",
         "dispatching", "answered", "dead", "gone"},
   attempts : Nat, outcome : {"none", "accepted", "retry", "fatal"},
   request : {0} \cup Requests]

RequestRecord ==
  [job : Jobs \cup {NoJob}, backend : Backends,
   phase : {"none", "running", "fulfilled", "failed"}]

Absent == [status |-> "absent", lock |-> "none", lockedBy |-> "none", lease |-> 0,
           prover |-> 0, result |-> 0, error |-> "none", tries |-> 0]
Idle == [running |-> FALSE, todo |-> {}, at |-> NoJob, snap |-> Absent,
         unfinished |-> FALSE, anyStillActive |-> FALSE]
Preferred == IF "boundless" \in Backends THEN "boundless" ELSE "vast"
Unsent == [job |-> NoJob, backend |-> Preferred, at |-> "unsent", attempts |-> 0,
           outcome |-> "none", request |-> 0]

TypeOK ==
  /\ job \in [Jobs -> JobRecord]
  /\ registry \in [Replays -> RowRecord]
  /\ alarm \in BOOLEAN
  /\ poller \in [Pollers -> PollerRecord]
  /\ recovering \subseteq Jobs
  /\ message \in [Messages -> MessageRecord]
  /\ request \in [Requests -> RequestRecord]
  /\ age \in [Jobs -> {"fresh", "overdue", "expired"}]
  /\ spent \in [Events -> Nat]

Init ==
  /\ job = [j \in Jobs |-> Absent]
  /\ registry = [r \in Replays |-> NoRow]
  /\ alarm = FALSE
  /\ poller = [p \in Pollers |-> Idle]
  /\ recovering = {}
  /\ message = [m \in Messages |-> Unsent]
  /\ request = [q \in Requests |-> [job |-> NoJob, backend |-> Preferred, phase |-> "none"]]
  /\ age = [j \in Jobs |-> "fresh"]
  /\ spent = [e \in Events |-> 0]

-----------------------------------------------------------------------------
(* Reading a job. *)

Active(rec) == rec.status \in ActiveStatus
Exists(j) == job[j].status \notin {"absent", "pruned"}
Locked(rec) == rec.lock \in {"dispatching", "dispatched"}
ActiveJobs == {j \in Jobs : Active(job[j])}
Backend(rec) == request[rec.prover].backend
OnVast(rec) == rec.prover # 0 /\ Backend(rec) = "vast"

\* hasActiveVastJob: the one GPU is taken.
SlotBusy == \E j \in ActiveJobs : OnVast(job[j])

\* Mutant: the lock is forgotten.
RetryBlockedButForLock(rec) == rec.status # "failed" \/ rec.result # 0

ProofRetryBlocked(rec) ==
  \/ rec.status # "failed"
  \/ rec.result # 0
  \/ rec.error = "superseded"
  \/ Locked(rec)

IsRecoverable(rec) ==
  /\ rec.status = "failed" /\ rec.error = "total_wall" /\ rec.result = 0
  /\ rec.prover # 0 /\ Backend(rec) = "boundless"
  /\ Locked(rec)

InHand == {"kicking", "begun", "late", "dispatching", "answered"}

\* Mutant: any lease may be taken over.
AlwaysStale(rec) == rec.lease # 0

\* A delivery lease is stale after 60 seconds.  Its holder has then crashed or
\* is slow; a holder that crashed a moment ago still has a live lease.
MayBeStale(rec) ==
  rec.lease # 0 /\ (SlowConsumers \/ message[rec.lease].at \notin InHand)

NextBackend(b) == IF Backends = {b} THEN b ELSE CHOOSE c \in Backends : c # b

Spend(e, bound) == spent[e] < bound /\ spent' = [spent EXCEPT ![e] = @ + 1]
-----------------------------------------------------------------------------
(* Writing a job. *)

Pruned(rec) == [rec EXCEPT !.status = "pruned"]
Sweep(jobs, j) ==
  [k \in Jobs |-> IF k # j /\ age[k] = "expired" THEN Pruned(jobs[k]) ELSE jobs[k]]

Failed(rec, why) ==
  [rec EXCEPT !.status = "failed", !.lease = 0, !.error = why,
              !.lock = IF Locked(rec) THEN @ ELSE "released",
              !.lockedBy = IF Locked(rec) THEN @ ELSE "none"]

\* Completing a job restarts its retention period and sweeps the others.
Complete(j, rec) ==
  /\ job' = Sweep([job EXCEPT ![j] = rec], j)
  /\ age' = [age EXCEPT ![j] = IF @ = "expired" THEN "overdue" ELSE @]

\* Mutant: the reservation is not released.
MarkFailedKeepsRow(j, rec, why) ==
  IF Exists(j) THEN Complete(j, Failed(rec, why)) /\ UNCHANGED registry ELSE UNCHANGED stored

\* markFailed, applied to the record rec of a job in any status.  The reservation
\* is released by replay hash: the row goes whoever owns it.
MarkFailed(j, rec, why) ==
  IF Exists(j)
  THEN /\ Complete(j, Failed(rec, why))
       /\ registry' = IF Locked(rec) THEN registry
                                     ELSE [registry EXCEPT ![ReplayOf[j]] = NoRow]
  ELSE UNCHANGED stored

\* markSucceeded looks at nothing in the record it overwrites.
MarkSucceeded(j, q) ==
  /\ Complete(j, [job[j] EXCEPT !.status = "succeeded", !.lease = 0,
                                !.result = q, !.error = "none"])
  /\ UNCHANGED registry

MarkRetry(j) ==
  /\ job' = IF Active(job[j])
            THEN [job EXCEPT ![j] = [@ EXCEPT !.status = "retrying", !.lease = 0]]
            ELSE job
  /\ UNCHANGED <<registry, age>>

\* Messages and requests are used in order.
Fresh(m) == message[m].at = "unsent" /\ \A n \in 1 .. (m - 1) : message[n].at # "unsent"
FreshRequest(q) ==
  request[q].phase = "none" /\ \A n \in 1 .. (q - 1) : request[n].phase # "none"
NewMessage(j, b, at) == [Unsent EXCEPT !.job = j, !.backend = b, !.at = at]
Gone(msg) == [msg EXCEPT !.at = "gone", !.attempts = 0, !.outcome = "none", !.request = 0]

\* A message whose consumer crashed is delivered again, or is dead-lettered
\* when the queue has delivered it max_retries + 1 times.
Redelivered(msg) ==
  [msg EXCEPT !.at = IF msg.attempts > MaxDeliveries THEN "dead" ELSE "waiting",
              !.outcome = "none", !.request = 0]

\* The consumer acks the message msgs[m], or crashes before it does.
AckIn(msgs, m) ==
  \/ message' = [msgs EXCEPT ![m] = Gone(@)] /\ UNCHANGED spent
  \/ message' = [msgs EXCEPT ![m] = Redelivered(@)] /\ Spend("crash", MaxCrashes)
Ack(m) == AckIn(message, m)

\* Mutant: the fallback forgets the lock.
OutOfAttempts(rec) == rec.tries >= MaxAttempts

\* tryNextProverBackend for the record rec: no backend may be tried any more ...
NoNextBackend(rec) == Locked(rec) \/ rec.tries >= MaxAttempts

\* ... or the job is queued again, with message n for the next backend.
Requeue(j, rec) ==
  /\ job' = [job EXCEPT ![j] = [rec EXCEPT !.status = "queued", !.lease = 0,
                                           !.prover = 0, !.error = "none"]]
  /\ UNCHANGED <<registry, age>>
-----------------------------------------------------------------------------
(* The API: POST /jobs, DELETE /jobs/:id, POST /jobs/:id/retry-proof. *)

\* Mutants: the row of a job that was pruned, or any row, does not count.
MayBeCreatedOnceForgotten(row) == row # NoRow => job[row.job].status = "pruned"
MayBeCreatedAlways(row) == TRUE

\* POST /jobs: createJob().  A replay whose row names a stored job is answered
\* with that job; one locked by a job that was pruned since is refused.
MayBeCreated(row) ==
  row # NoRow => job[row.job].status = "pruned" /\ row.state = "reserved"
CreateJob(j) ==
  /\ job[j] = Absent /\ MayBeCreated(registry[ReplayOf[j]])
  /\ job' = [job EXCEPT ![j] = [Absent EXCEPT !.status = "queued", !.lock = "reserved"]]
  /\ registry' = [registry EXCEPT ![ReplayOf[j]] = [job |-> j, state |-> "reserved"]]
  /\ \E n \in Messages :
       Fresh(n) /\ message' = [message EXCEPT ![n] = NewMessage(j, Preferred, "sending")]
  /\ UNCHANGED <<alarm, poller, recovering, request, age, spent>>

\* The tape is stored in R2 and the queue has the message.
SendEnds(m) ==
  /\ message[m].at = "sending"
  /\ message' = [message EXCEPT ![m].at = "waiting"]
  /\ UNCHANGED <<job, registry, alarm, poller, recovering, request, age, spent>>

\* Storing the tape or sending the message throws: markFailed().  A send that
\* throws may still have reached the queue.
SendFails(m) ==
  LET j == message[m].job
  IN /\ message[m].at = "sending"
     /\ MarkFailed(j, job[j], "other")
     /\ \/ message' = [message EXCEPT ![m] = Gone(@)] /\ UNCHANGED spent
        \/ message' = [message EXCEPT ![m].at = "waiting"] /\ Spend("false", MaxFalseErrors)
     /\ UNCHANGED <<alarm, poller, recovering, request>>

\* The worker that sends dies between createJob() and the send.
SendLost(m) ==
  /\ message[m].at = "sending"
  /\ message' = [message EXCEPT ![m] = Gone(@)]
  /\ Spend("lost", MaxLostSends)
  /\ UNCHANGED <<job, registry, alarm, poller, recovering, request, age>>

\* DELETE /jobs/:id: markFailed() of a job in any status.
Cancel(j) ==
  /\ Exists(j)
  /\ MarkFailed(j, job[j], "other")
  /\ Spend("cancel", MaxCancels)
  /\ UNCHANGED <<alarm, poller, recovering, message, request>>

\* POST /jobs/:id/retry-proof: retryFailedProof(), up to the send.
RetryProof(j, b) ==
  LET row == registry[ReplayOf[j]]
  IN /\ ~ProofRetryBlocked(job[j])
     /\ row # NoRow => row.job = j
     /\ job' = [job EXCEPT ![j] = [@ EXCEPT !.status = "queued", !.lease = 0, !.prover = 0,
                  !.error = "none", !.lock = "reserved", !.lockedBy = "none"]]
     /\ registry' = [registry EXCEPT ![ReplayOf[j]] = [job |-> j, state |-> "reserved"]]
     /\ age' = [age EXCEPT ![j] = "fresh"]
     /\ \E n \in Messages :
          Fresh(n) /\ message' = [message EXCEPT ![n] = NewMessage(j, b, "sending")]
     /\ Spend("retry", MaxRetries)
     /\ UNCHANGED <<alarm, poller, recovering, request>>
-----------------------------------------------------------------------------
(* The queue consumers. *)

\* beginQueueAttempt() for delivery n of message m, then the early returns of
\* prepareForSubmission().
BeginQueueAttempt(m, n) ==
  LET j == message[m].job
      rec == job[j]
      msgs == [message EXCEPT ![m].attempts = n]
  IN \/ /\ ~Active(rec)
        /\ AckIn(msgs, m)
        /\ UNCHANGED <<job, alarm>>
     \/ /\ Active(rec) /\ rec.prover # 0
        /\ job' = [job EXCEPT ![j] = [@ EXCEPT !.status = "prover_running", !.lease = 0]]
        /\ alarm' = TRUE
        /\ AckIn(msgs, m)
     \/ /\ Active(rec) /\ rec.prover = 0 /\ rec.lease \notin {0, m}
        /\ AckIn(msgs, m)
        /\ UNCHANGED <<job, alarm>>
     \/ /\ Active(rec) /\ rec.prover = 0 /\ (rec.lease \in {0, m} \/ MayBeStale(rec))
        /\ job' = [job EXCEPT ![j] = [@ EXCEPT !.status = "dispatching", !.lease = m]]
        /\ message' = [msgs EXCEPT ![m].at = IF age[j] = "fresh" THEN "begun" ELSE "late"]
        /\ UNCHANGED <<alarm, spent>>

VastConsumerFree ==
  \A m \in Messages : message[m].backend = "vast" => message[m].at \notin InHand

\* processBoundlessMessage(), or processVastMessage() with the slot free.
Deliver(m) ==
  /\ message[m].at = "waiting"
  /\ message[m].backend = "vast" => VastConsumerFree /\ ~SlotBusy
  /\ BeginQueueAttempt(m, message[m].attempts + 1)
  /\ UNCHANGED <<registry, poller, recovering, request, age>>

\* processVastMessage() with the slot busy: tryRecoverStaleVastSlot() calls
\* kickAlarm() and waits for it.
KickStaleSlot(m) ==
  /\ message[m].at = "waiting" /\ message[m].backend = "vast"
  /\ VastConsumerFree /\ SlotBusy /\ ~poller["kick"].running
  /\ message' = [message EXCEPT ![m].at = "kicking", ![m].attempts = @ + 1]
  /\ poller' = [poller EXCEPT !["kick"] = [Idle EXCEPT !.running = TRUE, !.todo = ActiveJobs]]
  /\ UNCHANGED <<job, registry, alarm, recovering, request, age, spent>>

SlotFreed(m) ==
  /\ message[m].at = "kicking" /\ ~poller["kick"].running /\ ~SlotBusy
  /\ BeginQueueAttempt(m, message[m].attempts)
  /\ UNCHANGED <<registry, poller, recovering, request, age>>

\* The slot is still taken: wait for it, under a new message once this one
\* has been delivered too often.  markRetry() clears any lease of the job.
SlotStillBusy(m) ==
  LET j == message[m].job
      again == NewMessage(j, message[m].backend, "waiting")
  IN /\ message[m].at = "kicking" /\ ~poller["kick"].running /\ SlotBusy
     /\ \/ ~Active(job[j]) /\ Ack(m) /\ UNCHANGED stored
        \/ /\ Active(job[j])
           /\ \E why \in {"superseded", "other"} :
                /\ why = "other" => age[j] # "fresh" \/ message[m].attempts >= MaxDeliveries
                /\ MarkFailed(j, job[j], why)
           /\ Ack(m)
        \/ /\ Active(job[j]) /\ age[j] = "fresh" /\ message[m].attempts < MaxDeliveries
           /\ MarkRetry(j)
           /\ message' = [message EXCEPT ![m].at = "waiting"]
           /\ UNCHANGED spent
        \/ /\ Active(job[j]) /\ age[j] = "fresh" /\ message[m].attempts >= MaxDeliveries
           /\ MarkRetry(j)
           /\ \E n \in Messages :
                Fresh(n) /\ AckIn([message EXCEPT ![n] = again], m)
     /\ UNCHANGED <<alarm, poller, recovering, request>>

\* prepareForSubmission() refuses the job it holds: superseded by a claimed
\* score, too old when it was read or by now, or without its tape in R2.
Reject(m) ==
  LET j == message[m].job
  IN /\ message[m].at \in {"begun", "late"}
     /\ \E why \in {"superseded", "total_wall", "other"} :
          /\ why = "total_wall" => message[m].at = "late" \/ age[j] # "fresh"
          /\ why = "other" => message[m].at = "begun"
          /\ MarkFailed(j, job[j], why)
     /\ Ack(m)
     /\ UNCHANGED <<alarm, poller, recovering, request>>

\* Submitting fails before anything is dispatched (configuration, preflight).
PreflightFails(m) ==
  /\ message[m].at = "begun"
  /\ \E o \in {"retry", "fatal"} :
       message' = [message EXCEPT ![m].at = "answered", ![m].outcome = o]
  /\ UNCHANGED <<job, registry, alarm, poller, recovering, request, age, spent>>

\* beforeDispatch: beginExternalDispatch() locks the replay for the backend.
\* It throws when another dispatch holds the lock, and says nothing of a job
\* that is no longer active.
BeginExternalDispatch(m) ==
  LET j == message[m].job
      b == message[m].backend
      row == registry[ReplayOf[j]]
      refused == \/ job[j].lock = "dispatched"
                 \/ job[j].lock = "dispatching" /\ job[j].lockedBy # b
                 \/ row # NoRow /\ row.job # j
  IN /\ message[m].at = "begun"
     /\ \/ /\ ~Active(job[j])
           /\ message' = [message EXCEPT ![m].at = "dispatching"]
           /\ UNCHANGED <<job, registry>>
        \/ /\ Active(job[j]) /\ refused
           /\ message' = [message EXCEPT ![m].at = "answered", ![m].outcome = "fatal"]
           /\ UNCHANGED <<job, registry>>
        \/ /\ Active(job[j]) /\ ~refused
           /\ job' = [job EXCEPT ![j] = [@ EXCEPT !.lock = "dispatching", !.lockedBy = b]]
           /\ registry' = [registry EXCEPT ![ReplayOf[j]] = [job |-> j, state |-> "dispatching"]]
           /\ message' = [message EXCEPT ![m].at = "dispatching"]
     /\ UNCHANGED <<alarm, poller, recovering, request, age, spent>>

\* submitRequest() and submitToProver(): the prover may have created the
\* request even when the consumer is told otherwise.
Submit(m) ==
  /\ message[m].at = "dispatching"
  /\ \/ \E q \in Requests, o \in {"accepted", "retry", "fatal"} :
          /\ FreshRequest(q)
          /\ request' = [request EXCEPT ![q] = [job |-> message[m].job,
                           backend |-> message[m].backend, phase |-> "running"]]
          /\ message' = [message EXCEPT ![m].at = "answered", ![m].outcome = o,
                                        ![m].request = IF o = "accepted" THEN q ELSE 0]
     \/ \E o \in {"retry", "fatal"} :
          /\ message' = [message EXCEPT ![m].at = "answered", ![m].outcome = o]
          /\ UNCHANGED request
  /\ UNCHANGED <<job, registry, alarm, poller, recovering, age, spent>>

\* handleSubmitResult(), accepted: markProverAccepted(), which keeps silent
\* about a job that is no longer active.  The request then has no owner.
SettleAccepted(m) ==
  LET j == message[m].job
  IN /\ message[m].at = "answered" /\ message[m].outcome = "accepted"
     /\ IF Active(job[j])
        THEN /\ job' = [job EXCEPT ![j] = [@ EXCEPT !.status = "prover_running", !.lease = 0,
                          !.prover = message[m].request, !.error = "none",
                          !.lock = "dispatched"]]
             /\ registry' = [registry EXCEPT ![ReplayOf[j]] = [job |-> j, state |-> "dispatched"]]
             /\ alarm' = TRUE
        ELSE UNCHANGED <<job, registry, alarm>>
     /\ Ack(m)
     /\ UNCHANGED <<poller, recovering, request, age>>

\* Mutant: the message is acked instead of retried.
SettleRetryAcks(m) ==
  /\ message[m].at = "answered" /\ message[m].outcome = "retry"
  /\ message[m].attempts < MaxDeliveries
  /\ MarkRetry(message[m].job)
  /\ Ack(m)
  /\ UNCHANGED <<alarm, poller, recovering, request>>

\* handleSubmitResult(), retry with deliveries left: markRetry().
SettleRetry(m) ==
  /\ message[m].at = "answered" /\ message[m].outcome = "retry"
  /\ message[m].attempts < MaxDeliveries
  /\ MarkRetry(message[m].job)
  /\ message' = [message EXCEPT ![m].at = "waiting", ![m].outcome = "none"]
  /\ UNCHANGED <<alarm, poller, recovering, request, spent>>

\* handleSubmitResult(), fatal or out of deliveries:
\* markDispatchFailedAndTryNextBackend().
SettleFailed(m) ==
  LET j == message[m].job
      rec == IF Locked(job[j]) THEN job[j] ELSE [job[j] EXCEPT !.tries = @ + 1]
      next == NewMessage(j, NextBackend(message[m].backend), "sending")
  IN /\ message[m].at = "answered"
     /\ \/ message[m].outcome = "fatal"
        \/ message[m].outcome = "retry" /\ message[m].attempts >= MaxDeliveries
     /\ \/ ~Active(job[j]) /\ Ack(m) /\ UNCHANGED stored
        \/ Active(job[j]) /\ NoNextBackend(rec) /\ MarkFailed(j, rec, "other") /\ Ack(m)
        \/ /\ Active(job[j]) /\ ~NoNextBackend(rec)
           /\ Requeue(j, rec)
           /\ \E n \in Messages : Fresh(n) /\ AckIn([message EXCEPT ![n] = next], m)
     /\ UNCHANGED <<alarm, poller, recovering, request>>

\* A consumer dies between two of its steps, without an ack.
ConsumerCrash(m) ==
  /\ message[m].at \in InHand
  /\ message' = [message EXCEPT ![m] = Redelivered(@)]
  /\ Spend("crash", MaxCrashes)
  /\ UNCHANGED <<job, registry, alarm, poller, recovering, request, age>>

\* handleDlqBatch().
DeadLetter(m) ==
  LET j == message[m].job
  IN /\ message[m].at = "dead"
     /\ IF Active(job[j]) THEN MarkFailed(j, job[j], "other") ELSE UNCHANGED stored
     /\ message' = [message EXCEPT ![m] = Gone(@)]
     /\ UNCHANGED <<alarm, poller, recovering, request, spent>>
-----------------------------------------------------------------------------
(* External provers and the passing of time. *)

RequestEnds(q) ==
  /\ request[q].phase = "running"
  /\ \E p \in {"fulfilled", "failed"} : request' = [request EXCEPT ![q].phase = p]
  /\ UNCHANGED <<job, registry, alarm, poller, recovering, message, age, spent>>

\* A job exceeds MAX_PROOF_TOTAL_WALL_TIME_MS.
Ages(j) ==
  /\ MayOverrun /\ Active(job[j]) /\ age[j] = "fresh"
  /\ age' = [age EXCEPT ![j] = "overdue"]
  /\ UNCHANGED <<job, registry, alarm, poller, recovering, message, request, spent>>

InFlight(j) ==
  \/ \E m \in Messages : message[m].job = j /\ message[m].at # "gone"
  \/ \E p \in Pollers : poller[p].at = j
  \/ j \in recovering

\* A completed job exceeds its retention (7 days; a succeeded one is kept until
\* its claim succeeded), long after the last message about it.
Expires(j) ==
  /\ MayExpire /\ job[j].status \in TerminalStatus /\ ~InFlight(j) /\ age[j] # "expired"
  /\ age' = [age EXCEPT ![j] = "expired"]
  /\ UNCHANGED <<job, registry, alarm, poller, recovering, message, request, spent>>

\* A reservation ends REPLAY_DEDUPE_WINDOW_MS (24 hours) after it was made; every
\* read of the registry purges it first.
ReservationLapses(r) ==
  /\ registry[r].state = "reserved" /\ age[registry[r].job] = "overdue"
  /\ registry' = [registry EXCEPT ![r] = NoRow]
  /\ UNCHANGED <<job, alarm, poller, recovering, message, request, age, spent>>
-----------------------------------------------------------------------------
(* The pollers: alarm(), and kickAlarm() when a Vast consumer calls it. *)

\* alarm() fires, and returns at once when no job is active.
AlarmFires ==
  /\ alarm /\ ~poller["alarm"].running
  /\ alarm' = FALSE
  /\ poller' = [poller EXCEPT !["alarm"].running = ActiveJobs # {}, !["alarm"].todo = ActiveJobs]
  /\ UNCHANGED <<job, registry, recovering, message, request, age, spent>>

CanVisit(p, j) == poller[p].running /\ poller[p].at = NoJob /\ j \in poller[p].todo

\* The handler turns to job j and has nothing to poll.  For a job past the wall
\* time it calls maybeRecoverTimedOutBoundlessJob(), which returns an active job
\* as it is, and goes on to the next one.
VisitIdle(p, j) ==
  /\ CanVisit(p, j)
  /\ Active(job[j]) => age[j] # "fresh" \/ job[j].prover = 0
  /\ poller' = [poller EXCEPT ![p].todo = @ \ {j},
                  ![p].anyStillActive = @ \/ (p = "alarm" /\ Active(job[j]))]
  /\ alarm' = (alarm \/ (p = "kick" /\ Active(job[j])))
  /\ UNCHANGED <<job, registry, recovering, message, request, age, spent>>

\* Mutant: the prover is cleared and nobody is told (the bug that the comment
\* at coordinator.ts:2469 remembers).
GiveUpSilently(j, rec) ==
  /\ job' = [job EXCEPT ![j] = [rec EXCEPT !.status = "retrying", !.prover = 0]]
  /\ UNCHANGED <<registry, age, message>>

\* recordAttemptEnd() saves the record rec, then tryNextProverBackend().
GiveUp(j, rec) ==
  IF NoNextBackend(rec)
  THEN MarkFailed(j, rec, "other") /\ UNCHANGED message
  ELSE /\ Requeue(j, rec)
       /\ \E n \in Messages : Fresh(n) /\ message' =
            [message EXCEPT ![n] = NewMessage(j, NextBackend(Backend(rec)), "sending")]

\* The attempt ran longer than its prover may take: no poll is needed to see it.
VisitOvertime(p, j) ==
  /\ CanVisit(p, j) /\ Active(job[j]) /\ age[j] = "fresh" /\ job[j].prover # 0
  /\ p = "kick" \/ OnVast(job[j])
  /\ GiveUp(j, job[j])
  /\ poller' = [poller EXCEPT ![p].todo = @ \ {j},
                  ![p].anyStillActive = @ \/ Active(job'[j])]
  /\ UNCHANGED <<alarm, recovering, request, spent>>

\* The poll starts; the handler keeps the record it loaded until the answer.
VisitPoll(p, j) ==
  /\ CanVisit(p, j) /\ Active(job[j]) /\ age[j] = "fresh" /\ job[j].prover # 0
  /\ poller' = [poller EXCEPT ![p].todo = @ \ {j}, ![p].at = j, ![p].snap = job[j],
                  ![p].unfinished = request[job[j].prover].phase = "running"]
  /\ UNCHANGED <<job, registry, alarm, recovering, message, request, age, spent>>

\* Mutant: the handler forgets that the job is still active.
AnsweredForgetful(p) ==
  /\ poller' = [poller EXCEPT ![p].at = NoJob, ![p].snap = Absent, ![p].unfinished = FALSE]
  /\ UNCHANGED <<alarm, recovering, request, spent>>

\* What every answer does to the handler that waits for it.  alarm() also sets
\* an alarm in some answers; it sets it again when it ends.
Answered(p) ==
  /\ poller' = [poller EXCEPT ![p].at = NoJob, ![p].snap = Absent, ![p].unfinished = FALSE,
                  ![p].anyStillActive = @ \/ Active(job'[poller[p].at])]
  /\ UNCHANGED <<alarm, recovering, request, spent>>

\* applyPollResult(), running: the record loaded before the poll is saved.
PollRunning(p) ==
  /\ poller[p].at # NoJob
  /\ poller[p].unfinished \/ request[poller[p].snap.prover].phase = "running"
  /\ job' = [job EXCEPT ![poller[p].at] = poller[p].snap]
  /\ Answered(p)
  /\ UNCHANGED <<registry, message, age>>

\* The poll throws or fails for a while, or R2 refuses the artifact.
PollError(p) ==
  /\ poller[p].at # NoJob
  /\ \/ p = "alarm" /\ job' = [job EXCEPT ![poller[p].at] =
                                 [poller[p].snap EXCEPT !.status = "retrying"]]
     \/ p = "kick" /\ job' = [job EXCEPT ![poller[p].at] = poller[p].snap]
     \/ /\ p = "kick" /\ request[poller[p].snap.prover].phase = "fulfilled"
        /\ UNCHANGED job
  /\ Answered(p)
  /\ UNCHANGED <<registry, message, age>>

\* The prover no longer knows the job (Vast), or the Boundless order is past
\* its deadline: the attempt ends in the record loaded before the poll.
PollGivesUp(p) ==
  /\ poller[p].at # NoJob
  /\ p = "alarm" \/ OnVast(poller[p].snap)
  /\ GiveUp(poller[p].at, poller[p].snap)
  /\ Answered(p)

\* A fatal answer, or a proof for another claimant: markFailed().
PollFatal(p) ==
  /\ poller[p].at # NoJob
  /\ MarkFailed(poller[p].at, job[poller[p].at], "other")
  /\ Answered(p)
  /\ UNCHANGED message

\* Mutant: any answer counts as a proof.
PollSucceedsAnyway(p) ==
  /\ poller[p].at # NoJob
  /\ MarkSucceeded(poller[p].at, poller[p].snap.prover)
  /\ Answered(p)
  /\ UNCHANGED message

\* The proof is there and its artifact is stored: markSucceeded().
PollSucceeds(p) ==
  /\ poller[p].at # NoJob
  /\ request[poller[p].snap.prover].phase = "fulfilled"
  /\ MarkSucceeded(poller[p].at, poller[p].snap.prover)
  /\ Answered(p)
  /\ UNCHANGED message

Finished(p) == poller[p].running /\ poller[p].todo = {} /\ poller[p].at = NoJob

AlarmEnds ==
  /\ Finished("alarm")
  /\ alarm' = (alarm \/ poller["alarm"].anyStillActive)
  /\ poller' = [poller EXCEPT !["alarm"] = Idle]
  /\ UNCHANGED <<job, registry, recovering, message, request, age, spent>>

KickEnds ==
  /\ Finished("kick")
  /\ alarm' = (alarm \/ ActiveJobs # {})
  /\ poller' = [poller EXCEPT !["kick"] = Idle]
  /\ UNCHANGED <<job, registry, recovering, message, request, age, spent>>
-----------------------------------------------------------------------------
(* Recovery and maintenance. *)

\* recoverBoundlessFulfillment(), from getJob() or the cron job.
RecoverStarts(j) ==
  /\ IsRecoverable(job[j]) /\ j \notin recovering
  /\ recovering' = recovering \cup {j}
  /\ UNCHANGED <<job, registry, alarm, poller, message, request, age, spent>>

RecoverEnds(j) ==
  /\ j \in recovering
  /\ recovering' = recovering \ {j}
  /\ \/ request[job[j].prover].phase = "fulfilled" /\ MarkSucceeded(j, job[j].prover)
     \/ UNCHANGED stored
  /\ UNCHANGED <<alarm, poller, message, request, spent>>

\* runMaintenance(), every minute: restart a lost alarm chain, or prune.
RunMaintenance ==
  /\ \/ /\ ActiveJobs # {} /\ ~alarm
        /\ alarm' = TRUE
        /\ UNCHANGED job
     \/ /\ ActiveJobs = {}
        /\ job' = Sweep(job, NoJob)
        /\ UNCHANGED alarm
  /\ UNCHANGED <<registry, poller, recovering, message, request, age, spent>>

\* The durable object is evicted: its handlers are lost, its storage is not, and
\* an alarm() that was running is run again.
CoordinatorRestart ==
  /\ \E p \in Pollers : poller[p].running
  /\ poller' = [p \in Pollers |-> Idle]
  /\ recovering' = {}
  /\ alarm' = (alarm \/ poller["alarm"].running)
  /\ Spend("restart", MaxRestarts)
  /\ UNCHANGED <<job, registry, message, request, age>>
-----------------------------------------------------------------------------
Consume(m) ==
  \/ Deliver(m) \/ KickStaleSlot(m) \/ SlotFreed(m) \/ SlotStillBusy(m)
  \/ Reject(m) \/ PreflightFails(m) \/ BeginExternalDispatch(m) \/ Submit(m)
  \/ SettleAccepted(m) \/ SettleRetry(m) \/ SettleFailed(m) \/ DeadLetter(m)

Visit(p) ==
  \E j \in Jobs : VisitIdle(p, j) \/ VisitOvertime(p, j) \/ VisitPoll(p, j)

PollEnds(p) ==
  PollRunning(p) \/ PollError(p) \/ PollGivesUp(p) \/ PollFatal(p) \/ PollSucceeds(p)

Next ==
  \/ \E j \in Jobs : CreateJob(j) \/ Cancel(j) \/ Ages(j) \/ Expires(j)
                       \/ RecoverStarts(j) \/ RecoverEnds(j)
  \/ \E j \in Jobs, b \in Backends : RetryProof(j, b)
  \/ \E m \in Messages : SendEnds(m) \/ SendFails(m) \/ SendLost(m)
                           \/ Consume(m) \/ ConsumerCrash(m)
  \/ \E q \in Requests : RequestEnds(q)
  \/ \E r \in Replays : ReservationLapses(r)
  \/ AlarmFires \/ AlarmEnds \/ KickEnds \/ RunMaintenance \/ CoordinatorRestart
  \/ \E p \in Pollers : Visit(p) \/ PollEnds(p)

Spec == Init /\ [][Next]_vars

(***************************************************************************)
(* Fairness.  Queues deliver what they hold and consumers run to the end,  *)
(* provers answer, a set alarm fires, cron runs.  Strong fairness: a poll  *)
(* of alarm() does not stay inconclusive for ever, since every Boundless   *)
(* order and every Vast run has a deadline after which alarm() gives up.   *)
(***************************************************************************)
Fairness ==
  /\ \A m \in Messages : WF_vars(SendEnds(m) \/ SendFails(m)) /\ WF_vars(Consume(m))
  /\ \A q \in Requests : WF_vars(RequestEnds(q))
  /\ \A p \in Pollers : WF_vars(Visit(p)) /\ WF_vars(PollEnds(p))
  /\ SF_vars(PollSucceeds("alarm") \/ PollFatal("alarm") \/ PollGivesUp("alarm"))
  /\ WF_vars(AlarmFires) /\ WF_vars(AlarmEnds) /\ WF_vars(KickEnds)
  /\ WF_vars(RunMaintenance)

FairSpec == Spec /\ Fairness
-----------------------------------------------------------------------------
(* What holds whatever callers, queues, provers and clocks do. *)

\* A registry row that names a stored job says what the job's own record says
\* of its lock (reserveReplayForJob, beginExternalDispatch, markProverAccepted
\* and releaseReplayReservation each write both).
RegistryAgreesWithJob ==
  \A r \in Replays : registry[r] # NoRow =>
    /\ ReplayOf[registry[r].job] = r
    /\ job[registry[r].job].lock = registry[r].state

\* Once a job has entered external dispatch its lock is never given up, not by
\* a failure, a cancel, a retry or a handler that saves an old record.
LockIsPermanent ==
  [][\A j \in Jobs :
       /\ job[j].lock = "dispatched" => job'[j].lock = "dispatched"
       /\ job[j].lock = "dispatching" => Locked(job'[j])]_vars

\* A job that has entered external dispatch is not queued again: not by
\* retryFailedProof, nor by the fallback of tryNextProverBackend.
LockedIsNeverRequeued ==
  [][\A j \in Jobs : Locked(job[j]) /\ job'[j].status = "queued" => job[j].status = "queued"]_vars

\* Whatever interleaves with a poll, the request that a job or a waiting
\* handler polls was created for that job, and its replay is locked.
PollsOwnRequest ==
  /\ \A j \in Jobs : job[j].prover # 0 =>
       job[j].lock = "dispatched" /\ request[job[j].prover].job = j
  /\ \A p \in Pollers : poller[p].at # NoJob =>
       /\ poller[p].snap.prover # 0
       /\ request[poller[p].snap.prover].job = poller[p].at
       /\ job[poller[p].at].lock = "dispatched"

\* A succeeded job holds the proof of a fulfilled request made for it.
ProofFromOwnRequest ==
  \A j \in Jobs : job[j].status = "succeeded" =>
    /\ job[j].result # 0
    /\ request[job[j].result].job = j /\ request[job[j].result].phase = "fulfilled"

\* An active job without a prover still has a queue message to get it one: it is
\* not stuck "with no queue message and no prover" (coordinator.ts:2470).
NoOrphanedJob ==
  \A j \in ActiveJobs : job[j].prover = 0 =>
    \E m \in Messages : message[m].job = j /\ message[m].at # "gone"

\* An active job with a prover is looked at again: an alarm is set, or alarm()
\* runs and has not passed it by, or kickAlarm() runs and will set an alarm.  An
\* eviction may cut the chain, which cron then restarts (EveryJobEnds).
AlarmChain ==
  spent["restart"] = 0 =>
    \A j \in ActiveJobs : job[j].prover # 0 =>
      \/ alarm
      \/ poller["kick"].running
      \/ /\ poller["alarm"].running
         /\ poller["alarm"].anyStillActive \/ j \in poller["alarm"].todo \/ poller["alarm"].at = j
-----------------------------------------------------------------------------
(* What holds only while nobody cancels a job, or no failed job is retried. *)

\* Two jobs never dispatch the same replay: "replay has already entered external
\* dispatch and cannot be submitted again" (coordinator.ts:960).
ReplayDispatchedByOneJob ==
  \A q, r \in Requests :
    /\ request[q].phase # "none" /\ request[r].phase # "none"
    /\ ReplayOf[request[q].job] = ReplayOf[request[r].job]
    => request[q].job = request[r].job

\* At most one delivery of a job is between beginQueueAttempt and the answer of
\* the prover: the lease keeps out the others, as long as no consumer outlives
\* it, no failed job is retried and no delivery that waits for the Vast slot
\* clears it.
LeaseIsExclusive ==
  \A m, n \in Messages :
    /\ message[m].job = message[n].job
    /\ {message[m].at, message[n].at} \subseteq {"begun", "late", "dispatching", "answered"}
    => m = n

\* "Terminal jobs never change" (routes-proofs.ts:602): a succeeded job stays as
\* it is, a failed one stays failed unless it is retried or recovered.
TerminalUntilRetried ==
  [][\A j \in Jobs :
       /\ job[j].status = "succeeded" => job'[j] \in {job[j], Pruned(job[j])}
       /\ job[j].status = "failed" =>
            \/ job'[j].status \in {"failed", "pruned", "queued"}
            \/ job'[j].status = "succeeded" /\ IsRecoverable(job[j])]_vars

\* As long as nobody cancels a job, the coordinator keeps the ledger: who may work
\* on a replay, and who may hand it to a prover, is what ProofLedger says.
Phase(rec) ==
  CASE rec.status = "absent" -> "none"
    [] Active(rec) -> "open"
    [] rec.status = "succeeded" -> "proved"
    [] rec.status = "failed" -> "failed"
    [] rec.status = "pruned" -> "forgotten"
PhaseIn(jobs) == [j \in Jobs |-> Phase(jobs[j])]
Owners(jobs, r) == {j \in Jobs : ReplayOf[j] = r /\ Locked(jobs[j])}
Owner(set) == IF set = {} THEN NoJob ELSE CHOOSE j \in set : TRUE
OwnerIn(jobs) == [r \in Replays |-> Owner(Owners(jobs, r))]
Ledger ==
  INSTANCE ProofLedger
    WITH phase <- PhaseIn(job), owner <- OwnerIn(job), Nobody <- NoJob
KeepsLedger == Ledger!Spec

\* Every job that is active ends.
EveryJobEnds == \A j \in Jobs : Active(job[j]) ~> ~Active(job[j])
=============================================================================
