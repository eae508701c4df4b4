------------------------ MODULE ClaimPipelineProofs ------------------------
(***************************************************************************)
(* Proofs about ClaimPipeline, for any jobs, scores, bounds and faults: a  *)
(* claim that succeeded was paid for, one that was paid for is written off *)
(* only if the contract was closed to it, and is not lost to the indexes.  *)
(*                                                                         *)
(* Handlers save records that they loaded before an await, so what is said *)
(* of the records in the table must be said of the loaded ones as well;    *)
(* and it stays true of them because nothing that a record may rest on is  *)
(* ever taken back: what the contract has accepted, and that it was closed.*)
(*                                                                         *)
(* A paid claim also reaches the replay indexes. Only the message that     *)
(* settled it can put it there, so IndexInv follows the messages: one is   *)
(* in hand at a time, a claim in hand has not succeeded yet, and no record *)
(* with a transaction is still held by anybody who could bring it back.    *)
(***************************************************************************)
EXTENDS ClaimPipeline, TLAPS

\* The contract has paid for a score that is no less.
PaidIn(j, accepted) == \E k \in accepted : Score[k] >= Score[j]

\* The jobs that may be written off for good.
WrittenOff == {j \in Jobs : j \in corrupt \/ chain # "open" \/ "pause" \in events}

\* What a record of job j, saved or loaded, rests on.
RecordFits(j, r, accepted, off) ==
  /\ r \in JobRecord
  /\ r.claim = "succeeded" \/ r.tx # "none" => PaidIn(j, accepted)
  /\ "final" \in {r.last, r.tried} => j \in off

\* What an answer that the consumer is about to record rests on.
AnswerFits(msg, accepted, off) ==
  /\ msg.outcome \in {"hash", "prior", "superseded"} => PaidIn(msg.job, accepted)
  /\ msg.outcome = "final" => msg.job \in off

WorldFits ==
  /\ corrupt \cap (landed \cup pending) = {}
  /\ chain = "paused" => "pause" \in events

RecordsFit == \A j \in Jobs : RecordFits(j, rec[j], landed, WrittenOff)
EnrichingFits ==
  \A j \in Jobs : enriching[j].waits => RecordFits(j, enriching[j].snap, landed, WrittenOff)
CallsFit ==
  \A m \in Messages : call[m].waits =>
    /\ message[m].at # "unsent"
    /\ RecordFits(message[m].job, call[m].snap, landed, WrittenOff)
AnswersFit == \A m \in Messages : AnswerFits(message[m], landed, WrittenOff)

ClaimInv ==
  TypeOK /\ WorldFits /\ RecordsFit /\ EnrichingFits /\ CallsFit /\ AnswersFit
-----------------------------------------------------------------------------
(* What a step may do to each part of the state.                           *)

WorldStep ==
  /\ landed \subseteq landed' /\ WrittenOff \subseteq WrittenOff'
  /\ WorldFits'
  /\ {corrupt', pending', landed', indexed'} \subseteq SUBSET Jobs
  /\ chain' \in {"open", "paused", "expired"} /\ events' \subseteq Events

RecStep ==
  /\ rec' \in [Jobs -> JobRecord]
  /\ \A j \in Jobs : rec'[j] = rec[j] \/ RecordFits(j, rec'[j], landed', WrittenOff')

\* Once it is sent a message stays one of its job.
MessageFollows(old, new, accepted, off) ==
  /\ new \in MessageRecord
  /\ old.at # "unsent" => new.at # "unsent" /\ new.job = old.job
  /\ new.at # "unsent" => new.job \in Jobs
  /\ new = old \/ AnswerFits(new, accepted, off)

MessageStep ==
  /\ message' \in [Messages -> MessageRecord]
  /\ \A m \in Messages : MessageFollows(message[m], message'[m], landed', WrittenOff')

CallStep ==
  /\ call' \in [Messages -> CallRecord]
  /\ \A m \in Messages :
       \/ call'[m] = call[m] \/ ~call'[m].waits
       \/ /\ message'[m].at # "unsent"
          /\ RecordFits(message'[m].job, call'[m].snap, landed', WrittenOff')

EnrichingStep ==
  /\ enriching' \in [Jobs -> CallRecord]
  /\ \A j \in Jobs :
       \/ enriching'[j] = enriching[j] \/ ~enriching'[j].waits
       \/ RecordFits(j, enriching'[j].snap, landed', WrittenOff')

ClaimStep == WorldStep /\ RecStep /\ MessageStep /\ CallStep /\ EnrichingStep

\* What a record rests on stays.
LEMMA FitsStays ==
  ASSUME NEW j, NEW r, NEW a, NEW o, NEW b, NEW p,
         RecordFits(j, r, a, o), a \subseteq b, o \subseteq p
  PROVE  RecordFits(j, r, b, p)
BY DEF RecordFits, PaidIn

\* The same of an answer.
LEMMA AnswerStays ==
  ASSUME NEW msg, NEW a, NEW o, NEW b, NEW p,
         AnswerFits(msg, a, o), a \subseteq b, o \subseteq p
  PROVE  AnswerFits(msg, b, p)
BY DEF AnswerFits, PaidIn

\* Such a step keeps the invariant.
LEMMA StepKeepsClaimInv == ClaimInv /\ ClaimStep => ClaimInv'
<1> SUFFICES ASSUME ClaimInv, ClaimStep PROVE ClaimInv'
  OBVIOUS
<1>1. landed \subseteq landed' /\ WrittenOff \subseteq WrittenOff'
  BY DEF ClaimStep, WorldStep
<1>2. TypeOK' /\ WorldFits'
  BY DEF ClaimInv, TypeOK, ClaimStep, WorldStep, RecStep, MessageStep, MessageFollows, CallStep,
         EnrichingStep
<1>3. RecordsFit'
  <2> SUFFICES ASSUME NEW j \in Jobs PROVE RecordFits(j, rec'[j], landed', WrittenOff')
    BY DEF RecordsFit
  <2>1. RecordFits(j, rec[j], landed', WrittenOff')
    BY <1>1, FitsStays DEF ClaimInv, RecordsFit
  <2>2. QED
    BY <2>1 DEF ClaimStep, RecStep
<1>4. EnrichingFits'
  <2> SUFFICES ASSUME NEW j \in Jobs, enriching'[j].waits
               PROVE  RecordFits(j, enriching'[j].snap, landed', WrittenOff')
    BY DEF EnrichingFits
  <2>1. CASE enriching'[j] = enriching[j]
    BY <1>1, <2>1, FitsStays DEF ClaimInv, EnrichingFits
  <2>2. QED
    BY <2>1 DEF ClaimStep, EnrichingStep
<1>5. CallsFit'
  <2> SUFFICES ASSUME NEW m \in Messages, call'[m].waits
               PROVE  /\ message'[m].at # "unsent"
                      /\ RecordFits(message'[m].job, call'[m].snap, landed', WrittenOff')
    BY DEF CallsFit
  <2>1. CASE call'[m] = call[m]
    <3>1. /\ message[m].at # "unsent"
          /\ RecordFits(message[m].job, call'[m].snap, landed, WrittenOff)
      BY <2>1 DEF ClaimInv, CallsFit
    <3>2. message'[m].at # "unsent" /\ message'[m].job = message[m].job
      BY <3>1 DEF ClaimStep, MessageStep, MessageFollows
    <3>3. QED
      BY <1>1, <3>1, <3>2, FitsStays
  <2>2. QED
    BY <2>1 DEF ClaimStep, CallStep
<1>6. AnswersFit'
  <2> SUFFICES ASSUME NEW m \in Messages PROVE AnswerFits(message'[m], landed', WrittenOff')
    BY DEF AnswersFit
  <2>1. CASE message'[m] = message[m]
    BY <1>1, <2>1, AnswerStays DEF ClaimInv, AnswersFit
  <2>2. QED
    BY <2>1 DEF ClaimStep, MessageStep, MessageFollows
<1>7. QED
  BY <1>2, <1>3, <1>4, <1>5, <1>6 DEF ClaimInv

\* Nothing is claimed yet.
LEMMA ClaimInit == Init => ClaimInv
BY DEF Init, ClaimInv, TypeOK, New, NoMessage, NoCall, JobRecord, MessageRecord, CallRecord,
       ErrorClass, Events, WorldFits, RecordsFit, EnrichingFits, CallsFit, AnswersFit,
       RecordFits, AnswerFits, PaidIn
-----------------------------------------------------------------------------
(* What the parts of an action amount to.                                  *)

\* Most actions leave the contract and the transactions alone.
LEMMA WorldRests ==
  ASSUME ClaimInv, UNCHANGED <<corrupt, pending, landed, chain>>, indexed' \in SUBSET Jobs,
         events \subseteq events', events' \subseteq Events
  PROVE  WorldStep
BY DEF ClaimInv, TypeOK, WorldFits, WorldStep, WrittenOff

\* An event, or a record saved over another one, is added to the events.
LEMMA EventsGrow ==
  ASSUME ClaimInv
  PROVE  /\ \A e \in Events : Happens(e) => events \subseteq events' /\ events' \subseteq Events
         /\ Crashes => events \subseteq events' /\ events' \subseteq Events
         /\ \A j \in Jobs : \A r : Overwrites(j, r) \subseteq Events
         /\ events \subseteq Events
BY DEF ClaimInv, TypeOK, Happens, Crashes, Overwrites, Events

\* What is left alone is as it may be.
LEMMA Rests ==
  ASSUME ClaimInv
  PROVE  /\ UNCHANGED rec => RecStep
         /\ UNCHANGED message => MessageStep
         /\ UNCHANGED call => CallStep
         /\ UNCHANGED enriching => EnrichingStep
BY DEF ClaimInv, TypeOK, RecStep, MessageStep, MessageFollows, CallStep, EnrichingStep

\* One record is saved.
LEMMA RecordSaved ==
  ASSUME ClaimInv, WorldStep, NEW j \in Jobs, NEW r,
         RecordFits(j, r, landed, WrittenOff), rec' = [rec EXCEPT ![j] = r]
  PROVE  RecStep
<1>1. RecordFits(j, r, landed', WrittenOff')
  BY FitsStays DEF WorldStep
<1>2. r \in JobRecord /\ rec \in [Jobs -> JobRecord]
  BY DEF RecordFits, ClaimInv, TypeOK
<1>3. QED
  BY <1>1, <1>2 DEF RecStep

\* One message goes on.
LEMMA MessageGoesOn ==
  ASSUME ClaimInv, NEW m \in Messages, NEW new,
         MessageFollows(message[m], new, landed', WrittenOff'),
         message' = [message EXCEPT ![m] = new]
  PROVE  MessageStep
<1>1. new \in MessageRecord /\ message \in [Messages -> MessageRecord]
  BY DEF MessageFollows, ClaimInv, TypeOK
<1>2. ASSUME NEW n \in Messages, n # m
      PROVE  MessageFollows(message[n], message'[n], landed', WrittenOff')
  BY <1>1, <1>2 DEF MessageFollows, ClaimInv, TypeOK
<1>3. QED
  BY <1>1, <1>2 DEF MessageStep

\* The records that the durable object and the consumer write of a record rest on what
\* that record rests on.
LEMMA WritersFit ==
  ASSUME NEW j, NEW r, NEW a, NEW o, RecordFits(j, r, a, o)
  PROVE  /\ RecordFits(j, Requeued(r), a, o)
         /\ RecordFits(j, [Requeued(r) EXCEPT !.proof = "succeeded"], a, o)
         /\ RecordFits(j, Closed(r, "other"), a, o)
         /\ RecordFits(j, Begun(r), a, o)
         /\ RecordFits(j, ClaimRetry(r, "other"), a, o)
         /\ RecordFits(j, ClaimFailed(r, "other"), a, o)
         /\ j \in o => RecordFits(j, ClaimFailed(r, "final"), a, o)
         /\ \A tx \in {"hash", "prior", "superseded"} :
              PaidIn(j, a) => RecordFits(j, ClaimSucceeded(r, tx), a, o)
         /\ RecordFits(j, [r EXCEPT !.claim = "queued"], a, o)
         /\ RecordFits(j, [r EXCEPT !.claim = "failed", !.last = "other"], a, o)
<1> USE DEF RecordFits, JobRecord, ErrorClass
<1>1. RecordFits(j, Requeued(r), a, o)
  BY DEF Requeued
<1>2. RecordFits(j, [Requeued(r) EXCEPT !.proof = "succeeded"], a, o)
  BY DEF Requeued
<1>3. RecordFits(j, Closed(r, "other"), a, o)
  BY DEF Closed
<1>4. RecordFits(j, Begun(r), a, o)
  <2>1. r.attempts \in Nat /\ r.attempts + 1 \in Nat
    OBVIOUS
  <2>2. CASE r.open
    BY <2>1, <2>2 DEF Begun
  <2>3. CASE ~r.open
    BY <2>1, <2>3 DEF Begun
  <2>4. QED
    BY <2>2, <2>3
<1>5. RecordFits(j, ClaimRetry(r, "other"), a, o)
  BY DEF ClaimRetry, Closed
<1>6. RecordFits(j, ClaimFailed(r, "other"), a, o)
  BY DEF ClaimFailed, Closed, Unclaimed
<1>7. ASSUME j \in o PROVE RecordFits(j, ClaimFailed(r, "final"), a, o)
  BY <1>7 DEF ClaimFailed, Closed, Unclaimed
<1>8. ASSUME NEW tx \in {"hash", "prior", "superseded"}, PaidIn(j, a)
      PROVE  RecordFits(j, ClaimSucceeded(r, tx), a, o)
  <2>1. CASE Unclaimed(r)
    BY <1>8, <2>1 DEF ClaimSucceeded, Closed
  <2>2. CASE ~Unclaimed(r)
    BY <2>2 DEF ClaimSucceeded
  <2>3. QED
    BY <2>1, <2>2
<1>9. RecordFits(j, [r EXCEPT !.claim = "queued"], a, o)
  OBVIOUS
<1>10. RecordFits(j, [r EXCEPT !.claim = "failed", !.last = "other"], a, o)
  OBVIOUS
<1>11. QED
  BY <1>1, <1>2, <1>3, <1>4, <1>5, <1>6, <1>7, <1>8, <1>9, <1>10

\* A message is sent for a record that is saved.
LEMMA SavedAndEnqueued ==
  ASSUME ClaimInv, WorldStep, NEW j \in Jobs, NEW r,
         RecordFits(j, r, landed, WrittenOff), SaveAndEnqueue(j, r)
  PROVE  RecStep /\ MessageStep /\ CallStep
<1>1. PICK m \in Messages :
        /\ message[m].at = "unsent"
        /\ message' = [message EXCEPT ![m] = [NoMessage EXCEPT !.job = j, !.at = "sending"]]
        /\ call' = [call EXCEPT ![m] = [waits |-> TRUE, snap |-> r]]
  BY DEF SaveAndEnqueue, Fresh
<1>2. RecStep
  BY RecordSaved DEF SaveAndEnqueue
<1>3. MessageFollows(message[m], [NoMessage EXCEPT !.job = j, !.at = "sending"], landed', WrittenOff')
  BY <1>1 DEF MessageFollows, NoMessage, MessageRecord, AnswerFits
<1>4. MessageStep
  BY <1>1, <1>3, MessageGoesOn
<1>5. CallStep
  <2>1. RecordFits(j, r, landed', WrittenOff') /\ r \in JobRecord
    BY FitsStays DEF WorldStep, RecordFits
  <2>2. call \in [Messages -> CallRecord] /\ message \in [Messages -> MessageRecord]
    BY DEF ClaimInv, TypeOK
  <2>3. message'[m].job = j /\ message'[m].at = "sending"
    BY <1>1, <2>2 DEF NoMessage
  <2>4. call' \in [Messages -> CallRecord]
    BY <1>1, <2>1, <2>2 DEF CallRecord
  <2>5. ASSUME NEW n \in Messages
        PROVE  \/ call'[n] = call[n]
               \/ /\ message'[n].at # "unsent"
                  /\ RecordFits(message'[n].job, call'[n].snap, landed', WrittenOff')
    BY <1>1, <2>1, <2>2, <2>3
  <2>6. QED
    BY <2>4, <2>5 DEF CallStep
<1>6. QED
  BY <1>2, <1>4, <1>5

\* The message is acked or, after a crash, delivered again: there is nothing to record.
LEMMA Acked ==
  ASSUME ClaimInv, NEW m \in Messages, message[m].at # "unsent", NEW msgs,
         msgs \in {message, [message EXCEPT ![m].attempts = @ + 1]}, AckIn(msgs, m)
  PROVE  MessageStep /\ events \subseteq events' /\ events' \subseteq Events
<1>1. msgs[m] \in MessageRecord /\ msgs[m].job = message[m].job /\ message[m].job \in Jobs
  BY DEF ClaimInv, TypeOK, MessageRecord
<1>2. PICK new \in {Gone(msgs[m]), Redelivered(msgs[m])} : message' = [msgs EXCEPT ![m] = new]
  BY DEF AckIn
<1>3. message' = [message EXCEPT ![m] = new]
  BY <1>2 DEF ClaimInv, TypeOK
<1>4. MessageFollows(message[m], new, landed', WrittenOff')
  BY <1>1, <1>2 DEF MessageFollows, MessageRecord, AnswerFits, Gone, Redelivered
<1>5. MessageStep
  BY <1>3, <1>4, MessageGoesOn
<1>6. QED
  BY <1>5, EventsGrow DEF AckIn

\* The same when the indexes are written, or are not.
LEMMA IndexedOrRetried ==
  ASSUME ClaimInv, NEW m \in Messages, message[m].at # "unsent", NEW msgs,
         msgs \in {message, [message EXCEPT ![m].attempts = @ + 1]}, IndexOrRetry(msgs, m)
  PROVE  /\ MessageStep /\ events \subseteq events' /\ events' \subseteq Events
         /\ indexed' \in SUBSET Jobs
<1>1. /\ msgs[m] \in MessageRecord /\ msgs[m].job = message[m].job /\ message[m].job \in Jobs
      /\ indexed \in SUBSET Jobs
  BY DEF ClaimInv, TypeOK, MessageRecord
<1>2. CASE AckIn(msgs, m)
  BY <1>1, <1>2, Acked DEF IndexOrRetry
<1>3. CASE ~AckIn(msgs, m)
  <2> DEFINE new == [Redelivered(msgs[m]) EXCEPT !.at = "waiting"]
  <2>1. message' = [msgs EXCEPT ![m] = new] /\ UNCHANGED <<indexed, events>>
    BY <1>3 DEF IndexOrRetry
  <2>2. message' = [message EXCEPT ![m] = new]
    BY <2>1 DEF ClaimInv, TypeOK
  <2>3. MessageFollows(message[m], new, landed', WrittenOff')
    BY <1>1 DEF MessageFollows, MessageRecord, AnswerFits, Redelivered
  <2>4. MessageStep
    BY <2>2, <2>3, MessageGoesOn
  <2>5. QED
    BY <1>1, <2>1, <2>4, EventsGrow
<1>4. QED
  BY <1>2, <1>3
-----------------------------------------------------------------------------
(* Each action is a step that keeps what records and answers rest on.      *)

\* markSucceeded() says nothing of the claim but that it is queued.
LEMMA ProofSucceedsStep ==
  ASSUME ClaimInv, NEW j \in Jobs, ProofSucceeds(j) PROVE ClaimStep
<1>1. WorldStep
  BY WorldRests, EventsGrow DEF ProofSucceeds, world, ClaimInv, TypeOK, Events
<1>2. RecStep
  <2>1. rec' = [rec EXCEPT ![j] = [Requeued(rec[j]) EXCEPT !.proof = "succeeded"]]
    BY DEF ProofSucceeds
  <2>2. RecordFits(j, [Requeued(rec[j]) EXCEPT !.proof = "succeeded"], landed, WrittenOff)
    BY WritersFit DEF ClaimInv, RecordsFit
  <2>3. QED
    BY <1>1, <2>1, <2>2, RecordSaved
<1>3. MessageStep
  <2> DEFINE new == [NoMessage EXCEPT !.job = j, !.at = "unpinning"]
  <2>1. PICK m \in Messages : message[m].at = "unsent" /\ message' = [message EXCEPT ![m] = new]
    BY DEF ProofSucceeds, Fresh
  <2>2. MessageFollows(message[m], new, landed', WrittenOff')
    BY <2>1 DEF MessageFollows, NoMessage, MessageRecord, AnswerFits
  <2>3. QED
    BY <2>1, <2>2, MessageGoesOn
<1>4. CallStep /\ EnrichingStep
  BY Rests DEF ProofSucceeds
<1>5. QED
  BY <1>1, <1>2, <1>3, <1>4 DEF ClaimStep

\* enqueueClaimJob() loads the record.
LEMMA EnqueueClaimJobStep ==
  ASSUME ClaimInv, NEW m \in Messages, EnqueueClaimJob(m) PROVE ClaimStep
<1>1. WorldStep
  BY WorldRests, EventsGrow DEF EnqueueClaimJob, world, ClaimInv, TypeOK
<1>2. RecStep /\ EnrichingStep
  BY Rests DEF EnqueueClaimJob
<1>3. message[m] \in MessageRecord /\ message[m].job \in Jobs /\ message[m].at # "unsent"
  BY DEF EnqueueClaimJob, ClaimInv, TypeOK
<1>4. PICK at \in {"gone", "sending"} : message' = [message EXCEPT ![m].at = at]
  BY DEF EnqueueClaimJob
<1>5. MessageStep
  <2> DEFINE new == [message[m] EXCEPT !.at = at]
  <2>1. message' = [message EXCEPT ![m] = new]
    BY <1>4
  <2>2. MessageFollows(message[m], new, landed', WrittenOff')
    <3>1. AnswerFits(message[m], landed', WrittenOff')
      BY <1>1, AnswerStays DEF ClaimInv, AnswersFit, WorldStep
    <3>2. QED
      BY <1>3, <3>1 DEF MessageFollows, MessageRecord, AnswerFits
  <2>3. QED
    BY <2>1, <2>2, MessageGoesOn
<1>6. CallStep
  <2>1. CASE UNCHANGED call
    BY <2>1, Rests
  <2>2. CASE call' = [call EXCEPT ![m] = [waits |-> TRUE, snap |-> rec[message[m].job]]]
    <3>1. RecordFits(message[m].job, rec[message[m].job], landed', WrittenOff')
      BY <1>1, <1>3, FitsStays DEF ClaimInv, RecordsFit, WorldStep
    <3>2. message'[m].job = message[m].job /\ message'[m].at # "unsent"
      BY <1>3, <1>4 DEF ClaimInv, TypeOK, MessageRecord
    <3>3. QED
      BY <1>3, <2>2, <3>1, <3>2 DEF ClaimInv, TypeOK, CallStep, CallRecord
  <2>3. QED
    BY <2>1, <2>2 DEF EnqueueClaimJob
<1>7. QED
  BY <1>1, <1>2, <1>5, <1>6 DEF ClaimStep

\* The message is on its way.
LEMMA SendArrivesStep ==
  ASSUME ClaimInv, NEW m \in Messages, SendArrives(m) PROVE ClaimStep
<1>1. WorldStep
  BY WorldRests, EventsGrow DEF SendArrives, world, ClaimInv, TypeOK, Events
<1>2. RecStep /\ CallStep /\ EnrichingStep
  BY Rests DEF SendArrives
<1>3. MessageStep
  <2> DEFINE new == [message[m] EXCEPT !.at = "waiting"]
  <2>1. message' = [message EXCEPT ![m] = new] /\ message[m].at # "unsent"
    BY DEF SendArrives
  <2>2. MessageFollows(message[m], new, landed', WrittenOff')
    <3>1. AnswerFits(message[m], landed', WrittenOff')
      BY <1>1, AnswerStays DEF ClaimInv, AnswersFit, WorldStep
    <3>2. QED
      BY <2>1, <3>1 DEF ClaimInv, TypeOK, MessageFollows, MessageRecord, AnswerFits
  <2>3. QED
    BY <2>1, <2>2, MessageGoesOn
<1>4. QED
  BY <1>1, <1>2, <1>3 DEF ClaimStep

\* The record that was loaded before the send is saved: what it rests on is still there.
LEMMA SendReturnsStep ==
  ASSUME ClaimInv, NEW m \in Messages, SendReturns(m) PROVE ClaimStep
<1>1. message[m].at # "unsent" /\ message[m].job \in Jobs
      /\ RecordFits(message[m].job, call[m].snap, landed, WrittenOff)
  BY DEF SendReturns, ClaimInv, TypeOK, CallsFit
<1>2. WorldStep
  BY <1>1, WorldRests, EventsGrow DEF SendReturns, world, ClaimInv, TypeOK
<1>3. RecStep
  <2> DEFINE r == [call[m].snap EXCEPT !.claim = "queued"]
  <2>1. rec' = [rec EXCEPT ![message[m].job] = r]
    BY DEF SendReturns
  <2>2. RecordFits(message[m].job, r, landed, WrittenOff)
    BY <1>1, WritersFit
  <2> HIDE DEF r
  <2>3. QED
    BY <1>1, <1>2, <2>1, <2>2, RecordSaved
<1>4. MessageStep /\ EnrichingStep
  BY Rests DEF SendReturns
<1>5. CallStep
  BY DEF SendReturns, ClaimInv, TypeOK, CallStep, NoCall, CallRecord, New, JobRecord, ErrorClass
<1>6. QED
  BY <1>2, <1>3, <1>4, <1>5 DEF ClaimStep

\* The same when the send fails.
LEMMA SendThrowsStep ==
  ASSUME ClaimInv, NEW m \in Messages, SendThrows(m) PROVE ClaimStep
<1>1. message[m].at # "unsent" /\ message[m].job \in Jobs
      /\ RecordFits(message[m].job, call[m].snap, landed, WrittenOff)
  BY DEF SendThrows, ClaimInv, TypeOK, CallsFit
<1>2. WorldStep
  <2>1. PICK e \in {"lost", "false"} :
          events' = events \cup {e} \cup Overwrites(message[m].job, call[m].snap)
    BY DEF SendThrows
  <2>2. events \subseteq events' /\ events' \subseteq Events
    BY <1>1, <2>1, EventsGrow DEF Events
  <2>3. QED
    BY <2>2, WorldRests DEF SendThrows, world, ClaimInv, TypeOK
<1>3. RecStep
  <2> DEFINE r == [call[m].snap EXCEPT !.claim = "failed", !.last = "other"]
  <2>1. rec' = [rec EXCEPT ![message[m].job] = r]
    BY DEF SendThrows
  <2>2. RecordFits(message[m].job, r, landed, WrittenOff)
    BY <1>1, WritersFit
  <2> HIDE DEF r
  <2>3. QED
    BY <1>1, <1>2, <2>1, <2>2, RecordSaved
<1>4. EnrichingStep
  BY Rests DEF SendThrows
<1>5. MessageStep
  <2> DEFINE new == [message[m] EXCEPT !.at = "gone"]
  <2>1. CASE UNCHANGED message
    BY <2>1, Rests
  <2>2. CASE message' = [message EXCEPT ![m] = new]
    <3>1. AnswerFits(message[m], landed', WrittenOff')
      BY <1>2, AnswerStays DEF ClaimInv, AnswersFit, WorldStep
    <3>2. MessageFollows(message[m], new, landed', WrittenOff')
      BY <1>1, <3>1 DEF ClaimInv, TypeOK, MessageFollows, MessageRecord, AnswerFits
    <3>3. QED
      BY <2>2, <3>2, MessageGoesOn
  <2>3. QED
    BY <2>1, <2>2 DEF SendThrows
<1>6. CallStep
  BY DEF SendThrows, ClaimInv, TypeOK, CallStep, NoCall, CallRecord, New, JobRecord, ErrorClass
<1>7. QED
  BY <1>2, <1>3, <1>4, <1>5, <1>6 DEF ClaimStep

\* A claim is queued again by hand.
LEMMA RetryFailedClaimStep ==
  ASSUME ClaimInv, NEW j \in Jobs, RetryFailedClaim(j) PROVE ClaimStep
<1>1. WorldStep
  BY WorldRests, EventsGrow DEF RetryFailedClaim, world, ClaimInv, TypeOK, Events
<1>2. RecordFits(j, Requeued(rec[j]), landed, WrittenOff)
  BY WritersFit DEF ClaimInv, RecordsFit
<1>3. RecStep /\ MessageStep /\ CallStep
  BY <1>1, <1>2, SavedAndEnqueued DEF RetryFailedClaim
<1>4. EnrichingStep
  BY Rests DEF RetryFailedClaim
<1>5. QED
  BY <1>1, <1>3, <1>4 DEF ClaimStep

\* A claim is queued again by cron.
LEMMA AutoRecoverStep ==
  ASSUME ClaimInv, NEW j \in Jobs, AutoRecover(j) PROVE ClaimStep
<1>1. WorldStep
  BY WorldRests, EventsGrow DEF AutoRecover, world, ClaimInv, TypeOK
<1>2. RecordFits(j, rec[j], landed, WrittenOff)
  BY DEF ClaimInv, RecordsFit
<1>3. RecordFits(j, Closed(rec[j], "other"), landed, WrittenOff)
  BY <1>2, WritersFit
<1>4. PICK r \in {rec[j], Closed(rec[j], "other")} : SaveAndEnqueue(j, Requeued(r))
  BY DEF AutoRecover
<1>5. RecordFits(j, Requeued(r), landed, WrittenOff)
  BY <1>2, <1>3, WritersFit
<1>6. RecStep /\ MessageStep /\ CallStep
  BY <1>1, <1>4, <1>5, SavedAndEnqueued
<1>7. EnrichingStep
  BY Rests DEF AutoRecover
<1>8. QED
  BY <1>1, <1>6, <1>7 DEF ClaimStep

\* A transaction is applied: the contract has accepted one journal more.
LEMMA TxSettlesStep ==
  ASSUME ClaimInv, NEW j \in Jobs, TxSettles(j) PROVE ClaimStep
<1>1. WorldStep
  BY DEF TxSettles, Lands, ClaimInv, TypeOK, WorldFits, WorldStep, WrittenOff
<1>2. RecStep /\ MessageStep /\ CallStep /\ EnrichingStep
  BY Rests DEF TxSettles
<1>3. QED
  BY <1>1, <1>2 DEF ClaimStep

\* A contract that was closed was paused, which is an event, or stays closed.
LEMMA ChainChangesStep ==
  ASSUME ClaimInv, ChainChanges PROVE ClaimStep
<1>1. events \subseteq events' /\ events' \subseteq Events
  BY EventsGrow DEF ChainChanges, Events
<1>2. chain' = "paused" => "pause" \in events'
  BY DEF ChainChanges, Happens
<1>3. WrittenOff \subseteq WrittenOff'
  BY <1>1 DEF ChainChanges, ClaimInv, WorldFits, WrittenOff
<1>4. WorldStep
  BY <1>1, <1>2, <1>3 DEF ChainChanges, ClaimInv, TypeOK, WorldFits, WorldStep
<1>5. RecStep /\ MessageStep /\ CallStep /\ EnrichingStep
  BY Rests DEF ChainChanges
<1>6. QED
  BY <1>4, <1>5 DEF ClaimStep

\* A delivery begins an attempt, or finds nothing to do.
LEMMA DeliverStep ==
  ASSUME ClaimInv, NEW m \in Messages, Deliver(m) PROVE ClaimStep
<1> DEFINE j == message[m].job
           msgs == [message EXCEPT ![m].attempts = @ + 1]
<1>1. message[m].at = "waiting" /\ j \in Jobs /\ message[m] \in MessageRecord
  BY DEF Deliver, ClaimInv, TypeOK
<1>2. CallStep /\ EnrichingStep
  BY Rests DEF Deliver
<1>3. CASE /\ \/ AckIn(msgs, m) /\ UNCHANGED indexed
              \/ IndexOrRetry(msgs, m)
           /\ UNCHANGED rec
  <2>1. /\ MessageStep /\ events \subseteq events' /\ events' \subseteq Events
        /\ indexed' \in SUBSET Jobs
    BY <1>1, <1>3, Acked, IndexedOrRetried DEF ClaimInv, TypeOK
  <2>2. WorldStep
    BY <2>1, WorldRests DEF Deliver
  <2>3. QED
    BY <1>2, <1>3, <2>1, <2>2, Rests DEF ClaimStep
<1>4. CASE /\ rec' = [rec EXCEPT ![j] = Begun(@)]
           /\ message' = [msgs EXCEPT ![m].at = "begun"]
           /\ UNCHANGED <<events, indexed>>
  <2>1. WorldStep
    BY <1>4, WorldRests, EventsGrow DEF Deliver, ClaimInv, TypeOK
  <2>2. RecordFits(j, Begun(rec[j]), landed, WrittenOff)
    BY <1>1, WritersFit DEF ClaimInv, RecordsFit
  <2>3. RecStep
    BY <1>1, <1>4, <2>1, <2>2, RecordSaved
  <2> DEFINE new == [message[m] EXCEPT !.attempts = @ + 1, !.at = "begun"]
  <2>4. message' = [message EXCEPT ![m] = new]
    BY <1>4 DEF ClaimInv, TypeOK, MessageRecord
  <2>5. AnswerFits(message[m], landed', WrittenOff')
    BY <2>1, AnswerStays DEF ClaimInv, AnswersFit, WorldStep
  <2>6. MessageFollows(message[m], new, landed', WrittenOff')
    <3>1. /\ new \in MessageRecord /\ new.at = "begun" /\ new.job = j
          /\ new.outcome = message[m].outcome
      <4>1. message[m].attempts + 1 \in Nat
        BY <1>1 DEF MessageRecord
      <4>2. QED
        BY <1>1, <4>1 DEF MessageRecord
    <3> HIDE DEF new
    <3>2. QED
      BY <1>1, <2>5, <3>1 DEF MessageFollows, AnswerFits
  <2>7. MessageStep
    BY <2>4, <2>6, MessageGoesOn
  <2>8. QED
    BY <1>2, <2>1, <2>3, <2>7 DEF ClaimStep
<1>5. QED
  BY <1>3, <1>4 DEF Deliver

\* The claim of the other job that succeeded was paid for, with no lower a score.
LEMMA SkipSupersededStep ==
  ASSUME ClaimInv, NEW m \in Messages, SkipSuperseded(m) PROVE ClaimStep
<1> DEFINE j == message[m].job
<1>1. message[m].at = "begun" /\ j \in Jobs
  BY DEF SkipSuperseded, ClaimInv, TypeOK
<1>2. MessageStep /\ events \subseteq events' /\ events' \subseteq Events
  BY <1>1, Acked DEF SkipSuperseded, Ack
<1>3. WorldStep
  BY <1>2, WorldRests DEF SkipSuperseded, world, ClaimInv, TypeOK
<1>4. PaidIn(j, landed)
  <2>1. PICK k \in Jobs : rec[k].claim = "succeeded" /\ Score[k] >= Score[j]
    BY DEF SkipSuperseded, Superseded
  <2>2. PICK i \in landed : Score[i] >= Score[k]
    BY <2>1 DEF ClaimInv, RecordsFit, RecordFits, PaidIn
  <2>3. Score[i] \in Nat /\ Score[j] \in Nat /\ Score[k] \in Nat
    BY <1>1, ScoreAssumption DEF ClaimInv, TypeOK
  <2>4. QED
    BY <2>1, <2>2, <2>3 DEF PaidIn
<1>5. RecordFits(j, ClaimSucceeded(rec[j], "superseded"), landed, WrittenOff)
  BY <1>1, <1>4, WritersFit DEF ClaimInv, RecordsFit
<1>6. RecStep
  BY <1>1, <1>3, <1>5, RecordSaved DEF SkipSuperseded
<1>7. CallStep /\ EnrichingStep
  BY Rests DEF SkipSuperseded
<1>8. QED
  BY <1>2, <1>3, <1>6, <1>7 DEF ClaimStep

\* An answer that is known is one the job may be given.
LEMMA Answered ==
  ASSUME ClaimInv, NEW m \in Messages, message[m].at # "unsent",
         NEW o \in {"retry", "other", "final", "hash", "prior", "superseded"}, Answer(m, o),
         o \in {"hash", "prior", "superseded"} => PaidIn(message[m].job, landed'),
         o = "final" => message[m].job \in WrittenOff'
  PROVE  MessageStep
<1> DEFINE new == [message[m] EXCEPT !.at = "answered", !.outcome = o]
<1>1. message' = [message EXCEPT ![m] = new] /\ message[m] \in MessageRecord
      /\ message[m].job \in Jobs
  BY DEF Answer, ClaimInv, TypeOK, MessageRecord
<1>2. MessageFollows(message[m], new, landed', WrittenOff')
  BY <1>1 DEF MessageFollows, MessageRecord, AnswerFits
<1>3. QED
  BY <1>1, <1>2, MessageGoesOn

\* What is corrupt may be written off.
LEMMA ReadArtifactFailsStep ==
  ASSUME ClaimInv, NEW m \in Messages, ReadArtifactFails(m) PROVE ClaimStep
<1>1. WorldStep
  BY WorldRests, EventsGrow DEF ReadArtifactFails, world, ClaimInv, TypeOK
<1>2. message[m].at # "unsent" /\ message[m].job \in Jobs
  BY DEF ReadArtifactFails, ClaimInv, TypeOK
<1>3. MessageStep
  <2>1. CASE Answer(m, "retry")
    BY <1>2, <2>1, Answered
  <2>2. CASE message[m].job \in corrupt /\ Answer(m, "final")
    <3>1. message[m].job \in WrittenOff'
      BY <1>1, <1>2, <2>2 DEF WrittenOff, WorldStep
    <3>2. QED
      BY <1>2, <2>2, <3>1, Answered
  <2>3. QED
    BY <2>1, <2>2 DEF ReadArtifactFails
<1>4. RecStep /\ CallStep /\ EnrichingStep
  BY Rests DEF ReadArtifactFails
<1>5. QED
  BY <1>1, <1>3, <1>4 DEF ClaimStep

\* What the contract says to a journal: it refuses one of a job it has accepted, or
\* accepted a better one of, only as paid, unless it is closed.
LEMMA SubmitClaimStep ==
  ASSUME ClaimInv, NEW m \in Messages, SubmitClaim(m) PROVE ClaimStep
<1> DEFINE j == message[m].job
<1>1. message[m].at = "begun" /\ j \in Jobs /\ j \notin corrupt
  BY DEF SubmitClaim, ClaimInv, TypeOK
<1>2. pending' \in SUBSET Jobs /\ pending' \subseteq pending \cup {j}
      /\ landed \subseteq landed' /\ landed' \subseteq landed \cup {j}
  BY <1>1 DEF SubmitClaim, Lands, ClaimInv, TypeOK
<1>3. UNCHANGED <<rec, call, enriching, corrupt, chain, indexed, events>>
  BY DEF SubmitClaim
<1>4. WorldStep
  BY <1>1, <1>2, <1>3 DEF ClaimInv, TypeOK, WorldFits, WorldStep, WrittenOff
<1>5. Score[j] \in Nat /\ Score[j] >= Score[j]
  BY <1>1, ScoreAssumption
<1>6. MessageStep
  <2>1. CASE ContractError(j) # "none" /\ Answer(m, ContractError(j))
    <3>1. ContractError(j) \in {"final", "prior", "superseded"}
      BY <2>1 DEF ContractError
    <3>2. ContractError(j) = "final" => j \in WrittenOff'
      BY <1>1, <1>4 DEF ContractError, WrittenOff, WorldStep
    <3>3. ContractError(j) \in {"prior", "superseded"} => PaidIn(j, landed')
      BY <1>2, <1>5 DEF ContractError, Beaten, PaidIn
    <3>4. QED
      BY <1>1, <2>1, <3>1, <3>2, <3>3, Answered
  <2>2. CASE Lands(j) /\ Answer(m, "hash")
    <3>1. PaidIn(j, landed')
      BY <1>5, <2>2 DEF Lands, PaidIn
    <3>2. QED
      BY <1>1, <2>2, <3>1, Answered
  <2>3. CASE \E e \in RelayError : Answer(m, Classified(e))
    <3>1. PICK e \in RelayError : Answer(m, Classified(e))
      BY <2>3
    <3>2. Classified(e) \in {"retry", "other"}
      BY DEF Classified
    <3>3. QED
      BY <1>1, <3>1, <3>2, Answered
  <2>4. QED
    BY <2>1, <2>2, <2>3 DEF SubmitClaim
<1>7. RecStep /\ CallStep /\ EnrichingStep
  BY <1>3, Rests
<1>8. QED
  BY <1>4, <1>6, <1>7 DEF ClaimStep

\* Nothing is known of the answer.
LEMMA ConsumerThrowsStep ==
  ASSUME ClaimInv, NEW m \in Messages, ConsumerThrows(m) PROVE ClaimStep
<1>1. WorldStep
  BY WorldRests, EventsGrow DEF ConsumerThrows, world, ClaimInv, TypeOK
<1>2. MessageStep
  BY Answered DEF ConsumerThrows
<1>3. RecStep /\ CallStep /\ EnrichingStep
  BY Rests DEF ConsumerThrows
<1>4. QED
  BY <1>1, <1>2, <1>3 DEF ClaimStep

\* The claim is recorded as what the answer says, and the answer rests on a payment.
LEMMA SettleSucceededStep ==
  ASSUME ClaimInv, NEW m \in Messages, SettleSucceeded(m) PROVE ClaimStep
<1> DEFINE j == message[m].job
           o == message[m].outcome
<1>1. /\ message[m].at = "answered" /\ j \in Jobs /\ message[m] \in MessageRecord
      /\ o \in {"hash", "prior", "superseded"}
  BY DEF SettleSucceeded, ClaimInv, TypeOK
<1>2. PaidIn(j, landed)
  BY <1>1 DEF ClaimInv, AnswersFit, AnswerFits
<1>3. /\ MessageStep
      /\ events \subseteq events' /\ events' \subseteq Events
  <2>1. CASE AckIn(message, m)
    BY <1>1, <2>1, Acked
  <2>2. CASE message' = [message EXCEPT ![m].at = "recorded"] /\ UNCHANGED events
    <3> DEFINE new == [message[m] EXCEPT !.at = "recorded"]
    <3>1. PaidIn(j, landed')
      BY <1>2 DEF SettleSucceeded, world
    <3>2. MessageFollows(message[m], new, landed', WrittenOff')
      BY <1>1, <3>1 DEF MessageFollows, MessageRecord, AnswerFits
    <3>3. message' = [message EXCEPT ![m] = new]
      BY <2>2
    <3>4. MessageStep
      BY <3>2, <3>3, MessageGoesOn
    <3>5. QED
      BY <2>2, <3>4, EventsGrow
  <2>3. QED
    BY <2>1, <2>2 DEF SettleSucceeded, Ack
<1>4. WorldStep
  BY <1>3, WorldRests DEF SettleSucceeded, world, ClaimInv, TypeOK
<1>5. RecordFits(j, ClaimSucceeded(rec[j], o), landed, WrittenOff)
  BY <1>1, <1>2, WritersFit DEF ClaimInv, RecordsFit
<1>6. RecStep
  BY <1>1, <1>4, <1>5, RecordSaved DEF SettleSucceeded
<1>7. CallStep /\ EnrichingStep
  BY Rests DEF SettleSucceeded
<1>8. QED
  BY <1>3, <1>4, <1>6, <1>7 DEF ClaimStep

\* The indexes say nothing of the claim.
LEMMA PersistIndexesStep ==
  ASSUME ClaimInv, NEW m \in Messages, PersistIndexes(m) PROVE ClaimStep
<1>1. /\ MessageStep /\ events \subseteq events' /\ events' \subseteq Events
      /\ indexed' \in SUBSET Jobs
  BY IndexedOrRetried DEF PersistIndexes
<1>2. WorldStep
  BY <1>1, WorldRests DEF PersistIndexes
<1>3. RecStep /\ CallStep /\ EnrichingStep
  BY Rests DEF PersistIndexes
<1>4. QED
  BY <1>1, <1>2, <1>3 DEF ClaimStep

\* A claim that is tried again has not succeeded.
LEMMA SettleRetryStep ==
  ASSUME ClaimInv, NEW m \in Messages, SettleRetry(m) PROVE ClaimStep
<1> DEFINE j == message[m].job
<1>1. message[m].at = "answered" /\ j \in Jobs /\ message[m] \in MessageRecord
  BY DEF SettleRetry, ClaimInv, TypeOK
<1>2. WorldStep
  BY WorldRests, EventsGrow DEF SettleRetry, world, ClaimInv, TypeOK
<1>3. RecordFits(j, ClaimRetry(rec[j], "other"), landed, WrittenOff)
  BY <1>1, WritersFit DEF ClaimInv, RecordsFit
<1>4. RecStep
  BY <1>1, <1>2, <1>3, RecordSaved DEF SettleRetry
<1>5. MessageStep
  <2> DEFINE new == [message[m] EXCEPT !.at = "waiting", !.outcome = "none"]
  <2>1. message' = [message EXCEPT ![m] = new]
    BY DEF SettleRetry, ClaimInv, TypeOK, MessageRecord
  <2>2. MessageFollows(message[m], new, landed', WrittenOff')
    BY <1>1 DEF MessageFollows, MessageRecord, AnswerFits
  <2>3. QED
    BY <2>1, <2>2, MessageGoesOn
<1>6. CallStep /\ EnrichingStep
  BY Rests DEF SettleRetry
<1>7. QED
  BY <1>2, <1>4, <1>5, <1>6 DEF ClaimStep

\* A claim is written off for good only for a final answer; one that has a transaction
\* is promoted, and was paid for.
LEMMA SettleFailedStep ==
  ASSUME ClaimInv, NEW m \in Messages, SettleFailed(m) PROVE ClaimStep
<1> DEFINE j == message[m].job
           e == IF message[m].outcome = "final" THEN "final" ELSE "other"
<1>1. message[m].at = "answered" /\ j \in Jobs
  BY DEF SettleFailed, ClaimInv, TypeOK
<1>2. MessageStep /\ events \subseteq events' /\ events' \subseteq Events
  BY <1>1, Acked DEF SettleFailed, Ack
<1>3. WorldStep
  BY <1>2, WorldRests DEF SettleFailed, world, ClaimInv, TypeOK
<1>4. RecordFits(j, rec[j], landed, WrittenOff) /\ (e = "final" => j \in WrittenOff)
  BY <1>1 DEF ClaimInv, RecordsFit, AnswersFit, AnswerFits
<1>5. RecordFits(j, ClaimFailed(rec[j], e), landed, WrittenOff)
  BY <1>4, WritersFit
<1>6. rec' = [rec EXCEPT ![j] = ClaimFailed(rec[j], e)]
  BY DEF SettleFailed
<1> HIDE DEF e
<1>7. RecStep
  BY <1>1, <1>3, <1>5, <1>6, RecordSaved
<1>8. CallStep /\ EnrichingStep
  BY Rests DEF SettleFailed
<1>9. QED
  BY <1>2, <1>3, <1>7, <1>8 DEF ClaimStep

\* A consumer that crashes has recorded nothing.
LEMMA ConsumerCrashStep ==
  ASSUME ClaimInv, NEW m \in Messages, ConsumerCrash(m) PROVE ClaimStep
<1>1. message[m].at # "unsent" /\ message[m].job \in Jobs /\ message[m] \in MessageRecord
  BY DEF ConsumerCrash, InHand, ClaimInv, TypeOK
<1>2. WorldStep
  BY WorldRests, EventsGrow DEF ConsumerCrash, world, ClaimInv, TypeOK
<1>3. MessageFollows(message[m], Redelivered(message[m]), landed', WrittenOff')
  BY <1>1 DEF MessageFollows, MessageRecord, AnswerFits, Redelivered
<1>4. MessageStep
  BY <1>3, MessageGoesOn DEF ConsumerCrash
<1>5. RecStep /\ CallStep /\ EnrichingStep
  BY Rests DEF ConsumerCrash
<1>6. QED
  BY <1>2, <1>4, <1>5 DEF ClaimStep

\* The dead letter queue keeps the last error.
LEMMA DeadLetterStep ==
  ASSUME ClaimInv, NEW m \in Messages, DeadLetter(m) PROVE ClaimStep
<1> DEFINE j == message[m].job
           e == IF rec[j].last = "final" THEN "final" ELSE "other"
<1>1. message[m].at # "unsent" /\ j \in Jobs /\ message[m] \in MessageRecord
  BY DEF DeadLetter, ClaimInv, TypeOK
<1>2. WorldStep
  BY WorldRests, EventsGrow DEF DeadLetter, world, ClaimInv, TypeOK
<1>3. MessageFollows(message[m], Gone(message[m]), landed', WrittenOff')
  BY <1>1 DEF MessageFollows, MessageRecord, AnswerFits, Gone
<1>4. MessageStep
  BY <1>3, MessageGoesOn DEF DeadLetter
<1>5. RecordFits(j, rec[j], landed, WrittenOff) /\ (e = "final" => j \in WrittenOff)
  BY <1>1 DEF ClaimInv, RecordsFit, RecordFits
<1>6. RecordFits(j, ClaimFailed(rec[j], e), landed, WrittenOff)
  BY <1>5, WritersFit
<1>7. rec' = [rec EXCEPT ![j] = ClaimFailed(rec[j], e)]
  BY <1>1 DEF DeadLetter, ClaimInv, TypeOK
<1> HIDE DEF e
<1>8. RecStep
  BY <1>1, <1>2, <1>6, <1>7, RecordSaved
<1>9. CallStep /\ EnrichingStep
  BY Rests DEF DeadLetter
<1>10. QED
  BY <1>2, <1>4, <1>8, <1>9 DEF ClaimStep

\* A job that is cancelled keeps what its claim came to.
LEMMA CancelStep ==
  ASSUME ClaimInv, NEW j \in Jobs, Cancel(j) PROVE ClaimStep
<1>1. WorldStep
  BY WorldRests, EventsGrow DEF Cancel, world, ClaimInv, TypeOK, Events
<1>2. RecordFits(j, rec[j], landed, WrittenOff)
  BY DEF ClaimInv, RecordsFit
<1>3. RecStep
  <2>1. CASE rec[j].claim = "succeeded"
    <3> DEFINE r == [rec[j] EXCEPT !.proof = "failed"]
    <3>1. rec' = [rec EXCEPT ![j] = r]
      BY <1>2, <2>1 DEF Cancel, ClaimInv, TypeOK, RecordFits, JobRecord
    <3>2. RecordFits(j, r, landed, WrittenOff)
      BY <1>2 DEF RecordFits, JobRecord
    <3> HIDE DEF r
    <3>3. QED
      BY <1>1, <3>1, <3>2, RecordSaved
  <2>2. CASE rec[j].claim # "succeeded"
    <3> DEFINE r == [rec[j] EXCEPT !.proof = "failed", !.claim = "failed", !.last = "other"]
    <3>1. rec' = [rec EXCEPT ![j] = r]
      BY <1>2, <2>2 DEF Cancel, ClaimInv, TypeOK, RecordFits, JobRecord
    <3>2. RecordFits(j, r, landed, WrittenOff)
      BY <1>2 DEF RecordFits, JobRecord, ErrorClass
    <3> HIDE DEF r
    <3>3. QED
      BY <1>1, <3>1, <3>2, RecordSaved
  <2>3. QED
    BY <2>1, <2>2
<1>4. MessageStep /\ CallStep /\ EnrichingStep
  BY Rests DEF Cancel
<1>5. QED
  BY <1>1, <1>3, <1>4 DEF ClaimStep

\* The record is loaded.
LEMMA EnrichStartsStep ==
  ASSUME ClaimInv, NEW j \in Jobs, EnrichStarts(j) PROVE ClaimStep
<1>1. WorldStep
  BY WorldRests, EventsGrow DEF EnrichStarts, world, ClaimInv, TypeOK, Events
<1>2. EnrichingStep
  <2>1. RecordFits(j, rec[j], landed', WrittenOff')
    BY <1>1, FitsStays DEF ClaimInv, RecordsFit, WorldStep
  <2>2. QED
    BY <2>1 DEF EnrichStarts, ClaimInv, TypeOK, EnrichingStep, CallRecord
<1>3. RecStep /\ MessageStep /\ CallStep
  BY Rests DEF EnrichStarts
<1>4. QED
  BY <1>1, <1>2, <1>3 DEF ClaimStep

\* The record that was loaded before is saved: what it rests on is still there.
LEMMA EnrichEndsStep ==
  ASSUME ClaimInv, NEW j \in Jobs, EnrichEnds(j) PROVE ClaimStep
<1>1. RecordFits(j, enriching[j].snap, landed, WrittenOff)
  BY DEF EnrichEnds, ClaimInv, EnrichingFits
<1>2. WorldStep
  BY WorldRests, EventsGrow DEF EnrichEnds, world, ClaimInv, TypeOK
<1>3. RecStep
  BY <1>1, <1>2, Rests, RecordSaved DEF EnrichEnds
<1>4. EnrichingStep
  BY DEF EnrichEnds, ClaimInv, TypeOK, EnrichingStep, NoCall, CallRecord, New, JobRecord,
         ErrorClass
<1>5. MessageStep /\ CallStep
  BY Rests DEF EnrichEnds
<1>6. QED
  BY <1>2, <1>3, <1>4, <1>5 DEF ClaimStep

\* What is evicted rests on nothing any more.
LEMMA CoordinatorRestartStep ==
  ASSUME ClaimInv, CoordinatorRestart PROVE ClaimStep
<1>1. WorldStep
  BY WorldRests, EventsGrow DEF CoordinatorRestart, world, ClaimInv, TypeOK, Events
<1>2. RecStep
  BY Rests DEF CoordinatorRestart
<1>3. MessageStep
  <2>1. ASSUME NEW m \in Messages
        PROVE  MessageFollows(message[m], message'[m], landed', WrittenOff')
    BY DEF CoordinatorRestart, ClaimInv, TypeOK, MessageFollows, MessageRecord, AnswerFits, Gone
  <2>2. message' \in [Messages -> MessageRecord]
    BY <2>1 DEF CoordinatorRestart, MessageFollows
  <2>3. QED
    BY <2>1, <2>2 DEF MessageStep
<1>4. CallStep /\ EnrichingStep
  BY DEF CoordinatorRestart, ClaimInv, TypeOK, CallStep, EnrichingStep, NoCall, CallRecord, New,
         JobRecord, ErrorClass
<1>5. QED
  BY <1>1, <1>2, <1>3, <1>4 DEF ClaimStep
-----------------------------------------------------------------------------
\* Every step keeps the invariant.
LEMMA ClaimInvIsInductive == ClaimInv /\ [Next]_vars => ClaimInv'
<1> SUFFICES ASSUME ClaimInv, [Next]_vars PROVE ClaimInv'
  OBVIOUS
<1>1. ASSUME NEW j \in Jobs,
             \/ ProofSucceeds(j) \/ RetryFailedClaim(j) \/ AutoRecover(j)
             \/ TxSettles(j) \/ Cancel(j) \/ EnrichStarts(j) \/ EnrichEnds(j)
      PROVE  ClaimStep
  BY <1>1, ProofSucceedsStep, RetryFailedClaimStep, AutoRecoverStep, TxSettlesStep, CancelStep,
     EnrichStartsStep, EnrichEndsStep
<1>2. ASSUME NEW m \in Messages,
             \/ EnqueueClaimJob(m) \/ SendArrives(m) \/ SendReturns(m)
             \/ SendThrows(m) \/ ConsumerCrash(m)
      PROVE  ClaimStep
  BY <1>2, EnqueueClaimJobStep, SendArrivesStep, SendReturnsStep, SendThrowsStep,
     ConsumerCrashStep
<1>3. ASSUME NEW m \in Messages, Consume(m) PROVE ClaimStep
  BY <1>3, DeliverStep, SkipSupersededStep, ReadArtifactFailsStep, SubmitClaimStep,
     ConsumerThrowsStep, SettleSucceededStep, PersistIndexesStep, SettleRetryStep,
     SettleFailedStep, DeadLetterStep DEF Consume
<1>4. CASE UNCHANGED vars
  <2>1. WorldStep
    BY <1>4, WorldRests, EventsGrow DEF vars, ClaimInv, TypeOK
  <2>2. RecStep /\ MessageStep /\ CallStep /\ EnrichingStep
    BY <1>4, Rests DEF vars
  <2>3. QED
    BY <2>1, <2>2, StepKeepsClaimInv DEF ClaimStep
<1>5. CASE Next
  <2>1. ClaimStep
    BY <1>1, <1>2, <1>3, <1>5, ChainChangesStep, CoordinatorRestartStep DEF Next
  <2>2. QED
    BY <2>1, StepKeepsClaimInv
<1>6. QED
  BY <1>4, <1>5

\* The invariant holds in every state.
LEMMA ClaimInvariant == Spec => []ClaimInv
<1>1. Init => ClaimInv
  BY ClaimInit
<1>2. ClaimInv /\ [Next]_vars => ClaimInv'
  BY ClaimInvIsInductive
<1>3. QED
  BY <1>1, <1>2, PTL DEF Spec
-----------------------------------------------------------------------------
\* The claim side's variables have their types.
THEOREM ClaimTypeCorrect == Spec => []TypeOK
<1>1. ClaimInv => TypeOK
  BY DEF ClaimInv
<1>2. QED
  BY <1>1, ClaimInvariant, PTL

\* A claim that is shown as succeeded has been paid for, whatever answers were lost,
\* messages delivered twice and old records saved again (markClaimSucceeded and the
\* promotion in markClaimFailed rest on an answer that was given for a payment).
THEOREM ClaimsArePaid == Spec => []SucceededMeansPaid
<1>1. ClaimInv => SucceededMeansPaid
  BY DEF ClaimInv, RecordsFit, RecordFits, PaidIn, SucceededMeansPaid, Paid
<1>2. QED
  BY <1>1, ClaimInvariant, PTL

\* A claim whose journal the contract has accepted is written off for good only when the
\* contract was closed to it: every other refusal of an accepted journal is taken for the
\* payment it stands for (classifySimulationContractError).
THEOREM PaidClaimsAreNotWrittenOff == Spec => []WrittenOffOnlyIfClosed
<1>1. ClaimInv => WrittenOffOnlyIfClosed
  BY DEF ClaimInv, TypeOK, RecordsFit, RecordFits, WorldFits, WrittenOff, WrittenOffOnlyIfClosed
<1>2. QED
  BY <1>1, ClaimInvariant, PTL
-----------------------------------------------------------------------------
(* A claim paid by its own transaction gets into the replay indexes.       *)

\* A proof that is announced twice, or a read of the job that saves the record it
\* loaded, may bring an old record back.
Calm(e) == e \cap {"again", "enrich"} = {}

\* A transaction is known of a succeeded claim only, and of a proved job.
GoodRec(r) == r.tx # "none" => r.claim = "succeeded" /\ r.proof # "running"
PaidHere(r) == r.proof = "succeeded" /\ r.claim = "succeeded" /\ r.tx = "hash"

\* The message will put job j into the indexes, or was delivered too often.
Heals(msg, j) ==
  /\ msg.job = j
  /\ \/ msg.at \in {"waiting", "recorded", "dead"}
     \/ msg.at = "gone" /\ msg.attempts >= MaxDeliveries
Cared(j) == j \in indexed \/ \E m \in Messages : Heals(message[m], j)

OneInHand == \A m, n \in Messages : InHand(m) /\ InHand(n) => m = n
DeadAreExhausted ==
  \A m \in Messages : message[m].at = "dead" => message[m].attempts > MaxDeliveries

\* A claim that a consumer works on has not succeeded: nobody but the consumer can
\* make it succeed, since no record with a transaction is left to be promoted.
HandsAreOpen ==
  \A m \in Messages :
    message[m].at \in {"begun", "answered"} => rec[message[m].job].claim # "succeeded"

Tidy ==
  /\ \A j \in Jobs : ~enriching[j].waits
  /\ \A j \in Jobs : GoodRec(rec[j])
  /\ \A m \in Messages : call[m].waits => call[m].snap.tx = "none"
  /\ HandsAreOpen
  /\ \A j \in Jobs : PaidHere(rec[j]) => Cared(j)
IndexInv == OneInHand /\ DeadAreExhausted /\ (Calm(events) => Tidy)

\* One message becomes the message new, and stays with its job.
Moves(m, new) ==
  /\ message' = [message EXCEPT ![m] = new]
  /\ message[m].at # "unsent" => new.job = message[m].job
  /\ new.at = "dead" => new.attempts > MaxDeliveries
  /\ new.at \in {"begun", "answered", "recorded"} => \A n \in Messages : InHand(n) => n = m

\* One record becomes the record r.
Saves(j, r) == \A k \in Jobs : rec'[k] = IF k = j THEN r ELSE rec[k]

\* Where nothing old comes back, what saving r beside the message new must respect.
Respects(m, new, j, r) ==
  /\ GoodRec(r)
  /\ \A n \in Messages : call'[n] = call[n] \/ ~call'[n].waits \/ call'[n].snap.tx = "none"
  /\ new.at \in {"begun", "answered"} => r.claim # "succeeded"
  /\ r.claim = "succeeded" => r = rec[j] \/ InHand(m)
  /\ PaidHere(r) => \/ j \in indexed' \/ Heals(new, j)
                    \/ r = rec[j] /\ ~Heals(message[m], j)

\* One message moves, and the record of its job is saved or left alone.
LEMMA MovesTidily ==
  ASSUME ClaimInv, IndexInv, NEW m \in Messages, NEW new, NEW j \in Jobs, NEW r,
         Moves(m, new), new.job = j, Saves(j, r),
         events \subseteq events', indexed \subseteq indexed', UNCHANGED enriching,
         Calm(events') /\ Tidy => Respects(m, new, j, r)
  PROVE  IndexInv'
<1>1. \A n \in Messages : message'[n] = IF n = m THEN new ELSE message[n]
  BY DEF Moves, ClaimInv, TypeOK
<1>2. OneInHand'
  BY <1>1 DEF Moves, IndexInv, OneInHand, InHand
<1>3. DeadAreExhausted'
  BY <1>1 DEF Moves, IndexInv, DeadAreExhausted
<1>4. ASSUME Calm(events') PROVE Tidy'
  <2>1. Calm(events)
    BY <1>4 DEF Calm
  <2>2. Tidy /\ Respects(m, new, j, r)
    BY <1>4, <2>1 DEF IndexInv
  <2>3. \A k \in Jobs : ~enriching'[k].waits /\ GoodRec(rec'[k])
    BY <2>2 DEF Tidy, Respects, Saves
  <2>4. \A n \in Messages : call'[n].waits => call'[n].snap.tx = "none"
    BY <2>2 DEF Tidy, Respects
  <2>5. ASSUME NEW n \in Messages, message'[n].at \in {"begun", "answered"}
        PROVE  rec'[message'[n].job].claim # "succeeded"
    <3>1. CASE n = m
      BY <1>1, <2>2, <2>5, <3>1 DEF Respects, Saves
    <3>2. CASE n # m
      <4>1. /\ message'[n] = message[n] /\ InHand(n) /\ message[n].at # "unsent"
            /\ rec[message[n].job].claim # "succeeded"
        BY <1>1, <2>2, <2>5, <3>2 DEF Tidy, HandsAreOpen, InHand
      <4>2. message[n].job \in Jobs
        BY <4>1 DEF ClaimInv, TypeOK
      <4>3. ~InHand(m)
        BY <3>2, <4>1 DEF IndexInv, OneInHand
      <4>4. QED
        BY <2>2, <4>1, <4>2, <4>3 DEF Respects, Saves
    <3>3. QED
      BY <3>1, <3>2
  <2>6. ASSUME NEW k \in Jobs, PaidHere(rec'[k]) PROVE Cared(k)'
    <3>1. ASSUME Cared(k), ~Heals(message[m], k) PROVE Cared(k)'
      BY <1>1, <3>1 DEF Cared
    <3>2. CASE k = j
      <4>1. PaidHere(r)
        BY <2>6, <3>2 DEF Saves
      <4>2. CASE j \in indexed' \/ Heals(new, j)
        BY <1>1, <3>2, <4>2 DEF Cared
      <4>3. CASE r = rec[j] /\ ~Heals(message[m], j)
        BY <2>2, <3>1, <3>2, <4>1, <4>3 DEF Tidy
      <4>4. QED
        BY <2>2, <4>1, <4>2, <4>3 DEF Respects
    <3>3. CASE k # j
      <4>1. Cared(k)
        BY <2>2, <2>6, <3>3 DEF Saves, Tidy
      <4>2. ~Heals(message[m], k)
        BY <3>3 DEF Moves, Heals
      <4>3. QED
        BY <3>1, <4>1, <4>2
    <3>4. QED
      BY <3>2, <3>3
  <2>7. QED
    BY <2>3, <2>4, <2>5, <2>6 DEF Tidy, HandsAreOpen
<1>5. QED
  BY <1>2, <1>3, <1>4 DEF IndexInv

\* A message that stays as it is moves, too.
LEMMA StaysPut ==
  ASSUME ClaimInv, IndexInv, NEW m \in Messages, UNCHANGED message
  PROVE  Moves(m, message[m])
BY DEF Moves, IndexInv, OneInHand, DeadAreExhausted, InHand, ClaimInv, TypeOK

\* A record of a job without a message to move: it is not paid, or was already.
LEMMA SavesTidily ==
  ASSUME ClaimInv, IndexInv, NEW j \in Jobs, NEW r, Saves(j, r),
         events \subseteq events', UNCHANGED <<message, indexed, call, enriching>>,
         Calm(events') /\ Tidy =>
           /\ GoodRec(r) /\ (r.claim = "succeeded" => rec[j].claim = "succeeded")
           /\ ~PaidHere(r) \/ r = rec[j]
  PROVE  IndexInv'
<1>1. OneInHand' /\ DeadAreExhausted'
  BY DEF IndexInv, OneInHand, DeadAreExhausted, InHand
<1>2. ASSUME Calm(events') PROVE Tidy'
  <2>1. Calm(events)
    BY <1>2 DEF Calm
  <2>2. /\ Tidy /\ GoodRec(r) /\ (r.claim = "succeeded" => rec[j].claim = "succeeded")
        /\ ~PaidHere(r) \/ r = rec[j]
    BY <1>2, <2>1 DEF IndexInv
  <2>3. \A n \in Messages : message[n].at \in {"begun", "answered"} => message[n].job \in Jobs
    BY DEF ClaimInv, TypeOK
  <2>4. HandsAreOpen'
    BY <2>2, <2>3 DEF Tidy, HandsAreOpen, Saves
  <2>5. \A k \in Jobs : PaidHere(rec'[k]) => Cared(k)'
    BY <2>2 DEF Tidy, Saves, Cared
  <2>6. QED
    BY <2>2, <2>4, <2>5 DEF Tidy, Saves
<1>3. QED
  BY <1>1, <1>2 DEF IndexInv

\* An ack, or the crash before it.
LEMMA AckMoves ==
  ASSUME ClaimInv, NEW m \in Messages, message[m].at # "unsent", NEW msgs,
         msgs \in {message, [message EXCEPT ![m].attempts = @ + 1]}, AckIn(msgs, m)
  PROVE  /\ events \subseteq events'
         /\ \E new : /\ Moves(m, new) /\ new.job = message[m].job
                     /\ new.at \in {"gone", "waiting", "dead"}
                     /\ new.attempts = msgs[m].attempts
<1>1. /\ msgs[m] \in MessageRecord /\ msgs[m].job = message[m].job
  BY DEF ClaimInv, TypeOK, MessageRecord
<1>2. PICK new \in {Gone(msgs[m]), Redelivered(msgs[m])} : message' = [msgs EXCEPT ![m] = new]
  BY DEF AckIn
<1>3. message' = [message EXCEPT ![m] = new]
  BY <1>2 DEF ClaimInv, TypeOK
<1>4. /\ new.job = message[m].job /\ new.attempts = msgs[m].attempts
      /\ new.at \in {"gone", "waiting", "dead"}
      /\ new.at = "dead" => new.attempts > MaxDeliveries
  BY <1>1, <1>2 DEF MessageRecord, Gone, Redelivered
<1>5. Moves(m, new)
  BY <1>3, <1>4 DEF Moves
<1>6. events \subseteq events'
  BY EventsGrow DEF AckIn
<1>7. QED
  BY <1>4, <1>5, <1>6

\* The same when the indexes are written, or are not: the message is gone only when
\* they are, or when it was delivered too often.
LEMMA IndexOrRetryMoves ==
  ASSUME ClaimInv, NEW m \in Messages, message[m].at # "unsent", NEW msgs,
         msgs \in {message, [message EXCEPT ![m].attempts = @ + 1]}, IndexOrRetry(msgs, m)
  PROVE  /\ events \subseteq events' /\ indexed \subseteq indexed'
         /\ \E new : /\ Moves(m, new) /\ new.job = message[m].job
                     /\ new.at \in {"gone", "waiting", "dead"}
                     /\ message[m].job \in indexed' \/ Heals(new, message[m].job)
<1>1. /\ msgs[m] \in MessageRecord /\ msgs[m].job = message[m].job
      /\ msgs[m].attempts \in Nat /\ MaxDeliveries \in Nat
  BY BoundAssumption DEF ClaimInv, TypeOK, MessageRecord
<1>2. CASE indexed' = indexed \cup {msgs[m].job} /\ AckIn(msgs, m)
  BY <1>1, <1>2, AckMoves
<1>3. CASE /\ msgs[m].attempts < MaxDeliveries
           /\ message' = [msgs EXCEPT ![m] = [Redelivered(@) EXCEPT !.at = "waiting"]]
           /\ UNCHANGED <<indexed, events>>
  <2> DEFINE new == [Redelivered(msgs[m]) EXCEPT !.at = "waiting"]
  <2>1. message' = [message EXCEPT ![m] = new]
    BY <1>3 DEF ClaimInv, TypeOK
  <2>2. new.job = message[m].job /\ new.at = "waiting"
    BY <1>1 DEF MessageRecord, Redelivered
  <2> HIDE DEF new
  <2>3. Moves(m, new) /\ Heals(new, message[m].job)
    BY <2>1, <2>2 DEF Moves, Heals
  <2>4. QED
    BY <1>3, <2>2, <2>3
<1>4. CASE msgs[m].attempts >= MaxDeliveries /\ AckIn(msgs, m) /\ UNCHANGED indexed
  <2>1. events \subseteq events'
    BY <1>4, AckMoves
  <2>2. PICK new : /\ Moves(m, new) /\ new.job = message[m].job
                   /\ new.at \in {"gone", "waiting", "dead"} /\ new.attempts = msgs[m].attempts
    BY <1>4, AckMoves
  <2>3. Heals(new, message[m].job)
    BY <1>4, <2>2 DEF Heals
  <2>4. QED
    BY <1>4, <2>1, <2>2, <2>3
<1>5. QED
  BY <1>2, <1>3, <1>4 DEF IndexOrRetry

\* What the writers of a claim make of a record that is good.
LEMMA WritersAreGood ==
  ASSUME NEW r \in JobRecord, GoodRec(r)
  PROVE  /\ r.proof = "running" =>
              GoodRec([Requeued(r) EXCEPT !.proof = "succeeded"])
              /\ [Requeued(r) EXCEPT !.proof = "succeeded"].claim = "queued"
         /\ \A s \in {Begun(r), ClaimRetry(r, "other")} :
              Unclaimed(r) => GoodRec(s) /\ s.claim # "succeeded"
         /\ ~Unclaimed(r) => ClaimRetry(r, "other") = r
         /\ \A e \in {"other", "final"} :
              /\ Unclaimed(r) => GoodRec(ClaimFailed(r, e)) /\ ClaimFailed(r, e).claim = "failed"
              /\ ~Unclaimed(r) => ClaimFailed(r, e) = r
         /\ \A tx \in {"hash", "prior", "superseded"} :
              /\ GoodRec(ClaimSucceeded(r, tx))
              /\ ~Unclaimed(r) => ClaimSucceeded(r, tx) = r
              /\ Unclaimed(r) => ClaimSucceeded(r, tx).tx = tx
BY DEF GoodRec, JobRecord, Requeued, Closed, Begun, ClaimRetry, ClaimFailed, ClaimSucceeded,
       Unclaimed

\* A claim is queued again only when it has not succeeded.
LEMMA RequeuedIsGood ==
  ASSUME NEW r \in JobRecord, GoodRec(r), r.claim # "succeeded"
  PROVE  /\ Requeued(r).tx = "none" /\ Requeued(r).claim = "queued" /\ GoodRec(Requeued(r))
         /\ Requeued(Closed(r, "other")).tx = "none" /\ Requeued(Closed(r, "other")).claim = "queued"
         /\ GoodRec(Requeued(Closed(r, "other")))
BY DEF GoodRec, JobRecord, Requeued, Closed

-----------------------------------------------------------------------------
\* Queueing a claim.
LEMMA ProofSucceedsTidily ==
  ASSUME ClaimInv, IndexInv, NEW j \in Jobs, ProofSucceeds(j) PROVE IndexInv'
<1> DEFINE r == [Requeued(rec[j]) EXCEPT !.proof = "succeeded"]
           new == [NoMessage EXCEPT !.job = j, !.at = "unpinning"]
<1>1. PICK m \in Messages : message[m].at = "unsent" /\ message' = [message EXCEPT ![m] = new]
  BY DEF ProofSucceeds, Fresh
<1>2. new.job = j /\ new.at = "unpinning"
  BY DEF NoMessage
<1> HIDE DEF new
<1>3. Moves(m, new)
  BY <1>1, <1>2 DEF Moves
<1>4. Saves(j, r) /\ UNCHANGED <<call, enriching, indexed>>
  BY DEF ProofSucceeds, Saves, world, ClaimInv, TypeOK
<1>5. events \subseteq events' /\ ("again" \notin events' => rec[j].proof = "running")
  BY EventsGrow DEF ProofSucceeds, Events, Happens
<1>6. rec[j] \in JobRecord
  BY DEF ClaimInv, TypeOK
<1>7. Calm(events') /\ Tidy => Respects(m, new, j, r)
  <2> SUFFICES ASSUME Calm(events'), Tidy PROVE Respects(m, new, j, r)
    OBVIOUS
  <2>1. GoodRec(r) /\ r.claim = "queued"
    BY <1>5, <1>6, WritersAreGood DEF Calm, Tidy
  <2> HIDE DEF r
  <2>2. QED
    BY <1>2, <1>4, <2>1 DEF Respects, PaidHere
<1> HIDE DEF r
<1>8. QED
  BY <1>2, <1>3, <1>4, <1>5, <1>7, MovesTidily

\* Sending it.
LEMMA EnqueueClaimJobTidily ==
  ASSUME ClaimInv, IndexInv, NEW m \in Messages, EnqueueClaimJob(m) PROVE IndexInv'
<1> DEFINE j == message[m].job
           sending == [message[m] EXCEPT !.at = "sending"]
           gone == [message[m] EXCEPT !.at = "gone"]
<1>1. /\ message[m] \in MessageRecord /\ message[m].at = "unpinning" /\ j \in Jobs
      /\ rec[j] \in JobRecord
  BY DEF EnqueueClaimJob, ClaimInv, TypeOK
<1>2. sending.job = j /\ sending.at = "sending" /\ gone.job = j /\ gone.at = "gone"
  BY <1>1 DEF MessageRecord
<1>3. /\ UNCHANGED <<rec, enriching, events, indexed>>
      /\ \/ message' = [message EXCEPT ![m] = gone] /\ UNCHANGED call
         \/ /\ rec[j].claim # "succeeded" /\ message' = [message EXCEPT ![m] = sending]
            /\ call' = [call EXCEPT ![m] = [waits |-> TRUE, snap |-> rec[j]]]
  BY DEF EnqueueClaimJob, world
<1> HIDE DEF sending, gone
<1>4. PICK new \in {sending, gone} :
        /\ message' = [message EXCEPT ![m] = new]
        /\ \/ UNCHANGED call
           \/ /\ rec[j].claim # "succeeded"
              /\ call' = [call EXCEPT ![m] = [waits |-> TRUE, snap |-> rec[j]]]
  BY <1>3
<1>5. Moves(m, new) /\ new.job = j /\ new.at \in {"sending", "gone"} /\ Saves(j, rec[j])
  BY <1>2, <1>3, <1>4 DEF Moves, Saves
<1>6. Calm(events') /\ Tidy => Respects(m, new, j, rec[j])
  <2> SUFFICES ASSUME Tidy PROVE Respects(m, new, j, rec[j])
    OBVIOUS
  <2>1. GoodRec(rec[j])
    BY <1>1 DEF Tidy
  <2>2. \A n \in Messages : call'[n] = call[n] \/ call'[n].snap.tx = "none"
    BY <1>4, <2>1 DEF GoodRec, ClaimInv, TypeOK
  <2>3. QED
    BY <1>1, <1>5, <2>1, <2>2 DEF Respects, Heals
<1> HIDE DEF j
<1>7. QED
  BY <1>1, <1>3, <1>5, <1>6, MovesTidily

\* The queue has it.
LEMMA SendArrivesTidily ==
  ASSUME ClaimInv, IndexInv, NEW m \in Messages, SendArrives(m) PROVE IndexInv'
<1> DEFINE j == message[m].job
           new == [message[m] EXCEPT !.at = "waiting"]
<1>1. /\ message[m] \in MessageRecord /\ message[m].at = "sending" /\ j \in Jobs
  BY DEF SendArrives, ClaimInv, TypeOK
<1>2. new.job = j /\ new.at = "waiting" /\ message' = [message EXCEPT ![m] = new]
  BY <1>1 DEF MessageRecord, SendArrives
<1> HIDE DEF new
<1>3. Moves(m, new) /\ Saves(j, rec[j]) /\ UNCHANGED <<call, enriching, indexed>>
  BY <1>2 DEF Moves, Saves, SendArrives, world
<1>4. events \subseteq events'
  BY EventsGrow DEF SendArrives, Events
<1>5. Calm(events') /\ Tidy => Respects(m, new, j, rec[j])
  BY <1>1, <1>2, <1>3 DEF Respects, Heals, Tidy
<1> HIDE DEF j
<1>6. QED
  BY <1>1, <1>2, <1>3, <1>4, <1>5, MovesTidily

\* The record loaded before the send is saved; it had no transaction.
LEMMA SendReturnsTidily ==
  ASSUME ClaimInv, IndexInv, NEW m \in Messages, SendReturns(m) PROVE IndexInv'
<1> DEFINE j == message[m].job
           r == [call[m].snap EXCEPT !.claim = "queued"]
<1>1. /\ call[m] \in CallRecord /\ call[m].waits /\ j \in Jobs /\ call[m].snap \in JobRecord
      /\ rec' = [rec EXCEPT ![j] = r] /\ call' = [call EXCEPT ![m] = NoCall]
      /\ events \subseteq events' /\ UNCHANGED <<message, enriching, indexed>>
  BY DEF SendReturns, ClaimInv, CallsFit, TypeOK, CallRecord, world
<1>2. r.claim = "queued" /\ r.tx = call[m].snap.tx
  BY <1>1 DEF JobRecord
<1> HIDE DEF r
<1>3. Moves(m, message[m]) /\ Saves(j, r)
  BY <1>1, StaysPut DEF Saves, ClaimInv, TypeOK
<1>4. Calm(events') /\ Tidy => Respects(m, message[m], j, r)
  <2>1. \A n \in Messages : call'[n] = call[n] \/ ~call'[n].waits
    BY <1>1 DEF NoCall, ClaimInv, TypeOK
  <2>2. QED
    BY <1>1, <1>2, <2>1 DEF Respects, Tidy, GoodRec, PaidHere
<1>5. QED
  BY <1>1, <1>3, <1>4, MovesTidily

\* So it is when the send throws.
LEMMA SendThrowsTidily ==
  ASSUME ClaimInv, IndexInv, NEW m \in Messages, SendThrows(m) PROVE IndexInv'
<1> DEFINE j == message[m].job
           r == [call[m].snap EXCEPT !.claim = "failed", !.last = "other"]
           gone == [message[m] EXCEPT !.at = "gone"]
<1>1. /\ call[m] \in CallRecord /\ call[m].waits /\ j \in Jobs /\ call[m].snap \in JobRecord
      /\ rec' = [rec EXCEPT ![j] = r] /\ call' = [call EXCEPT ![m] = NoCall]
      /\ events \subseteq events' /\ UNCHANGED <<enriching, indexed>>
      /\ message[m] \in MessageRecord
      /\ UNCHANGED message \/ message' = [message EXCEPT ![m] = gone]
  BY DEF SendThrows, ClaimInv, CallsFit, TypeOK, CallRecord, world
<1>2. r.claim = "failed" /\ r.tx = call[m].snap.tx /\ gone.job = j /\ gone.at = "gone"
  BY <1>1 DEF JobRecord, MessageRecord
<1> HIDE DEF r, gone
<1>3. Saves(j, r)
  BY <1>1 DEF Saves, ClaimInv, TypeOK
<1>4. PICK new \in {message[m], gone} : Moves(m, new)
  <2>1. message' = [message EXCEPT ![m] = gone] => Moves(m, gone)
    BY <1>2 DEF Moves
  <2>2. QED
    BY <1>1, <2>1, StaysPut
<1>5. Calm(events') /\ Tidy => Respects(m, new, j, r)
  <2>1. \A n \in Messages : call'[n] = call[n] \/ ~call'[n].waits
    BY <1>1 DEF NoCall, ClaimInv, TypeOK
  <2>2. QED
    BY <1>1, <1>2, <2>1 DEF Respects, Tidy, GoodRec, PaidHere
<1>6. new.job = j
  BY <1>2
<1>7. QED
  BY <1>1, <1>3, <1>4, <1>5, <1>6, MovesTidily

\* A claim that a caller or cron queues again has not succeeded.
LEMMA RequeuesTidily ==
  ASSUME ClaimInv, IndexInv, NEW j \in Jobs, RetryFailedClaim(j) \/ AutoRecover(j)
  PROVE  IndexInv'
<1>1. rec[j] \in JobRecord /\ rec[j].claim # "succeeded"
  BY DEF RetryFailedClaim, AutoRecover, ClaimInv, TypeOK
<1>2. PICK r \in {Requeued(rec[j]), Requeued(Closed(rec[j], "other"))} : SaveAndEnqueue(j, r)
  BY DEF RetryFailedClaim, AutoRecover
<1>3. GoodRec(rec[j]) => r.tx = "none" /\ r.claim = "queued" /\ GoodRec(r)
  BY <1>1, <1>2, RequeuedIsGood
<1> DEFINE new == [NoMessage EXCEPT !.job = j, !.at = "sending"]
<1>4. new.job = j /\ new.at = "sending"
  BY DEF NoMessage
<1> HIDE DEF new
<1>5. PICK m \in Messages : /\ message[m].at = "unsent"
                            /\ message' = [message EXCEPT ![m] = new]
                            /\ call' = [call EXCEPT ![m] = [waits |-> TRUE, snap |-> r]]
  BY <1>2 DEF SaveAndEnqueue, Fresh, new
<1>6. Moves(m, new) /\ Saves(j, r) /\ UNCHANGED <<enriching, indexed>>
  BY <1>2, <1>4, <1>5 DEF Moves, Saves, SaveAndEnqueue, RetryFailedClaim, AutoRecover, world,
     ClaimInv, TypeOK
<1>7. events \subseteq events'
  BY EventsGrow DEF RetryFailedClaim, AutoRecover, Events
<1>8. Calm(events') /\ Tidy => Respects(m, new, j, r)
  <2> SUFFICES ASSUME Tidy PROVE Respects(m, new, j, r)
    OBVIOUS
  <2>1. r.tx = "none" /\ r.claim = "queued" /\ GoodRec(r)
    BY <1>3 DEF Tidy
  <2>2. \A n \in Messages : call'[n] = call[n] \/ call'[n].snap.tx = "none"
    BY <1>5, <2>1 DEF ClaimInv, TypeOK
  <2>3. QED
    BY <1>4, <2>1, <2>2 DEF Respects, PaidHere
<1>9. QED
  BY <1>4, <1>6, <1>7, <1>8, MovesTidily

-----------------------------------------------------------------------------
\* The consumer.
LEMMA DeliverTidily ==
  ASSUME ClaimInv, IndexInv, NEW m \in Messages, Deliver(m) PROVE IndexInv'
<1> DEFINE j == message[m].job
           msgs == [message EXCEPT ![m].attempts = @ + 1]
<1>1. /\ message[m] \in MessageRecord /\ message[m].at = "waiting" /\ message[m].at # "unsent"
      /\ j \in Jobs /\ rec[j] \in JobRecord /\ UNCHANGED <<call, enriching>>
      /\ \A n \in Messages : ~InHand(n)
  BY DEF Deliver, ClaimInv, TypeOK
<1>2. UNCHANGED rec => Saves(j, rec[j])
  BY DEF Saves
<1>3. CASE UNCHANGED <<rec, indexed>> /\ ~PaidHere(rec[j]) /\ AckIn(msgs, m)
  <2>1. events \subseteq events'
    BY <1>1, <1>3, AckMoves
  <2>2. PICK new : Moves(m, new) /\ new.job = j /\ new.at \in {"gone", "waiting", "dead"}
    BY <1>1, <1>3, AckMoves
  <2>3. Calm(events') /\ Tidy => Respects(m, new, j, rec[j])
    BY <1>1, <1>3, <2>2 DEF Respects, Tidy
  <2> HIDE DEF j
  <2>4. QED
    BY <1>1, <1>2, <1>3, <2>1, <2>2, <2>3, MovesTidily
<1>4. CASE UNCHANGED rec /\ IndexOrRetry(msgs, m)
  <2>1. events \subseteq events' /\ indexed \subseteq indexed'
    BY <1>1, <1>4, IndexOrRetryMoves
  <2>2. PICK new : /\ Moves(m, new) /\ new.job = j /\ new.at \in {"gone", "waiting", "dead"}
                   /\ j \in indexed' \/ Heals(new, j)
    BY <1>1, <1>4, IndexOrRetryMoves
  <2>3. Calm(events') /\ Tidy => Respects(m, new, j, rec[j])
    BY <1>1, <2>2 DEF Respects, Tidy
  <2> HIDE DEF j
  <2>4. QED
    BY <1>1, <1>2, <1>4, <2>1, <2>2, <2>3, MovesTidily
<1>5. CASE /\ Unclaimed(rec[j]) /\ UNCHANGED <<events, indexed>>
           /\ rec' = [rec EXCEPT ![j] = Begun(rec[j])]
           /\ message' = [msgs EXCEPT ![m].at = "begun"]
  <2> DEFINE new == [msgs[m] EXCEPT !.at = "begun"]
             r == Begun(rec[j])
  <2>1. new.job = j /\ new.at = "begun" /\ message' = [message EXCEPT ![m] = new]
    BY <1>1, <1>5 DEF MessageRecord, ClaimInv, TypeOK
  <2> HIDE DEF new
  <2>2. Moves(m, new) /\ Saves(j, r)
    BY <1>1, <1>5, <2>1 DEF Moves, Saves, ClaimInv, TypeOK
  <2>3. Calm(events') /\ Tidy => GoodRec(r) /\ r.claim # "succeeded"
    BY <1>1, <1>5, WritersAreGood DEF Tidy
  <2> HIDE DEF r
  <2>4. Calm(events') /\ Tidy => Respects(m, new, j, r)
    BY <1>1, <2>1, <2>3 DEF Respects, PaidHere
  <2> HIDE DEF j
  <2>5. QED
    BY <1>1, <1>5, <2>1, <2>2, <2>4, MovesTidily
<1>6. QED
  BY <1>1, <1>3, <1>4, <1>5 DEF Deliver, PaidHere

\* The claim of another job has superseded this one.
LEMMA SkipSupersededTidily ==
  ASSUME ClaimInv, IndexInv, NEW m \in Messages, SkipSuperseded(m) PROVE IndexInv'
<1> DEFINE j == message[m].job
           r == ClaimSucceeded(rec[j], "superseded")
<1>1. /\ message[m].at = "begun" /\ message[m].at # "unsent" /\ InHand(m) /\ j \in Jobs
      /\ rec[j] \in JobRecord /\ UNCHANGED <<call, enriching, indexed>>
      /\ rec' = [rec EXCEPT ![j] = r] /\ AckIn(message, m)
  BY DEF SkipSuperseded, ClaimInv, TypeOK, InHand, world, Ack
<1>2. events \subseteq events'
  BY <1>1, AckMoves
<1>3. PICK new : Moves(m, new) /\ new.job = j /\ new.at \in {"gone", "waiting", "dead"}
  BY <1>1, AckMoves
<1>4. Saves(j, r)
  BY <1>1 DEF Saves, ClaimInv, TypeOK
<1>5. Calm(events') /\ Tidy => GoodRec(r) /\ (r.tx = "superseded" \/ r = rec[j])
  BY <1>1, WritersAreGood DEF Tidy
<1> HIDE DEF r
<1>6. Calm(events') /\ Tidy => Respects(m, new, j, r)
  BY <1>1, <1>3, <1>5 DEF Respects, PaidHere, Heals
<1> HIDE DEF j
<1>7. QED
  BY <1>1, <1>2, <1>3, <1>4, <1>6, MovesTidily

\* A message that a consumer has begun gets its answer.
LEMMA AnsweredTidily ==
  ASSUME ClaimInv, IndexInv, NEW m \in Messages,
         ReadArtifactFails(m) \/ SubmitClaim(m) \/ ConsumerThrows(m)
  PROVE  IndexInv'
<1> DEFINE j == message[m].job
<1>1. /\ message[m].at \in {"begun", "answered"} /\ j \in Jobs /\ message[m] \in MessageRecord
      /\ UNCHANGED <<rec, call, enriching, events, indexed>>
  BY DEF ReadArtifactFails, SubmitClaim, ConsumerThrows, ClaimInv, TypeOK, world
<1>2. PICK o : message' = [message EXCEPT ![m].at = "answered", ![m].outcome = o]
  BY DEF ReadArtifactFails, SubmitClaim, ConsumerThrows, Answer
<1> DEFINE new == [message[m] EXCEPT !.at = "answered", !.outcome = o]
<1>3. new.job = j /\ new.at = "answered" /\ message' = [message EXCEPT ![m] = new]
  BY <1>1, <1>2 DEF MessageRecord, ClaimInv, TypeOK
<1> HIDE DEF new
<1>4. Moves(m, new) /\ Saves(j, rec[j])
  BY <1>1, <1>3 DEF Moves, Saves, IndexInv, OneInHand, InHand
<1>5. Calm(events') /\ Tidy => Respects(m, new, j, rec[j])
  BY <1>1, <1>3 DEF Respects, Tidy, HandsAreOpen, Heals
<1> HIDE DEF j
<1>6. QED
  BY <1>1, <1>3, <1>4, <1>5, MovesTidily

\* The claim is recorded as succeeded; its message goes on to write the indexes.
LEMMA SettleSucceededTidily ==
  ASSUME ClaimInv, IndexInv, NEW m \in Messages, SettleSucceeded(m) PROVE IndexInv'
<1> DEFINE j == message[m].job
           o == message[m].outcome
           r == ClaimSucceeded(rec[j], o)
<1>1. /\ message[m].at = "answered" /\ message[m].at # "unsent" /\ InHand(m) /\ j \in Jobs
      /\ message[m] \in MessageRecord /\ o \in {"hash", "prior", "superseded"}
      /\ rec[j] \in JobRecord /\ UNCHANGED <<call, enriching, indexed>>
      /\ rec' = [rec EXCEPT ![j] = r]
  BY DEF SettleSucceeded, ClaimInv, TypeOK, InHand, world
<1>2. /\ events \subseteq events'
      /\ \E new : /\ Moves(m, new) /\ new.job = j
                  /\ new.at \in {"gone", "waiting", "dead", "recorded"}
                  /\ o = "hash" => new.at = "recorded"
  <2>1. CASE o = "hash"
    <3> DEFINE new == [message[m] EXCEPT !.at = "recorded"]
    <3>1. new.job = j /\ new.at = "recorded" /\ message' = [message EXCEPT ![m] = new]
          /\ UNCHANGED events
      BY <1>1, <2>1 DEF MessageRecord, ClaimInv, TypeOK, SettleSucceeded
    <3> HIDE DEF new
    <3>2. Moves(m, new)
      BY <1>1, <3>1 DEF Moves, IndexInv, OneInHand
    <3>3. QED
      BY <3>1, <3>2
  <2>2. CASE o # "hash"
    <3>1. AckIn(message, m)
      BY <2>2 DEF SettleSucceeded, Ack
    <3>2. QED
      BY <1>1, <2>2, <3>1, AckMoves
  <2>3. QED
    BY <2>1, <2>2
<1>3. PICK new : /\ Moves(m, new) /\ new.job = j
                 /\ new.at \in {"gone", "waiting", "dead", "recorded"}
                 /\ o = "hash" => new.at = "recorded"
  BY <1>2
<1>4. Saves(j, r)
  BY <1>1 DEF Saves, ClaimInv, TypeOK
<1>5. Calm(events') /\ Tidy => GoodRec(r) /\ (r.tx = o \/ r = rec[j])
  BY <1>1, WritersAreGood DEF Tidy
<1> HIDE DEF r, o
<1>6. Calm(events') /\ Tidy => Respects(m, new, j, r)
  BY <1>1, <1>3, <1>5 DEF Respects, PaidHere, Heals
<1> HIDE DEF j
<1>7. QED
  BY <1>1, <1>2, <1>3, <1>4, <1>6, MovesTidily

\* The indexes are written.
LEMMA PersistIndexesTidily ==
  ASSUME ClaimInv, IndexInv, NEW m \in Messages, PersistIndexes(m) PROVE IndexInv'
<1> DEFINE j == message[m].job
<1>1. /\ message[m].at # "unsent" /\ j \in Jobs /\ UNCHANGED <<rec, call, enriching>>
      /\ IndexOrRetry(message, m)
  BY DEF PersistIndexes, ClaimInv, TypeOK
<1>2. events \subseteq events' /\ indexed \subseteq indexed'
  BY <1>1, IndexOrRetryMoves
<1>3. PICK new : /\ Moves(m, new) /\ new.job = j /\ new.at \in {"gone", "waiting", "dead"}
                 /\ j \in indexed' \/ Heals(new, j)
  BY <1>1, IndexOrRetryMoves
<1>4. Saves(j, rec[j])
  BY <1>1 DEF Saves
<1>5. Calm(events') /\ Tidy => Respects(m, new, j, rec[j])
  BY <1>1, <1>3 DEF Respects, Tidy
<1> HIDE DEF j
<1>6. QED
  BY <1>1, <1>2, <1>3, <1>4, <1>5, MovesTidily

\* Any other answer leaves a claim that has not succeeded, or changes nothing.
LEMMA SettleTidily ==
  ASSUME ClaimInv, IndexInv, NEW m \in Messages, SettleRetry(m) \/ SettleFailed(m)
  PROVE  IndexInv'
<1> DEFINE j == message[m].job
<1>1. /\ message[m].at = "answered" /\ message[m].at # "unsent" /\ j \in Jobs
      /\ message[m] \in MessageRecord /\ rec[j] \in JobRecord
      /\ UNCHANGED <<call, enriching, indexed>>
  BY DEF SettleRetry, SettleFailed, ClaimInv, TypeOK, world
<1>2. PICK r \in {ClaimRetry(rec[j], "other"), ClaimFailed(rec[j], "other"),
                  ClaimFailed(rec[j], "final")} : rec' = [rec EXCEPT ![j] = r]
  BY DEF SettleRetry, SettleFailed
<1>3. /\ events \subseteq events'
      /\ \E new : Moves(m, new) /\ new.job = j /\ new.at \in {"gone", "waiting", "dead"}
  <2>1. CASE SettleRetry(m)
    <3> DEFINE new == [message[m] EXCEPT !.at = "waiting", !.outcome = "none"]
    <3>1. new.job = j /\ new.at = "waiting" /\ message' = [message EXCEPT ![m] = new]
          /\ UNCHANGED events
      BY <1>1, <2>1 DEF MessageRecord, ClaimInv, TypeOK, SettleRetry
    <3> HIDE DEF new
    <3>2. Moves(m, new)
      BY <3>1 DEF Moves
    <3>3. QED
      BY <3>1, <3>2
  <2>2. CASE SettleFailed(m)
    <3>1. AckIn(message, m)
      BY <2>2 DEF SettleFailed, Ack
    <3>2. QED
      BY <1>1, <3>1, AckMoves
  <2>3. QED
    BY <2>1, <2>2
<1>4. PICK new : Moves(m, new) /\ new.job = j /\ new.at \in {"gone", "waiting", "dead"}
  BY <1>3
<1>5. Saves(j, r)
  BY <1>1, <1>2 DEF Saves, ClaimInv, TypeOK
<1>6. Calm(events') /\ Tidy => GoodRec(r) /\ (r.claim # "succeeded" \/ r = rec[j])
  BY <1>1, <1>2, WritersAreGood DEF Tidy
<1>7. Calm(events') /\ Tidy => Respects(m, new, j, r)
  BY <1>1, <1>4, <1>6 DEF Respects, PaidHere, Heals
<1> HIDE DEF j
<1>8. QED
  BY <1>1, <1>3, <1>4, <1>5, <1>7, MovesTidily

\* A consumer that crashes leaves its message to another delivery.
LEMMA ConsumerCrashTidily ==
  ASSUME ClaimInv, IndexInv, NEW m \in Messages, ConsumerCrash(m) PROVE IndexInv'
<1> DEFINE j == message[m].job
           new == Redelivered(message[m])
<1>1. /\ message[m].at # "unsent" /\ j \in Jobs /\ message[m] \in MessageRecord
      /\ message' = [message EXCEPT ![m] = new] /\ UNCHANGED <<rec, call, enriching, indexed>>
  BY DEF ConsumerCrash, InHand, ClaimInv, TypeOK, world
<1>2. /\ new.job = j /\ new.at \in {"waiting", "dead"}
      /\ new.at = "dead" => new.attempts > MaxDeliveries
  BY <1>1 DEF Redelivered, MessageRecord
<1>3. events \subseteq events'
  BY EventsGrow DEF ConsumerCrash
<1> HIDE DEF new
<1>4. Moves(m, new) /\ Saves(j, rec[j]) /\ Heals(new, j)
  BY <1>1, <1>2 DEF Moves, Saves, Heals
<1>5. Calm(events') /\ Tidy => Respects(m, new, j, rec[j])
  BY <1>1, <1>2, <1>4 DEF Respects, Tidy
<1> HIDE DEF j
<1>6. QED
  BY <1>1, <1>2, <1>3, <1>4, <1>5, MovesTidily

\* A dead letter was delivered more often than that.
LEMMA DeadLetterTidily ==
  ASSUME ClaimInv, IndexInv, NEW m \in Messages, DeadLetter(m) PROVE IndexInv'
<1> DEFINE j == message[m].job
           new == Gone(message[m])
<1>1. /\ message[m].at = "dead" /\ message[m].at # "unsent" /\ j \in Jobs
      /\ message[m] \in MessageRecord /\ rec[j] \in JobRecord
      /\ message' = [message EXCEPT ![m] = new]
      /\ UNCHANGED <<call, enriching, events, indexed>>
  BY DEF DeadLetter, ClaimInv, TypeOK, world
<1>2. PICK r \in {ClaimFailed(rec[j], "other"), ClaimFailed(rec[j], "final")} :
        rec' = [rec EXCEPT ![j] = r]
  BY DEF DeadLetter
<1>3. message[m].attempts \in Nat /\ message[m].attempts > MaxDeliveries /\ MaxDeliveries \in Nat
  BY <1>1, BoundAssumption DEF IndexInv, DeadAreExhausted, MessageRecord
<1>4. new.job = j /\ new.at = "gone" /\ new.attempts >= MaxDeliveries
  BY <1>1, <1>3 DEF Gone, MessageRecord
<1> HIDE DEF new
<1>5. Moves(m, new) /\ Saves(j, r) /\ Heals(new, j)
  BY <1>1, <1>2, <1>4 DEF Moves, Saves, Heals, ClaimInv, TypeOK
<1>6. Calm(events') /\ Tidy => GoodRec(r) /\ (r.claim # "succeeded" \/ r = rec[j])
  BY <1>1, <1>2, WritersAreGood DEF Tidy
<1>7. Calm(events') /\ Tidy => Respects(m, new, j, r)
  BY <1>1, <1>4, <1>5, <1>6 DEF Respects
<1> HIDE DEF j
<1>8. QED
  BY <1>1, <1>4, <1>5, <1>7, MovesTidily

-----------------------------------------------------------------------------
\* A cancelled job is no longer proved.
LEMMA CancelTidily ==
  ASSUME ClaimInv, IndexInv, NEW j \in Jobs, Cancel(j) PROVE IndexInv'
<1> DEFINE r == [rec[j] EXCEPT !.proof = "failed",
                   !.claim = IF rec[j].claim = "succeeded" THEN "succeeded" ELSE "failed",
                   !.last = IF rec[j].claim = "succeeded" THEN rec[j].last ELSE "other"]
<1>1. rec[j] \in JobRecord /\ rec' = [rec EXCEPT ![j] = r]
  BY DEF Cancel, ClaimInv, TypeOK
<1>2. /\ r.proof = "failed" /\ r.tx = rec[j].tx
      /\ r.claim = IF rec[j].claim = "succeeded" THEN "succeeded" ELSE "failed"
  BY <1>1 DEF JobRecord
<1> HIDE DEF r
<1>3. Saves(j, r) /\ UNCHANGED <<message, indexed, call, enriching>>
  BY <1>1 DEF Saves, Cancel, world, ClaimInv, TypeOK
<1>4. events \subseteq events'
  BY EventsGrow DEF Cancel, Events
<1>5. Calm(events') /\ Tidy =>
        /\ GoodRec(r) /\ (r.claim = "succeeded" => rec[j].claim = "succeeded")
        /\ ~PaidHere(r) \/ r = rec[j]
  BY <1>2 DEF Tidy, GoodRec, PaidHere
<1>6. QED
  BY <1>3, <1>4, <1>5, SavesTidily

\* Transactions, the contract, and a read of the job: no message moves, and no record
\* is saved unless a read has happened.
LEMMA OthersAreTidy ==
  ASSUME ClaimInv, IndexInv,
         \/ \E j \in Jobs : TxSettles(j) \/ EnrichStarts(j) \/ EnrichEnds(j)
         \/ ChainChanges \/ UNCHANGED vars
  PROVE  IndexInv'
<1>1. UNCHANGED <<message, call, indexed>> /\ events \subseteq events'
  BY EventsGrow DEF TxSettles, EnrichStarts, EnrichEnds, ChainChanges, vars, world, Events
<1>2. OneInHand' /\ DeadAreExhausted'
  BY <1>1 DEF IndexInv, OneInHand, DeadAreExhausted, InHand
<1>3. ASSUME Calm(events') PROVE Tidy'
  <2>1. Tidy
    BY <1>1, <1>3 DEF Calm, IndexInv
  <2>2. UNCHANGED <<rec, enriching>>
    <3>1. \A j \in Jobs : ~EnrichStarts(j) /\ ~EnrichEnds(j)
      BY <1>3, <2>1 DEF Calm, EnrichStarts, EnrichEnds, Happens, Tidy
    <3>2. QED
      BY <3>1 DEF TxSettles, ChainChanges, vars
  <2>3. QED
    BY <1>1, <2>1, <2>2 DEF Tidy, HandsAreOpen, Cared
<1>4. QED
  BY <1>2, <1>3 DEF IndexInv

\* An eviction drops messages that no queue has yet.
LEMMA CoordinatorRestartTidily ==
  ASSUME ClaimInv, IndexInv, CoordinatorRestart PROVE IndexInv'
<1>1. \A m \in Messages :
        \/ message'[m] = message[m]
        \/ /\ message[m].at \in {"unpinning", "sending"}
           /\ message'[m].at = "gone"
  BY DEF CoordinatorRestart, Gone, ClaimInv, TypeOK, MessageRecord
<1>2. /\ UNCHANGED <<rec, indexed>> /\ events \subseteq events'
      /\ \A m \in Messages : ~call'[m].waits
      /\ \A j \in Jobs : ~enriching'[j].waits
  BY EventsGrow DEF CoordinatorRestart, NoCall, world, Events
<1>3. OneInHand' /\ DeadAreExhausted'
  BY <1>1 DEF IndexInv, OneInHand, DeadAreExhausted, InHand
<1>4. ASSUME Calm(events') PROVE Tidy'
  <2>1. Tidy
    BY <1>2, <1>4 DEF Calm, IndexInv
  <2>2. HandsAreOpen'
    BY <1>1, <1>2, <2>1 DEF Tidy, HandsAreOpen
  <2>3. ASSUME NEW j \in Jobs, Cared(j) PROVE Cared(j)'
    BY <1>1, <1>2, <2>3 DEF Cared, Heals
  <2>4. QED
    BY <1>2, <2>1, <2>2, <2>3 DEF Tidy
<1>5. QED
  BY <1>3, <1>4 DEF IndexInv

\* Every step keeps it.
LEMMA IndexInvIsInductive == ClaimInv /\ IndexInv /\ [Next]_vars => IndexInv'
<1> SUFFICES ASSUME ClaimInv, IndexInv, [Next]_vars PROVE IndexInv'
  OBVIOUS
<1>1. ASSUME NEW j \in Jobs,
             \/ ProofSucceeds(j) \/ RetryFailedClaim(j) \/ AutoRecover(j)
             \/ TxSettles(j) \/ Cancel(j) \/ EnrichStarts(j) \/ EnrichEnds(j)
      PROVE  IndexInv'
  BY <1>1, ProofSucceedsTidily, RequeuesTidily, CancelTidily, OthersAreTidy
<1>2. ASSUME NEW m \in Messages,
             \/ EnqueueClaimJob(m) \/ SendArrives(m) \/ SendReturns(m)
             \/ SendThrows(m) \/ Consume(m) \/ ConsumerCrash(m)
      PROVE  IndexInv'
  BY <1>2, EnqueueClaimJobTidily, SendArrivesTidily, SendReturnsTidily, SendThrowsTidily,
     DeliverTidily, SkipSupersededTidily, AnsweredTidily, SettleSucceededTidily,
     PersistIndexesTidily, SettleTidily, DeadLetterTidily, ConsumerCrashTidily DEF Consume
<1>3. CASE ChainChanges \/ UNCHANGED vars
  BY <1>3, OthersAreTidy
<1>4. CASE CoordinatorRestart
  BY <1>4, CoordinatorRestartTidily
<1>5. QED
  BY <1>1, <1>2, <1>3, <1>4 DEF Next

\* No read of a boundless job has had the durable object wait for the cycles and save
\* the record it started from (enrichBoundlessCycles).
NothingEnriched == "enrich" \notin events

\* As long as no proof is announced twice and no read of the job saves an old record, a
\* claim paid by a transaction of its own is in the replay indexes, or will be, or was
\* delivered as often as it may be, whatever else fails and however often (the persists
\* in processClaimQueueBatch, the relayed retries and the dead letters).
THEOREM PaidClaimsAreIndexed == Spec => [](NothingEnriched => IndexedOrExhausted)
<1>1. Init => IndexInv
  BY DEF Init, IndexInv, OneInHand, DeadAreExhausted, Tidy, HandsAreOpen, InHand, NoMessage,
     NoCall, New, GoodRec, PaidHere
<1>2. ClaimInv /\ IndexInv /\ [Next]_vars => IndexInv'
  BY IndexInvIsInductive
<1>3. IndexInv => (NothingEnriched => IndexedOrExhausted)
  <2> SUFFICES ASSUME IndexInv, "enrich" \notin events, "again" \notin events,
                      NEW j \in Jobs, PaidHere(rec[j])
               PROVE  \/ j \in indexed
                      \/ \E m \in Messages :
                           /\ message[m].job = j
                           /\ message[m].at # "gone" \/ message[m].attempts >= MaxDeliveries
    BY DEF NothingEnriched, IndexedOrExhausted, PaidHere
  <2>1. Cared(j)
    BY DEF IndexInv, Calm, Tidy
  <2>2. QED
    BY <2>1 DEF Cared, Heals
<1>4. QED
  BY <1>1, <1>2, <1>3, ClaimInvariant, PTL DEF Spec
=============================================================================
