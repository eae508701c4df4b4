---------------------- MODULE ProofCoordinatorProofs ----------------------
(***************************************************************************)
(* Proofs about ProofCoordinator, for any jobs, replays, backends and      *)
(* bounds.  The inductive invariant IInv says that the lock of a job and   *)
(* its prover go together, and that this is true of the records the        *)
(* pollers hold across an await as well as of the stored ones: a handler   *)
(* that saves an old record can therefore not give a lock up.              *)
(*                                                                         *)
(* The parts after it add an invariant each.  WatchInv: an active job with *)
(* a prover has an alarm, or a handler that will set one.  Attended: a     *)
(* job without a prover has a message, and its lease is of such a message. *)
(* CalmInv: undisturbed, the replay of every open or locked job has that   *)
(* job's row, and an open job one message.  OnePoller adds what alarm()    *)
(* polled to it, for the refinement of ProofLedger.  LeaseInv: a consumer  *)
(* at work on a job that waits has its lease.                              *)
(***************************************************************************)
EXTENDS ProofCoordinator, TLAPS

\* A message names a job; an accepted one, a request made for that job.
MessageFits(msg) ==
  /\ msg.at # "unsent" => msg.job \in Jobs
  /\ msg.outcome = "accepted" =>
       /\ msg.request # 0
       /\ request[msg.request].job = msg.job /\ request[msg.request].phase # "none"

\* A record of job j, stored or loaded, has a prover exactly when it is
\* dispatched, and then it is not queued.
ProverFits(j, rec) ==
  /\ rec.prover # 0 <=> rec.lock = "dispatched"
  /\ rec.prover # 0 => /\ request[rec.prover].job = j
                       /\ request[rec.prover].phase # "none"
                       /\ rec.status # "queued"

HasProof(j, rec) ==
  rec.result # 0 /\ request[rec.result].job = j /\ request[rec.result].phase = "fulfilled"

MessagesFit == \A m \in Messages : MessageFits(message[m])
JobsFit == \A j \in Jobs : ProverFits(j, job[j])
SnapshotsFit ==
  \A p \in Pollers : poller[p].at # NoJob =>
    /\ Active(poller[p].snap) /\ poller[p].snap.lock = "dispatched"
    /\ ProverFits(poller[p].at, poller[p].snap)
    /\ job[poller[p].at].lock = "dispatched"
RecoveringAreLocked == \A j \in recovering : job[j].lock = "dispatched"

IInv ==
  /\ TypeOK
  /\ MessagesFit /\ JobsFit /\ SnapshotsFit /\ RecoveringAreLocked
  /\ RegistryAgreesWithJob /\ ProofFromOwnRequest

-----------------------------------------------------------------------------
(* What a step may do to each variable. *)

\* The record that a step may store for job j.
LegalWrite(j, rec) ==
  /\ rec \in JobRecord /\ ProverFits(j, rec)
  /\ job[j].lock = "dispatched" => rec.lock = "dispatched"
  /\ job[j].lock = "dispatching" => Locked(rec)
  /\ Locked(job[j]) /\ rec.status = "queued" => job[j].status = "queued"
  /\ rec.status = "succeeded" => HasProof(j, rec)

JobsStep == \E f \in [Jobs -> JobRecord] : job' = f /\ \A j \in Jobs : LegalWrite(j, f[j])
RegistryStep == registry' \in [Replays -> RowRecord] /\ RegistryAgreesWithJob'
MessagesStep == message' \in [Messages -> MessageRecord] /\ MessagesFit'
RequestsStep ==
  /\ request' \in [Requests -> RequestRecord]
  /\ \A q \in Requests : request[q].phase # "none" =>
       /\ request'[q].job = request[q].job /\ request'[q].phase # "none"
       /\ request[q].phase = "fulfilled" => request'[q].phase = "fulfilled"
PollersStep ==
  /\ poller' \in [Pollers -> PollerRecord]
  /\ \A p \in Pollers : poller'[p].at # NoJob =>
       \/ poller'[p].at = poller[p].at /\ poller'[p].snap = poller[p].snap
       \/ /\ poller'[p].at \in Jobs /\ poller'[p].snap = job[poller'[p].at]
          /\ Active(job[poller'[p].at]) /\ job[poller'[p].at].prover # 0
RestStep ==
  /\ alarm' \in BOOLEAN
  /\ age' \in [Jobs -> {"fresh", "overdue", "expired"}]
  /\ spent' \in [Events -> Nat]
  /\ recovering' \subseteq Jobs /\ \A j \in recovering' : job[j].lock = "dispatched"

Step == JobsStep /\ RegistryStep /\ MessagesStep /\ RequestsStep /\ PollersStep /\ RestStep

\* A step of that kind keeps the invariant.
LEMMA StepKeepsIInv == IInv /\ Step => IInv'
<1> SUFFICES ASSUME IInv, Step PROVE IInv'
  OBVIOUS
<1> USE DEF Step
<1>1. TypeOK'
  BY DEF JobsStep, RegistryStep, MessagesStep, RequestsStep, PollersStep, RestStep, TypeOK
<1>2. \A j \in Jobs : LegalWrite(j, job'[j])
  BY DEF JobsStep
<1>3. /\ TypeOK
      /\ \A q \in Requests : request[q].phase # "none" =>
           /\ request'[q].job = request[q].job /\ request'[q].phase # "none"
           /\ request[q].phase = "fulfilled" => request'[q].phase = "fulfilled"
  BY DEF IInv, RequestsStep
<1>4. ASSUME NEW j \in Jobs, NEW rec \in JobRecord, ProverFits(j, rec)
      PROVE  ProverFits(j, rec)'
  BY <1>3, <1>4 DEF ProverFits, JobRecord
<1>5. JobsFit'
  BY <1>2, <1>4 DEF JobsFit, LegalWrite
<1>6. ProofFromOwnRequest'
  <2>1. ASSUME NEW j \in Jobs, NEW rec \in JobRecord, HasProof(j, rec)
        PROVE  HasProof(j, rec)'
    BY <1>3, <2>1 DEF HasProof, JobRecord
  <2>2. QED
    BY <1>2, <2>1 DEF ProofFromOwnRequest, LegalWrite, HasProof
<1>7. RecoveringAreLocked'
  BY <1>2 DEF RestStep, RecoveringAreLocked, LegalWrite
<1>8. SnapshotsFit'
  <2> SUFFICES ASSUME NEW p \in Pollers, poller'[p].at # NoJob
               PROVE  /\ Active(poller'[p].snap) /\ poller'[p].snap.lock = "dispatched"
                      /\ ProverFits(poller[p].at, poller[p].snap)'
                      /\ job'[poller'[p].at].lock = "dispatched"
    BY DEF SnapshotsFit, Active
  <2>1. poller'[p].at \in Jobs /\ poller'[p].snap \in JobRecord
    BY <1>1 DEF TypeOK, PollerRecord
  <2>2. CASE poller'[p].at = poller[p].at /\ poller'[p].snap = poller[p].snap
    <3>1. /\ Active(poller[p].snap) /\ poller[p].snap.lock = "dispatched"
          /\ ProverFits(poller[p].at, poller[p].snap)
          /\ job[poller[p].at].lock = "dispatched"
      BY <2>2 DEF IInv, SnapshotsFit
    <3>2. ProverFits(poller'[p].at, poller'[p].snap)
      BY <2>2, <3>1
    <3>3. QED
      BY <1>2, <1>4, <2>1, <2>2, <3>1, <3>2 DEF LegalWrite, Active, ProverFits
  <2>3. CASE /\ poller'[p].snap = job[poller'[p].at]
             /\ Active(job[poller'[p].at]) /\ job[poller'[p].at].prover # 0
    <3>1. ProverFits(poller'[p].at, poller'[p].snap)
      BY <2>1, <2>3 DEF IInv, JobsFit
    <3>2. job[poller'[p].at].lock = "dispatched"
      BY <2>3, <3>1 DEF ProverFits
    <3>3. QED
      BY <1>2, <1>4, <2>1, <2>3, <3>1, <3>2 DEF LegalWrite, Active, ProverFits
  <2>4. QED
    BY <2>2, <2>3 DEF PollersStep
<1>9. QED
  BY <1>1, <1>5, <1>6, <1>7, <1>8 DEF IInv, RegistryStep, MessagesStep

-----------------------------------------------------------------------------
(* The initial states, and what is left unchanged. *)

\* The invariant holds in the initial states.
LEMMA InitIInv == Init => IInv
<1> SUFFICES ASSUME Init PROVE IInv
  OBVIOUS
<1> USE DEF Init
<1>1. TypeOK
  <2>1. Preferred \in Backends
    BY BackendsAssumption DEF Preferred
  <2>2. Absent \in JobRecord
    BY DEF Absent, JobRecord, ActiveStatus, TerminalStatus
  <2>3. Idle \in PollerRecord
    BY <2>2 DEF Idle, PollerRecord
  <2>4. Unsent \in MessageRecord
    BY <2>1 DEF Unsent, MessageRecord
  <2>5. [job |-> NoJob, backend |-> Preferred, phase |-> "none"] \in RequestRecord
    BY <2>1 DEF RequestRecord
  <2>6. QED
    BY <2>2, <2>3, <2>4, <2>5 DEF TypeOK, RowRecord
<1>2. MessagesFit
  BY DEF MessagesFit, MessageFits, Unsent
<1>3. JobsFit /\ SnapshotsFit /\ RecoveringAreLocked
  BY DEF JobsFit, SnapshotsFit, RecoveringAreLocked, ProverFits, Absent, Idle
<1>4. RegistryAgreesWithJob /\ ProofFromOwnRequest
  BY DEF RegistryAgreesWithJob, ProofFromOwnRequest, Absent
<1>5. QED
  BY <1>1, <1>2, <1>3, <1>4 DEF IInv

\* A stored record may be stored again.
LEMMA OldWrite ==
  ASSUME IInv, NEW j \in Jobs
  PROVE  LegalWrite(j, job[j])
BY DEF IInv, TypeOK, JobsFit, ProofFromOwnRequest, LegalWrite, HasProof, Locked

\* Writing the record rec for job j, and nothing else of the jobs.
LEMMA OneWrite ==
  ASSUME IInv, NEW j \in Jobs, NEW rec, LegalWrite(j, rec), job' = [job EXCEPT ![j] = rec]
  PROVE  JobsStep
<1> DEFINE f == [job EXCEPT ![j] = rec]
<1>1. f \in [Jobs -> JobRecord]
  BY DEF IInv, TypeOK, LegalWrite
<1>2. \A k \in Jobs : LegalWrite(k, f[k])
  <2> TAKE k \in Jobs
  <2>1. f[k] = IF k = j THEN rec ELSE job[k]
    BY DEF IInv, TypeOK
  <2>2. QED
    BY <2>1, OldWrite
<1>3. QED
  BY <1>1, <1>2 DEF JobsStep

\* A step that writes no job is legal for the jobs.
LEMMA JobsFrame == IInv /\ UNCHANGED job => JobsStep
BY OldWrite DEF JobsStep, IInv, TypeOK

\* The registry may stay as it is when every job keeps its lock.
LEMMA RegistryFrame ==
  ASSUME IInv, UNCHANGED registry, \A j \in Jobs : job'[j].lock = job[j].lock
  PROVE  RegistryStep
BY DEF RegistryStep, RegistryAgreesWithJob, IInv, TypeOK, RowRecord

\* Registering the replay of job j in the state that its record now has.
LEMMA RegisterStep ==
  ASSUME IInv, NEW j \in Jobs, NEW st \in {"reserved", "dispatching", "dispatched"},
         NEW rec, rec.lock = st, job' = [job EXCEPT ![j] = rec],
         registry' = [registry EXCEPT ![ReplayOf[j]] = [job |-> j, state |-> st]]
  PROVE  RegistryStep
<1> DEFINE row == [job |-> j, state |-> st]
<1>1. row \in RowRecord /\ row.job = j /\ row.state = st
  BY DEF RowRecord
<1>2. ReplayOf[j] \in Replays
  BY ReplayAssumption
<1>3. registry' = [registry EXCEPT ![ReplayOf[j]] = row]
  OBVIOUS
<1> HIDE DEF row
<1>4. registry' \in [Replays -> RowRecord]
  BY <1>1, <1>3 DEF IInv, TypeOK
<1>5. \A k \in Jobs : job'[k] = IF k = j THEN rec ELSE job[k]
  BY DEF IInv, TypeOK
<1>6. ASSUME NEW r \in Replays, registry'[r] # NoRow
      PROVE  /\ ReplayOf[registry'[r].job] = r
             /\ job'[registry'[r].job].lock = registry'[r].state
  <2>1. CASE r = ReplayOf[j]
    BY <1>1, <1>2, <1>3, <1>5, <2>1 DEF IInv, TypeOK
  <2>2. CASE r # ReplayOf[j]
    <3>1. registry'[r] = registry[r]
      BY <1>3, <2>2 DEF IInv, TypeOK
    <3>2. registry[r].job \in Jobs /\ ReplayOf[registry[r].job] = r
      BY <1>6, <3>1 DEF IInv, TypeOK, RowRecord, RegistryAgreesWithJob
    <3>3. QED
      BY <1>5, <1>6, <2>2, <3>1, <3>2 DEF IInv, RegistryAgreesWithJob
  <2>3. QED
    BY <2>1, <2>2
<1>7. QED
  BY <1>4, <1>6 DEF RegistryStep, RegistryAgreesWithJob

\* A step that touches neither messages nor requests is legal for the messages.
LEMMA MessagesFrame == IInv /\ UNCHANGED <<message, request>> => MessagesStep
BY DEF MessagesStep, MessagesFit, MessageFits, IInv, TypeOK

\* A step that touches no request is legal for the requests.
LEMMA RequestsFrame == IInv /\ UNCHANGED request => RequestsStep
BY DEF RequestsStep, IInv, TypeOK

\* A step that touches no poller is legal for the pollers.
LEMMA PollersFrame == IInv /\ UNCHANGED poller => PollersStep
BY DEF PollersStep, IInv, TypeOK

\* A step that touches no alarm, age, counter or recovery is legal for them.
LEMMA RestFrame == IInv /\ UNCHANGED <<alarm, age, spent, recovering>> => RestStep
BY DEF RestStep, RecoveringAreLocked, IInv, TypeOK

\* The same, when alarm, ages and counters are known to keep their types.
LEMMA RestKept ==
  ASSUME IInv, alarm' \in BOOLEAN, age' \in [Jobs -> {"fresh", "overdue", "expired"}],
         spent' \in [Events -> Nat], UNCHANGED recovering
  PROVE  RestStep
BY DEF RestStep, RecoveringAreLocked, IInv, TypeOK

\* Counting an event keeps the type of the counters.
LEMMA SpendType ==
  ASSUME IInv, NEW e \in Events, NEW bound, Spend(e, bound)
  PROVE  spent' \in [Events -> Nat]
BY DEF Spend, IInv, TypeOK

\* The unchanged variables of RestStep.
LEMMA RestTypes ==
  ASSUME IInv
  PROVE  /\ UNCHANGED alarm => alarm' \in BOOLEAN
         /\ UNCHANGED age => age' \in [Jobs -> {"fresh", "overdue", "expired"}]
         /\ UNCHANGED spent => spent' \in [Events -> Nat]
BY DEF IInv, TypeOK
-----------------------------------------------------------------------------
(* The operators that several actions share. *)

Errors == {"none", "superseded", "total_wall", "other"}

\* A record that may be stored may be stored as pruned.
LEMMA PrunedWrite ==
  ASSUME NEW j \in Jobs, NEW rec, LegalWrite(j, rec)
  PROVE  LegalWrite(j, Pruned(rec)) /\ Pruned(rec).lock = rec.lock
<1>1. Pruned(rec) \in JobRecord
  BY DEF LegalWrite, Pruned, JobRecord
<1>2. rec \in JobRecord
  BY DEF LegalWrite
<1>3. QED
  BY <1>1, <1>2 DEF LegalWrite, ProverFits, Pruned, JobRecord, Locked

\* What Failed does to a record, field by field.
LEMMA FailedRecord ==
  ASSUME NEW rec \in JobRecord, NEW why \in Errors
  PROVE  /\ Failed(rec, why) \in JobRecord
         /\ Failed(rec, why).status = "failed"
         /\ Failed(rec, why).prover = rec.prover
         /\ Locked(rec) => Failed(rec, why).lock = rec.lock
         /\ ~Locked(rec) => Failed(rec, why).lock = "released"
<1> DEFINE l == IF Locked(rec) THEN rec.lock ELSE "released"
           b == IF Locked(rec) THEN rec.lockedBy ELSE "none"
<1>1. /\ l \in {"none", "reserved", "dispatching", "dispatched", "released"}
      /\ b \in Backends \cup {"none"}
  BY DEF JobRecord
<1>2. Failed(rec, why) = [rec EXCEPT !.status = "failed", !.lease = 0, !.error = why,
                                     !.lock = l, !.lockedBy = b]
  BY DEF Failed
<1>3. (Locked(rec) => l = rec.lock) /\ (~Locked(rec) => l = "released")
  OBVIOUS
<1> HIDE DEF l, b
<1>4. QED
  BY <1>1, <1>2, <1>3 DEF JobRecord, TerminalStatus, Errors

\* Completing a job is a legal step when the record it stores is legal; no other
\* job's lock changes.
LEMMA CompleteStep ==
  ASSUME IInv, NEW j \in Jobs, NEW rec, LegalWrite(j, rec), Complete(j, rec)
  PROVE  /\ JobsStep
         /\ age' \in [Jobs -> {"fresh", "overdue", "expired"}]
         /\ \A k \in Jobs : job'[k].lock = IF k = j THEN rec.lock ELSE job[k].lock
<1> DEFINE new(k) == IF k = j THEN rec ELSE job[k]
<1>1. job' = [k \in Jobs |-> IF k # j /\ age[k] = "expired" THEN Pruned(new(k)) ELSE new(k)]
  BY DEF Complete, Sweep, IInv, TypeOK
<1>2. \A k \in Jobs : LegalWrite(k, new(k))
  BY OldWrite
<1>3. \A k \in Jobs : LegalWrite(k, job'[k]) /\ job'[k].lock = new(k).lock
  BY <1>1, <1>2, PrunedWrite
<1>4. job' \in [Jobs -> JobRecord]
  BY <1>1, <1>3 DEF LegalWrite
<1>5. JobsStep
  BY <1>3, <1>4 DEF JobsStep
<1>6. age' \in [Jobs -> {"fresh", "overdue", "expired"}]
  BY DEF Complete, IInv, TypeOK
<1>7. QED
  BY <1>3, <1>5, <1>6

\* markFailed() is a legal step when it is applied to a record that fits its job.
LEMMA MarkFailedStep ==
  ASSUME IInv, NEW j \in Jobs, NEW rec \in JobRecord, NEW why \in Errors,
         ProverFits(j, rec), rec.lock = job[j].lock, MarkFailed(j, rec, why)
  PROVE  JobsStep /\ RegistryStep /\ age' \in [Jobs -> {"fresh", "overdue", "expired"}]
<1> DEFINE new == Failed(rec, why)
<1>1. CASE ~Exists(j)
  <2>1. UNCHANGED <<job, registry, age>>
    BY <1>1 DEF MarkFailed, stored
  <2>2. QED
    BY <2>1, JobsFrame, RegistryFrame DEF IInv, TypeOK
<1>2. CASE Exists(j)
  <2>1. /\ new \in JobRecord /\ new.status = "failed" /\ new.prover = rec.prover
        /\ Locked(rec) => new.lock = rec.lock
        /\ ~Locked(rec) => new.lock = "released"
    BY FailedRecord
  <2> HIDE DEF new
  <2>2. LegalWrite(j, new)
    BY <2>1 DEF LegalWrite, ProverFits, Locked
  <2>3. Complete(j, new)
    BY <1>2 DEF MarkFailed, new
  <2>4. /\ JobsStep
        /\ age' \in [Jobs -> {"fresh", "overdue", "expired"}]
        /\ \A k \in Jobs : job'[k].lock = IF k = j THEN new.lock ELSE job[k].lock
    BY <2>2, <2>3, CompleteStep
  <2>5. RegistryStep
    <3>1. CASE Locked(rec)
      BY <1>2, <2>1, <2>4, <3>1, RegistryFrame DEF MarkFailed
    <3>2. CASE ~Locked(rec)
      <4>1. registry' = [registry EXCEPT ![ReplayOf[j]] = NoRow]
        BY <1>2, <3>2 DEF MarkFailed
      <4>2. registry' \in [Replays -> RowRecord]
        BY <4>1 DEF IInv, TypeOK, RowRecord
      <4>3. ASSUME NEW r \in Replays, registry'[r] # NoRow
            PROVE  /\ ReplayOf[registry'[r].job] = r
                   /\ job'[registry'[r].job].lock = registry'[r].state
        <5>1. r # ReplayOf[j] /\ registry'[r] = registry[r]
          BY <4>1, <4>3 DEF IInv, TypeOK
        <5>2. registry[r].job \in Jobs
          BY <4>3, <5>1 DEF IInv, TypeOK, RowRecord
        <5>3. QED
          BY <2>4, <4>3, <5>1, <5>2 DEF IInv, RegistryAgreesWithJob
      <4>4. QED
        BY <4>2, <4>3 DEF RegistryStep, RegistryAgreesWithJob
    <3>3. QED
      BY <3>1, <3>2
  <2>6. QED
    BY <2>4, <2>5
<1>3. QED
  BY <1>1, <1>2

\* markSucceeded() is a legal step for a job whose request was fulfilled.
LEMMA MarkSucceededStep ==
  ASSUME IInv, NEW j \in Jobs, NEW q \in Requests, request[q].job = j,
         request[q].phase = "fulfilled", job[j].lock = "dispatched", MarkSucceeded(j, q)
  PROVE  JobsStep /\ RegistryStep /\ age' \in [Jobs -> {"fresh", "overdue", "expired"}]
<1> DEFINE new == [job[j] EXCEPT !.status = "succeeded", !.lease = 0, !.result = q, !.error = "none"]
<1>1. job[j] \in JobRecord
  BY DEF IInv, TypeOK
<1>2. /\ new \in JobRecord /\ new.status = "succeeded" /\ new.prover = job[j].prover
      /\ new.lock = job[j].lock /\ new.result = q
  BY <1>1 DEF JobRecord, TerminalStatus
<1>3. Complete(j, new) /\ UNCHANGED registry
  BY DEF MarkSucceeded
<1> HIDE DEF new
<1>4. q # 0
  BY BoundAssumption DEF Requests
<1>5. LegalWrite(j, new)
  BY <1>2, <1>4 DEF LegalWrite, ProverFits, HasProof, Locked, IInv, JobsFit
<1>6. QED
  BY <1>2, <1>3, <1>5, CompleteStep, RegistryFrame

\* A record that is not locked is queued again with the lock it has.
LEMMA RequeueStep ==
  ASSUME IInv, NEW j \in Jobs, NEW rec \in JobRecord, ~Locked(rec),
         rec.lock = job[j].lock, Requeue(j, rec)
  PROVE  JobsStep /\ RegistryStep /\ age' \in [Jobs -> {"fresh", "overdue", "expired"}]
<1> DEFINE new == [rec EXCEPT !.status = "queued", !.lease = 0, !.prover = 0, !.error = "none"]
<1>1. /\ new \in JobRecord /\ new.status = "queued" /\ new.prover = 0 /\ new.lock = rec.lock
  BY DEF JobRecord, ActiveStatus
<1>2. job' = [job EXCEPT ![j] = new] /\ UNCHANGED <<registry, age>>
  BY DEF Requeue
<1> HIDE DEF new
<1>3. LegalWrite(j, new)
  BY <1>1 DEF LegalWrite, ProverFits, Locked
<1>4. \A k \in Jobs : job'[k].lock = job[k].lock
  BY <1>1, <1>2 DEF IInv, TypeOK
<1>5. QED
  BY <1>2, <1>3, <1>4, OneWrite, RegistryFrame DEF IInv, TypeOK

\* A write that keeps the lock and the prover, and does not end the job or queue it.
LEMMA PlainWrite ==
  ASSUME IInv, NEW j \in Jobs, NEW rec \in JobRecord,
         rec.lock = job[j].lock, rec.prover = job[j].prover,
         rec.status \notin {"queued", "succeeded"},
         job' = [job EXCEPT ![j] = rec], UNCHANGED registry
  PROVE  JobsStep /\ RegistryStep
<1>1. LegalWrite(j, rec)
  BY DEF LegalWrite, ProverFits, Locked, IInv, JobsFit
<1>2. \A k \in Jobs : job'[k].lock = job[k].lock
  BY DEF IInv, TypeOK
<1>3. QED
  BY <1>1, <1>2, OneWrite, RegistryFrame
-----------------------------------------------------------------------------
(* Messages. *)

\* A new message is a message, and names the job it is about.
LEMMA NewMessageFits ==
  ASSUME NEW j \in Jobs, NEW b \in Backends, NEW at \in {"sending", "waiting"}
  PROVE  /\ NewMessage(j, b, at) \in MessageRecord
         /\ NewMessage(j, b, at).job = j /\ NewMessage(j, b, at).outcome = "none"
BY BackendsAssumption DEF NewMessage, Unsent, MessageRecord, Preferred

\* Storing a message that fits.
LEMMA OneMessage ==
  ASSUME IInv, UNCHANGED request, NEW m \in Messages, NEW msg \in MessageRecord,
         MessageFits(msg), message' = [message EXCEPT ![m] = msg]
  PROVE  MessagesStep
BY DEF MessagesStep, MessagesFit, MessageFits, IInv, TypeOK

\* Sending a new one.
LEMMA SendStep ==
  ASSUME IInv, UNCHANGED request, NEW m \in Messages, NEW j \in Jobs, NEW b \in Backends,
         NEW at \in {"sending", "waiting"},
         message' = [message EXCEPT ![m] = NewMessage(j, b, at)]
  PROVE  MessagesStep
BY NewMessageFits, OneMessage DEF MessageFits

\* A message that is acked or delivered again still fits.
LEMMA GoneFits ==
  ASSUME NEW msg \in MessageRecord, MessageFits(msg), msg.job \in Jobs
  PROVE  /\ Gone(msg) \in MessageRecord /\ MessageFits(Gone(msg))
         /\ Redelivered(msg) \in MessageRecord /\ MessageFits(Redelivered(msg))
<1> DEFINE at == IF msg.attempts > MaxDeliveries THEN "dead" ELSE "waiting"
<1>1. Redelivered(msg) = [msg EXCEPT !.at = at, !.outcome = "none", !.request = 0]
  BY DEF Redelivered
<1>2. at \in {"dead", "waiting"}
  OBVIOUS
<1> HIDE DEF at
<1>3. /\ Gone(msg) \in MessageRecord /\ Gone(msg).job = msg.job /\ Gone(msg).outcome = "none"
      /\ Redelivered(msg) \in MessageRecord /\ Redelivered(msg).job = msg.job
      /\ Redelivered(msg).outcome = "none"
  BY <1>1, <1>2 DEF Gone, MessageRecord
<1>4. QED
  BY <1>3 DEF MessageFits

\* Acking a message, or crashing before the ack, is a legal step.
LEMMA AckStep ==
  ASSUME IInv, UNCHANGED request, NEW msgs \in [Messages -> MessageRecord],
         \A m \in Messages : MessageFits(msgs[m]),
         NEW m \in Messages, msgs[m].job \in Jobs, AckIn(msgs, m)
  PROVE  MessagesStep /\ spent' \in [Events -> Nat]
<1>1. \E new \in MessageRecord : MessageFits(new) /\ message' = [msgs EXCEPT ![m] = new]
  BY GoneFits DEF AckIn
<1>2. MessagesStep
  BY <1>1 DEF MessagesStep, MessagesFit, MessageFits
<1>3. spent' \in [Events -> Nat]
  BY DEF AckIn, Spend, IInv, TypeOK
<1>4. QED
  BY <1>2, <1>3

\* The same, when no other message changes.
LEMMA PlainAck ==
  ASSUME IInv, UNCHANGED request, NEW m \in Messages, message[m].at # "unsent", Ack(m)
  PROVE  MessagesStep /\ spent' \in [Events -> Nat]
BY AckStep DEF Ack, IInv, TypeOK, MessagesFit, MessageFits

\* The next backend is one of the backends.
LEMMA NextBackendType ==
  ASSUME NEW b \in Backends
  PROVE  NextBackend(b) \in Backends
BY DEF NextBackend
-----------------------------------------------------------------------------
(* The API. *)

\* POST /jobs is a legal step.
LEMMA CreateJobStep == ASSUME IInv, NEW j \in Jobs, CreateJob(j) PROVE Step
<1> DEFINE new == [Absent EXCEPT !.status = "queued", !.lock = "reserved"]
           row == [job |-> j, state |-> "reserved"]
<1>1. /\ job[j] = Absent /\ job' = [job EXCEPT ![j] = new]
      /\ registry' = [registry EXCEPT ![ReplayOf[j]] = row]
  BY DEF CreateJob
<1>2. new \in JobRecord /\ new.status = "queued" /\ new.lock = "reserved" /\ new.prover = 0
  BY DEF Absent, JobRecord, ActiveStatus
<1> HIDE DEF new
<1>3. JobsStep
  <2>1. LegalWrite(j, new)
    BY <1>1, <1>2 DEF LegalWrite, ProverFits, Locked, Absent
  <2>2. QED
    BY <1>1, <2>1, OneWrite
<1>4. RegistryStep
  BY <1>1, <1>2, RegisterStep
<1>5. MessagesStep
  <2>1. Preferred \in Backends
    BY BackendsAssumption DEF Preferred
  <2>2. QED
    BY <2>1, SendStep DEF CreateJob
<1>6. QED
  BY <1>3, <1>4, <1>5, RequestsFrame, PollersFrame, RestFrame DEF CreateJob, Step

\* A send that fails is a legal step.
LEMMA SendFailsStep == ASSUME IInv, NEW m \in Messages, SendFails(m) PROVE Step
<1>1. /\ message[m] \in MessageRecord /\ MessageFits(message[m]) /\ message[m].at = "sending"
      /\ message[m].job \in Jobs
  BY DEF SendFails, IInv, TypeOK, MessagesFit, MessageFits
<1>2. JobsStep /\ RegistryStep /\ age' \in [Jobs -> {"fresh", "overdue", "expired"}]
  BY <1>1, MarkFailedStep DEF SendFails, IInv, TypeOK, JobsFit, Errors
<1>3. [message[m] EXCEPT !.at = "waiting"] \in MessageRecord
  BY <1>1 DEF MessageRecord
<1>4. MessageFits([message[m] EXCEPT !.at = "waiting"])
  BY <1>1 DEF MessageFits, MessageRecord
<1>5. MessagesStep
  BY <1>1, <1>3, <1>4, GoneFits, OneMessage DEF SendFails, IInv, TypeOK
<1>6. spent' \in [Events -> Nat]
  BY SpendType, RestTypes DEF SendFails, Events
<1>7. RestStep
  BY <1>2, <1>6, RestKept, RestTypes DEF SendFails
<1>8. QED
  BY <1>2, <1>5, <1>7, RequestsFrame, PollersFrame DEF SendFails, Step

\* A send that is lost is a legal step.
LEMMA SendLostStep == ASSUME IInv, NEW m \in Messages, SendLost(m) PROVE Step
<1>1. /\ message[m] \in MessageRecord /\ MessageFits(message[m]) /\ message[m].at = "sending"
      /\ message[m].job \in Jobs
  BY DEF SendLost, IInv, TypeOK, MessagesFit, MessageFits
<1>2. MessagesStep
  BY <1>1, GoneFits, OneMessage DEF SendLost, IInv, TypeOK
<1>3. RestStep
  BY SpendType, RestKept, RestTypes DEF SendLost, Events
<1>4. QED
  BY <1>2, <1>3, JobsFrame, RegistryFrame, RequestsFrame, PollersFrame DEF SendLost, Step

\* DELETE /jobs/:id is a legal step, in any status of the job.
LEMMA CancelStep == ASSUME IInv, NEW j \in Jobs, Cancel(j) PROVE Step
<1>1. JobsStep /\ RegistryStep /\ age' \in [Jobs -> {"fresh", "overdue", "expired"}]
  BY MarkFailedStep DEF Cancel, IInv, TypeOK, JobsFit, Errors
<1>2. RestStep
  BY <1>1, SpendType, RestKept, RestTypes DEF Cancel, Events
<1>3. QED
  BY <1>1, <1>2, MessagesFrame, RequestsFrame, PollersFrame DEF Cancel, Step

\* retryFailedProof() is a legal step: what it does not refuse has no prover.
LEMMA RetryProofStep ==
  ASSUME IInv, NEW j \in Jobs, NEW b \in Backends, RetryProof(j, b)
  PROVE  Step
<1> DEFINE new == [job[j] EXCEPT !.status = "queued", !.lease = 0, !.prover = 0,
                     !.error = "none", !.lock = "reserved", !.lockedBy = "none"]
           row == [job |-> j, state |-> "reserved"]
<1>1. /\ job' = [job EXCEPT ![j] = new]
      /\ registry' = [registry EXCEPT ![ReplayOf[j]] = row]
      /\ ~Locked(job[j])
  BY DEF RetryProof, ProofRetryBlocked
<1>2. job[j] \in JobRecord
  BY DEF IInv, TypeOK
<1>3. new \in JobRecord /\ new.status = "queued" /\ new.lock = "reserved" /\ new.prover = 0
  BY <1>2 DEF JobRecord, ActiveStatus
<1> HIDE DEF new
<1>4. JobsStep
  <2>1. LegalWrite(j, new)
    BY <1>1, <1>3 DEF LegalWrite, ProverFits, Locked
  <2>2. QED
    BY <1>1, <2>1, OneWrite
<1>5. RegistryStep
  BY <1>1, <1>3, RegisterStep
<1>6. MessagesStep
  BY SendStep DEF RetryProof
<1>7. age' \in [Jobs -> {"fresh", "overdue", "expired"}]
  BY DEF RetryProof, IInv, TypeOK
<1>8. RestStep
  BY <1>7, SpendType, RestKept, RestTypes DEF RetryProof, Events
<1>9. QED
  BY <1>4, <1>5, <1>6, <1>8, RequestsFrame, PollersFrame DEF RetryProof, Step
-----------------------------------------------------------------------------
(* The queue consumers. *)

\* A message that was sent is about a job.
LEMMA SentMessage ==
  ASSUME IInv, NEW m \in Messages, message[m].at # "unsent"
  PROVE  /\ message[m] \in MessageRecord /\ MessageFits(message[m])
         /\ message[m].job \in Jobs /\ job[message[m].job] \in JobRecord
         /\ ProverFits(message[m].job, job[message[m].job])
BY DEF IInv, TypeOK, MessagesFit, MessageFits, JobsFit

\* beginQueueAttempt() is legal for jobs, messages and the rest.
LEMMA BeginQueueAttemptStep ==
  ASSUME IInv, NEW m \in Messages, message[m].at # "unsent", NEW n \in Nat,
         BeginQueueAttempt(m, n), UNCHANGED <<registry, request>>
  PROVE  /\ JobsStep /\ RegistryStep /\ MessagesStep
         /\ alarm' \in BOOLEAN /\ spent' \in [Events -> Nat]
<1> DEFINE j == message[m].job
           msgs == [message EXCEPT ![m].attempts = n]
           running == [job[j] EXCEPT !.status = "prover_running", !.lease = 0]
           held == [job[j] EXCEPT !.status = "dispatching", !.lease = m]
           at == IF age[j] = "fresh" THEN "begun" ELSE "late"
<1>1. /\ message[m] \in MessageRecord /\ MessageFits(message[m])
      /\ j \in Jobs /\ job[j] \in JobRecord
  BY SentMessage
<1>2. /\ running \in JobRecord /\ running.status = "prover_running"
      /\ running.lock = job[j].lock /\ running.prover = job[j].prover
  BY <1>1 DEF JobRecord, ActiveStatus
<1>3. /\ held \in JobRecord /\ held.status = "dispatching"
      /\ held.lock = job[j].lock /\ held.prover = job[j].prover
  BY <1>1 DEF JobRecord, ActiveStatus
<1>4. /\ msgs \in [Messages -> MessageRecord] /\ \A k \in Messages : MessageFits(msgs[k])
      /\ msgs[m].job \in Jobs
  <2> DEFINE msg == [message[m] EXCEPT !.attempts = n]
  <2>1. /\ msg \in MessageRecord /\ msg.job = message[m].job /\ msg.at = message[m].at
        /\ msg.outcome = message[m].outcome /\ msg.request = message[m].request
    BY <1>1 DEF MessageRecord
  <2>2. MessageFits(msg)
    BY <1>1, <2>1 DEF MessageFits
  <2>3. msgs = [message EXCEPT ![m] = msg]
    BY DEF IInv, TypeOK
  <2> HIDE DEF msg, msgs
  <2>4. QED
    BY <1>1, <2>1, <2>2, <2>3 DEF IInv, TypeOK, MessagesFit
<1>5. at \in {"begun", "late"}
  OBVIOUS
<1>6. \/ UNCHANGED <<job, alarm>> /\ AckIn(msgs, m)
      \/ job' = [job EXCEPT ![j] = running] /\ alarm' = TRUE /\ AckIn(msgs, m)
      \/ /\ job' = [job EXCEPT ![j] = held] /\ message' = [msgs EXCEPT ![m].at = at]
         /\ UNCHANGED <<alarm, spent>>
  BY DEF BeginQueueAttempt
<1> HIDE DEF running, held, msgs, at, j
<1>7. ASSUME AckIn(msgs, m)
      PROVE  MessagesStep /\ spent' \in [Events -> Nat]
  BY <1>4, <1>7, AckStep
<1>8. CASE UNCHANGED <<job, alarm>> /\ AckIn(msgs, m)
  BY <1>7, <1>8, JobsFrame, RegistryFrame, RestTypes
<1>9. CASE job' = [job EXCEPT ![j] = running] /\ alarm' = TRUE /\ AckIn(msgs, m)
  BY <1>1, <1>2, <1>7, <1>9, PlainWrite
<1>10. CASE /\ job' = [job EXCEPT ![j] = held] /\ message' = [msgs EXCEPT ![m].at = at]
            /\ UNCHANGED <<alarm, spent>>
  <2> DEFINE msg == [msgs[m] EXCEPT !.at = at]
  <2>1. msgs[m] \in MessageRecord /\ MessageFits(msgs[m])
    BY <1>4
  <2>2. /\ msg \in MessageRecord /\ msg.job = msgs[m].job
        /\ msg.outcome = msgs[m].outcome /\ msg.request = msgs[m].request
    BY <1>5, <2>1 DEF MessageRecord
  <2>3. MessageFits(msg)
    BY <1>4, <2>1, <2>2 DEF MessageFits
  <2>4. message' = [msgs EXCEPT ![m] = msg]
    BY <1>4, <1>10
  <2> HIDE DEF msg
  <2>5. MessagesStep
    BY <1>4, <2>2, <2>3, <2>4 DEF MessagesStep, MessagesFit, MessageFits
  <2>6. JobsStep /\ RegistryStep
    BY <1>1, <1>3, <1>10, PlainWrite
  <2>7. QED
    BY <1>10, <2>5, <2>6, RestTypes
<1>11. QED
  BY <1>6, <1>8, <1>9, <1>10

\* A delivery is a legal step.
LEMMA DeliverStep == ASSUME IInv, NEW m \in Messages, Deliver(m) PROVE Step
<1>1. message[m].at # "unsent" /\ message[m].attempts + 1 \in Nat
  BY DEF Deliver, IInv, TypeOK, MessageRecord
<1>2. /\ JobsStep /\ RegistryStep /\ MessagesStep
      /\ alarm' \in BOOLEAN /\ spent' \in [Events -> Nat]
  BY <1>1, BeginQueueAttemptStep DEF Deliver
<1>3. QED
  BY <1>2, RequestsFrame, PollersFrame, RestKept, RestTypes DEF Deliver, Step

\* A delivery that finds the Vast slot free is a legal step.
LEMMA SlotFreedStep == ASSUME IInv, NEW m \in Messages, SlotFreed(m) PROVE Step
<1>1. message[m].at # "unsent" /\ message[m].attempts \in Nat
  BY DEF SlotFreed, IInv, TypeOK, MessageRecord
<1>2. /\ JobsStep /\ RegistryStep /\ MessagesStep
      /\ alarm' \in BOOLEAN /\ spent' \in [Events -> Nat]
  BY <1>1, BeginQueueAttemptStep DEF SlotFreed
<1>3. QED
  BY <1>2, RequestsFrame, PollersFrame, RestKept, RestTypes DEF SlotFreed, Step

\* Starting kickAlarm() is a legal step.
LEMMA KickStaleSlotStep == ASSUME IInv, NEW m \in Messages, KickStaleSlot(m) PROVE Step
<1> DEFINE n == message[m].attempts + 1
           msg == [message[m] EXCEPT !.at = "kicking", !.attempts = n]
           kick == [Idle EXCEPT !.running = TRUE, !.todo = ActiveJobs]
<1>1. message[m] \in MessageRecord /\ MessageFits(message[m]) /\ message[m].job \in Jobs
  BY SentMessage DEF KickStaleSlot
<1>2. n \in Nat
  BY <1>1 DEF MessageRecord
<1>3. message' = [message EXCEPT ![m] = msg]
  BY DEF KickStaleSlot, IInv, TypeOK
<1> HIDE DEF n
<1>4. /\ msg \in MessageRecord /\ msg.job = message[m].job
      /\ msg.outcome = message[m].outcome /\ msg.request = message[m].request
  BY <1>1, <1>2 DEF MessageRecord
<1>5. MessageFits(msg)
  BY <1>1, <1>4 DEF MessageFits
<1> HIDE DEF msg
<1>6. MessagesStep
  BY <1>3, <1>4, <1>5, OneMessage DEF KickStaleSlot
<1>7. kick \in PollerRecord /\ kick.at = NoJob
  BY DEF PollerRecord, Idle, Absent, JobRecord, ActiveStatus, TerminalStatus, ActiveJobs
<1>8. poller' = [poller EXCEPT !["kick"] = kick]
  BY DEF KickStaleSlot
<1> HIDE DEF kick
<1>9. PollersStep
  BY <1>7, <1>8 DEF PollersStep, IInv, TypeOK
<1>10. QED
  BY <1>6, <1>9, JobsFrame, RegistryFrame, RequestsFrame, RestFrame DEF KickStaleSlot, Step

\* markRetry() puts an active job back, with the lock and the prover it has.
LEMMA MarkRetryStep ==
  ASSUME IInv, NEW j \in Jobs, MarkRetry(j)
  PROVE  JobsStep /\ RegistryStep /\ age' \in [Jobs -> {"fresh", "overdue", "expired"}]
<1> DEFINE new == [job[j] EXCEPT !.status = "retrying", !.lease = 0]
<1>1. job[j] \in JobRecord
  BY DEF IInv, TypeOK
<1>2. /\ new \in JobRecord /\ new.status = "retrying"
      /\ new.lock = job[j].lock /\ new.prover = job[j].prover
  BY <1>1 DEF JobRecord, ActiveStatus
<1>3. job' = (IF Active(job[j]) THEN [job EXCEPT ![j] = new] ELSE job) /\ UNCHANGED <<registry, age>>
  BY DEF MarkRetry
<1> HIDE DEF new
<1>4. CASE Active(job[j])
  BY <1>2, <1>3, <1>4, PlainWrite, RestTypes
<1>5. CASE ~Active(job[j])
  BY <1>3, <1>5, JobsFrame, RegistryFrame, RestTypes
<1>6. QED
  BY <1>4, <1>5

\* A delivery moves on without a request.
LEMMA MessageMoves ==
  ASSUME IInv, UNCHANGED request, NEW m \in Messages, message[m].at # "unsent",
         NEW a \in {"waiting", "dispatching", "answered"},
         NEW o \in {message[m].outcome, "none", "retry", "fatal"},
         message' = [message EXCEPT ![m].at = a, ![m].outcome = o]
  PROVE  MessagesStep
<1> DEFINE msg == [message[m] EXCEPT !.at = a, !.outcome = o]
<1>1. message[m] \in MessageRecord /\ MessageFits(message[m]) /\ message[m].job \in Jobs
  BY SentMessage
<1>2. o \in {"none", "accepted", "retry", "fatal"}
  BY <1>1 DEF MessageRecord
<1>3. /\ msg \in MessageRecord /\ msg.job = message[m].job
      /\ msg.outcome = o /\ msg.request = message[m].request
  BY <1>1, <1>2 DEF MessageRecord
<1>4. MessageFits(msg)
  BY <1>1, <1>3 DEF MessageFits
<1>5. message' = [message EXCEPT ![m] = msg]
  BY DEF IInv, TypeOK
<1> HIDE DEF msg
<1>6. QED
  BY <1>3, <1>4, <1>5, OneMessage

\* The same, with the outcome it had.
LEMMA MessageMovesOn ==
  ASSUME IInv, UNCHANGED request, NEW m \in Messages, message[m].at # "unsent",
         NEW a \in {"waiting", "dispatching", "answered"},
         message' = [message EXCEPT ![m].at = a]
  PROVE  MessagesStep
<1>1. message' = [message EXCEPT ![m].at = a, ![m].outcome = message[m].outcome]
  BY DEF IInv, TypeOK, MessageRecord
<1>2. QED
  BY <1>1, MessageMoves

\* Acknowledging message m once message n is sent in its place.
LEMMA ReplaceStep ==
  ASSUME IInv, UNCHANGED request, NEW m \in Messages, message[m].at # "unsent",
         NEW n \in Messages, NEW j \in Jobs, NEW b \in Backends, NEW at \in {"sending", "waiting"},
         AckIn([message EXCEPT ![n] = NewMessage(j, b, at)], m)
  PROVE  MessagesStep /\ spent' \in [Events -> Nat]
<1> DEFINE new == NewMessage(j, b, at)
           msgs == [message EXCEPT ![n] = new]
<1>1. new \in MessageRecord /\ new.job = j /\ new.outcome = "none"
  BY NewMessageFits
<1>2. message[m].job \in Jobs
  BY SentMessage
<1> HIDE DEF new
<1>3. msgs \in [Messages -> MessageRecord]
  BY <1>1 DEF IInv, TypeOK
<1>4. \A k \in Messages : MessageFits(msgs[k])
  BY <1>1 DEF MessageFits, MessagesFit, IInv, TypeOK
<1>5. msgs[m].job \in Jobs
  BY <1>1, <1>2 DEF IInv, TypeOK
<1>6. AckIn(msgs, m)
  BY DEF new
<1> HIDE DEF msgs
<1>7. QED
  BY <1>3, <1>4, <1>5, <1>6, AckStep

\* A delivery that finds the Vast slot busy is a legal step.
LEMMA SlotStillBusyStep == ASSUME IInv, NEW m \in Messages, SlotStillBusy(m) PROVE Step
<1> DEFINE j == message[m].job
<1>1. /\ message[m].at = "kicking" /\ message[m].at # "unsent" /\ message[m] \in MessageRecord
      /\ j \in Jobs /\ job[j] \in JobRecord /\ ProverFits(j, job[j])
  BY SentMessage DEF SlotStillBusy
<1>2. UNCHANGED <<alarm, poller, recovering, request>>
  BY DEF SlotStillBusy
<1>3. SUFFICES /\ JobsStep /\ RegistryStep /\ age' \in [Jobs -> {"fresh", "overdue", "expired"}]
               /\ MessagesStep /\ spent' \in [Events -> Nat]
  BY <1>2, RequestsFrame, PollersFrame, RestKept, RestTypes DEF Step
<1>4. CASE Ack(m) /\ UNCHANGED stored
  BY <1>1, <1>2, <1>4, PlainAck, JobsFrame, RegistryFrame, RestTypes DEF stored
<1>5. CASE Ack(m) /\ \E why \in {"superseded", "other"} : MarkFailed(j, job[j], why)
  BY <1>1, <1>2, <1>5, PlainAck, MarkFailedStep DEF Errors
<1>6. CASE MarkRetry(j) /\ message' = [message EXCEPT ![m].at = "waiting"] /\ UNCHANGED spent
  BY <1>1, <1>2, <1>6, MessageMovesOn, MarkRetryStep, RestTypes
<1>7. CASE /\ MarkRetry(j)
           /\ \E n \in Messages :
                AckIn([message EXCEPT ![n] = NewMessage(j, message[m].backend, "waiting")], m)
  <2>1. message[m].backend \in Backends
    BY <1>1 DEF MessageRecord
  <2>2. QED
    BY <1>1, <1>2, <1>7, <2>1, ReplaceStep, MarkRetryStep
<1>8. QED
  BY <1>4, <1>5, <1>6, <1>7 DEF SlotStillBusy

\* A send that succeeds is a legal step.
LEMMA SendEndsStep == ASSUME IInv, NEW m \in Messages, SendEnds(m) PROVE Step
<1>1. MessagesStep
  BY MessageMovesOn DEF SendEnds
<1>2. QED
  BY <1>1, JobsFrame, RegistryFrame, RequestsFrame, PollersFrame, RestFrame DEF SendEnds, Step

\* A rejection by prepareForSubmission() is a legal step.
LEMMA RejectStep == ASSUME IInv, NEW m \in Messages, Reject(m) PROVE Step
<1>1. message[m].at # "unsent"
  BY DEF Reject
<1>2. JobsStep /\ RegistryStep /\ age' \in [Jobs -> {"fresh", "overdue", "expired"}]
  BY <1>1, SentMessage, MarkFailedStep DEF Reject, Errors
<1>3. MessagesStep /\ spent' \in [Events -> Nat]
  BY <1>1, PlainAck DEF Reject
<1>4. QED
  BY <1>2, <1>3, RequestsFrame, PollersFrame, RestKept, RestTypes DEF Reject, Step

\* A submission that fails before the dispatch is a legal step.
LEMMA PreflightFailsStep == ASSUME IInv, NEW m \in Messages, PreflightFails(m) PROVE Step
<1>1. MessagesStep
  BY MessageMoves DEF PreflightFails
<1>2. QED
  BY <1>1, JobsFrame, RegistryFrame, RequestsFrame, PollersFrame, RestFrame
  DEF PreflightFails, Step

\* beginExternalDispatch() is a legal step: it locks nothing that is dispatched.
LEMMA BeginExternalDispatchStep ==
  ASSUME IInv, NEW m \in Messages, BeginExternalDispatch(m)
  PROVE  Step
<1> DEFINE j == message[m].job
           b == message[m].backend
           new == [job[j] EXCEPT !.lock = "dispatching", !.lockedBy = b]
<1>1. /\ message[m].at = "begun" /\ message[m].at # "unsent"
      /\ UNCHANGED <<alarm, poller, recovering, request, age, spent>>
  BY DEF BeginExternalDispatch
<1>2. /\ message[m] \in MessageRecord /\ j \in Jobs /\ job[j] \in JobRecord
      /\ ProverFits(j, job[j])
  BY <1>1, SentMessage
<1>3. MessagesStep
  BY <1>1, MessageMoves, MessageMovesOn DEF BeginExternalDispatch
<1>4. JobsStep /\ RegistryStep
  <2>1. CASE UNCHANGED <<job, registry>>
    BY <2>1, JobsFrame, RegistryFrame
  <2>2. CASE /\ job' = [job EXCEPT ![j] = new]
             /\ registry' = [registry EXCEPT ![ReplayOf[j]] = [job |-> j, state |-> "dispatching"]]
             /\ job[j].lock # "dispatched"
    <3>1. /\ new \in JobRecord /\ new.lock = "dispatching"
          /\ new.prover = job[j].prover /\ new.status = job[j].status /\ new.result = job[j].result
      BY <1>2 DEF JobRecord, MessageRecord
    <3>2. LegalWrite(j, job[j])
      BY <1>2, OldWrite
    <3> HIDE DEF new
    <3>3. LegalWrite(j, new)
      BY <1>2, <2>2, <3>1, <3>2 DEF LegalWrite, ProverFits, HasProof, Locked
    <3>4. QED
      BY <1>2, <2>2, <3>1, <3>3, OneWrite, RegisterStep
  <2>3. QED
    BY <2>1, <2>2 DEF BeginExternalDispatch
<1>5. QED
  BY <1>1, <1>3, <1>4, RequestsFrame, PollersFrame, RestFrame DEF Step

\* Submitting is a legal step: an accepted request is made for the job of the message.
LEMMA SubmitStep == ASSUME IInv, NEW m \in Messages, Submit(m) PROVE Step
<1>1. /\ message[m].at = "dispatching" /\ message[m].at # "unsent"
      /\ UNCHANGED <<job, registry, alarm, poller, recovering, age, spent>>
  BY DEF Submit
<1>2. /\ message[m] \in MessageRecord /\ MessageFits(message[m]) /\ message[m].job \in Jobs
  BY <1>1, SentMessage
<1>3. SUFFICES RequestsStep /\ MessagesStep
  BY <1>1, JobsFrame, RegistryFrame, PollersFrame, RestFrame DEF Step
<1>4. CASE /\ UNCHANGED request
           /\ \E o \in {"retry", "fatal"} :
                message' = [message EXCEPT ![m].at = "answered", ![m].outcome = o]
  BY <1>1, <1>4, MessageMoves, RequestsFrame
<1>5. ASSUME NEW q \in Requests, NEW o \in {"accepted", "retry", "fatal"}, FreshRequest(q),
             request' = [request EXCEPT ![q] = [job |-> message[m].job,
                           backend |-> message[m].backend, phase |-> "running"]],
             message' = [message EXCEPT ![m].at = "answered", ![m].outcome = o,
                                        ![m].request = IF o = "accepted" THEN q ELSE 0]
      PROVE  RequestsStep /\ MessagesStep
  <2> DEFINE req == [job |-> message[m].job, backend |-> message[m].backend, phase |-> "running"]
             at == IF o = "accepted" THEN q ELSE 0
             msg == [message[m] EXCEPT !.at = "answered", !.outcome = o, !.request = at]
  <2>1. /\ req \in RequestRecord /\ req.job = message[m].job /\ req.phase = "running"
    BY <1>2 DEF MessageRecord, RequestRecord
  <2>2. at \in {0} \cup Requests /\ (o = "accepted" => at = q)
    OBVIOUS
  <2>3. request[q].phase = "none" /\ request' = [request EXCEPT ![q] = req]
    BY <1>5 DEF FreshRequest
  <2>4. message' = [message EXCEPT ![m] = msg]
    BY <1>5 DEF IInv, TypeOK
  <2> HIDE DEF req, at
  <2>5. /\ msg \in MessageRecord /\ msg.job = message[m].job
        /\ msg.outcome = o /\ msg.request = at /\ msg.at = "answered"
    BY <1>2, <2>2 DEF MessageRecord
  <2> HIDE DEF msg
  <2>6. RequestsStep
    BY <2>1, <2>3 DEF RequestsStep, IInv, TypeOK
  <2>7. q # 0
    BY BoundAssumption DEF Requests
  <2>8. /\ msg.at # "unsent" => msg.job \in Jobs
        /\ msg.outcome = "accepted" =>
             /\ msg.request # 0
             /\ request'[msg.request].job = msg.job /\ request'[msg.request].phase # "none"
    BY <1>2, <2>1, <2>2, <2>3, <2>5, <2>7 DEF IInv, TypeOK
  <2>9. ASSUME NEW k \in Messages, k # m
        PROVE  MessageFits(message[k])'
    <3>1. message'[k] = message[k] /\ message[k] \in MessageRecord /\ MessageFits(message[k])
      BY <2>4, <2>9 DEF IInv, TypeOK, MessagesFit
    <3>2. QED
      BY <2>6, <3>1 DEF RequestsStep, MessageFits, MessageRecord
  <2>10. message'[m] = msg /\ message' \in [Messages -> MessageRecord]
    BY <2>4, <2>5 DEF IInv, TypeOK
  <2>11. MessagesStep
    BY <2>8, <2>9, <2>10 DEF MessagesStep, MessagesFit, MessageFits
  <2>12. QED
    BY <2>6, <2>11
<1>6. QED
  BY <1>4, <1>5 DEF Submit

\* markProverAccepted() is a legal step: prover and lock are written together.
LEMMA SettleAcceptedStep == ASSUME IInv, NEW m \in Messages, SettleAccepted(m) PROVE Step
<1> DEFINE j == message[m].job
           q == message[m].request
           new == [job[j] EXCEPT !.status = "prover_running", !.lease = 0, !.prover = q,
                                 !.error = "none", !.lock = "dispatched"]
<1>1. /\ message[m].at # "unsent" /\ message[m].outcome = "accepted" /\ Ack(m)
      /\ UNCHANGED <<poller, recovering, request, age>>
  BY DEF SettleAccepted
<1>2. /\ message[m] \in MessageRecord /\ MessageFits(message[m]) /\ j \in Jobs
      /\ job[j] \in JobRecord
  BY <1>1, SentMessage
<1>3. MessagesStep /\ spent' \in [Events -> Nat]
  BY <1>1, PlainAck
<1>4. JobsStep /\ RegistryStep /\ alarm' \in BOOLEAN
  <2>1. CASE UNCHANGED <<job, registry, alarm>>
    BY <2>1, JobsFrame, RegistryFrame, RestTypes
  <2>2. CASE /\ job' = [job EXCEPT ![j] = new]
             /\ registry' = [registry EXCEPT ![ReplayOf[j]] = [job |-> j, state |-> "dispatched"]]
             /\ alarm' = TRUE
    <3>1. q \in {0} \cup Requests
      BY <1>2 DEF MessageRecord
    <3>2. q # 0 /\ request[q].job = j /\ request[q].phase # "none"
      BY <1>1, <1>2 DEF MessageFits
    <3> HIDE DEF q
    <3>3. /\ new \in JobRecord /\ new.lock = "dispatched" /\ new.prover = q
          /\ new.status = "prover_running"
      BY <1>2, <3>1 DEF JobRecord, ActiveStatus
    <3> HIDE DEF new
    <3>4. LegalWrite(j, new)
      BY <3>2, <3>3 DEF LegalWrite, ProverFits, Locked
    <3>5. QED
      BY <1>2, <2>2, <3>3, <3>4, OneWrite, RegisterStep
  <2>3. QED
    BY <2>1, <2>2 DEF SettleAccepted
<1>5. QED
  BY <1>1, <1>3, <1>4, RequestsFrame, PollersFrame, RestKept, RestTypes DEF Step

\* A submission that is to be retried is a legal step.
LEMMA SettleRetryStep == ASSUME IInv, NEW m \in Messages, SettleRetry(m) PROVE Step
<1>1. message[m].at # "unsent"
  BY DEF SettleRetry
<1>2. JobsStep /\ RegistryStep /\ age' \in [Jobs -> {"fresh", "overdue", "expired"}]
  BY <1>1, SentMessage, MarkRetryStep DEF SettleRetry
<1>3. MessagesStep
  BY <1>1, MessageMoves DEF SettleRetry
<1>4. QED
  BY <1>2, <1>3, RequestsFrame, PollersFrame, RestKept, RestTypes DEF SettleRetry, Step

\* A failed submission is a legal step: only a job without a lock is queued again.
LEMMA SettleFailedStep == ASSUME IInv, NEW m \in Messages, SettleFailed(m) PROVE Step
<1> DEFINE j == message[m].job
           n == job[j].tries + 1
           rec == IF Locked(job[j]) THEN job[j] ELSE [job[j] EXCEPT !.tries = n]
           next(k) == [message EXCEPT ![k] = NewMessage(j, NextBackend(message[m].backend), "sending")]
<1>1. message[m].at # "unsent" /\ UNCHANGED <<alarm, poller, recovering, request>>
  BY DEF SettleFailed
<1>2. /\ message[m] \in MessageRecord /\ j \in Jobs /\ job[j] \in JobRecord
      /\ ProverFits(j, job[j])
  BY <1>1, SentMessage
<1>3. n \in Nat
  BY <1>2 DEF JobRecord
<1>4. \/ ~Active(job[j]) /\ Ack(m) /\ UNCHANGED stored
      \/ MarkFailed(j, rec, "other") /\ Ack(m)
      \/ ~NoNextBackend(rec) /\ Requeue(j, rec) /\ \E k \in Messages : AckIn(next(k), m)
  BY DEF SettleFailed
<1> HIDE DEF n
<1>5. /\ rec \in JobRecord /\ rec.lock = job[j].lock /\ rec.prover = job[j].prover
      /\ rec.status = job[j].status
  BY <1>2, <1>3 DEF JobRecord
<1>6. ProverFits(j, rec)
  BY <1>2, <1>5 DEF ProverFits
<1> HIDE DEF rec
<1>7. SUFFICES /\ JobsStep /\ RegistryStep /\ age' \in [Jobs -> {"fresh", "overdue", "expired"}]
               /\ MessagesStep /\ spent' \in [Events -> Nat]
  BY <1>1, RequestsFrame, PollersFrame, RestKept, RestTypes DEF Step
<1>8. CASE Ack(m) /\ UNCHANGED stored
  BY <1>1, <1>8, PlainAck, JobsFrame, RegistryFrame, RestTypes DEF stored
<1>9. CASE MarkFailed(j, rec, "other") /\ Ack(m)
  BY <1>1, <1>2, <1>5, <1>6, <1>9, PlainAck, MarkFailedStep DEF Errors
<1>10. CASE ~NoNextBackend(rec) /\ Requeue(j, rec) /\ \E k \in Messages : AckIn(next(k), m)
  <2>1. NextBackend(message[m].backend) \in Backends
    BY <1>2, NextBackendType DEF MessageRecord
  <2>2. MessagesStep /\ spent' \in [Events -> Nat]
    BY <1>1, <1>2, <1>10, <2>1, ReplaceStep
  <2>3. QED
    BY <1>2, <1>5, <1>10, <2>2, RequeueStep DEF NoNextBackend
<1>11. QED
  BY <1>4, <1>8, <1>9, <1>10

\* A consumer crash is a legal step.
LEMMA ConsumerCrashStep == ASSUME IInv, NEW m \in Messages, ConsumerCrash(m) PROVE Step
<1>1. message[m].at # "unsent"
  BY DEF ConsumerCrash, InHand
<1>2. MessagesStep
  BY <1>1, SentMessage, GoneFits, OneMessage DEF ConsumerCrash, IInv, TypeOK
<1>3. RestStep
  BY SpendType, RestKept, RestTypes DEF ConsumerCrash, Events
<1>4. QED
  BY <1>2, <1>3, JobsFrame, RegistryFrame, RequestsFrame, PollersFrame DEF ConsumerCrash, Step

\* The dead letter handler is a legal step.
LEMMA DeadLetterStep == ASSUME IInv, NEW m \in Messages, DeadLetter(m) PROVE Step
<1>1. message[m].at # "unsent" /\ UNCHANGED <<alarm, poller, recovering, request, spent>>
  BY DEF DeadLetter
<1>2. MessagesStep
  BY <1>1, SentMessage, GoneFits, OneMessage DEF DeadLetter, IInv, TypeOK
<1>3. JobsStep /\ RegistryStep /\ age' \in [Jobs -> {"fresh", "overdue", "expired"}]
  <2>1. CASE UNCHANGED stored
    BY <2>1, JobsFrame, RegistryFrame, RestTypes DEF stored
  <2>2. CASE MarkFailed(message[m].job, job[message[m].job], "other")
    BY <1>1, <2>2, SentMessage, MarkFailedStep DEF Errors
  <2>3. QED
    BY <2>1, <2>2 DEF DeadLetter
<1>4. QED
  BY <1>1, <1>2, <1>3, RequestsFrame, PollersFrame, RestKept, RestTypes DEF Step
-----------------------------------------------------------------------------
(* Provers, time and the registry's own purge. *)

\* The end of a request at its prover is a legal step.
LEMMA RequestEndsStep == ASSUME IInv, NEW q \in Requests, RequestEnds(q) PROVE Step
<1>1. PICK p \in {"fulfilled", "failed"} : request' = [request EXCEPT ![q].phase = p]
  BY DEF RequestEnds
<1>2. /\ request \in [Requests -> RequestRecord] /\ request[q].phase = "running"
      /\ request[q] \in RequestRecord
  BY DEF RequestEnds, IInv, TypeOK
<1> DEFINE new == [request[q] EXCEPT !.phase = p]
<1>3. new \in RequestRecord /\ new.job = request[q].job /\ new.phase = p
  BY <1>2 DEF RequestRecord
<1>4. request' = [request EXCEPT ![q] = new]
  BY <1>1, <1>2
<1> HIDE DEF new
<1>5. RequestsStep
  BY <1>2, <1>3, <1>4 DEF RequestsStep
<1>6. MessagesStep
  <2>1. UNCHANGED message
    BY DEF RequestEnds
  <2>2. ASSUME NEW m \in Messages
        PROVE  MessageFits(message[m])'
    BY <1>5, <2>1 DEF RequestsStep, MessageFits, MessagesFit, IInv, TypeOK, MessageRecord
  <2>3. QED
    BY <2>1, <2>2 DEF MessagesStep, MessagesFit, IInv, TypeOK
<1>7. QED
  BY <1>5, <1>6, JobsFrame, RegistryFrame, PollersFrame, RestFrame DEF RequestEnds, Step

\* The passing of time is a legal step.
LEMMA ClockStep == ASSUME IInv, NEW j \in Jobs, Ages(j) \/ Expires(j) PROVE Step
<1>1. /\ age' \in [Jobs -> {"fresh", "overdue", "expired"}]
      /\ UNCHANGED <<job, registry, alarm, poller, recovering, message, request, spent>>
  BY DEF Ages, Expires, IInv, TypeOK
<1>2. QED
  BY <1>1, JobsFrame, RegistryFrame, MessagesFrame, RequestsFrame, PollersFrame,
     RestKept, RestTypes DEF Step

\* The end of a reservation is a legal step.
LEMMA ReservationLapsesStep ==
  ASSUME IInv, NEW r \in Replays, ReservationLapses(r)
  PROVE  Step
<1>1. /\ registry' = [registry EXCEPT ![r] = NoRow]
      /\ UNCHANGED <<job, alarm, poller, recovering, message, request, age, spent>>
  BY DEF ReservationLapses
<1>2. RegistryStep
  BY <1>1 DEF RegistryStep, RegistryAgreesWithJob, IInv, TypeOK, RowRecord
<1>3. QED
  BY <1>1, <1>2, JobsFrame, MessagesFrame, RequestsFrame, PollersFrame, RestFrame DEF Step
-----------------------------------------------------------------------------
(* The pollers. *)

\* A poller changes, and no record is loaded: alarm() and kickAlarm() begin, end
\* or pass a job by.
LEMMA PollerMoves ==
  ASSUME IInv, NEW p \in Pollers, NEW rec \in PollerRecord,
         poller' = [poller EXCEPT ![p] = rec],
         rec.at = NoJob \/ (rec.at = poller[p].at /\ rec.snap = poller[p].snap)
  PROVE  PollersStep
BY DEF PollersStep, IInv, TypeOK

\* A poller that does not run is a poller, and polls nothing.
LEMMA IdleType == Idle \in PollerRecord /\ Idle.at = NoJob
BY DEF PollerRecord, Idle, Absent, JobRecord, ActiveStatus, TerminalStatus

\* The start of alarm() is a legal step.
LEMMA AlarmFiresStep == ASSUME IInv, AlarmFires PROVE Step
<1> DEFINE on == ActiveJobs # {}
           new == [poller["alarm"] EXCEPT !.running = on, !.todo = ActiveJobs]
<1>1. poller["alarm"] \in PollerRecord /\ ActiveJobs \in SUBSET Jobs /\ on \in BOOLEAN
  BY DEF IInv, TypeOK, Pollers, ActiveJobs
<1>2. poller' = [poller EXCEPT !["alarm"] = new]
  BY DEF AlarmFires, IInv, TypeOK
<1> HIDE DEF on
<1>3. /\ new \in PollerRecord /\ new.at = poller["alarm"].at
      /\ new.snap = poller["alarm"].snap
  BY <1>1 DEF PollerRecord
<1> HIDE DEF new
<1>4. PollersStep
  BY <1>2, <1>3, PollerMoves DEF Pollers
<1>5. RestStep
  BY RestKept, RestTypes DEF AlarmFires
<1>6. QED
  BY <1>4, <1>5, JobsFrame, RegistryFrame, MessagesFrame, RequestsFrame DEF AlarmFires, Step

\* The end of alarm() or kickAlarm() is a legal step.
LEMMA PollerEndsStep == ASSUME IInv, AlarmEnds \/ KickEnds PROVE Step
<1>1. PICK p \in Pollers : poller' = [poller EXCEPT ![p] = Idle]
  BY DEF AlarmEnds, KickEnds, Pollers
<1>2. PollersStep
  BY <1>1, IdleType DEF PollersStep, IInv, TypeOK
<1>3. alarm' \in BOOLEAN
  BY DEF AlarmEnds, KickEnds, IInv, TypeOK
<1>4. UNCHANGED <<job, registry, recovering, message, request, age, spent>>
  BY DEF AlarmEnds, KickEnds
<1>5. QED
  BY <1>2, <1>3, <1>4, JobsFrame, RegistryFrame, MessagesFrame, RequestsFrame, RestKept,
     RestTypes DEF Step

\* Passing a job by is a legal step.
LEMMA VisitIdleStep ==
  ASSUME IInv, NEW p \in Pollers, NEW j \in Jobs, VisitIdle(p, j)
  PROVE  Step
<1> DEFINE more == poller[p].anyStillActive \/ (p = "alarm" /\ Active(job[j]))
           left == poller[p].todo \ {j}
           new == [poller[p] EXCEPT !.todo = left, !.anyStillActive = more]
<1>1. poller[p] \in PollerRecord
  BY DEF IInv, TypeOK
<1>2. more \in BOOLEAN /\ left \in SUBSET Jobs
  BY <1>1 DEF PollerRecord
<1>3. poller' = [poller EXCEPT ![p] = new]
  BY DEF VisitIdle, IInv, TypeOK
<1> HIDE DEF more, left
<1>4. new \in PollerRecord /\ new.at = poller[p].at /\ new.snap = poller[p].snap
  BY <1>1, <1>2 DEF PollerRecord
<1> HIDE DEF new
<1>5. PollersStep
  BY <1>3, <1>4, PollerMoves
<1>6. alarm' \in BOOLEAN
  BY DEF VisitIdle
<1>7. QED
  BY <1>5, <1>6, JobsFrame, RegistryFrame, MessagesFrame, RequestsFrame, RestKept, RestTypes
  DEF VisitIdle, Step

\* Starting a poll is a legal step: the record it keeps has a prover.
LEMMA VisitPollStep ==
  ASSUME IInv, NEW p \in Pollers, NEW j \in Jobs, VisitPoll(p, j)
  PROVE  Step
<1> DEFINE un == request[job[j].prover].phase = "running"
           left == poller[p].todo \ {j}
           new == [poller[p] EXCEPT !.todo = left, !.at = j, !.snap = job[j], !.unfinished = un]
<1>1. poller[p] \in PollerRecord /\ job[j] \in JobRecord /\ Active(job[j]) /\ job[j].prover # 0
  BY DEF VisitPoll, IInv, TypeOK
<1>2. un \in BOOLEAN /\ left \in SUBSET Jobs
  BY <1>1 DEF PollerRecord
<1>3. poller' = [poller EXCEPT ![p] = new]
  BY DEF VisitPoll, IInv, TypeOK
<1> HIDE DEF un, left
<1>4. new \in PollerRecord /\ new.at = j /\ new.snap = job[j]
  BY <1>1, <1>2 DEF PollerRecord
<1> HIDE DEF new
<1>5. PollersStep
  BY <1>1, <1>3, <1>4 DEF PollersStep, IInv, TypeOK
<1>6. QED
  BY <1>5, JobsFrame, RegistryFrame, MessagesFrame, RequestsFrame, RestFrame
  DEF VisitPoll, Step

\* A dispatched job that is given up fails: there is no other backend for it.
LEMMA GiveUpStep ==
  ASSUME IInv, NEW j \in Jobs, NEW rec \in JobRecord, ProverFits(j, rec),
         rec.lock = "dispatched", job[j].lock = "dispatched", GiveUp(j, rec)
  PROVE  /\ JobsStep /\ RegistryStep /\ age' \in [Jobs -> {"fresh", "overdue", "expired"}]
         /\ UNCHANGED message
<1>1. NoNextBackend(rec)
  BY DEF NoNextBackend, Locked
<1>2. MarkFailed(j, rec, "other") /\ UNCHANGED message
  BY <1>1 DEF GiveUp
<1>3. QED
  BY <1>2, MarkFailedStep DEF Errors

\* Ending an attempt that ran too long is a legal step.
LEMMA VisitOvertimeStep ==
  ASSUME IInv, NEW p \in Pollers, NEW j \in Jobs, VisitOvertime(p, j)
  PROVE  Step
<1> DEFINE more == poller[p].anyStillActive \/ Active(job'[j])
           left == poller[p].todo \ {j}
           new == [poller[p] EXCEPT !.todo = left, !.anyStillActive = more]
<1>1. /\ poller[p] \in PollerRecord /\ job[j] \in JobRecord /\ ProverFits(j, job[j])
      /\ GiveUp(j, job[j]) /\ job[j].lock = "dispatched"
      /\ UNCHANGED <<alarm, recovering, request, spent>>
  BY DEF VisitOvertime, IInv, TypeOK, JobsFit, ProverFits
<1>2. more \in BOOLEAN /\ left \in SUBSET Jobs
  BY <1>1 DEF PollerRecord
<1>3. poller' = [poller EXCEPT ![p] = new]
  BY DEF VisitOvertime, IInv, TypeOK
<1> HIDE DEF more, left
<1>4. new \in PollerRecord /\ new.at = poller[p].at /\ new.snap = poller[p].snap
  BY <1>1, <1>2 DEF PollerRecord
<1> HIDE DEF new
<1>5. PollersStep
  BY <1>3, <1>4, PollerMoves
<1>6. /\ JobsStep /\ RegistryStep /\ age' \in [Jobs -> {"fresh", "overdue", "expired"}]
      /\ UNCHANGED message
  BY <1>1, GiveUpStep
<1>7. QED
  BY <1>1, <1>5, <1>6, MessagesFrame, RequestsFrame, RestKept, RestTypes DEF Step

\* A handler that waits for an answer has a record that fits.
LEMMA WaitingPoller ==
  ASSUME IInv, NEW p \in Pollers, poller[p].at # NoJob
  PROVE  /\ poller[p] \in PollerRecord /\ poller[p].at \in Jobs
         /\ poller[p].snap \in JobRecord /\ ProverFits(poller[p].at, poller[p].snap)
         /\ Active(poller[p].snap) /\ poller[p].snap.lock = "dispatched"
         /\ poller[p].snap.prover \in Requests
         /\ request[poller[p].snap.prover].job = poller[p].at
         /\ job[poller[p].at] \in JobRecord /\ job[poller[p].at].lock = "dispatched"
         /\ ProverFits(poller[p].at, job[poller[p].at])
<1>1. /\ poller[p] \in PollerRecord /\ poller[p].at \in Jobs
  BY DEF IInv, TypeOK, PollerRecord
<1>2. poller[p].snap \in JobRecord
  BY <1>1 DEF PollerRecord
<1>3. /\ ProverFits(poller[p].at, poller[p].snap)
      /\ Active(poller[p].snap) /\ poller[p].snap.lock = "dispatched"
      /\ job[poller[p].at].lock = "dispatched"
  BY DEF IInv, SnapshotsFit
<1>4. /\ poller[p].snap.prover \in Requests
      /\ request[poller[p].snap.prover].job = poller[p].at
  BY <1>2, <1>3 DEF ProverFits, JobRecord
<1>5. job[poller[p].at] \in JobRecord /\ ProverFits(poller[p].at, job[poller[p].at])
  BY <1>1 DEF IInv, TypeOK, JobsFit
<1>6. QED
  BY <1>1, <1>2, <1>3, <1>4, <1>5

\* What every answer does to the poller is a legal step.
LEMMA AnsweredStep ==
  ASSUME IInv, NEW p \in Pollers, poller[p].at # NoJob, Answered(p)
  PROVE  PollersStep /\ UNCHANGED <<alarm, recovering, request, spent>>
<1> DEFINE more == poller[p].anyStillActive \/ Active(job'[poller[p].at])
           new == [poller[p] EXCEPT !.at = NoJob, !.snap = Absent, !.unfinished = FALSE,
                                    !.anyStillActive = more]
<1>1. poller[p] \in PollerRecord /\ Absent \in JobRecord
  BY WaitingPoller DEF Absent, JobRecord, ActiveStatus, TerminalStatus
<1>2. more \in BOOLEAN
  BY <1>1 DEF PollerRecord
<1>3. poller' = [poller EXCEPT ![p] = new]
  BY DEF Answered, IInv, TypeOK
<1> HIDE DEF more
<1>4. new \in PollerRecord /\ new.at = NoJob
  BY <1>1, <1>2 DEF PollerRecord
<1> HIDE DEF new
<1>5. PollersStep
  BY <1>3, <1>4 DEF PollersStep, IInv, TypeOK
<1>6. QED
  BY <1>5 DEF Answered

\* A record loaded before the await may be saved over a later one.
LEMMA SnapshotWrite ==
  ASSUME IInv, NEW p \in Pollers, poller[p].at # NoJob, NEW rec \in JobRecord,
         rec.lock = "dispatched", rec.prover = poller[p].snap.prover,
         rec.status \in {"dispatching", "prover_running", "retrying"},
         job' = [job EXCEPT ![poller[p].at] = rec], UNCHANGED registry
  PROVE  JobsStep /\ RegistryStep
<1> DEFINE j == poller[p].at
<1>1. /\ j \in Jobs /\ job[j].lock = "dispatched" /\ ProverFits(j, poller[p].snap)
      /\ poller[p].snap.lock = "dispatched"
  BY WaitingPoller
<1>2. LegalWrite(j, rec)
  BY <1>1 DEF LegalWrite, ProverFits, Locked
<1>3. \A k \in Jobs : job'[k].lock = job[k].lock
  BY <1>1 DEF IInv, TypeOK
<1>4. QED
  BY <1>1, <1>2, <1>3, OneWrite, RegistryFrame

\* Every answer to a poll is a legal step, though it may save the record loaded before.
LEMMA PollEndsStep == ASSUME IInv, NEW p \in Pollers, PollEnds(p) PROVE Step
<1> DEFINE j == poller[p].at
           snap == poller[p].snap
           retrying == [snap EXCEPT !.status = "retrying"]
<1>1. poller[p].at # NoJob /\ Answered(p)
  BY DEF PollEnds, PollRunning, PollError, PollGivesUp, PollFatal, PollSucceeds
<1>2. PollersStep /\ UNCHANGED <<alarm, recovering, request, spent>>
  BY <1>1, AnsweredStep
<1>3. /\ j \in Jobs /\ snap \in JobRecord /\ ProverFits(j, snap) /\ Active(snap)
      /\ snap.lock = "dispatched" /\ snap.prover \in Requests /\ request[snap.prover].job = j
      /\ job[j] \in JobRecord /\ job[j].lock = "dispatched" /\ ProverFits(j, job[j])
  BY <1>1, WaitingPoller
<1>4. snap.prover # 0
  BY <1>3, BoundAssumption DEF Requests
<1>5. snap.status \in {"dispatching", "prover_running", "retrying"}
  BY <1>3, <1>4 DEF ProverFits, Active, ActiveStatus
<1>6. /\ retrying \in JobRecord /\ retrying.lock = "dispatched" /\ retrying.status = "retrying"
      /\ retrying.prover = snap.prover
  BY <1>3 DEF JobRecord, ActiveStatus
<1>7. \/ /\ \E rec \in {snap, retrying} : job' = [job EXCEPT ![j] = rec]
         /\ UNCHANGED <<registry, message, age>>
      \/ UNCHANGED <<job, registry, message, age>>
      \/ GiveUp(j, snap)
      \/ MarkFailed(j, job[j], "other") /\ UNCHANGED message
      \/ /\ request[snap.prover].phase = "fulfilled"
         /\ MarkSucceeded(j, snap.prover) /\ UNCHANGED message
  BY DEF PollEnds, PollRunning, PollError, PollGivesUp, PollFatal, PollSucceeds
<1> HIDE DEF retrying
<1>8. /\ JobsStep /\ RegistryStep /\ age' \in [Jobs -> {"fresh", "overdue", "expired"}]
      /\ UNCHANGED message
  <2>1. CASE /\ \E rec \in {snap, retrying} : job' = [job EXCEPT ![j] = rec]
             /\ UNCHANGED <<registry, message, age>>
    BY <1>1, <1>3, <1>5, <1>6, <2>1, SnapshotWrite, RestTypes
  <2>2. CASE UNCHANGED <<job, registry, message, age>>
    BY <2>2, JobsFrame, RegistryFrame, RestTypes
  <2>3. CASE GiveUp(j, snap)
    BY <1>3, <2>3, GiveUpStep
  <2>4. CASE MarkFailed(j, job[j], "other") /\ UNCHANGED message
    BY <1>3, <2>4, MarkFailedStep DEF Errors
  <2>5. CASE /\ request[snap.prover].phase = "fulfilled"
             /\ MarkSucceeded(j, snap.prover) /\ UNCHANGED message
    BY <1>3, <2>5, MarkSucceededStep
  <2>6. QED
    BY <1>7, <2>1, <2>2, <2>3, <2>4, <2>5
<1>9. QED
  BY <1>2, <1>8, MessagesFrame, RequestsFrame, RestKept, RestTypes DEF Step
-----------------------------------------------------------------------------
(* Recovery and maintenance. *)

\* The start of a recovery is a legal step.
LEMMA RecoverStartsStep == ASSUME IInv, NEW j \in Jobs, RecoverStarts(j) PROVE Step
<1>1. job[j].lock = "dispatched"
  BY DEF RecoverStarts, IsRecoverable, IInv, JobsFit, ProverFits
<1>2. RestStep
  BY <1>1 DEF RecoverStarts, RestStep, RecoveringAreLocked, IInv, TypeOK
<1>3. QED
  BY <1>2, JobsFrame, RegistryFrame, MessagesFrame, RequestsFrame, PollersFrame
  DEF RecoverStarts, Step

\* The end of a recovery is a legal step: the job is locked ever since it started.
LEMMA RecoverEndsStep == ASSUME IInv, NEW j \in Jobs, RecoverEnds(j) PROVE Step
<1>1. /\ UNCHANGED <<alarm, poller, message, request, spent>>
      /\ recovering' = recovering \ {j} /\ j \in recovering
  BY DEF RecoverEnds
<1>2. job[j] \in JobRecord /\ ProverFits(j, job[j]) /\ job[j].lock = "dispatched"
  BY <1>1 DEF IInv, TypeOK, JobsFit, RecoveringAreLocked
<1>3. job[j].prover \in Requests /\ request[job[j].prover].job = j
  BY <1>2 DEF ProverFits, JobRecord
<1>4. JobsStep /\ RegistryStep /\ age' \in [Jobs -> {"fresh", "overdue", "expired"}]
  <2>1. CASE request[job[j].prover].phase = "fulfilled" /\ MarkSucceeded(j, job[j].prover)
    BY <1>2, <1>3, <2>1, MarkSucceededStep
  <2>2. CASE UNCHANGED stored
    BY <2>2, JobsFrame, RegistryFrame, RestTypes DEF stored
  <2>3. QED
    BY <2>1, <2>2 DEF RecoverEnds
<1>5. RestStep
  BY <1>1, <1>4 DEF RestStep, RecoveringAreLocked, IInv, TypeOK
<1>6. QED
  BY <1>1, <1>4, <1>5, MessagesFrame, RequestsFrame, PollersFrame DEF Step

\* The cron job is a legal step.
LEMMA RunMaintenanceStep == ASSUME IInv, RunMaintenance PROVE Step
<1>1. UNCHANGED <<registry, poller, recovering, message, request, age, spent>>
  BY DEF RunMaintenance
<1>2. JobsStep /\ \A k \in Jobs : job'[k].lock = job[k].lock
  <2>1. CASE UNCHANGED job
    BY <2>1, JobsFrame
  <2>2. CASE job' = Sweep(job, NoJob)
    <3>1. \A k \in Jobs : job'[k] \in {job[k], Pruned(job[k])}
      BY <2>2 DEF Sweep
    <3>2. \A k \in Jobs : LegalWrite(k, job'[k]) /\ job'[k].lock = job[k].lock
      BY <3>1, OldWrite, PrunedWrite
    <3>3. job' \in [Jobs -> JobRecord]
      BY <2>2, <3>2 DEF Sweep, LegalWrite
    <3>4. QED
      BY <3>2, <3>3 DEF JobsStep
  <2>3. QED
    BY <2>1, <2>2 DEF RunMaintenance
<1>3. alarm' \in BOOLEAN
  BY DEF RunMaintenance, IInv, TypeOK
<1>4. QED
  BY <1>1, <1>2, <1>3, RegistryFrame, MessagesFrame, RequestsFrame, PollersFrame, RestKept,
     RestTypes DEF Step

\* An eviction of the durable object is a legal step.
LEMMA CoordinatorRestartStep == ASSUME IInv, CoordinatorRestart PROVE Step
<1>1. /\ poller' = [p \in Pollers |-> Idle] /\ recovering' = {}
      /\ alarm' = (alarm \/ poller["alarm"].running)
      /\ UNCHANGED <<job, registry, message, request, age>>
  BY DEF CoordinatorRestart
<1>2. PollersStep
  BY <1>1, IdleType DEF PollersStep
<1>3. spent' \in [Events -> Nat]
  BY SpendType DEF CoordinatorRestart, Events
<1>4. RestStep
  BY <1>1, <1>3, RestTypes DEF RestStep
<1>5. QED
  BY <1>1, <1>2, <1>4, JobsFrame, RegistryFrame, MessagesFrame, RequestsFrame DEF Step
-----------------------------------------------------------------------------
(* The theorems. *)

\* Every action of the specification is a legal step.
LEMMA NextIsStep == IInv /\ Next => Step
<1> SUFFICES ASSUME IInv, Next PROVE Step
  OBVIOUS
<1>1. ASSUME NEW j \in Jobs,
             \/ CreateJob(j) \/ Cancel(j) \/ Ages(j) \/ Expires(j)
             \/ RecoverStarts(j) \/ RecoverEnds(j)
      PROVE  Step
  BY <1>1, CreateJobStep, CancelStep, ClockStep, RecoverStartsStep, RecoverEndsStep
<1>2. ASSUME NEW m \in Messages, Consume(m)
      PROVE  Step
  BY <1>2, DeliverStep, KickStaleSlotStep, SlotFreedStep, SlotStillBusyStep, RejectStep,
     PreflightFailsStep, BeginExternalDispatchStep, SubmitStep, SettleAcceptedStep,
     SettleRetryStep, SettleFailedStep, DeadLetterStep DEF Consume
<1>3. ASSUME NEW m \in Messages,
             SendEnds(m) \/ SendFails(m) \/ SendLost(m) \/ ConsumerCrash(m)
      PROVE  Step
  BY <1>3, SendEndsStep, SendFailsStep, SendLostStep, ConsumerCrashStep
<1>4. ASSUME NEW p \in Pollers, Visit(p) \/ PollEnds(p)
      PROVE  Step
  BY <1>4, VisitIdleStep, VisitOvertimeStep, VisitPollStep, PollEndsStep DEF Visit
<1>5. CASE AlarmFires \/ AlarmEnds \/ KickEnds \/ RunMaintenance \/ CoordinatorRestart
  BY <1>5, AlarmFiresStep, PollerEndsStep, RunMaintenanceStep, CoordinatorRestartStep
<1>6. QED
  BY <1>1, <1>2, <1>3, <1>4, <1>5, RetryProofStep, RequestEndsStep, ReservationLapsesStep
  DEF Next

\* A stuttering step is legal.
LEMMA StutterIsStep == IInv /\ UNCHANGED vars => Step
BY JobsFrame, RegistryFrame, MessagesFrame, RequestsFrame, PollersFrame, RestFrame DEF vars, Step

\* The invariant holds in every reachable state.
LEMMA Inductive == Spec => []IInv
<1>1. IInv /\ [Next]_vars => IInv'
  BY NextIsStep, StutterIsStep, StepKeepsIInv
<1>2. QED
  BY <1>1, InitIInv, PTL DEF Spec

\* Every variable keeps its type.
THEOREM TypeCorrect == Spec => []TypeOK
<1>1. IInv => TypeOK
  BY DEF IInv
<1>2. QED
  BY <1>1, Inductive, PTL

\* A registry row that names a stored job agrees with that job's own lock, for
\* any number of jobs, messages, pollers' answers, cancels, retries and crashes.
THEOREM RegistryAgrees == Spec => []RegistryAgreesWithJob
<1>1. IInv => RegistryAgreesWithJob
  BY DEF IInv
<1>2. QED
  BY <1>1, Inductive, PTL

\* No step, a save of an old record included, gives up the lock of a job that
\* has entered external dispatch.
THEOREM LocksArePermanent == Spec => LockIsPermanent
<1>1. IInv /\ [Next]_vars =>
        [\A j \in Jobs : /\ job[j].lock = "dispatched" => job'[j].lock = "dispatched"
                         /\ job[j].lock = "dispatching" => Locked(job'[j])]_vars
  BY NextIsStep DEF Step, JobsStep, LegalWrite
<1>2. QED
  BY <1>1, Inductive, PTL DEF Spec, LockIsPermanent

\* A job that has entered external dispatch is never put back into a queue.
THEOREM LockedJobsStayOut == Spec => LockedIsNeverRequeued
<1>1. IInv /\ [Next]_vars =>
        [\A j \in Jobs :
           Locked(job[j]) /\ job'[j].status = "queued" => job[j].status = "queued"]_vars
  BY NextIsStep DEF Step, JobsStep, LegalWrite
<1>2. QED
  BY <1>1, Inductive, PTL DEF Spec, LockedIsNeverRequeued

\* Jobs and waiting handlers only ever poll requests made for their own job.
THEOREM PollersPollTheirOwn == Spec => []PollsOwnRequest
<1>1. IInv => PollsOwnRequest
  <2> SUFFICES ASSUME IInv PROVE PollsOwnRequest
    OBVIOUS
  <2>1. \A p \in Pollers : poller[p].at # NoJob =>
          /\ poller[p].snap.prover # 0
          /\ request[poller[p].snap.prover].job = poller[p].at
          /\ job[poller[p].at].lock = "dispatched"
    BY DEF IInv, SnapshotsFit, ProverFits
  <2>2. QED
    BY <2>1 DEF PollsOwnRequest, IInv, JobsFit, ProverFits
<1>2. QED
  BY <1>1, Inductive, PTL

\* The result of a succeeded job is the proof of a fulfilled request of its own.
THEOREM ProofsAreOwn == Spec => []ProofFromOwnRequest
<1>1. IInv => ProofFromOwnRequest
  BY DEF IInv
<1>2. QED
  BY <1>1, Inductive, PTL
-----------------------------------------------------------------------------
(* What a step does to the jobs, and to the messages that carry them. *)

\* The messages about job j that a queue or a consumer still has.
Carriers(msgs, j) == {m \in Messages : msgs[m].job = j /\ msgs[m].at \notin {"unsent", "gone"}}

\* Nothing happens to a job other than j, except that it may be pruned.
Kept(k) == job'[k] = job[k] \/ (age[k] = "expired" /\ job'[k] = Pruned(job[k]))
OthersKept(j) == \A k \in Jobs \ {j} : Kept(k) /\ age'[k] = age[k]

\* What markFailed() does to job j.
Fails(j) ==
  /\ Exists(j) /\ OthersKept(j)
  /\ job'[j].status = "failed"
  /\ job'[j].lock = IF Locked(job[j]) THEN job[j].lock ELSE "released"
  /\ age'[j] = IF age[j] = "expired" THEN "overdue" ELSE age[j]
  /\ registry' = IF Locked(job[j]) THEN registry ELSE [registry EXCEPT ![ReplayOf[j]] = NoRow]

\* What markSucceeded() does to job j.
Succeeds(j) ==
  /\ OthersKept(j) /\ UNCHANGED registry
  /\ job'[j].status = "succeeded" /\ job'[j].prover = job[j].prover
  /\ job'[j].lock = job[j].lock
  /\ age'[j] = IF age[j] = "expired" THEN "overdue" ELSE age[j]

\* A new message about job j, message m gone, one in the place of the other.
SameCarriers == \A k \in Jobs : Carriers(message', k) = Carriers(message, k)
OtherCarriers(j) == \A k \in Jobs \ {j} : Carriers(message', k) = Carriers(message, k)
Adds(j) ==
  /\ OtherCarriers(j)
  /\ \E n \in Messages \ Carriers(message, j) :
       Carriers(message', j) = Carriers(message, j) \cup {n}
Drops(m) ==
  /\ OtherCarriers(message[m].job)
  /\ Carriers(message', message[m].job) = Carriers(message, message[m].job) \ {m}
Swaps(m) ==
  /\ OtherCarriers(message[m].job)
  /\ \E n \in Messages \ Carriers(message, message[m].job) :
       Carriers(message', message[m].job) = (Carriers(message, message[m].job) \ {m}) \cup {n}
Crashes == Spend("crash", MaxCrashes)

\* Complete writes one job; the others are kept or pruned.
LEMMA CompleteWrites ==
  ASSUME IInv, NEW j \in Jobs, NEW rec, Complete(j, rec)
  PROVE  /\ OthersKept(j) /\ job'[j] = rec
         /\ age'[j] = IF age[j] = "expired" THEN "overdue" ELSE age[j]
<1>1. job \in [Jobs -> JobRecord] /\ age \in [Jobs -> {"fresh", "overdue", "expired"}]
  BY DEF IInv, TypeOK
<1>2. \A k \in Jobs :
        job'[k] = IF k # j /\ age[k] = "expired" THEN Pruned([job EXCEPT ![j] = rec][k])
                                                 ELSE [job EXCEPT ![j] = rec][k]
  BY DEF Complete, Sweep
<1>3. QED
  BY <1>1, <1>2 DEF Complete, OthersKept, Kept

\* markFailed() writes one job; one that does not exist, not at all.
LEMMA MarkFailedWrites ==
  ASSUME IInv, NEW j \in Jobs, NEW rec \in JobRecord, NEW why \in Errors,
         rec.lock = job[j].lock, MarkFailed(j, rec, why)
  PROVE  (~Exists(j) /\ UNCHANGED <<job, registry, age>>) \/ Fails(j)
<1>1. CASE ~Exists(j)
  BY <1>1 DEF MarkFailed, stored
<1>2. CASE Exists(j)
  <2> DEFINE new == Failed(rec, why)
  <2>1. /\ new.status = "failed"
        /\ Locked(rec) => new.lock = rec.lock
        /\ ~Locked(rec) => new.lock = "released"
    BY FailedRecord
  <2>2. Complete(j, new)
    BY <1>2 DEF MarkFailed
  <2> HIDE DEF new
  <2>3. /\ OthersKept(j) /\ job'[j] = new
        /\ age'[j] = IF age[j] = "expired" THEN "overdue" ELSE age[j]
    BY <2>2, CompleteWrites
  <2>4. Locked(rec) <=> Locked(job[j])
    BY DEF Locked
  <2>5. registry' = IF Locked(job[j]) THEN registry ELSE [registry EXCEPT ![ReplayOf[j]] = NoRow]
    BY <1>2, <2>4 DEF MarkFailed
  <2>6. job'[j].lock = IF Locked(job[j]) THEN job[j].lock ELSE "released"
    BY <2>1, <2>3, <2>4
  <2>7. QED
    BY <1>2, <2>1, <2>3, <2>5, <2>6 DEF Fails
<1>3. QED
  BY <1>1, <1>2

\* markSucceeded() writes one job.
LEMMA MarkSucceededWrites ==
  ASSUME IInv, NEW j \in Jobs, NEW q \in Requests, MarkSucceeded(j, q)
  PROVE  Succeeds(j)
<1> DEFINE new == [job[j] EXCEPT !.status = "succeeded", !.lease = 0, !.result = q, !.error = "none"]
<1>1. job[j] \in JobRecord
  BY DEF IInv, TypeOK
<1>2. new.status = "succeeded" /\ new.prover = job[j].prover /\ new.lock = job[j].lock
  BY <1>1 DEF JobRecord
<1>3. Complete(j, new) /\ UNCHANGED registry
  BY DEF MarkSucceeded
<1> HIDE DEF new
<1>4. QED
  BY <1>2, <1>3, CompleteWrites DEF Succeeds

\* Writing one job keeps the others.
LEMMA WriteKeepsOthers ==
  ASSUME IInv, NEW j \in Jobs, NEW rec, job' = [job EXCEPT ![j] = rec], UNCHANGED age
  PROVE  OthersKept(j) /\ job'[j] = rec
BY DEF IInv, TypeOK, OthersKept, Kept

\* markRetry() changes neither lock nor prover, and puts back active jobs only.
LEMMA MarkRetryWrites ==
  ASSUME IInv, NEW j \in Jobs, MarkRetry(j)
  PROVE  /\ OthersKept(j) /\ UNCHANGED <<registry, age>>
         /\ job'[j].prover = job[j].prover /\ job'[j].lock = job[j].lock
         /\ job'[j].status = IF Active(job[j]) THEN "retrying" ELSE job[j].status
         /\ Active(job[j]) => job'[j].lease = 0
         /\ ~Active(job[j]) => job'[j] = job[j]
<1> DEFINE new == [job[j] EXCEPT !.status = "retrying", !.lease = 0]
<1>1. job[j] \in JobRecord
  BY DEF IInv, TypeOK
<1>2. /\ new.status = "retrying" /\ new.lease = 0
      /\ new.lock = job[j].lock /\ new.prover = job[j].prover
  BY <1>1 DEF JobRecord
<1>3. job' = (IF Active(job[j]) THEN [job EXCEPT ![j] = new] ELSE job) /\ UNCHANGED <<registry, age>>
  BY DEF MarkRetry
<1> HIDE DEF new
<1>4. QED
  BY <1>2, <1>3, WriteKeepsOthers DEF OthersKept, Kept

-----------------------------------------------------------------------------
\* A message that stays in a queue or with a consumer carries the job it carried.
LEMMA MoveCarriers ==
  ASSUME IInv, NEW m \in Messages, message[m].at \notin {"unsent", "gone"},
         NEW rec, rec.job = message[m].job, rec.at \notin {"unsent", "gone"},
         message' = [message EXCEPT ![m] = rec]
  PROVE  SameCarriers
<1>1. \A k \in Messages : message'[k] = IF k = m THEN rec ELSE message[k]
  BY DEF IInv, TypeOK
<1>2. QED
  BY <1>1 DEF SameCarriers, Carriers

\* One that is gone carries it no longer.
LEMMA DropCarriers ==
  ASSUME IInv, NEW m \in Messages, NEW rec, rec.at = "gone",
         message' = [message EXCEPT ![m] = rec]
  PROVE  Drops(m)
<1>1. \A k \in Messages : message'[k] = IF k = m THEN rec ELSE message[k]
  BY DEF IInv, TypeOK
<1>2. QED
  BY <1>1 DEF Drops, OtherCarriers, Carriers

\* A new message carries the job it is about.
LEMMA AddCarriers ==
  ASSUME IInv, NEW n \in Messages, Fresh(n), NEW j \in Jobs, NEW b \in Backends,
         NEW at \in {"sending", "waiting"},
         message' = [message EXCEPT ![n] = NewMessage(j, b, at)]
  PROVE  Adds(j)
<1> DEFINE new == NewMessage(j, b, at)
<1>1. new.job = j /\ new.at = at
  BY DEF NewMessage, Unsent
<1>2. message[n].at = "unsent"
  BY DEF Fresh
<1>3. message' = [message EXCEPT ![n] = new]
  OBVIOUS
<1> HIDE DEF new
<1>4. \A k \in Messages : message'[k] = IF k = n THEN new ELSE message[k]
  BY <1>3 DEF IInv, TypeOK
<1>5. n \notin Carriers(message, j) /\ Carriers(message', j) = Carriers(message, j) \cup {n}
  BY <1>1, <1>2, <1>4 DEF Carriers
<1>6. OtherCarriers(j)
  BY <1>1, <1>2, <1>4 DEF OtherCarriers, Carriers
<1>7. QED
  BY <1>5, <1>6 DEF Adds

\* What Gone and Redelivered leave of a message.
LEMMA AckedMessage ==
  ASSUME NEW msg \in MessageRecord
  PROVE  /\ Gone(msg).job = msg.job /\ Gone(msg).at = "gone"
         /\ Redelivered(msg).job = msg.job /\ Redelivered(msg).at \in {"dead", "waiting"}
<1> DEFINE at == IF msg.attempts > MaxDeliveries THEN "dead" ELSE "waiting"
<1>1. Redelivered(msg) = [msg EXCEPT !.at = at, !.outcome = "none", !.request = 0]
  BY DEF Redelivered
<1>2. at \in {"dead", "waiting"}
  OBVIOUS
<1> HIDE DEF at
<1>3. QED
  BY <1>1, <1>2 DEF Gone, MessageRecord

\* Acking a message drops it, unless the consumer crashes first.
LEMMA AckCarriers ==
  ASSUME IInv, NEW m \in Messages, message[m].at \notin {"unsent", "gone"},
         NEW n \in Nat, AckIn([message EXCEPT ![m].attempts = n], m) \/ Ack(m)
  PROVE  Drops(m) \/ (SameCarriers /\ Crashes)
<1> DEFINE msg == [message[m] EXCEPT !.attempts = n]
           msgs == [message EXCEPT ![m] = msg]
<1>1. /\ message \in [Messages -> MessageRecord] /\ message[m] \in MessageRecord
  BY DEF IInv, TypeOK
<1>2. msg \in MessageRecord /\ msg.job = message[m].job
  BY <1>1 DEF MessageRecord
<1>3. [message EXCEPT ![m].attempts = n] = msgs
  BY <1>1
<1>4. ASSUME NEW old \in {message[m], msg},
             NEW ms, ms = [message EXCEPT ![m] = old], AckIn(ms, m)
      PROVE  Drops(m) \/ (SameCarriers /\ Crashes)
  <2>1. old \in MessageRecord /\ old.job = message[m].job
    BY <1>1, <1>2
  <2> HIDE DEF msg
  <2>2. ms[m] = old /\ \A x : [ms EXCEPT ![m] = x] = [message EXCEPT ![m] = x]
    BY <1>1, <1>4
  <2>3. \/ message' = [ms EXCEPT ![m] = Gone(old)]
        \/ message' = [ms EXCEPT ![m] = Redelivered(old)] /\ Crashes
    BY <1>4, <2>2 DEF AckIn, Crashes
  <2>4. CASE message' = [ms EXCEPT ![m] = Gone(old)]
    <3>1. Gone(old).at = "gone"
      BY <2>1, AckedMessage
    <3>2. message' = [message EXCEPT ![m] = Gone(old)]
      BY <2>2, <2>4
    <3>3. QED
      BY <3>1, <3>2, DropCarriers
  <2>5. CASE message' = [ms EXCEPT ![m] = Redelivered(old)] /\ Crashes
    <3>1. Redelivered(old).at \notin {"unsent", "gone"} /\ Redelivered(old).job = message[m].job
      BY <2>1, AckedMessage
    <3>2. message' = [message EXCEPT ![m] = Redelivered(old)]
      BY <2>2, <2>5
    <3>3. QED
      BY <2>5, <3>1, <3>2, MoveCarriers
  <2>6. QED
    BY <2>3, <2>4, <2>5
<1>5. message = [message EXCEPT ![m] = message[m]]
  BY <1>1
<1> HIDE DEF msg
<1>6. QED
  BY <1>3, <1>4, <1>5 DEF Ack

\* Acking message m once message n is sent in its place.
LEMMA SwapCarriers ==
  ASSUME IInv, NEW m \in Messages, message[m].at \notin {"unsent", "gone"},
         NEW n \in Messages, Fresh(n), NEW b \in Backends, NEW at \in {"sending", "waiting"},
         AckIn([message EXCEPT ![n] = NewMessage(message[m].job, b, at)], m)
  PROVE  Swaps(m) \/ (Adds(message[m].job) /\ Crashes)
<1> DEFINE j == message[m].job
           new == NewMessage(j, b, at)
           msgs == [message EXCEPT ![n] = new]
<1>1. new.job = j /\ new.at = at
  BY DEF NewMessage, Unsent
<1>2. message[n].at = "unsent" /\ n # m
  BY DEF Fresh
<1>3. message \in [Messages -> MessageRecord] /\ message[m] \in MessageRecord
  BY DEF IInv, TypeOK
<1>4. j \in Jobs
  BY SentMessage
<1> HIDE DEF new
<1>5. msgs[m] = message[m]
  BY <1>2, <1>3
<1>6. \/ message' = [msgs EXCEPT ![m] = Gone(message[m])]
      \/ message' = [msgs EXCEPT ![m] = Redelivered(message[m])] /\ Crashes
  BY <1>5 DEF AckIn, Crashes, new
<1>7. ASSUME NEW rec, message' = [msgs EXCEPT ![m] = rec]
      PROVE  \A k \in Messages : message'[k] = IF k = m THEN rec ELSE IF k = n THEN new ELSE message[k]
  BY <1>3, <1>7
<1>8. CASE message' = [msgs EXCEPT ![m] = Gone(message[m])]
  <2> DEFINE rec == Gone(message[m])
  <2>1. rec.at = "gone"
    BY <1>3, AckedMessage
  <2>2. message' = [msgs EXCEPT ![m] = rec]
    BY <1>8
  <2> HIDE DEF rec, msgs
  <2>3. \A k \in Messages : message'[k] = IF k = m THEN rec ELSE IF k = n THEN new ELSE message[k]
    BY <1>7, <2>2
  <2>4. n \notin Carriers(message, j) /\ Carriers(message', j) = (Carriers(message, j) \ {m}) \cup {n}
    BY <1>1, <1>2, <2>1, <2>3 DEF Carriers
  <2>5. OtherCarriers(j)
    BY <1>1, <1>2, <2>1, <2>3 DEF OtherCarriers, Carriers
  <2>6. QED
    BY <2>4, <2>5 DEF Swaps
<1>9. CASE message' = [msgs EXCEPT ![m] = Redelivered(message[m])] /\ Crashes
  <2> DEFINE rec == Redelivered(message[m])
  <2>1. rec.at \notin {"unsent", "gone"} /\ rec.job = j
    BY <1>3, AckedMessage
  <2>2. message' = [msgs EXCEPT ![m] = rec]
    BY <1>9
  <2> HIDE DEF rec, msgs
  <2>3. \A k \in Messages : message'[k] = IF k = m THEN rec ELSE IF k = n THEN new ELSE message[k]
    BY <1>7, <2>2
  <2>4. n \notin Carriers(message, j) /\ Carriers(message', j) = Carriers(message, j) \cup {n}
    BY <1>1, <1>2, <2>1, <2>3 DEF Carriers
  <2>5. OtherCarriers(j)
    BY <1>1, <1>2, <2>1, <2>3 DEF OtherCarriers, Carriers
  <2>6. QED
    BY <1>9, <2>4, <2>5 DEF Adds
<1>10. QED
  BY <1>6, <1>8, <1>9

-----------------------------------------------------------------------------
(* Every active job with a prover is watched. *)

Running(rec) == Active(rec) /\ rec.prover # 0
PollersRun == \A p \in Pollers : poller[p].at # NoJob => poller[p].running
WatchInv == PollersRun /\ AlarmChain

\* No job starts to run at a prover; or an alarm is set.
NoneStarts == \A k \in Jobs : Running(job'[k]) => Running(job[k])
RestartsKept == spent'["restart"] = 0 => spent["restart"] = 0

\* A step that leaves the pollers alone and stops no alarm keeps jobs watched.
LEMMA WatchFrame ==
  ASSUME WatchInv, UNCHANGED poller, alarm => alarm', RestartsKept, NoneStarts \/ alarm'
  PROVE  WatchInv'
BY DEF WatchInv, PollersRun, AlarmChain, RestartsKept, NoneStarts, Running, ActiveJobs

\* Events other than an eviction are counted apart.
LEMMA OtherEvents ==
  ASSUME IInv
  PROVE  /\ \A e \in Events \ {"restart"} : \A bound : Spend(e, bound) => RestartsKept
         /\ UNCHANGED spent => RestartsKept
         /\ \A msgs, m : AckIn(msgs, m) => RestartsKept
BY DEF Spend, RestartsKept, AckIn, Events, IInv, TypeOK

\* A job that is kept, fails or succeeds does not start.
LEMMA KeptStartsNot ==
  ASSUME NEW k \in Jobs, Kept(k)
  PROVE  Running(job'[k]) => Running(job[k])
<1>1. CASE job'[k] = Pruned(job[k])
  <2>1. job'[k].status = "pruned" \/ job'[k] = job[k]
    BY <1>1 DEF Pruned
  <2>2. QED
    BY <2>1 DEF Running, Active, ActiveStatus
<1>2. QED
  BY <1>1 DEF Kept

\* A job that ends, or is put aside, does not start to run.
LEMMA EndsStartNot ==
  ASSUME NEW j \in Jobs
  PROVE  /\ Fails(j) => NoneStarts
         /\ Succeeds(j) => NoneStarts
         /\ UNCHANGED job => NoneStarts
         /\ OthersKept(j) /\ ~Running(job'[j]) => NoneStarts
         /\ OthersKept(j) /\ Running(job[j]) => NoneStarts
BY KeptStartsNot DEF Fails, Succeeds, OthersKept, NoneStarts, Running, Active, ActiveStatus

\* markFailed() starts no job.
LEMMA FailingStartsNot ==
  ASSUME IInv, NEW j \in Jobs, NEW rec \in JobRecord, NEW why \in Errors,
         rec.lock = job[j].lock, MarkFailed(j, rec, why)
  PROVE  NoneStarts
BY MarkFailedWrites, EndsStartNot

\* markRetry() starts no job.
LEMMA RetryStartsNot ==
  ASSUME IInv, NEW j \in Jobs, MarkRetry(j)
  PROVE  NoneStarts
BY MarkRetryWrites, EndsStartNot DEF Running

\* What a step must do when it leaves the pollers alone.
Away == UNCHANGED poller /\ (alarm => alarm') /\ RestartsKept /\ (NoneStarts \/ alarm')

\* The API never starts a job.
LEMMA ApiAway ==
  ASSUME IInv, NEW j \in Jobs, NEW b \in Backends, CreateJob(j) \/ Cancel(j) \/ RetryProof(j, b)
  PROVE  Away
<1>1. CASE CreateJob(j)
  <2> DEFINE new == [Absent EXCEPT !.status = "queued", !.lock = "reserved"]
  <2>1. new.prover = 0
    BY DEF Absent
  <2>2. job' = [job EXCEPT ![j] = new] /\ UNCHANGED <<alarm, poller, age, spent>>
    BY <1>1 DEF CreateJob
  <2> HIDE DEF new
  <2>3. QED
    BY <2>1, <2>2, WriteKeepsOthers, EndsStartNot, OtherEvents DEF Away, Running
<1>2. CASE Cancel(j)
  <2>1. NoneStarts
    BY <1>2, FailingStartsNot DEF Cancel, IInv, TypeOK, Errors
  <2>2. RestartsKept
    BY <1>2, OtherEvents DEF Cancel, Events
  <2>3. QED
    BY <1>2, <2>1, <2>2 DEF Away, Cancel
<1>3. CASE RetryProof(j, b)
  <2> DEFINE new == [job[j] EXCEPT !.status = "queued", !.lease = 0, !.prover = 0,
                       !.error = "none", !.lock = "reserved", !.lockedBy = "none"]
  <2>1. new.prover = 0
    BY DEF IInv, TypeOK, JobRecord
  <2>2. job' = [job EXCEPT ![j] = new] /\ UNCHANGED <<alarm, poller>>
    BY <1>3 DEF RetryProof
  <2> HIDE DEF new
  <2>3. \A k \in Jobs : job'[k] = IF k = j THEN new ELSE job[k]
    BY <2>2 DEF IInv, TypeOK
  <2>4. NoneStarts
    BY <2>1, <2>3 DEF NoneStarts, Running
  <2>5. RestartsKept
    BY <1>3, OtherEvents DEF RetryProof, Events
  <2>6. QED
    BY <2>2, <2>4, <2>5 DEF Away
<1>4. QED
  BY <1>1, <1>2, <1>3

\* A queue that delivers a message of a job with a prover sets an alarm.
LEMMA BeginQueueAttemptAway ==
  ASSUME IInv, NEW m \in Messages, message[m].at # "unsent", NEW n \in Nat,
         BeginQueueAttempt(m, n), UNCHANGED <<poller, age>>
  PROVE  Away
<1> DEFINE j == message[m].job
           held == [job[j] EXCEPT !.status = "dispatching", !.lease = m]
<1>1. j \in Jobs /\ job[j] \in JobRecord
  BY SentMessage
<1>2. held.prover = job[j].prover
  BY <1>1 DEF JobRecord
<1>3. \/ UNCHANGED <<job, alarm>> /\ RestartsKept
      \/ alarm' /\ RestartsKept
      \/ job' = [job EXCEPT ![j] = held] /\ job[j].prover = 0 /\ UNCHANGED <<alarm, spent>>
  BY OtherEvents DEF BeginQueueAttempt
<1> HIDE DEF held, j
<1>4. QED
  BY <1>1, <1>2, <1>3, WriteKeepsOthers, EndsStartNot, OtherEvents DEF Away, Running

\* A delivery that finds the slot busy starts no job.
LEMMA SlotStillBusyAway == ASSUME IInv, NEW m \in Messages, SlotStillBusy(m) PROVE Away
<1> DEFINE j == message[m].job
<1>1. message[m].at # "unsent" /\ UNCHANGED <<alarm, poller>>
  BY DEF SlotStillBusy
<1>2. j \in Jobs /\ job[j] \in JobRecord
  BY <1>1, SentMessage
<1>3. RestartsKept
  BY OtherEvents DEF SlotStillBusy, Ack
<1>4. \/ UNCHANGED job
      \/ \E why \in {"superseded", "other"} : MarkFailed(j, job[j], why)
      \/ MarkRetry(j)
  BY DEF SlotStillBusy, stored
<1>5. NoneStarts
  BY <1>2, <1>4, EndsStartNot, FailingStartsNot, RetryStartsNot DEF Errors
<1>6. QED
  BY <1>1, <1>3, <1>5 DEF Away

\* Of what a consumer does with the answer of a prover, only an acceptance starts
\* a job, and it sets an alarm.
LEMMA SettleAway ==
  ASSUME IInv, NEW m \in Messages, SettleAccepted(m) \/ SettleRetry(m) \/ SettleFailed(m)
  PROVE  Away
<1> DEFINE j == message[m].job
<1>1. message[m].at # "unsent" /\ UNCHANGED poller
  BY DEF SettleAccepted, SettleRetry, SettleFailed
<1>2. j \in Jobs /\ job[j] \in JobRecord
  BY <1>1, SentMessage
<1>3. RestartsKept
  BY OtherEvents DEF SettleAccepted, SettleRetry, SettleFailed, Ack
<1>4. CASE SettleAccepted(m)
  BY <1>1, <1>2, <1>3, <1>4, EndsStartNot DEF SettleAccepted, Away
<1>5. CASE SettleRetry(m)
  BY <1>1, <1>2, <1>3, <1>5, RetryStartsNot DEF SettleRetry, Away
<1>6. CASE SettleFailed(m)
  <2> DEFINE n == job[j].tries + 1
             rec == IF Locked(job[j]) THEN job[j] ELSE [job[j] EXCEPT !.tries = n]
             new == [rec EXCEPT !.status = "queued", !.lease = 0, !.prover = 0, !.error = "none"]
  <2>1. n \in Nat
    BY <1>2 DEF JobRecord
  <2>2. \/ UNCHANGED job
        \/ MarkFailed(j, rec, "other")
        \/ job' = [job EXCEPT ![j] = new] /\ UNCHANGED age
    BY <1>6 DEF SettleFailed, stored, Requeue
  <2> HIDE DEF n
  <2>3. rec \in JobRecord /\ rec.lock = job[j].lock /\ rec.prover = job[j].prover
    BY <1>2, <2>1 DEF JobRecord
  <2> HIDE DEF rec
  <2>4. new.prover = 0
    BY <2>3 DEF JobRecord
  <2> HIDE DEF new, j
  <2>5. NoneStarts
    BY <1>2, <2>2, <2>3, <2>4, EndsStartNot, FailingStartsNot, WriteKeepsOthers DEF Errors, Running
  <2>6. QED
    BY <1>1, <1>3, <1>6, <2>5 DEF Away, SettleFailed
<1>7. QED
  BY <1>4, <1>5, <1>6

\* Nothing else that a consumer does starts a job.
LEMMA ConsumerAway ==
  ASSUME IInv, NEW m \in Messages,
         \/ SendEnds(m) \/ SendFails(m) \/ SendLost(m) \/ Reject(m) \/ PreflightFails(m)
         \/ BeginExternalDispatch(m) \/ Submit(m) \/ ConsumerCrash(m) \/ DeadLetter(m)
  PROVE  Away
<1> DEFINE j == message[m].job
<1>1. message[m].at # "unsent" /\ UNCHANGED <<alarm, poller>>
  BY DEF SendEnds, SendFails, SendLost, Reject, PreflightFails, BeginExternalDispatch, Submit,
         ConsumerCrash, DeadLetter, InHand
<1>2. j \in Jobs /\ job[j] \in JobRecord
  BY <1>1, SentMessage
<1>3. RestartsKept
  BY OtherEvents DEF SendEnds, SendFails, SendLost, Reject, PreflightFails,
     BeginExternalDispatch, Submit, ConsumerCrash, DeadLetter, Ack, Events
<1>4. \/ UNCHANGED job
      \/ \E why \in {"superseded", "total_wall", "other"} : MarkFailed(j, job[j], why)
      \/ BeginExternalDispatch(m)
  BY DEF SendEnds, SendFails, SendLost, Reject, PreflightFails, Submit, ConsumerCrash,
         DeadLetter, stored
<1>5. ASSUME BeginExternalDispatch(m) PROVE NoneStarts
  <2> DEFINE new == [job[j] EXCEPT !.lock = "dispatching", !.lockedBy = message[m].backend]
  <2>1. new.prover = job[j].prover /\ new.status = job[j].status
    BY <1>2 DEF JobRecord
  <2>2. UNCHANGED job \/ job' = [job EXCEPT ![j] = new]
    BY <1>5 DEF BeginExternalDispatch
  <2> HIDE DEF new, j
  <2>3. \A k \in Jobs : job'[k] = job[k] \/ (k = j /\ job'[k] = new)
    BY <2>2 DEF IInv, TypeOK
  <2>4. QED
    BY <2>1, <2>3 DEF NoneStarts, Running, Active
<1>6. NoneStarts
  BY <1>2, <1>4, <1>5, EndsStartNot, FailingStartsNot DEF Errors
<1>7. QED
  BY <1>1, <1>3, <1>6 DEF Away

\* Provers, clocks, recovery and maintenance start no job.
LEMMA ClockAway ==
  ASSUME IInv,
         \/ \E q \in Requests : RequestEnds(q)
         \/ \E r \in Replays : ReservationLapses(r)
         \/ \E j \in Jobs : Ages(j) \/ Expires(j) \/ RecoverStarts(j) \/ RecoverEnds(j)
         \/ RunMaintenance
  PROVE  Away
<1>1. UNCHANGED <<poller, spent>> /\ (alarm => alarm')
  BY DEF RequestEnds, ReservationLapses, Ages, Expires, RecoverStarts, RecoverEnds, RunMaintenance
<1>2. \/ UNCHANGED job
      \/ \E j \in Jobs : RecoverEnds(j) /\ MarkSucceeded(j, job[j].prover)
      \/ job' = Sweep(job, NoJob)
  BY DEF RequestEnds, ReservationLapses, Ages, Expires, RecoverStarts, RecoverEnds, RunMaintenance,
         stored
<1>3. CASE UNCHANGED job
  BY <1>1, <1>3, OtherEvents DEF Away, NoneStarts
<1>4. ASSUME NEW j \in Jobs, RecoverEnds(j), MarkSucceeded(j, job[j].prover)
      PROVE  Away
  <2>1. job[j].lock = "dispatched" /\ job[j] \in JobRecord /\ ProverFits(j, job[j])
    BY <1>4 DEF RecoverEnds, IInv, RecoveringAreLocked, TypeOK, JobsFit
  <2>2. job[j].prover \in Requests
    BY <2>1 DEF ProverFits, JobRecord
  <2>3. QED
    BY <1>1, <1>4, <2>2, MarkSucceededWrites, EndsStartNot, OtherEvents DEF Away
<1>5. CASE job' = Sweep(job, NoJob)
  <2>1. \A k \in Jobs : Kept(k)
    BY <1>5 DEF Sweep, Kept
  <2>2. QED
    BY <1>1, <2>1, KeptStartsNot, OtherEvents DEF Away, NoneStarts
<1>6. QED
  BY <1>2, <1>3, <1>4, <1>5
-----------------------------------------------------------------------------
(* The pollers keep watch. *)

\* alarm() begins with every active job on its list; nobody stops watching.
LEMMA BeginWatch ==
  ASSUME IInv, WatchInv, AlarmFires \/ (\E m \in Messages : KickStaleSlot(m))
  PROVE  WatchInv'
<1>1. poller \in [Pollers -> PollerRecord] /\ "alarm" \in Pollers /\ "kick" \in Pollers
  BY DEF IInv, TypeOK, Pollers
<1>2. CASE AlarmFires
  <2> DEFINE on == ActiveJobs # {}
             new == [poller["alarm"] EXCEPT !.running = on, !.todo = ActiveJobs]
  <2>1. poller' = [poller EXCEPT !["alarm"] = new] /\ UNCHANGED <<job, spent>>
    BY <1>1, <1>2 DEF AlarmFires
  <2>2. poller["alarm"].at = NoJob
    BY <1>1, <1>2 DEF AlarmFires, WatchInv, PollersRun
  <2> HIDE DEF on
  <2>3. /\ new.running = on /\ new.todo = ActiveJobs /\ new.at = poller["alarm"].at
    BY <1>1 DEF PollerRecord
  <2> HIDE DEF new
  <2>4. poller'["alarm"] = new /\ poller'["kick"] = poller["kick"]
    BY <1>1, <2>1
  <2>5. PollersRun'
    BY <2>2, <2>3, <2>4 DEF WatchInv, PollersRun, Pollers
  <2>6. ASSUME NEW j \in ActiveJobs PROVE j \in poller'["alarm"].todo /\ poller'["alarm"].running
    BY <2>3, <2>4, <2>6 DEF on
  <2>7. UNCHANGED ActiveJobs
    BY <2>1 DEF ActiveJobs
  <2>8. AlarmChain'
    BY <2>6, <2>7 DEF AlarmChain
  <2>9. QED
    BY <2>5, <2>8 DEF WatchInv
<1>3. ASSUME NEW m \in Messages, KickStaleSlot(m) PROVE WatchInv'
  <2> DEFINE kick == [Idle EXCEPT !.running = TRUE, !.todo = ActiveJobs]
  <2>1. kick.running /\ kick.at = NoJob
    BY DEF Idle
  <2>2. poller' = [poller EXCEPT !["kick"] = kick]
    BY <1>3 DEF KickStaleSlot
  <2> HIDE DEF kick
  <2>3. poller'["kick"] = kick /\ poller'["alarm"] = poller["alarm"]
    BY <1>1, <2>2
  <2>4. QED
    BY <2>1, <2>3 DEF WatchInv, PollersRun, Pollers, AlarmChain
<1>4. QED
  BY <1>2, <1>3

\* A handler that ends sets an alarm if a job is still active.
LEMMA EndWatch ==
  ASSUME IInv, WatchInv, AlarmEnds \/ KickEnds \/ CoordinatorRestart
  PROVE  WatchInv'
<1>1. poller \in [Pollers -> PollerRecord] /\ "alarm" \in Pollers /\ "kick" \in Pollers
  BY DEF IInv, TypeOK, Pollers
<1>2. ~Idle.running /\ Idle.at = NoJob
  BY DEF Idle
<1>3. PollersRun'
  BY <1>1, <1>2 DEF AlarmEnds, KickEnds, CoordinatorRestart, WatchInv, PollersRun
<1>4. AlarmChain'
  <2>1. CASE AlarmEnds
    <3>1. /\ poller["alarm"].todo = {} /\ poller["alarm"].at = NoJob
          /\ alarm' = (alarm \/ poller["alarm"].anyStillActive)
          /\ poller'["kick"] = poller["kick"]
          /\ UNCHANGED <<job, spent>>
      BY <1>1, <2>1 DEF AlarmEnds, Finished
    <3>2. \A j \in Jobs : j # NoJob
      BY NoJobAssumption
    <3>3. QED
      BY <3>1, <3>2 DEF WatchInv, AlarmChain, ActiveJobs
  <2>2. CASE KickEnds
    <3>1. /\ alarm' = (alarm \/ ActiveJobs # {}) /\ UNCHANGED job
      BY <2>2 DEF KickEnds
    <3>2. QED
      BY <3>1 DEF AlarmChain, ActiveJobs
  <2>3. CASE CoordinatorRestart
    <3>1. spent["restart"] \in Nat /\ spent'["restart"] = spent["restart"] + 1
      BY <2>3 DEF CoordinatorRestart, Spend, IInv, TypeOK, Events
    <3>2. spent'["restart"] # 0
      BY <3>1
    <3>3. QED
      BY <3>2 DEF AlarmChain
  <2>4. QED
    BY <2>1, <2>2, <2>3
<1>5. QED
  BY <1>3, <1>4 DEF WatchInv

\* What a handler has done with job j: it goes on, and remembers that j is active.
DoneWith(p, j) ==
  /\ poller'[p].running = poller[p].running
  /\ poller[p].todo \subseteq poller'[p].todo \cup {j}
  /\ poller[p].at \in {NoJob, j}
  /\ poller'[p].anyStillActive \/ p = "kick" \/ ~Active(job'[j]) \/ (poller'[p].at = j /\ j # NoJob)
  /\ poller[p].anyStillActive => poller'[p].anyStillActive
  /\ poller'[p].at = NoJob \/ poller[p].running
  /\ \A q \in Pollers \ {p} : poller'[q] = poller[q]

\* A handler that is done with job j, or still waits for its poll, keeps watch.
LEMMA DoneKeepsWatch ==
  ASSUME IInv, WatchInv, NEW p \in Pollers, NEW j \in Jobs, poller[p].running, DoneWith(p, j),
         alarm => alarm', UNCHANGED spent,
         \A k \in Jobs \ {j} : Running(job'[k]) => Running(job[k])
  PROVE  WatchInv'
<1>1. PollersRun'
  BY DEF DoneWith, WatchInv, PollersRun
<1>2. ASSUME spent'["restart"] = 0, NEW k \in Jobs, Running(job'[k])
      PROVE  \/ alarm'
             \/ poller'["kick"].running
             \/ /\ poller'["alarm"].running
                /\ poller'["alarm"].anyStillActive \/ k \in poller'["alarm"].todo \/ poller'["alarm"].at = k
  <2>1. CASE p = "kick"
    BY <2>1 DEF DoneWith
  <2>2. CASE p = "alarm" /\ k = j
    BY <1>2, <2>2 DEF DoneWith, Running
  <2>3. CASE p = "alarm" /\ k # j
    <3>1. Running(job[k]) /\ k \in ActiveJobs /\ job[k].prover # 0
      BY <1>2, <2>3 DEF Running, ActiveJobs
    <3>2. \/ alarm
          \/ poller["kick"].running
          \/ /\ poller["alarm"].running
             /\ poller["alarm"].anyStillActive \/ k \in poller["alarm"].todo \/ poller["alarm"].at = k
      BY <1>2, <3>1 DEF WatchInv, AlarmChain
    <3>3. k # NoJob /\ poller["alarm"].at # k
      BY <2>3, NoJobAssumption DEF DoneWith
    <3>4. QED
      BY <2>3, <3>2, <3>3 DEF DoneWith, Pollers
  <2>4. QED
    BY <2>1, <2>2, <2>3 DEF Pollers
<1>3. AlarmChain'
  BY <1>2 DEF AlarmChain, ActiveJobs, Running
<1>4. QED
  BY <1>1, <1>3 DEF WatchInv

\* A handler that turns to a job keeps watch.
LEMMA VisitKeepsWatch ==
  ASSUME IInv, WatchInv, NEW p \in Pollers, NEW j \in Jobs,
         VisitIdle(p, j) \/ VisitOvertime(p, j) \/ VisitPoll(p, j)
  PROVE  WatchInv'
<1>1. /\ poller \in [Pollers -> PollerRecord] /\ poller[p] \in PollerRecord
      /\ poller[p].running /\ poller[p].at = NoJob
      /\ UNCHANGED spent /\ (alarm => alarm')
  BY DEF VisitIdle, VisitOvertime, VisitPoll, CanVisit, IInv, TypeOK
<1> DEFINE left == poller[p].todo \ {j}
<1>2. CASE VisitIdle(p, j)
  <2> DEFINE more == poller[p].anyStillActive \/ (p = "alarm" /\ Active(job[j]))
             new == [poller[p] EXCEPT !.todo = left, !.anyStillActive = more]
  <2>1. poller' = [poller EXCEPT ![p] = new] /\ UNCHANGED job
    BY <1>1, <1>2 DEF VisitIdle
  <2> HIDE DEF more
  <2>2. /\ new.running = poller[p].running /\ new.todo = left /\ new.at = poller[p].at
        /\ new.anyStillActive = more
    BY <1>1 DEF PollerRecord
  <2> HIDE DEF new
  <2>3. poller'[p] = new /\ \A q \in Pollers \ {p} : poller'[q] = poller[q]
    BY <1>1, <2>1
  <2>4. more \/ p = "kick" \/ ~Active(job'[j])
    BY <2>1 DEF more, Pollers
  <2>5. poller[p].anyStillActive => more
    BY DEF more
  <2>6. DoneWith(p, j)
    BY <1>1, <2>2, <2>3, <2>4, <2>5 DEF DoneWith
  <2>7. QED
    BY <1>1, <2>1, <2>6, DoneKeepsWatch
<1>3. CASE VisitOvertime(p, j)
  <2> DEFINE more == poller[p].anyStillActive \/ Active(job'[j])
             new == [poller[p] EXCEPT !.todo = left, !.anyStillActive = more]
  <2>1. poller' = [poller EXCEPT ![p] = new]
    BY <1>1, <1>3 DEF VisitOvertime
  <2> HIDE DEF more
  <2>2. /\ new.running = poller[p].running /\ new.todo = left /\ new.at = poller[p].at
        /\ new.anyStillActive = more
    BY <1>1 DEF PollerRecord
  <2> HIDE DEF new
  <2>3. poller'[p] = new /\ \A q \in Pollers \ {p} : poller'[q] = poller[q]
    BY <1>1, <2>1
  <2>4. (more \/ ~Active(job'[j])) /\ (poller[p].anyStillActive => more)
    BY DEF more
  <2>5. DoneWith(p, j)
    BY <1>1, <2>2, <2>3, <2>4 DEF DoneWith
  <2>6. NoneStarts
    <3>1. /\ job[j] \in JobRecord /\ ProverFits(j, job[j]) /\ GiveUp(j, job[j]) /\ job[j].prover # 0
      BY <1>3 DEF VisitOvertime, IInv, TypeOK, JobsFit
    <3>2. NoNextBackend(job[j])
      BY <3>1 DEF NoNextBackend, Locked, ProverFits
    <3>3. QED
      BY <3>1, <3>2, FailingStartsNot DEF GiveUp, Errors
  <2>7. QED
    BY <1>1, <2>5, <2>6, DoneKeepsWatch DEF NoneStarts
<1>4. CASE VisitPoll(p, j)
  <2> DEFINE un == request[job[j].prover].phase = "running"
             new == [poller[p] EXCEPT !.todo = left, !.at = j, !.snap = job[j], !.unfinished = un]
  <2>1. poller' = [poller EXCEPT ![p] = new] /\ UNCHANGED job
    BY <1>1, <1>4 DEF VisitPoll
  <2> HIDE DEF un
  <2>2. /\ new.running = poller[p].running /\ new.todo = left /\ new.at = j
        /\ new.anyStillActive = poller[p].anyStillActive
    BY <1>1 DEF PollerRecord
  <2> HIDE DEF new
  <2>3. poller'[p] = new /\ \A q \in Pollers \ {p} : poller'[q] = poller[q]
    BY <1>1, <2>1
  <2>4. DoneWith(p, j)
    BY <1>1, <2>2, <2>3, NoJobAssumption DEF DoneWith
  <2>5. QED
    BY <1>1, <2>1, <2>4, DoneKeepsWatch
<1>5. QED
  BY <1>2, <1>3, <1>4

\* An answer may bring a job back by saving an old record; the handler that saves it
\* notices that the job is active.
LEMMA AnswerKeepsWatch ==
  ASSUME IInv, WatchInv, NEW p \in Pollers, PollEnds(p)
  PROVE  WatchInv'
<1> DEFINE j == poller[p].at
           snap == poller[p].snap
           more == poller[p].anyStillActive \/ Active(job'[j])
           new == [poller[p] EXCEPT !.at = NoJob, !.snap = Absent, !.unfinished = FALSE,
                                    !.anyStillActive = more]
<1>1. j # NoJob /\ Answered(p)
  BY DEF PollEnds, PollRunning, PollError, PollGivesUp, PollFatal, PollSucceeds
<1>2. /\ poller \in [Pollers -> PollerRecord] /\ poller[p] \in PollerRecord /\ poller[p].running
      /\ UNCHANGED <<alarm, spent>>
  BY <1>1 DEF Answered, WatchInv, PollersRun, IInv, TypeOK
<1>3. /\ j \in Jobs /\ snap \in JobRecord /\ snap.lock = "dispatched" /\ job[j] \in JobRecord
      /\ job[j].lock = "dispatched" /\ snap.prover \in Requests
  BY <1>1, WaitingPoller
<1>4. poller' = [poller EXCEPT ![p] = new]
  BY <1>1, <1>2 DEF Answered
<1>5. (more \/ ~Active(job'[j])) /\ (poller[p].anyStillActive => more)
  OBVIOUS
<1> HIDE DEF more
<1>6. /\ new.running = poller[p].running /\ new.todo = poller[p].todo /\ new.at = NoJob
      /\ new.anyStillActive = more
  BY <1>2 DEF PollerRecord
<1> HIDE DEF new
<1>7. poller'[p] = new /\ \A q \in Pollers \ {p} : poller'[q] = poller[q]
  BY <1>2, <1>4
<1>8. DoneWith(p, j)
  BY <1>2, <1>5, <1>6, <1>7 DEF DoneWith
<1>9. \/ \E rec : job' = [job EXCEPT ![j] = rec]
      \/ UNCHANGED job
      \/ MarkFailed(j, snap, "other")
      \/ MarkFailed(j, job[j], "other")
      \/ MarkSucceeded(j, snap.prover)
  <2>1. NoNextBackend(snap)
    BY <1>3 DEF NoNextBackend, Locked
  <2>2. QED
    BY <2>1 DEF PollEnds, PollRunning, PollError, PollGivesUp, PollFatal, PollSucceeds, GiveUp
<1>10. \A k \in Jobs \ {j} : Running(job'[k]) => Running(job[k])
  <2>1. CASE \E rec : job' = [job EXCEPT ![j] = rec]
    <3>1. \A k \in Jobs \ {j} : job'[k] = job[k]
      BY <2>1 DEF IInv, TypeOK
    <3>2. QED
      BY <3>1
  <2>2. CASE UNCHANGED job
    BY <2>2
  <2>3. CASE MarkFailed(j, snap, "other") \/ MarkFailed(j, job[j], "other")
    BY <1>3, <2>3, FailingStartsNot DEF NoneStarts, Errors
  <2>4. CASE MarkSucceeded(j, snap.prover)
    BY <1>3, <2>4, MarkSucceededWrites, EndsStartNot DEF NoneStarts
  <2>5. QED
    BY <1>9, <2>1, <2>2, <2>3, <2>4
<1>11. QED
  BY <1>1, <1>2, <1>3, <1>8, <1>10, DoneKeepsWatch

\* Every step keeps the active jobs watched.
LEMMA NextKeepsWatch == ASSUME IInv, WatchInv, [Next]_vars PROVE WatchInv'
<1>1. ASSUME Away PROVE WatchInv'
  BY <1>1, WatchFrame DEF Away
<1>2. ASSUME NEW j \in Jobs,
             \/ CreateJob(j) \/ Cancel(j) \/ Ages(j) \/ Expires(j)
             \/ RecoverStarts(j) \/ RecoverEnds(j)
      PROVE  WatchInv'
  <2>1. PICK b : b \in Backends
    BY BackendsAssumption
  <2>2. QED
    BY <1>1, <1>2, <2>1, ApiAway, ClockAway
<1>3. ASSUME NEW m \in Messages,
             \/ SendEnds(m) \/ SendFails(m) \/ SendLost(m) \/ Consume(m) \/ ConsumerCrash(m)
      PROVE  WatchInv'
  <2>1. CASE Deliver(m) \/ SlotFreed(m)
    <3>1. /\ message[m].at # "unsent" /\ UNCHANGED <<poller, age>>
          /\ message[m].attempts \in Nat /\ message[m].attempts + 1 \in Nat
      BY <2>1 DEF Deliver, SlotFreed, IInv, TypeOK, MessageRecord
    <3>2. \/ BeginQueueAttempt(m, message[m].attempts + 1) \/ BeginQueueAttempt(m, message[m].attempts)
      BY <2>1 DEF Deliver, SlotFreed
    <3>3. QED
      BY <1>1, <3>1, <3>2, BeginQueueAttemptAway
  <2>2. QED
    BY <1>1, <1>3, <2>1, BeginWatch, SlotStillBusyAway, SettleAway, ConsumerAway DEF Consume
<1>4. ASSUME NEW p \in Pollers, Visit(p) \/ PollEnds(p)
      PROVE  WatchInv'
  BY <1>4, VisitKeepsWatch, AnswerKeepsWatch DEF Visit
<1>5. CASE UNCHANGED vars
  BY <1>1, <1>5, OtherEvents DEF Away, NoneStarts, vars
<1>6. CASE Next
  <2>1. ASSUME NEW j \in Jobs, NEW b \in Backends, RetryProof(j, b) PROVE WatchInv'
    BY <1>1, <2>1, ApiAway
  <2>2. CASE \/ \E q \in Requests : RequestEnds(q)
             \/ \E r \in Replays : ReservationLapses(r)
             \/ RunMaintenance
    BY <1>1, <2>2, ClockAway
  <2>3. QED
    BY <1>2, <1>3, <1>4, <1>6, <2>1, <2>2, BeginWatch, EndWatch DEF Next
<1>7. QED
  BY <1>5, <1>6

\* An active job with a prover is always watched: an alarm is set, or a handler that
\* runs will still look at it or set one, unless the object was evicted.
THEOREM JobsAreWatched == Spec => []AlarmChain
<1>1. Init => WatchInv
  BY DEF Init, WatchInv, PollersRun, AlarmChain, ActiveJobs, Active, ActiveStatus, Absent, Idle
<1>2. IInv /\ WatchInv /\ [Next]_vars => WatchInv'
  BY NextKeepsWatch
<1>3. WatchInv => AlarmChain
  BY DEF WatchInv
<1>4. QED
  BY <1>1, <1>2, <1>3, Inductive, PTL DEF Spec
-----------------------------------------------------------------------------
(* An active job without a prover has a message. *)

Waits(rec) == Active(rec) /\ rec.prover = 0

\* A job that waits has a message, and the delivery that its lease names is one.
Attends(jobs, msgs, j) ==
  Waits(jobs[j]) => /\ Carriers(msgs, j) # {}
                    /\ jobs[j].lease # 0 => jobs[j].lease \in Carriers(msgs, j)
Attended == \A j \in Jobs : Attends(job, message, j)

\* A step about job j concerns no other.
LEMMA AttendedStep ==
  ASSUME Attended, NEW j \in Jobs, OthersKept(j), OtherCarriers(j), Attends(job', message', j)
  PROVE  Attended'
<1> SUFFICES ASSUME NEW k \in Jobs \ {j} PROVE Attends(job', message', k)
  BY DEF Attended
<1>1. Carriers(message', k) = Carriers(message, k) /\ Attends(job, message, k)
  BY DEF OtherCarriers, Attended
<1>2. CASE job'[k] = job[k]
  BY <1>1, <1>2 DEF Attends
<1>3. CASE job'[k] = Pruned(job[k])
  <2>1. job'[k].status = "pruned" \/ job'[k] = job[k]
    BY <1>3 DEF Pruned
  <2>2. QED
    BY <1>1, <2>1 DEF Attends, Waits, Active, ActiveStatus
<1>4. QED
  BY <1>2, <1>3 DEF OthersKept, Kept

\* A step that touches neither jobs nor messages.
LEMMA AttendedFrame == ASSUME Attended, UNCHANGED <<job, message>> PROVE Attended'
BY DEF Attended, Attends

\* What stays the same stays the same for the jobs other than j.
LEMMA CarriersAreOthers ==
  ASSUME NEW j \in Jobs
  PROVE  /\ SameCarriers => OtherCarriers(j) /\ Carriers(message', j) = Carriers(message, j)
         /\ UNCHANGED message => SameCarriers
         /\ UNCHANGED <<job, age>> => OthersKept(j)
BY DEF SameCarriers, OtherCarriers, OthersKept, Kept

\* A job that failed waits for nothing.
LEMMA FailedWaitsNot ==
  ASSUME IInv, NEW j \in Jobs, NEW rec \in JobRecord, NEW why \in Errors,
         rec.lock = job[j].lock, MarkFailed(j, rec, why)
  PROVE  OthersKept(j) /\ ~Active(job'[j])
BY MarkFailedWrites DEF Fails, Exists, Active, ActiveStatus, OthersKept, Kept

\* A job that is created or retried gets a message; one that is cancelled needs none.
LEMMA ApiAttends ==
  ASSUME IInv, Attended, NEW j \in Jobs, NEW b \in Backends,
         CreateJob(j) \/ Cancel(j) \/ RetryProof(j, b)
  PROVE  Attended'
<1>1. CASE Cancel(j)
  <2>1. OthersKept(j) /\ ~Active(job'[j]) /\ UNCHANGED message
    BY <1>1, FailedWaitsNot DEF Cancel, IInv, TypeOK, Errors
  <2>2. QED
    BY <2>1, CarriersAreOthers, AttendedStep DEF Attends, Waits
<1>2. CASE CreateJob(j) \/ RetryProof(j, b)
  <2>1. PICK c \in Backends, n \in Messages :
          Fresh(n) /\ message' = [message EXCEPT ![n] = NewMessage(j, c, "sending")]
    BY <1>2, BackendsAssumption DEF CreateJob, RetryProof, Preferred
  <2>2. Adds(j)
    BY <2>1, AddCarriers
  <2>3. \E rec : rec.lease = 0 /\ job' = [job EXCEPT ![j] = rec]
    <3>1. [Absent EXCEPT !.status = "queued", !.lock = "reserved"].lease = 0
      BY DEF Absent
    <3>2. [job[j] EXCEPT !.status = "queued", !.lease = 0, !.prover = 0,
             !.error = "none", !.lock = "reserved", !.lockedBy = "none"].lease = 0
      BY DEF IInv, TypeOK, JobRecord
    <3>3. QED
      BY <1>2, <3>1, <3>2 DEF CreateJob, RetryProof
  <2>4. job'[j].lease = 0 /\ \A k \in Jobs \ {j} : job'[k] = job[k]
    BY <2>3 DEF IInv, TypeOK
  <2>5. \A k \in Jobs \ {j} : age'[k] = age[k]
    BY <1>2 DEF CreateJob, RetryProof, IInv, TypeOK
  <2>6. QED
    BY <2>2, <2>4, <2>5, AttendedStep DEF Adds, Attends, OthersKept, Kept
<1>3. QED
  BY <1>1, <1>2

\* A delivery that is acked was not the one that the job waits for.
LEMMA BeginQueueAttemptAttends ==
  ASSUME IInv, Attended, NEW m \in Messages, message[m].at \notin {"unsent", "gone"}, NEW n \in Nat,
         BeginQueueAttempt(m, n), UNCHANGED <<registry, age>>
  PROVE  Attended'
<1> DEFINE j == message[m].job
           running == [job[j] EXCEPT !.status = "prover_running", !.lease = 0]
           held == [job[j] EXCEPT !.status = "dispatching", !.lease = m]
           at == IF age[j] = "fresh" THEN "begun" ELSE "late"
           msg == [message[m] EXCEPT !.attempts = n, !.at = at]
           msgs == [message EXCEPT ![m].attempts = n]
<1>1. j \in Jobs /\ job[j] \in JobRecord /\ message[m] \in MessageRecord
  BY SentMessage
<1>2. running.prover = job[j].prover /\ held.prover = job[j].prover /\ held.lease = m
  BY <1>1 DEF JobRecord
<1>3. msg.job = j /\ msg.at \notin {"unsent", "gone"}
  BY <1>1 DEF MessageRecord
<1>4. \/ ~Active(job[j]) /\ AckIn(msgs, m) /\ UNCHANGED job
      \/ /\ job[j].prover # 0 /\ AckIn(msgs, m)
         /\ job' = [job EXCEPT ![j] = running]
      \/ job[j].lease \notin {0, m} /\ AckIn(msgs, m) /\ UNCHANGED job
      \/ /\ job' = [job EXCEPT ![j] = held]
         /\ message' = [message EXCEPT ![m] = msg]
  BY <1>1 DEF BeginQueueAttempt, IInv, TypeOK
<1>5. AckIn(msgs, m) => Drops(m) \/ SameCarriers
  BY AckCarriers
<1>6. AckIn(msgs, m) =>
        /\ OtherCarriers(j)
        /\ Carriers(message, j) \ {m} \subseteq Carriers(message', j)
  BY <1>1, <1>5, CarriersAreOthers DEF Drops
<1> HIDE DEF running, held, msg, msgs, j
<1>7. CASE ~Active(job[j]) /\ AckIn(msgs, m) /\ UNCHANGED job
  BY <1>1, <1>6, <1>7, CarriersAreOthers, AttendedStep DEF Attends, Waits
<1>8. CASE job[j].prover # 0 /\ AckIn(msgs, m) /\ job' = [job EXCEPT ![j] = running]
  BY <1>1, <1>2, <1>6, <1>8, WriteKeepsOthers, AttendedStep DEF Attends, Waits
<1>9. CASE job[j].lease \notin {0, m} /\ AckIn(msgs, m) /\ UNCHANGED job
  <2>1. Attends(job, message, j)
    BY <1>1 DEF Attended
  <2>2. Attends(job', message', j)
    BY <1>6, <1>9, <2>1 DEF Attends
  <2>3. QED
    BY <1>1, <1>6, <1>9, <2>2, CarriersAreOthers, AttendedStep
<1>10. CASE /\ job' = [job EXCEPT ![j] = held]
            /\ message' = [message EXCEPT ![m] = msg]
  <2>1. SameCarriers /\ m \in Carriers(message, j)
    BY <1>3, <1>10, MoveCarriers DEF Carriers, j
  <2>2. OthersKept(j) /\ job'[j] = held
    BY <1>1, <1>10, WriteKeepsOthers
  <2>3. QED
    BY <1>1, <1>2, <2>1, <2>2, CarriersAreOthers, AttendedStep DEF Attends
<1>11. QED
  BY <1>4, <1>7, <1>8, <1>9, <1>10

\* A message that is put back, or replaced, keeps its job attended.
LEMMA RetryAttends ==
  ASSUME IInv, Attended, NEW m \in Messages, message[m].at \notin {"unsent", "gone"},
         MarkRetry(message[m].job),
         SameCarriers \/ Swaps(m) \/ Adds(message[m].job)
  PROVE  Attended'
<1> DEFINE j == message[m].job
<1>1. j \in Jobs
  BY SentMessage
<1>2. m \in Carriers(message, j)
  BY DEF Carriers
<1>3. OthersKept(j) /\ (Active(job'[j]) => job'[j].lease = 0)
  BY <1>1, MarkRetryWrites
<1>4. OtherCarriers(j) /\ Carriers(message', j) # {}
  BY <1>1, <1>2, CarriersAreOthers DEF Swaps, Adds
<1>5. QED
  BY <1>1, <1>3, <1>4, AttendedStep DEF Attends, Waits

\* A job that fails needs no message.
LEMMA FailAttends ==
  ASSUME IInv, Attended, NEW j \in Jobs, NEW rec \in JobRecord, NEW why \in Errors,
         rec.lock = job[j].lock, MarkFailed(j, rec, why),
         OtherCarriers(j)
  PROVE  Attended'
BY FailedWaitsNot, AttendedStep DEF Attends, Waits

\* What acking does to the messages of other jobs.
LEMMA AckOthers ==
  ASSUME IInv, NEW m \in Messages, message[m].at \notin {"unsent", "gone"}, Ack(m)
  PROVE  OtherCarriers(message[m].job)
<1>1. message[m].attempts \in Nat /\ message[m].job \in Jobs
  BY SentMessage DEF MessageRecord
<1>2. QED
  BY <1>1, AckCarriers, CarriersAreOthers DEF Drops

\* A message that moves on in its own record.
LEMMA MovesOnCarriers ==
  ASSUME IInv, NEW m \in Messages, message[m].at \notin {"unsent", "gone"},
         NEW a \in {"waiting", "dispatching", "answered", "kicking", "begun", "late"}, NEW o, NEW q, NEW n,
         \/ message' = [message EXCEPT ![m].at = a]
         \/ message' = [message EXCEPT ![m].at = a, ![m].outcome = o]
         \/ message' = [message EXCEPT ![m].at = a, ![m].outcome = o, ![m].request = q]
         \/ message' = [message EXCEPT ![m].at = a, ![m].attempts = n]
  PROVE  SameCarriers
<1>1. message \in [Messages -> MessageRecord] /\ message[m] \in MessageRecord
  BY DEF IInv, TypeOK
<1>2. \E rec : /\ rec.job = message[m].job /\ rec.at = a
               /\ message' = [message EXCEPT ![m] = rec]
  <2>1. /\ [message[m] EXCEPT !.at = a].job = message[m].job /\ [message[m] EXCEPT !.at = a].at = a
        /\ [message[m] EXCEPT !.at = a, !.outcome = o].job = message[m].job
        /\ [message[m] EXCEPT !.at = a, !.outcome = o].at = a
        /\ [message[m] EXCEPT !.at = a, !.outcome = o, !.request = q].job = message[m].job
        /\ [message[m] EXCEPT !.at = a, !.outcome = o, !.request = q].at = a
        /\ [message[m] EXCEPT !.at = a, !.attempts = n].job = message[m].job
        /\ [message[m] EXCEPT !.at = a, !.attempts = n].at = a
    BY <1>1 DEF MessageRecord
  <2>2. CASE message' = [message EXCEPT ![m].at = a]
    BY <1>1, <2>1, <2>2
  <2>3. CASE message' = [message EXCEPT ![m].at = a, ![m].outcome = o]
    BY <1>1, <2>1, <2>3
  <2>4. CASE message' = [message EXCEPT ![m].at = a, ![m].outcome = o, ![m].request = q]
    BY <1>1, <2>1, <2>4
  <2>5. CASE message' = [message EXCEPT ![m].at = a, ![m].attempts = n]
    BY <1>1, <2>1, <2>5
  <2>6. QED
    BY <2>2, <2>3, <2>4, <2>5
<1>3. QED
  BY <1>2, MoveCarriers

\* What the consumers and the sender do with a message that they keep.
LEMMA MovingCarriers ==
  ASSUME IInv, NEW m \in Messages,
         \/ SendEnds(m) \/ PreflightFails(m) \/ KickStaleSlot(m)
         \/ BeginExternalDispatch(m) \/ Submit(m) \/ ConsumerCrash(m)
  PROVE  SameCarriers
<1>1. /\ message[m].at \notin {"unsent", "gone"} /\ message[m] \in MessageRecord
      /\ message \in [Messages -> MessageRecord]
  BY DEF SendEnds, PreflightFails, KickStaleSlot, BeginExternalDispatch, Submit, ConsumerCrash,
         InHand, IInv, TypeOK
<1>2. CASE SendEnds(m)
  BY <1>1, <1>2, MovesOnCarriers DEF SendEnds
<1>3. CASE PreflightFails(m)
  BY <1>1, <1>3, MovesOnCarriers DEF PreflightFails
<1>4. CASE KickStaleSlot(m)
  <2>1. message' = [message EXCEPT ![m].at = "kicking", ![m].attempts = message[m].attempts + 1]
    BY <1>1, <1>4 DEF KickStaleSlot
  <2>2. QED
    BY <1>1, <2>1, MovesOnCarriers
<1>5. CASE Submit(m)
  <2>1. PICK o, q : \/ message' = [message EXCEPT ![m].at = "answered", ![m].outcome = o]
                   \/ message' = [message EXCEPT ![m].at = "answered", ![m].outcome = o,
                                                 ![m].request = q]
    BY <1>5 DEF Submit
  <2>2. CASE message' = [message EXCEPT ![m].at = "answered", ![m].outcome = o]
    BY <1>1, <2>2, MovesOnCarriers
  <2>3. CASE message' = [message EXCEPT ![m].at = "answered", ![m].outcome = o, ![m].request = q]
    BY <1>1, <2>3, MovesOnCarriers
  <2>4. QED
    BY <2>1, <2>2, <2>3
<1>6. CASE ConsumerCrash(m)
  BY <1>1, <1>6, AckedMessage, MoveCarriers DEF ConsumerCrash
<1>7. CASE BeginExternalDispatch(m)
  BY <1>1, <1>7, MovesOnCarriers DEF BeginExternalDispatch
<1>8. QED
  BY <1>2, <1>3, <1>4, <1>5, <1>6, <1>7

\* A message that is gone.
LEMMA GoneCarriers ==
  ASSUME IInv, NEW m \in Messages, message' = [message EXCEPT ![m] = Gone(@)]
  PROVE  Drops(m)
<1>1. message \in [Messages -> MessageRecord] /\ message[m] \in MessageRecord
  BY DEF IInv, TypeOK
<1>2. QED
  BY <1>1, AckedMessage, DropCarriers

\* A delivery that waits for the slot is kept or replaced.
LEMMA SlotStillBusyAttends ==
  ASSUME IInv, Attended, NEW m \in Messages, SlotStillBusy(m)
  PROVE  Attended'
<1> DEFINE j == message[m].job
<1>1. message[m].at \notin {"unsent", "gone"}
  BY DEF SlotStillBusy
<1>2. j \in Jobs /\ job[j] \in JobRecord /\ message[m] \in MessageRecord
  BY <1>1, SentMessage
<1>3. CASE ~Active(job[j]) /\ Ack(m) /\ UNCHANGED stored
  BY <1>1, <1>2, <1>3, AckOthers, CarriersAreOthers, AttendedStep DEF stored, Attends, Waits
<1>4. CASE Ack(m) /\ \E why \in {"superseded", "other"} : MarkFailed(j, job[j], why)
  BY <1>1, <1>2, <1>4, AckOthers, FailAttends DEF Errors
<1>5. CASE MarkRetry(j) /\ message' = [message EXCEPT ![m].at = "waiting"]
  BY <1>1, <1>5, MovesOnCarriers, RetryAttends
<1>6. CASE /\ MarkRetry(j)
           /\ \E n \in Messages :
                /\ Fresh(n)
                /\ AckIn([message EXCEPT ![n] = NewMessage(j, message[m].backend, "waiting")], m)
  <2>1. message[m].backend \in Backends
    BY <1>2 DEF MessageRecord
  <2>2. Swaps(m) \/ Adds(j)
    BY <1>1, <1>6, <2>1, SwapCarriers
  <2>3. QED
    BY <1>1, <1>6, <2>2, RetryAttends
<1>7. QED
  BY <1>3, <1>4, <1>5, <1>6 DEF SlotStillBusy

\* A delivery with an answer leaves a job with a prover, a message, or an end.
LEMMA SettleAttends ==
  ASSUME IInv, Attended, NEW m \in Messages, SettleAccepted(m) \/ SettleRetry(m) \/ SettleFailed(m)
  PROVE  Attended'
<1> DEFINE j == message[m].job
<1>1. message[m].at \notin {"unsent", "gone"}
  BY DEF SettleAccepted, SettleRetry, SettleFailed
<1>2. j \in Jobs /\ job[j] \in JobRecord /\ message[m] \in MessageRecord /\ MessageFits(message[m])
  BY <1>1, SentMessage
<1>3. CASE SettleAccepted(m)
  <2> DEFINE new == [job[j] EXCEPT !.status = "prover_running", !.lease = 0,
                       !.prover = message[m].request, !.error = "none", !.lock = "dispatched"]
  <2>1. new.prover # 0
    BY <1>2, <1>3 DEF SettleAccepted, MessageFits, JobRecord
  <2>2. /\ OtherCarriers(j) /\ UNCHANGED age
        /\ (~Active(job[j]) /\ UNCHANGED job) \/ job' = [job EXCEPT ![j] = new]
    BY <1>1, <1>3, AckOthers DEF SettleAccepted
  <2> HIDE DEF new, j
  <2>3. QED
    BY <1>2, <2>1, <2>2, WriteKeepsOthers, CarriersAreOthers, AttendedStep DEF Attends, Waits
<1>4. CASE SettleRetry(m)
  BY <1>1, <1>4, MovesOnCarriers, RetryAttends DEF SettleRetry
<1>5. CASE SettleFailed(m)
  <2> DEFINE n == job[j].tries + 1
             rec == IF Locked(job[j]) THEN job[j] ELSE [job[j] EXCEPT !.tries = n]
             new == [rec EXCEPT !.status = "queued", !.lease = 0, !.prover = 0, !.error = "none"]
             next == NewMessage(j, NextBackend(message[m].backend), "sending")
  <2>1. n \in Nat
    BY <1>2 DEF JobRecord
  <2>2. \/ ~Active(job[j]) /\ Ack(m) /\ UNCHANGED stored
        \/ MarkFailed(j, rec, "other") /\ Ack(m)
        \/ /\ job' = [job EXCEPT ![j] = new] /\ UNCHANGED age
           /\ \E k \in Messages : Fresh(k) /\ AckIn([message EXCEPT ![k] = next], m)
    BY <1>5 DEF SettleFailed, Requeue
  <2> HIDE DEF n
  <2>3. rec \in JobRecord /\ rec.lock = job[j].lock /\ rec.prover = job[j].prover
    BY <1>2, <2>1 DEF JobRecord
  <2> HIDE DEF rec
  <2>4. new.lease = 0
    BY <2>3 DEF JobRecord
  <2> HIDE DEF new
  <2>5. CASE ~Active(job[j]) /\ Ack(m) /\ UNCHANGED stored
    BY <1>1, <1>2, <2>5, AckOthers, CarriersAreOthers, AttendedStep DEF stored, Attends, Waits
  <2>6. CASE MarkFailed(j, rec, "other") /\ Ack(m)
    BY <1>1, <1>2, <2>3, <2>6, AckOthers, FailAttends DEF Errors
  <2>7. CASE /\ job' = [job EXCEPT ![j] = new] /\ UNCHANGED age
             /\ \E k \in Messages : Fresh(k) /\ AckIn([message EXCEPT ![k] = next], m)
    <3>1. NextBackend(message[m].backend) \in Backends
      BY <1>2, NextBackendType DEF MessageRecord
    <3>2. Swaps(m) \/ Adds(j)
      BY <1>1, <2>7, <3>1, SwapCarriers
    <3>3. OtherCarriers(j) /\ Carriers(message', j) # {}
      BY <3>2 DEF Swaps, Adds
    <3>4. OthersKept(j) /\ job'[j] = new
      BY <1>2, <2>7, WriteKeepsOthers
    <3>5. QED
      BY <1>2, <2>4, <3>3, <3>4, AttendedStep DEF Attends
  <2>8. QED
    BY <2>2, <2>5, <2>6, <2>7
<1>6. QED
  BY <1>3, <1>4, <1>5

\* Whatever else a consumer does: the message stays, or the job fails.
LEMMA ConsumerAttends ==
  ASSUME IInv, Attended, NEW m \in Messages,
         \/ SendEnds(m) \/ SendFails(m) \/ Reject(m) \/ PreflightFails(m) \/ KickStaleSlot(m)
         \/ BeginExternalDispatch(m) \/ Submit(m) \/ ConsumerCrash(m) \/ DeadLetter(m)
  PROVE  Attended'
<1> DEFINE j == message[m].job
<1>1. message[m].at \notin {"unsent", "gone"}
  BY DEF SendEnds, SendFails, Reject, PreflightFails, BeginExternalDispatch, Submit,
         ConsumerCrash, DeadLetter, KickStaleSlot, InHand
<1>2. /\ j \in Jobs /\ job[j] \in JobRecord /\ message[m] \in MessageRecord
      /\ message \in [Messages -> MessageRecord]
  BY <1>1, SentMessage DEF IInv, TypeOK
<1>4. ASSUME message' = [message EXCEPT ![m] = Gone(@)] PROVE OtherCarriers(j)
  BY <1>1, <1>2, <1>4, GoneCarriers DEF Drops
<1>5. CASE SendEnds(m) \/ PreflightFails(m) \/ KickStaleSlot(m) \/ Submit(m) \/ ConsumerCrash(m)
  <2>1. UNCHANGED <<job, age>>
    BY <1>5 DEF SendEnds, PreflightFails, KickStaleSlot, Submit, ConsumerCrash
  <2>2. SameCarriers
    BY <1>5, MovingCarriers
  <2>3. QED
    BY <2>1, <2>2 DEF Attended, Attends, SameCarriers
<1>6. CASE SendFails(m) \/ Reject(m)
  <2>1. OtherCarriers(j)
    BY <1>1, <1>2, <1>4, <1>6, AckOthers, MovesOnCarriers, CarriersAreOthers DEF SendFails, Reject
  <2>2. QED
    BY <1>2, <1>6, <2>1, FailAttends DEF SendFails, Reject, Errors
<1>7. CASE DeadLetter(m)
  BY <1>2, <1>4, <1>7, FailAttends, CarriersAreOthers, AttendedStep
  DEF DeadLetter, stored, Attends, Waits, Errors
<1>8. CASE BeginExternalDispatch(m)
  <2> DEFINE new == [job[j] EXCEPT !.lock = "dispatching", !.lockedBy = message[m].backend]
  <2>1. new.prover = job[j].prover /\ new.status = job[j].status /\ new.lease = job[j].lease
    BY <1>2 DEF JobRecord
  <2>2. SameCarriers
    BY <1>8, MovingCarriers
  <2>3. UNCHANGED age /\ (UNCHANGED job \/ job' = [job EXCEPT ![j] = new])
    BY <1>8 DEF BeginExternalDispatch
  <2> HIDE DEF new, j
  <2>4. CASE UNCHANGED job
    BY <2>2, <2>4 DEF Attended, Attends, SameCarriers
  <2>5. CASE job' = [job EXCEPT ![j] = new]
    <3>1. OthersKept(j) /\ job'[j] = new
      BY <1>2, <2>3, <2>5, WriteKeepsOthers
    <3>2. Attends(job, message, j) /\ Carriers(message', j) = Carriers(message, j) /\ OtherCarriers(j)
      BY <1>2, <2>2, CarriersAreOthers DEF Attended
    <3>3. Attends(job', message', j)
      BY <2>1, <3>1, <3>2 DEF Attends, Waits, Active
    <3>4. QED
      BY <1>2, <3>1, <3>2, <3>3, AttendedStep
  <2>6. QED
    BY <2>3, <2>4, <2>5
<1>9. QED
  BY <1>5, <1>6, <1>7, <1>8

\* Pollers and recovery handle jobs with a prover, which need no message.
LEMMA PollersAttend ==
  ASSUME IInv, Attended,
         \/ \E p \in Pollers, j \in Jobs : VisitOvertime(p, j)
         \/ \E p \in Pollers : PollEnds(p)
         \/ \E j \in Jobs : RecoverEnds(j)
  PROVE  Attended'
<1>1. ASSUME NEW j \in Jobs, UNCHANGED message, OthersKept(j), ~Waits(job'[j]) PROVE Attended'
  BY <1>1, CarriersAreOthers, AttendedStep DEF Attends
<1>2. ASSUME NEW p \in Pollers, NEW j \in Jobs, VisitOvertime(p, j) PROVE Attended'
  <2>1. /\ job[j] \in JobRecord /\ ProverFits(j, job[j]) /\ GiveUp(j, job[j]) /\ job[j].prover # 0
    BY <1>2 DEF VisitOvertime, IInv, TypeOK, JobsFit
  <2>2. NoNextBackend(job[j])
    BY <2>1 DEF NoNextBackend, Locked, ProverFits
  <2>3. MarkFailed(j, job[j], "other") /\ UNCHANGED message
    BY <2>1, <2>2 DEF GiveUp
  <2>4. OthersKept(j) /\ ~Active(job'[j])
    BY <2>1, <2>3, FailedWaitsNot DEF Errors
  <2>5. QED
    BY <1>1, <2>3, <2>4 DEF Waits
<1>3. ASSUME NEW p \in Pollers, PollEnds(p) PROVE Attended'
  <2> DEFINE j == poller[p].at
             snap == poller[p].snap
             retrying == [snap EXCEPT !.status = "retrying"]
  <2>1. j # NoJob
    BY <1>3 DEF PollEnds, PollRunning, PollError, PollGivesUp, PollFatal, PollSucceeds
  <2>2. /\ j \in Jobs /\ snap \in JobRecord /\ snap.lock = "dispatched" /\ job[j] \in JobRecord
        /\ job[j].lock = "dispatched" /\ snap.prover \in Requests /\ snap.prover # 0
    BY <2>1, WaitingPoller, BoundAssumption DEF ProverFits
  <2>3. retrying.prover = snap.prover
    BY <2>2 DEF JobRecord
  <2>4. NoNextBackend(snap)
    BY <2>2 DEF NoNextBackend, Locked
  <2>5. /\ UNCHANGED message
        /\ \/ UNCHANGED age /\ \E rec \in {snap, retrying} : job' = [job EXCEPT ![j] = rec]
           \/ UNCHANGED job
           \/ MarkFailed(j, snap, "other")
           \/ MarkFailed(j, job[j], "other")
           \/ MarkSucceeded(j, snap.prover)
    BY <1>3, <2>4 DEF PollEnds, PollRunning, PollError, PollGivesUp, PollFatal, PollSucceeds, GiveUp
  <2> HIDE DEF retrying
  <2>6. CASE UNCHANGED age /\ \E rec \in {snap, retrying} : job' = [job EXCEPT ![j] = rec]
    <3>1. PICK rec \in {snap, retrying} : job' = [job EXCEPT ![j] = rec]
      BY <2>6
    <3>2. OthersKept(j) /\ job'[j] = rec
      BY <2>2, <2>6, <3>1, WriteKeepsOthers
    <3>3. rec.prover # 0
      BY <2>2, <2>3
    <3>4. QED
      BY <1>1, <2>2, <2>5, <3>2, <3>3 DEF Waits
  <2>7. CASE UNCHANGED job
    BY <2>5, <2>7, AttendedFrame
  <2>8. CASE MarkFailed(j, snap, "other") \/ MarkFailed(j, job[j], "other")
    BY <1>1, <2>2, <2>5, <2>8, FailedWaitsNot DEF Errors, Waits
  <2>9. CASE MarkSucceeded(j, snap.prover)
    BY <1>1, <2>2, <2>5, <2>9, MarkSucceededWrites DEF Succeeds, Waits, Active, ActiveStatus
  <2>10. QED
    BY <2>5, <2>6, <2>7, <2>8, <2>9
<1>4. ASSUME NEW j \in Jobs, RecoverEnds(j) PROVE Attended'
  <2>1. /\ job[j] \in JobRecord /\ job[j].prover \in Requests /\ UNCHANGED message
    BY <1>4 DEF RecoverEnds, IInv, RecoveringAreLocked, TypeOK, JobsFit, ProverFits, JobRecord
  <2>2. CASE MarkSucceeded(j, job[j].prover)
    BY <1>1, <2>1, <2>2, MarkSucceededWrites DEF Succeeds, Waits, Active, ActiveStatus
  <2>3. CASE UNCHANGED stored
    BY <2>1, <2>3, AttendedFrame DEF stored
  <2>4. QED
    BY <1>4, <2>2, <2>3 DEF RecoverEnds
<1>5. QED
  BY <1>2, <1>3, <1>4

\* As long as no send is lost, every step keeps the waiting jobs attended.
LEMMA NextAttends == ASSUME IInv, Attended, MaxLostSends = 0, [Next]_vars PROVE Attended'
<1>1. ASSUME NEW j \in Jobs, CreateJob(j) \/ Cancel(j) PROVE Attended'
  <2>1. PICK b : b \in Backends
    BY BackendsAssumption
  <2>2. QED
    BY <1>1, <2>1, ApiAttends
<1>2. ASSUME NEW m \in Messages,
             \/ SendEnds(m) \/ SendFails(m) \/ SendLost(m) \/ Consume(m) \/ ConsumerCrash(m)
      PROVE  Attended'
  <2>1. CASE SendLost(m)
    <3>1. spent["lost"] \in Nat /\ spent["lost"] < MaxLostSends
      BY <2>1 DEF SendLost, Spend, IInv, TypeOK, Events
    <3>2. QED
      BY <3>1
  <2>2. CASE Deliver(m) \/ SlotFreed(m)
    <3>1. /\ message[m].at \notin {"unsent", "gone"} /\ UNCHANGED <<registry, age>>
          /\ message[m].attempts \in Nat /\ message[m].attempts + 1 \in Nat
      BY <2>2 DEF Deliver, SlotFreed, IInv, TypeOK, MessageRecord
    <3>2. \/ BeginQueueAttempt(m, message[m].attempts + 1) \/ BeginQueueAttempt(m, message[m].attempts)
      BY <2>2 DEF Deliver, SlotFreed
    <3>3. QED
      BY <3>1, <3>2, BeginQueueAttemptAttends
  <2>3. QED
    BY <1>2, <2>1, <2>2, SlotStillBusyAttends, SettleAttends, ConsumerAttends DEF Consume
<1>3. CASE RunMaintenance
  <2>1. UNCHANGED message /\ \A k \in Jobs : job'[k] = job[k] \/ job'[k] = Pruned(job[k])
    BY <1>3 DEF RunMaintenance, Sweep
  <2>2. \A k \in Jobs : job'[k] = job[k] \/ ~Waits(job'[k])
    <3>1. \A k \in Jobs : Pruned(job[k]).status = "pruned"
      BY DEF Pruned, IInv, TypeOK, JobRecord
    <3>2. QED
      BY <2>1, <3>1 DEF Waits, Active, ActiveStatus
  <2>3. QED
    BY <2>1, <2>2 DEF Attended, Attends
<1>4. CASE \/ \E j \in Jobs : Ages(j) \/ Expires(j) \/ RecoverStarts(j)
           \/ \E q \in Requests : RequestEnds(q)
           \/ \E r \in Replays : ReservationLapses(r)
           \/ AlarmFires \/ AlarmEnds \/ KickEnds \/ CoordinatorRestart
           \/ \E p \in Pollers, j \in Jobs : VisitIdle(p, j) \/ VisitPoll(p, j)
           \/ UNCHANGED vars
  <2>1. UNCHANGED <<job, message>>
    BY <1>4 DEF Ages, Expires, RecoverStarts, RequestEnds, ReservationLapses, AlarmFires, AlarmEnds,
                KickEnds, CoordinatorRestart, VisitIdle, VisitPoll, vars
  <2>2. QED
    BY <2>1, AttendedFrame
<1>5. QED
  BY <1>1, <1>2, <1>3, <1>4, ApiAttends, PollersAttend DEF Next, Visit

\* As long as every send that is announced is made or fails, an active job without a
\* prover has a queue message: cancels, retries, crashes, redeliveries and slow
\* consumers with stale leases included.
THEOREM NoJobIsOrphaned ==
  ASSUME MaxLostSends = 0
  PROVE  Spec => []NoOrphanedJob
<1>1. Init => Attended
  BY DEF Init, Attended, Attends, Waits, Active, ActiveStatus, Absent
<1>2. IInv /\ Attended /\ [Next]_vars => Attended'
  BY NextAttends
<1>3. Attended => NoOrphanedJob
  BY DEF Attended, Attends, Waits, Carriers, NoOrphanedJob, ActiveJobs
<1>4. QED
  BY <1>1, <1>2, <1>3, Inductive, PTL DEF Spec
-----------------------------------------------------------------------------
(* As long as nobody cancels, no consumer crashes and no send that throws reaches the   *)
(* queue: who works on a replay.                                                        *)

Undisturbed ==
  MaxCancels = 0 /\ MaxCrashes = 0 /\ MaxFalseErrors = 0 /\ MayOverrun = FALSE

Owns(rec) == Active(rec) \/ Locked(rec)

\* An active or locked job has the row of its replay; a reservation is an active
\* job's, and an active job is within its time; the one message about a job is of a
\* job that waits.
Sound(jobs, rows, ages, msgs, j) ==
  /\ Owns(jobs[j]) => rows[ReplayOf[j]] # NoRow /\ rows[ReplayOf[j]].job = j
  /\ jobs[j].lock = "reserved" => Active(jobs[j])
  /\ Active(jobs[j]) \/ jobs[j].status = "absent" => ages[j] = "fresh"
  /\ Carriers(msgs, j) # {} => Waits(jobs[j])
  /\ \A m, n \in Carriers(msgs, j) : m = n
JobsSound == \A j \in Jobs : Sound(job, registry, age, message, j)

\* A step about job j leaves the row of another job alone.
OtherRows(j) ==
  \A k \in Jobs \ {j} : Owns(job[k]) => registry'[ReplayOf[k]] = registry[ReplayOf[k]]

\* A step about job j that leaves the other jobs their rows and their messages.
LEMMA SoundStep ==
  ASSUME IInv, JobsSound, NEW j \in Jobs, OthersKept(j), OtherCarriers(j), OtherRows(j),
         Sound(job', registry', age', message', j)
  PROVE  JobsSound'
<1> SUFFICES ASSUME NEW k \in Jobs \ {j} PROVE Sound(job', registry', age', message', k)
  BY DEF JobsSound
<1>1. /\ Sound(job, registry, age, message, k)
      /\ Carriers(message', k) = Carriers(message, k) /\ age'[k] = age[k]
      /\ Owns(job[k]) => registry'[ReplayOf[k]] = registry[ReplayOf[k]]
  BY DEF JobsSound, OtherCarriers, OthersKept, OtherRows
<1>2. CASE job'[k] = job[k]
  BY <1>1, <1>2 DEF Sound
<1>3. CASE age[k] = "expired" /\ job'[k] = Pruned(job[k])
  <2>1. /\ job'[k].status = "pruned" /\ job'[k].lock = job[k].lock
    BY <1>3 DEF Pruned, IInv, TypeOK, JobRecord
  <2>2. ~Active(job[k]) /\ job[k].lock # "reserved" /\ Carriers(message, k) = {}
    BY <1>1, <1>3 DEF Sound, Waits
  <2>3. ~Active(job'[k]) /\ (Locked(job'[k]) <=> Locked(job[k]))
    BY <2>1 DEF Active, ActiveStatus, Locked
  <2>4. QED
    BY <1>1, <2>1, <2>2, <2>3 DEF Sound, Owns
<1>4. QED
  BY <1>2, <1>3 DEF OthersKept, Kept

\* A step that only loses messages, or moves them on.
LEMMA SoundFrame ==
  ASSUME JobsSound, UNCHANGED <<job, registry, age>>,
         \A k \in Jobs : Carriers(message', k) \subseteq Carriers(message, k)
  PROVE  JobsSound'
BY DEF JobsSound, Sound

\* Writing the row of job j, which no other job has.
LEMMA OwnRow ==
  ASSUME IInv, JobsSound, NEW j \in Jobs, NEW row,
         \/ Owns(job[j])
         \/ registry[ReplayOf[j]] = NoRow
         \/ registry[ReplayOf[j]].job = j,
         registry' = [registry EXCEPT ![ReplayOf[j]] = row]
  PROVE  OtherRows(j) /\ registry'[ReplayOf[j]] = row
<1>1. ReplayOf[j] \in Replays /\ registry \in [Replays -> RowRecord]
  BY ReplayAssumption DEF IInv, TypeOK
<1>2. ASSUME NEW k \in Jobs \ {j}, Owns(job[k])
      PROVE  registry'[ReplayOf[k]] = registry[ReplayOf[k]]
  <2>1. registry[ReplayOf[k]] # NoRow /\ registry[ReplayOf[k]].job = k /\ ReplayOf[k] \in Replays
    BY <1>2, ReplayAssumption DEF JobsSound, Sound
  <2>2. Owns(job[j]) => registry[ReplayOf[j]] # NoRow /\ registry[ReplayOf[j]].job = j
    BY DEF JobsSound, Sound
  <2>3. ReplayOf[k] # ReplayOf[j]
    BY <2>1, <2>2
  <2>4. QED
    BY <1>1, <2>1, <2>3
<1>3. QED
  BY <1>1, <1>2 DEF OtherRows

\* A step that leaves the registry alone.
LEMMA SameRows == ASSUME NEW j \in Jobs, UNCHANGED registry PROVE OtherRows(j)
BY DEF OtherRows

\* A job that owns its replay and fails lets it go, unless it is locked.
LEMMA FailSound ==
  ASSUME IInv, JobsSound, NEW j \in Jobs, NEW rec \in JobRecord, NEW why \in Errors,
         rec.lock = job[j].lock, MarkFailed(j, rec, why), Owns(job[j]),
         OtherCarriers(j), Carriers(message', j) = {}
  PROVE  JobsSound'
<1>1. Sound(job, registry, age, message, j)
  BY DEF JobsSound
<1>2. CASE ~Exists(j) /\ UNCHANGED <<job, registry, age>>
  <2>1. Sound(job', registry', age', message', j)
    BY <1>1, <1>2 DEF Sound
  <2>2. QED
    BY <1>2, <2>1, SoundStep, SameRows, CarriersAreOthers
<1>3. CASE Fails(j)
  <2>1. OthersKept(j) /\ ~Active(job'[j]) /\ job'[j].status # "absent" /\ job'[j].lock # "reserved"
    BY <1>3 DEF Fails, Active, ActiveStatus, Locked
  <2>2. CASE Locked(job[j])
    <3>1. UNCHANGED registry
      BY <1>3, <2>2 DEF Fails
    <3>2. QED
      BY <1>1, <2>1, <3>1, SoundStep, SameRows DEF Sound, Owns
  <2>3. CASE ~Locked(job[j])
    <3>1. ~Locked(job'[j]) /\ OtherRows(j)
      BY <1>3, <2>3, OwnRow DEF Fails, Locked
    <3>2. QED
      BY <2>1, <3>1, SoundStep DEF Sound, Owns
  <2>4. QED
    BY <2>2, <2>3
<1>4. QED
  BY <1>2, <1>3, MarkFailedWrites

\* The message that is acked was the only one; and no consumer crashes.
LEMMA OneDrop ==
  ASSUME IInv, JobsSound, Undisturbed, NEW m \in Messages, message[m].at \notin {"unsent", "gone"}
  PROVE  /\ message[m].job \in Jobs /\ Waits(job[message[m].job])
         /\ job[message[m].job] \in JobRecord
         /\ Carriers(message, message[m].job) = {m}
         /\ \A n \in Nat : AckIn([message EXCEPT ![m].attempts = n], m) => Drops(m)
         /\ Ack(m) => Drops(m)
         /\ Drops(m) => OtherCarriers(message[m].job) /\ Carriers(message', message[m].job) = {}
<1>1. /\ message[m].job \in Jobs /\ job[message[m].job] \in JobRecord
      /\ message[m] \in MessageRecord
  BY SentMessage
<1>2. m \in Carriers(message, message[m].job)
  BY DEF Carriers
<1>3. Waits(job[message[m].job]) /\ Carriers(message, message[m].job) = {m}
  BY <1>1, <1>2 DEF JobsSound, Sound
<1>4. ~Crashes
  BY DEF Crashes, Spend, Undisturbed, IInv, TypeOK, Events
<1>5. message[m].attempts \in Nat
  BY <1>1 DEF MessageRecord
<1>6. /\ \A n \in Nat : AckIn([message EXCEPT ![m].attempts = n], m) => Drops(m)
      /\ Ack(m) => Drops(m)
  BY <1>4, <1>5, AckCarriers
<1>7. Drops(m) => OtherCarriers(message[m].job) /\ Carriers(message', message[m].job) = {}
  BY <1>3 DEF Drops
<1>8. QED
  BY <1>1, <1>3, <1>6, <1>7

\* A reservation that a row records is of an active job.
LEMMA ReservedRow ==
  ASSUME IInv, JobsSound, NEW r \in Replays, registry[r] # NoRow, registry[r].state = "reserved"
  PROVE  /\ registry[r].job \in Jobs /\ ReplayOf[registry[r].job] = r
         /\ Active(job[registry[r].job]) /\ age[registry[r].job] = "fresh"
<1>1. registry[r].job \in Jobs
  BY DEF IInv, TypeOK, RowRecord
<1>2. ReplayOf[registry[r].job] = r /\ job[registry[r].job].lock = "reserved"
  BY DEF IInv, RegistryAgreesWithJob
<1>3. QED
  BY <1>1, <1>2 DEF JobsSound, Sound

\* POST /jobs and retry-proof: the replay is nobody's, and gets one message.
LEMMA OpenSound ==
  ASSUME IInv, JobsSound, NEW j \in Jobs, NEW b \in Backends, CreateJob(j) \/ RetryProof(j, b)
  PROVE  JobsSound'
<1> DEFINE row == [job |-> j, state |-> "reserved"]
<1>1. ReplayOf[j] \in Replays /\ job[j] \in JobRecord /\ Sound(job, registry, age, message, j)
  BY ReplayAssumption DEF IInv, TypeOK, JobsSound
<1>2. PICK c \in Backends, n \in Messages :
        Fresh(n) /\ message' = [message EXCEPT ![n] = NewMessage(j, c, "sending")]
  BY BackendsAssumption DEF CreateJob, RetryProof, Preferred
<1>3. Adds(j)
  BY <1>2, AddCarriers
<1>4. ~Active(job[j])
  BY DEF CreateJob, RetryProof, ProofRetryBlocked, Active, ActiveStatus, Absent
<1>5. Carriers(message, j) = {}
  BY <1>1, <1>4 DEF Sound, Waits
<1>6. \A m, n2 \in Carriers(message', j) : m = n2
  BY <1>3, <1>5 DEF Adds
<1>7. registry[ReplayOf[j]] = NoRow \/ registry[ReplayOf[j]].job = j
  <2>1. CASE RetryProof(j, b)
    BY <2>1 DEF RetryProof
  <2>2. CASE CreateJob(j) /\ registry[ReplayOf[j]] # NoRow
    <3>1. job[registry[ReplayOf[j]].job].status = "pruned" /\ registry[ReplayOf[j]].state = "reserved"
      BY <2>2 DEF CreateJob, MayBeCreated
    <3>2. Active(job[registry[ReplayOf[j]].job])
      BY <1>1, <2>2, <3>1, ReservedRow
    <3>3. QED
      BY <3>1, <3>2 DEF Active, ActiveStatus
  <2>3. QED
    BY <2>1, <2>2
<1>8. registry' = [registry EXCEPT ![ReplayOf[j]] = row]
  BY DEF CreateJob, RetryProof
<1> HIDE DEF row
<1>9. OtherRows(j) /\ registry'[ReplayOf[j]] = row
  BY <1>7, <1>8, OwnRow
<1>10. \E rec : /\ rec.status = "queued" /\ rec.lock = "reserved" /\ rec.prover = 0
                /\ job' = [job EXCEPT ![j] = rec]
  <2>1. /\ [Absent EXCEPT !.status = "queued", !.lock = "reserved"].status = "queued"
        /\ [Absent EXCEPT !.status = "queued", !.lock = "reserved"].lock = "reserved"
        /\ [Absent EXCEPT !.status = "queued", !.lock = "reserved"].prover = 0
    BY DEF Absent
  <2> DEFINE new == [job[j] EXCEPT !.status = "queued", !.lease = 0, !.prover = 0,
                       !.error = "none", !.lock = "reserved", !.lockedBy = "none"]
  <2>2. new.status = "queued" /\ new.lock = "reserved" /\ new.prover = 0
    BY <1>1 DEF JobRecord
  <2>3. CreateJob(j) \/ job' = [job EXCEPT ![j] = new]
    BY DEF RetryProof
  <2> HIDE DEF new
  <2>4. QED
    BY <2>1, <2>2, <2>3 DEF CreateJob
<1>11. /\ job'[j].status = "queued" /\ job'[j].lock = "reserved" /\ job'[j].prover = 0
       /\ \A k \in Jobs \ {j} : job'[k] = job[k]
  BY <1>10 DEF IInv, TypeOK
<1>12. age'[j] = "fresh" /\ \A k \in Jobs \ {j} : age'[k] = age[k]
  <2>1. CASE CreateJob(j)
    BY <1>1, <2>1 DEF CreateJob, Sound, Absent
  <2>2. CASE RetryProof(j, b)
    BY <2>2 DEF RetryProof, IInv, TypeOK
  <2>3. QED
    BY <2>1, <2>2
<1>13. row # NoRow /\ row.job = j
  BY DEF row, NoRow
<1>14. Active(job'[j]) /\ Waits(job'[j])
  BY <1>11 DEF Active, ActiveStatus, Waits
<1>15. Sound(job', registry', age', message', j)
  BY <1>6, <1>9, <1>12, <1>13, <1>14 DEF Sound
<1>16. QED
  BY <1>3, <1>9, <1>11, <1>12, <1>15, SoundStep DEF OthersKept, Kept, Adds

\* A job that waits is written and goes on waiting, with one message.
LEMMA WaitSound ==
  ASSUME IInv, JobsSound, NEW j \in Jobs, Waits(job[j]), OthersKept(j), UNCHANGED <<registry, age>>,
         Waits(job'[j]), job'[j].lock = job[j].lock, OtherCarriers(j),
         \A m, n \in Carriers(message', j) : m = n
  PROVE  JobsSound'
<1>1. Sound(job', registry', age', message', j)
  BY DEF JobsSound, Sound, Waits, Owns
<1>2. QED
  BY <1>1, SoundStep, SameRows

\* beginQueueAttempt() of the one delivery of a job takes the job.
LEMMA BeginQueueAttemptSound ==
  ASSUME IInv, JobsSound, Undisturbed, NEW m \in Messages, message[m].at \notin {"unsent", "gone"},
         NEW n \in Nat, BeginQueueAttempt(m, n), UNCHANGED <<registry, age>>
  PROVE  JobsSound'
<1> DEFINE j == message[m].job
           held == [job[j] EXCEPT !.status = "dispatching", !.lease = m]
           at == IF age[j] = "fresh" THEN "begun" ELSE "late"
           msg == [message[m] EXCEPT !.attempts = n, !.at = at]
           msgs == [message EXCEPT ![m].attempts = n]
<1>1. /\ j \in Jobs /\ job[j] \in JobRecord /\ Waits(job[j]) /\ Carriers(message, j) = {m}
      /\ AckIn(msgs, m) => Drops(m)
      /\ Drops(m) => OtherCarriers(j) /\ Carriers(message', j) = {}
  BY OneDrop
<1>2. message[m] \in MessageRecord
  BY DEF IInv, TypeOK
<1>3. held.prover = job[j].prover /\ held.lock = job[j].lock /\ held.status = "dispatching"
  BY <1>1 DEF JobRecord
<1>4. msg.job = j /\ msg.at \notin {"unsent", "gone"}
  BY <1>2 DEF MessageRecord
<1>5. \/ AckIn(msgs, m) /\ UNCHANGED job
      \/ /\ job' = [job EXCEPT ![j] = held]
         /\ message' = [message EXCEPT ![m] = msg]
  BY <1>1, <1>2 DEF BeginQueueAttempt, Waits, IInv, TypeOK
<1> HIDE DEF held, msg, msgs, j
<1>6. CASE AckIn(msgs, m) /\ UNCHANGED job
  BY <1>1, <1>6, SoundFrame DEF OtherCarriers
<1>7. CASE job' = [job EXCEPT ![j] = held] /\ message' = [message EXCEPT ![m] = msg]
  <2>1. SameCarriers
    BY <1>4, <1>7, MoveCarriers DEF j
  <2>2. OthersKept(j) /\ job'[j] = held
    BY <1>1, <1>7, WriteKeepsOthers
  <2>3. Waits(job'[j])
    BY <1>1, <1>3, <2>2 DEF Waits, Active, ActiveStatus
  <2>4. QED
    BY <1>1, <1>3, <2>1, <2>2, <2>3, CarriersAreOthers, WaitSound
<1>8. QED
  BY <1>5, <1>6, <1>7

\* markRetry() of a job that waits.
LEMMA RetrySound ==
  ASSUME IInv, JobsSound, Undisturbed, NEW m \in Messages, message[m].at \notin {"unsent", "gone"},
         MarkRetry(message[m].job), SameCarriers \/ Swaps(m)
  PROVE  JobsSound'
<1> DEFINE j == message[m].job
<1>1. j \in Jobs /\ Waits(job[j]) /\ Carriers(message, j) = {m}
  BY OneDrop
<1>2. /\ OthersKept(j) /\ UNCHANGED <<registry, age>> /\ job'[j].prover = job[j].prover
      /\ job'[j].lock = job[j].lock /\ (Active(job[j]) => job'[j].status = "retrying")
  BY <1>1, MarkRetryWrites
<1>3. OtherCarriers(j) /\ \A n, k \in Carriers(message', j) : n = k
  BY <1>1, CarriersAreOthers DEF Swaps
<1>4. Waits(job'[j])
  BY <1>1, <1>2 DEF Waits, Active, ActiveStatus
<1>5. QED
  BY <1>1, <1>2, <1>3, <1>4, WaitSound

\* No consumer crashes between two of its steps.
LEMMA NoCrash == ASSUME IInv, Undisturbed PROVE ~Crashes
BY DEF Crashes, Spend, Undisturbed, IInv, TypeOK, Events

\* A delivery that waits for the slot stays the one delivery of its job.
LEMMA SlotStillBusySound ==
  ASSUME IInv, JobsSound, Undisturbed, NEW m \in Messages, SlotStillBusy(m)
  PROVE  JobsSound'
<1> DEFINE j == message[m].job
<1>1. message[m].at \notin {"unsent", "gone"}
  BY DEF SlotStillBusy
<1>2. /\ j \in Jobs /\ job[j] \in JobRecord /\ Waits(job[j])
      /\ Ack(m) => OtherCarriers(j) /\ Carriers(message', j) = {}
  BY <1>1, OneDrop
<1>3. message[m].backend \in Backends
  BY <1>1, SentMessage DEF MessageRecord
<1>4. CASE Ack(m) /\ \E why \in {"superseded", "other"} : MarkFailed(j, job[j], why)
  BY <1>2, <1>4, FailSound DEF Errors, Owns, Waits
<1>5. CASE MarkRetry(j) /\ message' = [message EXCEPT ![m].at = "waiting"]
  BY <1>1, <1>5, MovesOnCarriers, RetrySound
<1>6. CASE /\ MarkRetry(j)
           /\ \E n \in Messages :
                /\ Fresh(n)
                /\ AckIn([message EXCEPT ![n] = NewMessage(j, message[m].backend, "waiting")], m)
  <2>1. Swaps(m)
    BY <1>1, <1>3, <1>6, SwapCarriers, NoCrash
  <2>2. QED
    BY <1>1, <1>6, <2>1, RetrySound
<1>7. QED
  BY <1>2, <1>4, <1>5, <1>6 DEF SlotStillBusy, Waits

\* So does one with an answer, unless the job has a prover or is at its end.
LEMMA SettleSound ==
  ASSUME IInv, JobsSound, Undisturbed, NEW m \in Messages,
         SettleAccepted(m) \/ SettleRetry(m) \/ SettleFailed(m)
  PROVE  JobsSound'
<1> DEFINE j == message[m].job
<1>1. message[m].at \notin {"unsent", "gone"}
  BY DEF SettleAccepted, SettleRetry, SettleFailed
<1>2. /\ j \in Jobs /\ job[j] \in JobRecord /\ Waits(job[j]) /\ Active(job[j])
      /\ Carriers(message, j) = {m} /\ Sound(job, registry, age, message, j)
      /\ Ack(m) => OtherCarriers(j) /\ Carriers(message', j) = {}
  BY <1>1, OneDrop DEF Waits, JobsSound
<1>3. message[m] \in MessageRecord
  BY <1>1, SentMessage
<1>4. CASE SettleAccepted(m)
  <2> DEFINE new == [job[j] EXCEPT !.status = "prover_running", !.lease = 0,
                       !.prover = message[m].request, !.error = "none", !.lock = "dispatched"]
             row == [job |-> j, state |-> "dispatched"]
  <2>1. new.status = "prover_running" /\ new.lock = "dispatched"
    BY <1>2 DEF JobRecord
  <2>2. /\ OtherCarriers(j) /\ Carriers(message', j) = {} /\ UNCHANGED age
        /\ job' = [job EXCEPT ![j] = new] /\ registry' = [registry EXCEPT ![ReplayOf[j]] = row]
    BY <1>2, <1>4 DEF SettleAccepted
  <2>3. row.job = j /\ row # NoRow
    BY DEF NoRow
  <2> HIDE DEF new, j, row
  <2>4. OtherRows(j) /\ registry'[ReplayOf[j]] = row
    BY <1>2, <2>2, OwnRow DEF Owns
  <2>5. OthersKept(j) /\ job'[j] = new
    BY <1>2, <2>2, WriteKeepsOthers
  <2>6. Sound(job', registry', age', message', j)
    BY <1>2, <2>1, <2>2, <2>3, <2>4, <2>5 DEF Sound, Active, ActiveStatus
  <2>7. QED
    BY <1>2, <2>2, <2>4, <2>5, <2>6, SoundStep
<1>5. CASE SettleRetry(m)
  BY <1>1, <1>5, MovesOnCarriers, RetrySound DEF SettleRetry
<1>6. CASE SettleFailed(m)
  <2> DEFINE n == job[j].tries + 1
             rec == IF Locked(job[j]) THEN job[j] ELSE [job[j] EXCEPT !.tries = n]
             new == [rec EXCEPT !.status = "queued", !.lease = 0, !.prover = 0, !.error = "none"]
             next == NewMessage(j, NextBackend(message[m].backend), "sending")
  <2>1. n \in Nat
    BY <1>2 DEF JobRecord
  <2>2. \/ MarkFailed(j, rec, "other") /\ Ack(m)
        \/ /\ job' = [job EXCEPT ![j] = new] /\ UNCHANGED <<registry, age>>
           /\ \E k \in Messages : Fresh(k) /\ AckIn([message EXCEPT ![k] = next], m)
    BY <1>2, <1>6 DEF SettleFailed, Requeue
  <2> HIDE DEF n
  <2>3. rec \in JobRecord /\ rec.lock = job[j].lock
    BY <1>2, <2>1 DEF JobRecord
  <2> HIDE DEF rec
  <2>4. new.status = "queued" /\ new.prover = 0 /\ new.lock = job[j].lock
    BY <2>3 DEF JobRecord
  <2> HIDE DEF new
  <2>5. CASE MarkFailed(j, rec, "other") /\ Ack(m)
    BY <1>2, <2>3, <2>5, FailSound DEF Errors, Owns
  <2>6. CASE /\ job' = [job EXCEPT ![j] = new] /\ UNCHANGED <<registry, age>>
             /\ \E k \in Messages : Fresh(k) /\ AckIn([message EXCEPT ![k] = next], m)
    <3>1. NextBackend(message[m].backend) \in Backends
      BY <1>3, NextBackendType DEF MessageRecord
    <3>2. Swaps(m)
      BY <1>1, <2>6, <3>1, SwapCarriers, NoCrash
    <3>3. OtherCarriers(j) /\ \A k, l \in Carriers(message', j) : k = l
      BY <1>2, <3>2 DEF Swaps
    <3>4. OthersKept(j) /\ job'[j] = new
      BY <1>2, <2>6, WriteKeepsOthers
    <3>5. Waits(job'[j])
      BY <2>4, <3>4 DEF Waits, Active, ActiveStatus
    <3>6. QED
      BY <1>2, <2>4, <2>6, <3>3, <3>4, <3>5, WaitSound
  <2>7. QED
    BY <2>2, <2>5, <2>6
<1>7. QED
  BY <1>4, <1>5, <1>6

\* The other steps of the consumers and of the sender.
LEMMA ConsumerSound ==
  ASSUME IInv, JobsSound, Undisturbed, NEW m \in Messages,
         \/ SendEnds(m) \/ SendFails(m) \/ SendLost(m) \/ Reject(m) \/ PreflightFails(m)
         \/ KickStaleSlot(m) \/ BeginExternalDispatch(m) \/ Submit(m) \/ ConsumerCrash(m)
         \/ DeadLetter(m)
  PROVE  JobsSound'
<1> DEFINE j == message[m].job
<1>1. message[m].at \notin {"unsent", "gone"}
  BY DEF SendEnds, SendFails, SendLost, Reject, PreflightFails, BeginExternalDispatch, Submit,
         ConsumerCrash, DeadLetter, KickStaleSlot, InHand
<1>2. /\ j \in Jobs /\ job[j] \in JobRecord /\ Waits(job[j]) /\ Active(job[j])
      /\ Sound(job, registry, age, message, j)
      /\ Ack(m) => Drops(m)
      /\ Drops(m) => OtherCarriers(j) /\ Carriers(message', j) = {}
  BY <1>1, OneDrop DEF Waits, JobsSound
<1>3. CASE SendEnds(m) \/ PreflightFails(m) \/ KickStaleSlot(m) \/ Submit(m) \/ ConsumerCrash(m)
  <2>1. UNCHANGED <<job, registry, age>>
    BY <1>3 DEF SendEnds, PreflightFails, KickStaleSlot, Submit, ConsumerCrash
  <2>2. SameCarriers
    BY <1>3, MovingCarriers
  <2>3. QED
    BY <2>1, <2>2, SoundFrame DEF SameCarriers
<1>4. CASE SendLost(m)
  <2>1. Drops(m)
    BY <1>4, GoneCarriers DEF SendLost
  <2>2. QED
    BY <1>2, <1>4, <2>1, SoundFrame DEF SendLost, OtherCarriers
<1>5. CASE SendFails(m) \/ Reject(m) \/ DeadLetter(m)
  <2>1. Drops(m)
    <3>1. ~Spend("false", MaxFalseErrors)
      BY DEF Spend, Undisturbed, IInv, TypeOK, Events
    <3>2. QED
      BY <1>2, <1>5, <3>1, GoneCarriers DEF SendFails, Reject, DeadLetter
  <2>2. \E why \in Errors : MarkFailed(j, job[j], why)
    BY <1>2, <1>5 DEF SendFails, Reject, DeadLetter, Errors
  <2>3. QED
    BY <1>2, <2>1, <2>2, FailSound DEF Owns
<1>6. CASE BeginExternalDispatch(m)
  <2> DEFINE new == [job[j] EXCEPT !.lock = "dispatching", !.lockedBy = message[m].backend]
             row == [job |-> j, state |-> "dispatching"]
  <2>1. new.prover = job[j].prover /\ new.status = job[j].status /\ new.lock = "dispatching"
    BY <1>2 DEF JobRecord
  <2>2. SameCarriers
    BY <1>6, MovingCarriers
  <2>3. \/ UNCHANGED <<job, registry, age>>
        \/ /\ job' = [job EXCEPT ![j] = new] /\ UNCHANGED age
           /\ registry' = [registry EXCEPT ![ReplayOf[j]] = row]
    BY <1>6 DEF BeginExternalDispatch
  <2>4. row # NoRow /\ row.job = j
    BY DEF NoRow
  <2> HIDE DEF new, row, j
  <2>5. CASE UNCHANGED <<job, registry, age>>
    BY <2>2, <2>5, SoundFrame DEF SameCarriers
  <2>6. CASE /\ job' = [job EXCEPT ![j] = new] /\ UNCHANGED age
             /\ registry' = [registry EXCEPT ![ReplayOf[j]] = row]
    <3>1. OthersKept(j) /\ job'[j] = new
      BY <1>2, <2>6, WriteKeepsOthers
    <3>2. OtherRows(j) /\ registry'[ReplayOf[j]] = row
      BY <1>2, <2>6, OwnRow DEF Owns
    <3>3. OtherCarriers(j) /\ Carriers(message', j) = Carriers(message, j)
      BY <1>2, <2>2, CarriersAreOthers
    <3>4. Active(job'[j]) /\ Waits(job'[j])
      BY <1>2, <2>1, <3>1 DEF Active, Waits
    <3>5. Sound(job', registry', age', message', j)
      BY <1>2, <2>1, <2>4, <2>6, <3>1, <3>2, <3>3, <3>4 DEF Sound
    <3>6. QED
      BY <1>2, <3>1, <3>2, <3>3, <3>5, SoundStep
  <2>7. QED
    BY <2>3, <2>5, <2>6
<1>7. QED
  BY <1>3, <1>4, <1>5, <1>6

\* Time passes for completed jobs only; a reservation of an active job does not lapse.
LEMMA ClockSound ==
  ASSUME IInv, JobsSound, Undisturbed,
         \/ \E j \in Jobs : Ages(j) \/ Expires(j)
         \/ \E r \in Replays : ReservationLapses(r)
         \/ RunMaintenance
  PROVE  JobsSound'
<1>1. ASSUME NEW j \in Jobs, Expires(j) PROVE JobsSound'
  <2>1. /\ UNCHANGED <<job, registry, message>> /\ ~Active(job[j]) /\ job[j].status # "absent"
        /\ \A k \in Jobs \ {j} : age'[k] = age[k]
    BY <1>1 DEF Expires, Active, ActiveStatus, TerminalStatus, IInv, TypeOK
  <2>2. Sound(job', registry', age', message', j)
    BY <2>1 DEF JobsSound, Sound
  <2>3. QED
    BY <2>1, <2>2, SoundStep, SameRows, CarriersAreOthers DEF OthersKept, Kept
<1>2. ASSUME NEW r \in Replays, ReservationLapses(r) PROVE FALSE
  <2>1. registry[r].state = "reserved" /\ age[registry[r].job] = "overdue"
    BY <1>2 DEF ReservationLapses
  <2>2. registry[r] # NoRow
    BY <2>1 DEF NoRow
  <2>3. QED
    BY <2>1, <2>2, ReservedRow
<1>3. ~\E j \in Jobs : Ages(j)
  BY DEF Ages, Undisturbed
<1>4. CASE RunMaintenance
  <2>1. UNCHANGED <<registry, age, message>> /\ \A k \in Jobs : Kept(k)
    BY <1>4 DEF RunMaintenance, Sweep, Kept
  <2>2. SUFFICES ASSUME NEW j \in Jobs PROVE Sound(job', registry', age', message', j)
    BY DEF JobsSound
  <2>3. Sound(job, registry, age, message, j)
    BY DEF JobsSound
  <2>4. CASE job'[j] = job[j]
    BY <2>1, <2>3, <2>4 DEF Sound
  <2>5. CASE age[j] = "expired" /\ job'[j] = Pruned(job[j])
    <3>1. job'[j].status = "pruned" /\ job'[j].lock = job[j].lock
      BY <2>5 DEF Pruned, IInv, TypeOK, JobRecord
    <3>2. ~Active(job[j]) /\ job[j].lock # "reserved" /\ Carriers(message, j) = {}
      BY <2>3, <2>5 DEF Sound, Waits
    <3>3. ~Active(job'[j]) /\ (Locked(job'[j]) <=> Locked(job[j]))
      BY <3>1 DEF Active, ActiveStatus, Locked
    <3>4. QED
      BY <2>1, <2>3, <3>1, <3>2, <3>3 DEF Sound, Owns
  <2>6. QED
    BY <2>1, <2>4, <2>5 DEF Kept
<1>5. QED
  BY <1>1, <1>2, <1>3, <1>4

\* A job that is polled is within its time.
PolledAreFresh == \A p \in Pollers : poller[p].at # NoJob => age[poller[p].at] = "fresh"

\* A dispatched job may fail, succeed or be written again as an active one.
LEMMA DispatchedSound ==
  ASSUME IInv, JobsSound, NEW j \in Jobs, job[j].lock = "dispatched", UNCHANGED message,
         \/ \E rec \in JobRecord, why \in Errors :
              rec.lock = job[j].lock /\ MarkFailed(j, rec, why)
         \/ \E q \in Requests : MarkSucceeded(j, q)
         \/ /\ age[j] = "fresh" /\ UNCHANGED <<registry, age>>
            /\ \E rec \in JobRecord :
                 /\ rec.lock = "dispatched" /\ Active(rec)
                 /\ job' = [job EXCEPT ![j] = rec]
  PROVE  JobsSound'
<1>1. job[j] \in JobRecord /\ ProverFits(j, job[j]) /\ Sound(job, registry, age, message, j)
  BY DEF IInv, TypeOK, JobsFit, JobsSound
<1>2. Locked(job[j]) /\ Owns(job[j]) /\ ~Waits(job[j])
  BY <1>1 DEF Locked, Owns, Waits, ProverFits
<1>3. Carriers(message', j) = {} /\ OtherCarriers(j)
  BY <1>1, <1>2 DEF Sound, OtherCarriers
<1>4. CASE \E rec \in JobRecord, why \in Errors :
             rec.lock = job[j].lock /\ MarkFailed(j, rec, why)
  BY <1>2, <1>3, <1>4, FailSound
<1>5. CASE \E q \in Requests : MarkSucceeded(j, q)
  <2>1. Succeeds(j)
    BY <1>5, MarkSucceededWrites
  <2>2. Sound(job', registry', age', message', j)
    BY <1>1, <1>2, <1>3, <2>1 DEF Succeeds, Sound, Active, ActiveStatus
  <2>3. QED
    BY <1>3, <2>1, <2>2, SoundStep, SameRows DEF Succeeds
<1>6. CASE /\ age[j] = "fresh" /\ UNCHANGED <<registry, age>>
           /\ \E rec \in JobRecord :
                /\ rec.lock = "dispatched" /\ Active(rec)
                /\ job' = [job EXCEPT ![j] = rec]
  <2>1. OthersKept(j) /\ job'[j].lock = "dispatched"
    BY <1>6, WriteKeepsOthers
  <2>2. Sound(job', registry', age', message', j)
    BY <1>1, <1>2, <1>3, <1>6, <2>1 DEF Sound
  <2>3. QED
    BY <1>3, <1>6, <2>1, <2>2, SoundStep, SameRows
<1>7. QED
  BY <1>4, <1>5, <1>6

\* What the pollers and the recovery write.
LEMMA PollersSound ==
  ASSUME IInv, JobsSound, PolledAreFresh,
         \/ \E p \in Pollers, j \in Jobs : VisitOvertime(p, j)
         \/ \E p \in Pollers : PollEnds(p)
         \/ \E j \in Jobs : RecoverEnds(j)
  PROVE  JobsSound'
<1>1. ASSUME NEW p \in Pollers, NEW j \in Jobs, VisitOvertime(p, j) PROVE JobsSound'
  <2>1. /\ job[j] \in JobRecord /\ job[j].lock = "dispatched" /\ GiveUp(j, job[j])
    BY <1>1 DEF VisitOvertime, IInv, TypeOK, JobsFit, ProverFits
  <2>2. NoNextBackend(job[j])
    BY <2>1 DEF NoNextBackend, Locked
  <2>3. QED
    BY <2>1, <2>2, DispatchedSound DEF GiveUp, Errors
<1>2. ASSUME NEW p \in Pollers, PollEnds(p) PROVE JobsSound'
  <2> DEFINE j == poller[p].at
             snap == poller[p].snap
             retrying == [snap EXCEPT !.status = "retrying"]
  <2>1. j # NoJob
    BY <1>2 DEF PollEnds, PollRunning, PollError, PollGivesUp, PollFatal, PollSucceeds
  <2>2. /\ j \in Jobs /\ snap \in JobRecord /\ snap.lock = "dispatched" /\ job[j] \in JobRecord
        /\ job[j].lock = "dispatched" /\ snap.prover \in Requests /\ Active(snap)
    BY <2>1, WaitingPoller
  <2>3. /\ retrying \in JobRecord /\ retrying.lock = "dispatched" /\ retrying.status = "retrying"
    BY <2>2 DEF JobRecord, ActiveStatus
  <2>4. NoNextBackend(snap)
    BY <2>2 DEF NoNextBackend, Locked
  <2>5. /\ UNCHANGED message
        /\ \/ UNCHANGED <<registry, age>> /\ \E rec \in {snap, retrying} : job' = [job EXCEPT ![j] = rec]
           \/ UNCHANGED <<job, registry, age>>
           \/ MarkFailed(j, snap, "other")
           \/ MarkFailed(j, job[j], "other")
           \/ MarkSucceeded(j, snap.prover)
    BY <1>2, <2>4 DEF PollEnds, PollRunning, PollError, PollGivesUp, PollFatal, PollSucceeds, GiveUp
  <2> HIDE DEF retrying
  <2>6. CASE UNCHANGED <<registry, age>> /\ \E rec \in {snap, retrying} : job' = [job EXCEPT ![j] = rec]
    <3>1. PICK rec \in {snap, retrying} : job' = [job EXCEPT ![j] = rec]
      BY <2>6
    <3>2. rec \in JobRecord /\ rec.lock = "dispatched" /\ Active(rec)
      BY <2>2, <2>3 DEF Active, ActiveStatus
    <3>3. age[j] = "fresh"
      BY <2>1 DEF PolledAreFresh
    <3>4. QED
      BY <2>2, <2>5, <2>6, <3>1, <3>2, <3>3, DispatchedSound
  <2>7. CASE UNCHANGED <<job, registry, age>>
    BY <2>5, <2>7, SoundFrame
  <2>8. CASE MarkFailed(j, snap, "other") \/ MarkFailed(j, job[j], "other")
    BY <2>2, <2>5, <2>8, DispatchedSound DEF Errors
  <2>9. CASE MarkSucceeded(j, snap.prover)
    BY <2>2, <2>5, <2>9, DispatchedSound
  <2>10. QED
    BY <2>5, <2>6, <2>7, <2>8, <2>9
<1>3. ASSUME NEW j \in Jobs, RecoverEnds(j) PROVE JobsSound'
  <2>1. /\ job[j].lock = "dispatched" /\ job[j].prover \in Requests /\ UNCHANGED message
    BY <1>3 DEF RecoverEnds, IInv, RecoveringAreLocked, TypeOK, JobsFit, ProverFits, JobRecord
  <2>2. CASE MarkSucceeded(j, job[j].prover)
    BY <2>1, <2>2, DispatchedSound
  <2>3. CASE UNCHANGED stored
    BY <2>1, <2>3, SoundFrame DEF stored
  <2>4. QED
    BY <1>3, <2>2, <2>3 DEF RecoverEnds
<1>4. QED
  BY <1>1, <1>2, <1>3

\* A job within its time stays within it as long as it is active or polled.
FreshStay == \A j \in Jobs : age[j] = "fresh" => age'[j] = "fresh"

\* Writing a job makes none of them older.
LEMMA CompleteStaysFresh ==
  ASSUME IInv, NEW j, NEW rec, NEW why, NEW q,
         MarkFailed(j, rec, why) \/ MarkSucceeded(j, q) \/ MarkRetry(j) \/ Requeue(j, rec)
  PROVE  FreshStay
<1>1. age' = age \/ age' = [age EXCEPT ![j] = IF @ = "expired" THEN "overdue" ELSE @]
  BY DEF MarkFailed, MarkSucceeded, MarkRetry, Requeue, Complete, stored
<1>2. QED
  BY <1>1 DEF FreshStay, IInv, TypeOK

\* Only the passing of time does.
LEMMA NextStaysFresh ==
  ASSUME IInv, Undisturbed, Next
  PROVE  FreshStay \/ \E j \in Jobs : Expires(j)
<1>1. UNCHANGED age => FreshStay
  BY DEF FreshStay
<1>2. ASSUME NEW j \in Jobs, NEW b \in Backends,
             \/ CreateJob(j) \/ Cancel(j) \/ Ages(j) \/ RecoverStarts(j) \/ RecoverEnds(j)
             \/ RetryProof(j, b)
      PROVE  FreshStay
  <2>1. CASE CreateJob(j) \/ RecoverStarts(j)
    BY <1>1, <2>1 DEF CreateJob, RecoverStarts
  <2>2. CASE Ages(j)
    BY <2>2 DEF Ages, Undisturbed
  <2>3. CASE RetryProof(j, b)
    BY <2>3 DEF RetryProof, FreshStay, IInv, TypeOK
  <2>4. CASE Cancel(j) \/ RecoverEnds(j)
    BY <1>1, <2>4, CompleteStaysFresh DEF Cancel, RecoverEnds, stored
  <2>5. QED
    BY <1>2, <2>1, <2>2, <2>3, <2>4
<1>3. ASSUME NEW m \in Messages,
             \/ SendEnds(m) \/ SendFails(m) \/ SendLost(m) \/ Consume(m) \/ ConsumerCrash(m)
      PROVE  FreshStay
  <2>1. CASE SendFails(m) \/ Reject(m) \/ SettleRetry(m) \/ DeadLetter(m)
    BY <1>1, <2>1, CompleteStaysFresh DEF SendFails, Reject, SettleRetry, DeadLetter, stored
  <2>2. CASE SlotStillBusy(m) \/ SettleFailed(m)
    BY <1>1, <2>2, CompleteStaysFresh DEF SlotStillBusy, SettleFailed, stored
  <2>3. CASE \/ SendEnds(m) \/ SendLost(m) \/ Deliver(m) \/ KickStaleSlot(m) \/ SlotFreed(m)
             \/ PreflightFails(m) \/ BeginExternalDispatch(m) \/ Submit(m) \/ SettleAccepted(m)
             \/ ConsumerCrash(m)
    BY <1>1, <2>3 DEF SendEnds, SendLost, Deliver, KickStaleSlot, SlotFreed, PreflightFails,
       BeginExternalDispatch, Submit, SettleAccepted, ConsumerCrash
  <2>4. QED
    BY <1>3, <2>1, <2>2, <2>3 DEF Consume
<1>4. ASSUME NEW p \in Pollers, Visit(p) \/ PollEnds(p)
      PROVE  FreshStay
  <2>1. CASE PollRunning(p) \/ PollError(p)
    BY <1>1, <2>1 DEF PollRunning, PollError
  <2>2. CASE PollFatal(p) \/ PollSucceeds(p) \/ PollGivesUp(p)
    BY <1>1, <2>2, CompleteStaysFresh DEF PollFatal, PollSucceeds, PollGivesUp, GiveUp
  <2>3. ASSUME NEW j \in Jobs, VisitIdle(p, j) \/ VisitOvertime(p, j) \/ VisitPoll(p, j)
        PROVE  FreshStay
    BY <1>1, <2>3, CompleteStaysFresh DEF VisitIdle, VisitPoll, VisitOvertime, GiveUp
  <2>4. QED
    BY <1>4, <2>1, <2>2, <2>3 DEF Visit, PollEnds
<1>5. CASE \/ \E q \in Requests : RequestEnds(q)
           \/ \E r \in Replays : ReservationLapses(r)
           \/ AlarmFires \/ AlarmEnds \/ KickEnds \/ RunMaintenance \/ CoordinatorRestart
  BY <1>1, <1>5 DEF RequestEnds, ReservationLapses, AlarmFires, AlarmEnds, KickEnds,
     RunMaintenance, CoordinatorRestart
<1>6. QED
  BY <1>2, <1>3, <1>4, <1>5, BackendsAssumption DEF Next

\* No job grows old while a handler polls it.
LEMMA NextPollsFresh ==
  ASSUME IInv, JobsSound, PolledAreFresh, Undisturbed, Next
  PROVE  PolledAreFresh'
<1> SUFFICES ASSUME NEW p \in Pollers, poller'[p].at # NoJob PROVE age'[poller'[p].at] = "fresh"
  BY DEF PolledAreFresh
<1>1. PollersStep
  BY NextIsStep DEF Step
<1>2. poller'[p].at \in Jobs
  BY <1>1 DEF PollersStep, PollerRecord
<1>3. age[poller'[p].at] = "fresh"
  BY <1>1, <1>2 DEF PollersStep, PolledAreFresh, JobsSound, Sound
<1>4. CASE FreshStay
  BY <1>2, <1>3, <1>4 DEF FreshStay
<1>5. ASSUME NEW j \in Jobs, Expires(j) PROVE age'[poller'[p].at] = "fresh"
  <2>1. UNCHANGED poller /\ poller[p].at # j
    BY <1>5 DEF Expires, InFlight
  <2>2. QED
    BY <1>3, <1>5, <2>1 DEF Expires, IInv, TypeOK
<1>6. QED
  BY <1>4, <1>5, NextStaysFresh
-----------------------------------------------------------------------------
\* A delivery that goes ahead has locked its job, and so has every request.
DispatchLocked ==
  \A m \in Messages : message[m].at = "dispatching" => Locked(job[message[m].job])
RequestsLocked ==
  \A q \in Requests : request[q].phase # "none" =>
    request[q].job \in Jobs /\ Locked(job[request[q].job])

\* No delivery goes ahead in this step; no consumer gets hold of a job.
NoDispatch ==
  \A n \in Messages : message'[n].at = "dispatching" =>
    message[n].at = "dispatching" /\ message'[n].job = message[n].job
Working == {"begun", "late", "dispatching", "answered"}
NoneBegins ==
  \A n \in Messages : message'[n].at \in Working =>
    message[n].at \in Working /\ message'[n].job = message[n].job

\* Moving a message on, anywhere else.
LEMMA QuietMove ==
  ASSUME IInv, NEW m \in Messages, NEW a \in {"waiting", "answered", "kicking", "begun", "late"},
         NEW o, NEW q, NEW n,
         \/ message' = [message EXCEPT ![m].at = a]
         \/ message' = [message EXCEPT ![m].at = a, ![m].outcome = o]
         \/ message' = [message EXCEPT ![m].at = a, ![m].outcome = o, ![m].request = q]
         \/ message' = [message EXCEPT ![m].at = a, ![m].attempts = n]
         \/ message' = [message EXCEPT ![m].attempts = n, ![m].at = a]
  PROVE  /\ NoDispatch
         /\ message[m].at \in Working \/ a \notin Working => NoneBegins
         /\ message'[m].at = a
<1>1. message \in [Messages -> MessageRecord] /\ message[m] \in MessageRecord
  BY DEF IInv, TypeOK
<1>2. /\ message'[m].at = a /\ message'[m].job = message[m].job
      /\ \A k \in Messages \ {m} : message'[k] = message[k]
  BY <1>1 DEF MessageRecord
<1>3. QED
  BY <1>2 DEF NoDispatch, NoneBegins

\* Acking a message, with or without a new one sent before.
LEMMA QuietAck ==
  ASSUME IInv, NEW m \in Messages, NEW msgs \in [Messages -> MessageRecord], AckIn(msgs, m),
         \A k \in Messages \ {m} : msgs[k] = message[k] \/ msgs[k].at \notin Working
  PROVE  NoDispatch /\ NoneBegins /\ message'[m].at \notin Working
<1>1. \/ message' = [msgs EXCEPT ![m] = Gone(msgs[m])]
      \/ message' = [msgs EXCEPT ![m] = Redelivered(msgs[m])]
  BY DEF AckIn
<1>2. Gone(msgs[m]).at \notin Working /\ Redelivered(msgs[m]).at \notin Working
  BY AckedMessage DEF Working
<1>3. message'[m].at \notin Working /\ \A k \in Messages \ {m} : message'[k] = msgs[k]
  BY <1>1, <1>2
<1>4. QED
  BY <1>3 DEF NoDispatch, NoneBegins, Working

\* Acking the message as it is, with another attempt counted, or with a new one sent.
LEMMA QuietAcks ==
  ASSUME IInv, NEW m \in Messages,
         \/ Ack(m)
         \/ \E n \in Nat : AckIn([message EXCEPT ![m].attempts = n], m)
         \/ \E n \in Messages, j \in Jobs, b \in Backends, at \in {"sending", "waiting"} :
              AckIn([message EXCEPT ![n] = NewMessage(j, b, at)], m)
  PROVE  NoDispatch /\ NoneBegins /\ message'[m].at \notin Working
<1>1. message \in [Messages -> MessageRecord] /\ message[m] \in MessageRecord
  BY DEF IInv, TypeOK
<1>2. CASE Ack(m)
  BY <1>1, <1>2, QuietAck DEF Ack
<1>3. ASSUME NEW n \in Nat, AckIn([message EXCEPT ![m].attempts = n], m)
      PROVE  NoDispatch /\ NoneBegins /\ message'[m].at \notin Working
  <2> DEFINE msgs == [message EXCEPT ![m].attempts = n]
  <2>1. msgs \in [Messages -> MessageRecord] /\ \A k \in Messages \ {m} : msgs[k] = message[k]
    BY <1>1 DEF MessageRecord
  <2>2. AckIn(msgs, m)
    BY <1>3
  <2> HIDE DEF msgs
  <2>3. QED
    BY <2>1, <2>2, QuietAck
<1>4. ASSUME NEW n \in Messages, NEW j \in Jobs, NEW b \in Backends, NEW at \in {"sending", "waiting"},
             AckIn([message EXCEPT ![n] = NewMessage(j, b, at)], m)
      PROVE  NoDispatch /\ NoneBegins /\ message'[m].at \notin Working
  <2> DEFINE new == NewMessage(j, b, at)
             msgs == [message EXCEPT ![n] = new]
  <2>1. new \in MessageRecord /\ new.at \notin Working
    BY DEF NewMessage, Unsent, MessageRecord, Working
  <2> HIDE DEF new
  <2>2. msgs \in [Messages -> MessageRecord]
        /\ \A k \in Messages : msgs[k] = message[k] \/ msgs[k].at \notin Working
    BY <1>1, <2>1
  <2>3. AckIn(msgs, m)
    BY <1>4 DEF new
  <2> HIDE DEF msgs
  <2>4. QED
    BY <2>2, <2>3, QuietAck
<1>5. QED
  BY <1>2, <1>3, <1>4

\* A message that is gone, delivered again or new.
LEMMA QuietWrite ==
  ASSUME IInv, NEW m \in Messages,
         \/ message' = [message EXCEPT ![m] = Gone(@)]
         \/ message' = [message EXCEPT ![m] = Redelivered(@)]
         \/ \E j \in Jobs, b \in Backends :
              message' = [message EXCEPT ![m] = NewMessage(j, b, "sending")]
  PROVE  NoDispatch /\ NoneBegins /\ message'[m].at \notin Working
<1>1. message \in [Messages -> MessageRecord] /\ message[m] \in MessageRecord
  BY DEF IInv, TypeOK
<1>2. Gone(message[m]).at \notin Working /\ Redelivered(message[m]).at \notin Working
  BY <1>1, AckedMessage DEF Working
<1>3. \A j \in Jobs, b \in Backends : NewMessage(j, b, "sending").at \notin Working
  BY DEF NewMessage, Unsent, Working
<1>4. message'[m].at \notin Working /\ \A k \in Messages \ {m} : message'[k] = message[k]
  BY <1>1, <1>2, <1>3
<1>5. QED
  BY <1>4 DEF NoDispatch, NoneBegins, Working

\* beginQueueAttempt() dispatches nothing.
LEMMA QuietBegin ==
  ASSUME IInv, NEW m \in Messages, NEW n \in Nat, BeginQueueAttempt(m, n)
  PROVE  NoDispatch
<1> DEFINE at == IF age[message[m].job] = "fresh" THEN "begun" ELSE "late"
<1>1. \/ AckIn([message EXCEPT ![m].attempts = n], m)
      \/ message' = [message EXCEPT ![m].attempts = n, ![m].at = at]
  BY DEF BeginQueueAttempt, IInv, TypeOK
<1>2. at \in {"begun", "late"}
  OBVIOUS
<1> HIDE DEF at
<1>3. CASE AckIn([message EXCEPT ![m].attempts = n], m)
  BY <1>3, QuietAcks
<1>4. CASE message' = [message EXCEPT ![m].attempts = n, ![m].at = at]
  BY <1>2, <1>4, QuietMove
<1>5. QED
  BY <1>1, <1>3, <1>4

\* Of what the sender and the consumers do, only beginExternalDispatch() dispatches.
LEMMA QuietConsumer ==
  ASSUME IInv, NEW m \in Messages,
         \/ SendEnds(m) \/ SendFails(m) \/ SendLost(m) \/ ConsumerCrash(m)
         \/ Consume(m) /\ ~BeginExternalDispatch(m)
  PROVE  NoDispatch
<1> DEFINE j == message[m].job
<1>1. CASE SendEnds(m) \/ PreflightFails(m) \/ SettleRetry(m)
  BY <1>1, QuietMove DEF SendEnds, PreflightFails, SettleRetry
<1>2. CASE SendFails(m) \/ SendLost(m) \/ ConsumerCrash(m) \/ DeadLetter(m)
  BY <1>2, QuietMove, QuietWrite DEF SendFails, SendLost, ConsumerCrash, DeadLetter
<1>3. CASE Reject(m) \/ SettleAccepted(m)
  BY <1>3, QuietAcks DEF Reject, SettleAccepted
<1>4. CASE KickStaleSlot(m)
  <2>1. message' = [message EXCEPT ![m].at = "kicking", ![m].attempts = message[m].attempts + 1]
    BY <1>4 DEF KickStaleSlot, IInv, TypeOK
  <2>2. QED
    BY <2>1, QuietMove
<1>5. CASE Submit(m)
  <2>1. PICK o, q : \/ message' = [message EXCEPT ![m].at = "answered", ![m].outcome = o]
                   \/ message' = [message EXCEPT ![m].at = "answered", ![m].outcome = o,
                                                 ![m].request = q]
    BY <1>5 DEF Submit
  <2>2. CASE message' = [message EXCEPT ![m].at = "answered", ![m].outcome = o]
    BY <2>2, QuietMove
  <2>3. CASE message' = [message EXCEPT ![m].at = "answered", ![m].outcome = o, ![m].request = q]
    BY <2>3, QuietMove
  <2>4. QED
    BY <2>1, <2>2, <2>3
<1>6. CASE Deliver(m) \/ SlotFreed(m)
  <2>1. message[m].attempts \in Nat /\ message[m].attempts + 1 \in Nat
    BY DEF IInv, TypeOK, MessageRecord
  <2>2. BeginQueueAttempt(m, message[m].attempts + 1) \/ BeginQueueAttempt(m, message[m].attempts)
    BY <1>6 DEF Deliver, SlotFreed
  <2>3. QED
    BY <2>1, <2>2, QuietBegin
<1>7. CASE SlotStillBusy(m) \/ SettleFailed(m)
  <2>1. j \in Jobs /\ message[m].backend \in Backends
    BY <1>7, SentMessage DEF SlotStillBusy, SettleFailed, MessageRecord
  <2>2. NextBackend(message[m].backend) \in Backends
    BY <2>1, NextBackendType
  <2>3. \/ Ack(m)
        \/ message' = [message EXCEPT ![m].at = "waiting"]
        \/ \E n \in Messages, b \in Backends, at \in {"sending", "waiting"} :
             AckIn([message EXCEPT ![n] = NewMessage(j, b, at)], m)
    BY <1>7, <2>1, <2>2 DEF SlotStillBusy, SettleFailed
  <2>4. CASE message' = [message EXCEPT ![m].at = "waiting"]
    BY <2>4, QuietMove
  <2>5. QED
    BY <2>1, <2>3, <2>4, QuietAcks
<1>8. QED
  BY <1>1, <1>2, <1>3, <1>4, <1>5, <1>6, <1>7 DEF Consume

\* Only beginExternalDispatch() lets a delivery go ahead, and only submitting creates
\* a request.
LEMMA WhoDispatches ==
  ASSUME IInv, Next
  PROVE  /\ NoDispatch \/ \E m \in Messages : BeginExternalDispatch(m)
         /\ \/ UNCHANGED request
            \/ \E q \in Requests : RequestEnds(q)
            \/ \E m \in Messages : Submit(m)
<1>1. UNCHANGED message => NoDispatch
  BY DEF NoDispatch
<1>2. ASSUME NEW j \in Jobs,
             \/ CreateJob(j) \/ Cancel(j) \/ Ages(j) \/ Expires(j)
             \/ RecoverStarts(j) \/ RecoverEnds(j)
             \/ \E b \in Backends : RetryProof(j, b)
      PROVE  NoDispatch /\ UNCHANGED request
  <2>1. CASE CreateJob(j) \/ \E b \in Backends : RetryProof(j, b)
    <3>1. PICK c \in Backends, n \in Messages :
                 message' = [message EXCEPT ![n] = NewMessage(j, c, "sending")]
      BY <2>1, BackendsAssumption DEF CreateJob, RetryProof, Preferred
    <3>2. NoDispatch
      BY <3>1, QuietWrite
    <3>3. QED
      BY <2>1, <3>2 DEF CreateJob, RetryProof
  <2>2. QED
    BY <1>1, <1>2, <2>1 DEF Cancel, Ages, Expires, RecoverStarts, RecoverEnds
<1>3. ASSUME NEW m \in Messages,
             \/ SendEnds(m) \/ SendFails(m) \/ SendLost(m) \/ Consume(m) \/ ConsumerCrash(m)
      PROVE  /\ NoDispatch \/ BeginExternalDispatch(m)
             /\ UNCHANGED request \/ Submit(m)
  <2>1. UNCHANGED request \/ Submit(m)
    BY <1>3 DEF SendEnds, SendFails, SendLost, ConsumerCrash, Consume, Deliver, KickStaleSlot,
       SlotFreed, SlotStillBusy, Reject, PreflightFails, BeginExternalDispatch, SettleAccepted,
       SettleRetry, SettleFailed, DeadLetter
  <2>2. QED
    BY <1>3, <2>1, QuietConsumer
<1>4. ASSUME NEW p \in Pollers, Visit(p) \/ PollEnds(p)
      PROVE  NoDispatch /\ UNCHANGED request
  <2>1. UNCHANGED request
    BY <1>4 DEF Visit, VisitIdle, VisitOvertime, VisitPoll, PollEnds, PollRunning, PollError,
       PollGivesUp, PollFatal, PollSucceeds, Answered
  <2>2. UNCHANGED message
    <3>1. ASSUME NEW j \in Jobs, VisitOvertime(p, j) PROVE UNCHANGED message
      <4>1. job[j] \in JobRecord /\ job[j].lock = "dispatched" /\ GiveUp(j, job[j])
        BY <3>1 DEF VisitOvertime, IInv, TypeOK, JobsFit, ProverFits
      <4>2. QED
        BY <4>1 DEF GiveUp, NoNextBackend, Locked
    <3>2. CASE PollGivesUp(p)
      <4>1. poller[p].snap.lock = "dispatched" /\ GiveUp(poller[p].at, poller[p].snap)
        BY <3>2, WaitingPoller DEF PollGivesUp
      <4>2. QED
        BY <4>1 DEF GiveUp, NoNextBackend, Locked
    <3>3. QED
      BY <1>4, <3>1, <3>2 DEF Visit, VisitIdle, VisitPoll, PollEnds, PollRunning, PollError,
         PollFatal, PollSucceeds
  <2>3. QED
    BY <1>1, <2>1, <2>2
<1>5. CASE \/ \E q \in Requests : RequestEnds(q)
           \/ \E r \in Replays : ReservationLapses(r)
           \/ AlarmFires \/ AlarmEnds \/ KickEnds \/ RunMaintenance \/ CoordinatorRestart
  BY <1>1, <1>5 DEF RequestEnds, ReservationLapses, AlarmFires, AlarmEnds, KickEnds,
     RunMaintenance, CoordinatorRestart
<1>6. QED
  BY <1>2, <1>3, <1>4, <1>5 DEF Next

\* A job that is locked stays locked.
LEMMA LocksStay ==
  ASSUME IInv, [Next]_vars
  PROVE  \A j \in Jobs : Locked(job[j]) => Locked(job'[j])
<1>1. JobsStep
  BY NextIsStep, StutterIsStep DEF Step
<1>2. QED
  BY <1>1 DEF JobsStep, LegalWrite, Locked

\* Every delivery that is submitted has locked its replay.
LEMMA NextDispatchLocked ==
  ASSUME IInv, JobsSound, Undisturbed, DispatchLocked, Next
  PROVE  DispatchLocked'
<1> SUFFICES ASSUME NEW n \in Messages, message'[n].at = "dispatching"
             PROVE  Locked(job'[message'[n].job])
  BY DEF DispatchLocked, Locked
<1>1. CASE NoDispatch
  <2>1. message[n].at = "dispatching" /\ message'[n].job = message[n].job
    BY <1>1 DEF NoDispatch
  <2>2. message[n].job \in Jobs /\ Locked(job[message[n].job])
    BY <2>1, SentMessage DEF DispatchLocked
  <2>3. QED
    BY <2>1, <2>2, LocksStay
<1>2. ASSUME NEW m \in Messages, BeginExternalDispatch(m) PROVE Locked(job'[message'[n].job])
  <2> DEFINE j == message[m].job
             new == [job[j] EXCEPT !.lock = "dispatching", !.lockedBy = message[m].backend]
  <2>1. /\ message \in [Messages -> MessageRecord] /\ message[m] \in MessageRecord
        /\ message[m].at = "begun"
    BY <1>2 DEF BeginExternalDispatch, IInv, TypeOK
  <2>2. j \in Jobs /\ job[j] \in JobRecord /\ Active(job[j])
    BY <2>1, OneDrop DEF Waits
  <2>3. new.lock = "dispatching"
    BY <2>2 DEF JobRecord
  <2>4. \/ message' = [message EXCEPT ![m].at = "answered", ![m].outcome = "fatal"]
        \/ message' = [message EXCEPT ![m].at = "dispatching"] /\ job' = [job EXCEPT ![j] = new]
    BY <1>2, <2>2 DEF BeginExternalDispatch
  <2> HIDE DEF new, j
  <2>5. CASE message' = [message EXCEPT ![m].at = "answered", ![m].outcome = "fatal"]
    <3>1. NoDispatch
      BY <2>5, QuietMove
    <3>2. QED
      BY <1>1, <3>1
  <2>6. CASE message' = [message EXCEPT ![m].at = "dispatching"] /\ job' = [job EXCEPT ![j] = new]
    <3>1. CASE n = m
      <4>1. message'[n].job = j
        BY <2>1, <2>6, <3>1 DEF MessageRecord, j
      <4>2. job'[j] = new
        BY <2>2, <2>6 DEF IInv, TypeOK
      <4>3. QED
        BY <2>3, <4>1, <4>2 DEF Locked
    <3>2. CASE n # m
      <4>1. message'[n] = message[n]
        BY <2>1, <2>6, <3>2
      <4>2. message[n].job \in Jobs /\ Locked(job[message[n].job])
        BY <4>1, SentMessage DEF DispatchLocked
      <4>3. QED
        BY <4>1, <4>2, LocksStay
    <3>3. QED
      BY <3>1, <3>2
  <2>7. QED
    BY <2>4, <2>5, <2>6
<1>3. QED
  BY <1>1, <1>2, WhoDispatches

\* Every request was submitted by such a delivery.
LEMMA NextRequestsLocked ==
  ASSUME IInv, RequestsLocked, DispatchLocked, Next
  PROVE  RequestsLocked'
<1> SUFFICES ASSUME NEW q \in Requests, request'[q].phase # "none"
             PROVE  request'[q].job \in Jobs /\ Locked(job'[request'[q].job])
  BY DEF RequestsLocked, Locked
<1>1. CASE request[q].phase # "none"
  <2>1. request'[q].job = request[q].job
    BY <1>1, NextIsStep DEF Step, RequestsStep
  <2>2. QED
    BY <1>1, <2>1, LocksStay DEF RequestsLocked
<1>2. CASE request[q].phase = "none"
  <2>1. PICK m \in Messages : Submit(m)
    <3>1. ASSUME NEW r \in Requests, RequestEnds(r) PROVE FALSE
      <4>1. request'[q] = request[q] \/ q = r
        BY <3>1 DEF RequestEnds, IInv, TypeOK
      <4>2. QED
        BY <1>2, <3>1, <4>1 DEF RequestEnds
    <3>2. QED
      BY <1>2, <3>1, WhoDispatches
  <2>2. message[m].at = "dispatching" /\ message[m].job \in Jobs /\ Locked(job[message[m].job])
    BY <2>1, SentMessage DEF Submit, DispatchLocked
  <2>3. request'[q].job = message[m].job
    <3>1. PICK r \in Requests :
            request' = [request EXCEPT ![r] = [job |-> message[m].job,
                          backend |-> message[m].backend, phase |-> "running"]]
      BY <1>2, <2>1 DEF Submit
    <3>2. q = r
      BY <1>2, <3>1 DEF IInv, TypeOK
    <3>3. QED
      BY <3>1, <3>2 DEF IInv, TypeOK
  <2>4. QED
    BY <2>2, <2>3, LocksStay
<1>3. QED
  BY <1>1, <1>2

\* Every step keeps the jobs sound.
LEMMA NextSound ==
  ASSUME IInv, JobsSound, PolledAreFresh, Undisturbed, [Next]_vars
  PROVE  JobsSound'
<1>1. CASE UNCHANGED <<job, registry, age, message>>
  BY <1>1, SoundFrame
<1>2. ASSUME NEW j \in Jobs,
             \/ CreateJob(j) \/ Cancel(j) \/ Ages(j) \/ Expires(j)
             \/ RecoverStarts(j) \/ RecoverEnds(j)
      PROVE  JobsSound'
  <2>1. ~Cancel(j)
    BY DEF Cancel, Spend, Undisturbed, IInv, TypeOK, Events
  <2>2. CASE RecoverStarts(j)
    BY <1>1, <2>2 DEF RecoverStarts
  <2>3. CASE CreateJob(j)
    BY <2>3, OpenSound, BackendsAssumption
  <2>4. QED
    BY <1>2, <2>1, <2>2, <2>3, ClockSound, PollersSound
<1>3. ASSUME NEW m \in Messages,
             \/ SendEnds(m) \/ SendFails(m) \/ SendLost(m) \/ Consume(m) \/ ConsumerCrash(m)
      PROVE  JobsSound'
  <2>1. CASE Deliver(m) \/ SlotFreed(m)
    <3>1. /\ message[m].at \notin {"unsent", "gone"} /\ UNCHANGED <<registry, age>>
          /\ message[m].attempts \in Nat /\ message[m].attempts + 1 \in Nat
      BY <2>1 DEF Deliver, SlotFreed, IInv, TypeOK, MessageRecord
    <3>2. BeginQueueAttempt(m, message[m].attempts + 1) \/ BeginQueueAttempt(m, message[m].attempts)
      BY <2>1 DEF Deliver, SlotFreed
    <3>3. QED
      BY <3>1, <3>2, BeginQueueAttemptSound
  <2>2. QED
    BY <1>3, <2>1, SlotStillBusySound, SettleSound, ConsumerSound DEF Consume
<1>4. ASSUME NEW p \in Pollers, Visit(p) \/ PollEnds(p) PROVE JobsSound'
  <2>1. ASSUME NEW j \in Jobs, VisitIdle(p, j) \/ VisitPoll(p, j) PROVE JobsSound'
    BY <1>1, <2>1 DEF VisitIdle, VisitPoll
  <2>2. QED
    BY <1>4, <2>1, PollersSound DEF Visit
<1>5. CASE \/ \E q \in Requests : RequestEnds(q)
           \/ AlarmFires \/ AlarmEnds \/ KickEnds \/ CoordinatorRestart
           \/ UNCHANGED vars
  BY <1>1, <1>5 DEF RequestEnds, AlarmFires, AlarmEnds, KickEnds, CoordinatorRestart, vars
<1>6. CASE Next
  BY <1>2, <1>3, <1>4, <1>5, <1>6, OpenSound, ClockSound DEF Next
<1>7. QED
  BY <1>5, <1>6

\* Who works on a replay, while nobody cancels and no consumer crashes.
CalmInv == JobsSound /\ PolledAreFresh /\ DispatchLocked /\ RequestsLocked

\* Nothing is at work at first.
LEMMA InitCalm == Init => CalmInv
<1> SUFFICES ASSUME Init PROVE CalmInv
  OBVIOUS
<1>1. \A j \in Jobs : Carriers(message, j) = {}
  BY DEF Init, Carriers, Unsent
<1>2. JobsSound
  BY <1>1 DEF Init, JobsSound, Sound, Owns, Locked, Active, ActiveStatus, Absent
<1>3. PolledAreFresh /\ DispatchLocked /\ RequestsLocked
  BY DEF Init, PolledAreFresh, DispatchLocked, RequestsLocked, Idle, Unsent
<1>4. QED
  BY <1>2, <1>3 DEF CalmInv

\* Undisturbed, the invariant holds for ever.
LEMMA CalmInductive == ASSUME Undisturbed PROVE Spec => []CalmInv
<1>1. IInv /\ CalmInv /\ [Next]_vars => CalmInv'
  <2> SUFFICES ASSUME IInv, CalmInv, [Next]_vars PROVE CalmInv'
    OBVIOUS
  <2>1. JobsSound'
    BY NextSound DEF CalmInv
  <2>2. CASE Next
    BY <2>1, <2>2, NextPollsFresh, NextDispatchLocked, NextRequestsLocked DEF CalmInv
  <2>3. CASE UNCHANGED vars
    BY <2>1, <2>3 DEF vars, CalmInv, PolledAreFresh, DispatchLocked, RequestsLocked
  <2>4. QED
    BY <2>2, <2>3
<1>2. QED
  BY <1>1, InitCalm, Inductive, PTL DEF Spec

\* "Replay has already entered external dispatch and cannot be submitted again": while
\* nobody cancels a job, no consumer crashes and no send that throws reaches the queue,
\* all requests for a replay are made for one job.
THEOREM ReplaysAreDispatchedOnce ==
  ASSUME Undisturbed PROVE Spec => []ReplayDispatchedByOneJob
<1>1. CalmInv => ReplayDispatchedByOneJob
  BY DEF CalmInv, RequestsLocked, JobsSound, Sound, Owns, ReplayDispatchedByOneJob
<1>2. QED
  BY <1>1, CalmInductive, PTL
-----------------------------------------------------------------------------
(* What a step does to a job, and what that is in ProofLedger. *)

\* Where a record says that a job stands.
LEMMA PhaseOf ==
  ASSUME NEW rec \in JobRecord
  PROVE  /\ Phase(rec) = "none" <=> rec.status = "absent"
         /\ Phase(rec) = "open" <=> Active(rec)
         /\ Phase(rec) = "proved" <=> rec.status = "succeeded"
         /\ Phase(rec) = "failed" <=> rec.status = "failed"
         /\ Phase(rec) = "forgotten" <=> rec.status = "pruned"
         /\ Phase(rec) \in {"none", "open", "proved", "failed", "forgotten"}
<1>1. CASE rec.status = "absent"
  BY <1>1 DEF Phase, Active, ActiveStatus
<1>2. CASE Active(rec)
  BY <1>2 DEF Phase, Active, ActiveStatus
<1>3. CASE rec.status = "succeeded"
  BY <1>3 DEF Phase, Active, ActiveStatus
<1>4. CASE rec.status = "failed"
  BY <1>4 DEF Phase, Active, ActiveStatus
<1>5. CASE rec.status = "pruned"
  BY <1>5 DEF Phase, Active, ActiveStatus
<1>6. QED
  BY <1>1, <1>2, <1>3, <1>4, <1>5 DEF JobRecord, Active, ActiveStatus, TerminalStatus

\* The owner, where only one can be.
LEMMA OwnerIsOne ==
  ASSUME NEW set, NEW j, \A k \in set : k = j
  PROVE  Owner(set) = IF set = {} THEN NoJob ELSE j
BY DEF Owner

\* A step that takes and gives no lock changes no owner.
LEMMA OwnersKeep ==
  ASSUME \A k \in Jobs : Locked(job'[k]) <=> Locked(job[k])
  PROVE  OwnerIn(job') = OwnerIn(job)
<1>1. \A r : Owners(job', r) = Owners(job, r)
  BY DEF Owners
<1>2. QED
  BY <1>1 DEF OwnerIn

\* The ledger of the next state.
LEMMA NextLedger == PhaseIn(job)' = PhaseIn(job') /\ OwnerIn(job)' = OwnerIn(job')
BY DEF PhaseIn, Phase, Active, OwnerIn, Owner, Owners, Locked

OthersSame(j) == \A k \in Jobs \ {j} : job'[k] = job[k]

\* An active job is written and stays active; it may get a lock.
Rewrites(j) ==
  /\ Active(job[j]) /\ Active(job'[j]) /\ OthersSame(j)
  /\ Locked(job[j]) => Locked(job'[j])

\* An active job fails, or one that has handed over its replay succeeds.
Ends(j) ==
  /\ Active(job[j]) /\ OthersKept(j)
  /\ Locked(job'[j]) <=> Locked(job[j])
  /\ \/ job'[j].status = "failed"
     \/ job'[j].status = "succeeded" /\ Locked(job[j])

\* A job gets a replay that nobody works on.
Opens(j) ==
  /\ job[j].status \in {"absent", "failed"} /\ Active(job'[j]) /\ OthersSame(j)
  /\ ~Locked(job'[j])
  /\ \A k \in Jobs : ReplayOf[k] = ReplayOf[j] => ~Owns(job[k])

\* A job that has a prover did not fail for its age.
Mild(rec) == rec.prover # 0 => rec.error # "total_wall"

Effect(j) == (Rewrites(j) \/ Ends(j) \/ Opens(j)) /\ Mild(job'[j])

\* The one job that owns a replay is its owner.
LEMMA OwnerOf ==
  ASSUME NEW jobs, NEW j \in Jobs, Locked(jobs[j]),
         \A k \in Jobs : ReplayOf[k] = ReplayOf[j] /\ Locked(jobs[k]) => k = j
  PROVE  OwnerIn(jobs)[ReplayOf[j]] = j
<1>1. j \in Owners(jobs, ReplayOf[j]) /\ \A k \in Owners(jobs, ReplayOf[j]) : k = j
  BY DEF Owners
<1>2. QED
  BY <1>1, OwnerIsOne, ReplayAssumption DEF OwnerIn

\* A job that is not kept as it is was completed, and is forgotten.
LEMMA KeptPhases ==
  ASSUME IInv, JobsSound, NEW k \in Jobs, Kept(k)
  PROVE  /\ Locked(job'[k]) <=> Locked(job[k])
         /\ \/ PhaseIn(job')[k] = PhaseIn(job)[k]
            \/ /\ PhaseIn(job)[k] \in {"proved", "failed"}
               /\ PhaseIn(job')[k] = "forgotten"
<1>1. job[k] \in JobRecord /\ Sound(job, registry, age, message, k)
  BY DEF IInv, TypeOK, JobsSound
<1>2. CASE job'[k] = job[k]
  BY <1>2 DEF PhaseIn
<1>3. CASE age[k] = "expired" /\ job'[k] = Pruned(job[k])
  <2>1. Pruned(job[k]) \in JobRecord /\ Pruned(job[k]).status = "pruned" /\ Pruned(job[k]).lock = job[k].lock
    BY <1>1 DEF Pruned, JobRecord
  <2>2. job[k].status \in {"succeeded", "failed", "pruned"}
    BY <1>1, <1>3 DEF Sound, Active, JobRecord, TerminalStatus
  <2>3. Phase(job[k]) \in {"proved", "failed", "forgotten"} /\ Phase(job'[k]) = "forgotten"
    BY <1>1, <1>3, <2>1, <2>2, PhaseOf
  <2>4. QED
    BY <1>3, <2>1, <2>3 DEF PhaseIn, Locked
<1>4. QED
  BY <1>2, <1>3 DEF Kept

\* The jobs that are forgotten while job j moves on.
LEMMA KeptMoves ==
  ASSUME IInv, JobsSound, NEW j, \A k \in Jobs \ {j} : Kept(k)
  PROVE  \E gone \in SUBSET ({k \in Jobs : PhaseIn(job)[k] \in {"proved", "failed"}} \ {j}) :
           PhaseIn(job') = [k \in Jobs |-> IF k = j THEN PhaseIn(job')[k]
                                           ELSE IF k \in gone THEN "forgotten" ELSE PhaseIn(job)[k]]
<1> DEFINE gone == {k \in Jobs \ {j} : /\ PhaseIn(job)[k] \in {"proved", "failed"}
                                       /\ PhaseIn(job')[k] = "forgotten"}
<1>1. \A k \in Jobs \ {j} :
        PhaseIn(job')[k] = IF k \in gone THEN "forgotten" ELSE PhaseIn(job)[k]
  BY KeptPhases
<1>2. PhaseIn(job') = [k \in Jobs |-> PhaseIn(job')[k]]
  BY DEF PhaseIn
<1>3. gone \in SUBSET ({k \in Jobs : PhaseIn(job)[k] \in {"proved", "failed"}} \ {j})
  OBVIOUS
<1> HIDE DEF gone
<1>4. PhaseIn(job') = [k \in Jobs |-> IF k = j THEN PhaseIn(job')[k]
                                      ELSE IF k \in gone THEN "forgotten" ELSE PhaseIn(job)[k]]
  BY <1>1, <1>2
<1>5. QED
  BY <1>3, <1>4

\* The ledger moves, or stays.
LedgerStep ==
  \/ Ledger!Next
  \/ PhaseIn(job') = PhaseIn(job) /\ OwnerIn(job') = OwnerIn(job)

\* Pruning forgets jobs of the ledger, or none.
LEMMA MaintenanceInLedger ==
  ASSUME IInv, JobsSound, NoJob \notin Jobs, \A k \in Jobs : Kept(k)
  PROVE  LedgerStep
<1>1. \E gone \in SUBSET {k \in Jobs : PhaseIn(job)[k] \in {"proved", "failed"}} :
        PhaseIn(job') = [k \in Jobs |-> IF k \in gone THEN "forgotten" ELSE PhaseIn(job)[k]]
  <2>1. PICK gone \in SUBSET ({k \in Jobs : PhaseIn(job)[k] \in {"proved", "failed"}} \ {NoJob}) :
           PhaseIn(job') = [k \in Jobs |-> IF k = NoJob THEN PhaseIn(job')[k]
                                           ELSE IF k \in gone THEN "forgotten" ELSE PhaseIn(job)[k]]
    BY KeptMoves
  <2>2. [k \in Jobs |-> IF k = NoJob THEN PhaseIn(job')[k]
                        ELSE IF k \in gone THEN "forgotten" ELSE PhaseIn(job)[k]]
          = [k \in Jobs |-> IF k \in gone THEN "forgotten" ELSE PhaseIn(job)[k]]
    OBVIOUS
  <2>3. QED
    BY <2>1, <2>2
<1>2. OwnerIn(job') = OwnerIn(job)
  BY KeptPhases, OwnersKeep
<1>3. Ledger!Forget
  BY <1>1, <1>2, NextLedger DEF Ledger!Forget, Ledger!Completed
<1>4. QED
  BY <1>3 DEF LedgerStep, Ledger!Next

\* A job that ends is one step of the ledger.
LEMMA EndsInLedger ==
  ASSUME IInv, JobsSound, NEW j \in Jobs, job'[j] \in JobRecord, Ends(j)
  PROVE  LedgerStep
<1>1. job[j] \in JobRecord /\ Sound(job, registry, age, message, j)
  BY DEF IInv, TypeOK, JobsSound
<1>2. PhaseIn(job)[j] = "open"
  BY <1>1, PhaseOf DEF Ends, PhaseIn
<1>3. PICK gone \in SUBSET ({k \in Jobs : PhaseIn(job)[k] \in {"proved", "failed"}} \ {j}) :
        PhaseIn(job') = [k \in Jobs |-> IF k = j THEN PhaseIn(job')[k]
                                        ELSE IF k \in gone THEN "forgotten" ELSE PhaseIn(job)[k]]
  BY KeptMoves DEF Ends, OthersKept
<1>4. OwnerIn(job') = OwnerIn(job)
  BY KeptPhases, OwnersKeep DEF Ends, OthersKept
<1>5. ASSUME NEW to, PhaseIn(job')[j] = to
      PROVE  PhaseIn(job') = [k \in Jobs |-> IF k = j THEN to
                                             ELSE IF k \in gone THEN "forgotten" ELSE PhaseIn(job)[k]]
  BY <1>3, <1>5
<1>6. CASE job'[j].status = "failed"
  <2>1. PhaseIn(job')[j] = "failed"
    BY <1>6, PhaseOf DEF PhaseIn
  <2>2. PhaseIn(job') = [k \in Jobs |-> IF k = j THEN "failed"
                                        ELSE IF k \in gone THEN "forgotten" ELSE PhaseIn(job)[k]]
    BY <1>5, <2>1
  <2>3. Ledger!Fail(j)
    BY <1>2, <1>4, <2>2, NextLedger DEF Ledger!Fail, Ledger!Move, Ledger!Completed
  <2>4. QED
    BY <2>3 DEF LedgerStep, Ledger!Next
<1>7. CASE job'[j].status = "succeeded" /\ Locked(job[j])
  <2>1. PhaseIn(job')[j] = "proved"
    BY <1>7, PhaseOf DEF PhaseIn
  <2>2. PhaseIn(job') = [k \in Jobs |-> IF k = j THEN "proved"
                                        ELSE IF k \in gone THEN "forgotten" ELSE PhaseIn(job)[k]]
    BY <1>5, <2>1
  <2>3. OwnerIn(job)[ReplayOf[j]] = j
    BY <1>7, OwnerOf DEF JobsSound, Sound, Owns
  <2>4. Ledger!Prove(j)
    BY <1>2, <1>4, <2>2, <2>3, NextLedger DEF Ledger!Prove, Ledger!Move, Ledger!Completed
  <2>5. QED
    BY <2>4 DEF LedgerStep, Ledger!Next
<1>8. QED
  BY <1>6, <1>7 DEF Ends

\* So is a job that is opened, anew or again.
LEMMA OpensInLedger ==
  ASSUME IInv, JobsSound, NEW j \in Jobs, job'[j] \in JobRecord, Opens(j)
  PROVE  LedgerStep
<1>1. \A k \in Jobs : job[k] \in JobRecord
  BY DEF IInv, TypeOK
<1>2. PhaseIn(job)[j] \in {"none", "failed"} /\ PhaseIn(job')[j] = "open"
  BY <1>1, PhaseOf DEF Opens, PhaseIn
<1>3. \A k \in Jobs : ReplayOf[k] = ReplayOf[j] => PhaseIn(job)[k] # "open"
  BY <1>1, PhaseOf DEF Opens, PhaseIn, Owns
<1>4. OwnerIn(job)[ReplayOf[j]] = NoJob
  <2>1. Owners(job, ReplayOf[j]) = {}
    BY DEF Opens, Owners, Owns
  <2>2. QED
    BY <2>1, ReplayAssumption DEF OwnerIn, Owner
<1>5. OwnerIn(job') = OwnerIn(job)
  <2>1. ~Locked(job[j])
    BY DEF Opens, Owns
  <2>2. QED
    BY <2>1, OwnersKeep DEF Opens, OthersSame
<1>6. PhaseIn(job') = [k \in Jobs |-> IF k = j THEN "open"
                                      ELSE IF k \in {} THEN "forgotten" ELSE PhaseIn(job)[k]]
  BY <1>2 DEF Opens, OthersSame, PhaseIn
<1>7. \E gone \in SUBSET ({k \in Jobs : PhaseIn(job)[k] \in {"proved", "failed"}} \ {j}) :
        PhaseIn(job') = [k \in Jobs |-> IF k = j THEN "open"
                                        ELSE IF k \in gone THEN "forgotten" ELSE PhaseIn(job)[k]]
  <2>1. {} \in SUBSET ({k \in Jobs : PhaseIn(job)[k] \in {"proved", "failed"}} \ {j})
    OBVIOUS
  <2>2. QED
    BY <1>6, <2>1
<1>8. Ledger!Open(j)
  BY <1>2, <1>3, <1>4, <1>5, <1>7, NextLedger
  DEF Ledger!Open, Ledger!Idle, Ledger!Move, Ledger!Completed
<1>9. QED
  BY <1>8 DEF LedgerStep, Ledger!Next

\* So is an open job that gets its lock; any other rewriting is no step at all.
LEMMA RewritesInLedger ==
  ASSUME IInv, JobsSound, JobsSound', NEW j \in Jobs, job'[j] \in JobRecord, Rewrites(j)
  PROVE  LedgerStep
<1>1. \A k \in Jobs : job[k] \in JobRecord
  BY DEF IInv, TypeOK
<1>2. PhaseIn(job)[j] = "open" /\ PhaseIn(job')[j] = "open"
  BY <1>1, PhaseOf DEF Rewrites, PhaseIn
<1>3. PhaseIn(job') = PhaseIn(job)
  BY <1>2 DEF Rewrites, OthersSame, PhaseIn
<1>4. CASE Locked(job'[j]) <=> Locked(job[j])
  BY <1>3, <1>4, OwnersKeep DEF Rewrites, OthersSame, LedgerStep
<1>5. CASE Locked(job'[j]) /\ ~Locked(job[j])
  <2>1. \A k \in Jobs : ReplayOf[k] = ReplayOf[j] /\ Locked(job[k]) => k = j
    BY DEF JobsSound, Sound, Owns, Rewrites
  <2>2. Owners(job, ReplayOf[j]) = {} /\ Owners(job', ReplayOf[j]) = {j}
    BY <1>5, <2>1 DEF Owners, Rewrites, OthersSame
  <2>3. Owner({}) = NoJob /\ Owner({j}) = j
    BY OwnerIsOne
  <2>4. \A r \in Replays : r # ReplayOf[j] => Owners(job', r) = Owners(job, r)
    BY DEF Owners, Rewrites, OthersSame
  <2>5. OwnerIn(job)[ReplayOf[j]] = NoJob
    BY <2>2, <2>3, ReplayAssumption DEF OwnerIn
  <2>6. OwnerIn(job') = [OwnerIn(job) EXCEPT ![ReplayOf[j]] = j]
    BY <2>2, <2>3, <2>4, ReplayAssumption DEF OwnerIn
  <2>7. Ledger!HandOver(j)
    BY <1>2, <1>3, <2>5, <2>6, NextLedger DEF Ledger!HandOver
  <2>8. QED
    BY <2>7 DEF LedgerStep, Ledger!Next
<1>6. QED
  BY <1>4, <1>5 DEF Rewrites

\* An active job that fails, of its age only before it has a prover.
LEMMA FailEffect ==
  ASSUME IInv, NEW j \in Jobs, NEW rec \in JobRecord, NEW why \in Errors,
         rec.lock = job[j].lock, MarkFailed(j, rec, why), Active(job[j]),
         rec.prover = 0 \/ why # "total_wall"
  PROVE  Effect(j)
<1>1. Exists(j)
  BY DEF Exists, Active, ActiveStatus
<1>2. Fails(j)
  BY <1>1, MarkFailedWrites
<1>3. job'[j] = Failed(rec, why)
  BY <1>1, CompleteWrites DEF MarkFailed
<1>4. Failed(rec, why).prover = rec.prover /\ Failed(rec, why).error = why
  BY FailedRecord DEF Failed, JobRecord
<1>5. QED
  BY <1>2, <1>3, <1>4 DEF Fails, Effect, Ends, Mild, Locked

\* An active job that is written alone.
LEMMA RewriteEffect ==
  ASSUME IInv, NEW j \in Jobs, NEW rec, Active(job[j]), Active(rec), Mild(rec),
         Locked(job[j]) => Locked(rec), job' = [job EXCEPT ![j] = rec]
  PROVE  Effect(j)
<1>1. job'[j] = rec /\ OthersSame(j)
  BY DEF IInv, TypeOK, OthersSame
<1>2. QED
  BY <1>1 DEF Effect, Rewrites

\* markRetry() of a job that waits.
LEMMA RetryEffect ==
  ASSUME IInv, NEW j \in Jobs, Waits(job[j]), MarkRetry(j)
  PROVE  Effect(j)
<1> DEFINE new == [job[j] EXCEPT !.status = "retrying", !.lease = 0]
<1>1. job[j] \in JobRecord
  BY DEF IInv, TypeOK
<1>2. new.status = "retrying" /\ new.prover = 0 /\ new.lock = job[j].lock
  BY <1>1 DEF JobRecord, Waits
<1>3. job' = [job EXCEPT ![j] = new]
  BY DEF MarkRetry, Waits
<1> HIDE DEF new
<1>4. Active(job[j]) /\ Active(new) /\ Mild(new) /\ (Locked(job[j]) => Locked(new))
  BY <1>2 DEF Waits, Active, ActiveStatus, Locked, Mild
<1>5. QED
  BY <1>3, <1>4, RewriteEffect

\* The API opens a job for a replay that nobody works on.
LEMMA OpenEffect ==
  ASSUME IInv, JobsSound, NEW j \in Jobs, NEW b \in Backends, CreateJob(j) \/ RetryProof(j, b)
  PROVE  Effect(j) /\ job[j].prover = 0
<1>1. ReplayOf[j] \in Replays /\ job[j] \in JobRecord /\ ProverFits(j, job[j])
  BY ReplayAssumption DEF IInv, TypeOK, JobsFit
<1>2. /\ job[j].status \in {"absent", "failed"} /\ ~Active(job[j]) /\ ~Locked(job[j])
  BY DEF CreateJob, RetryProof, ProofRetryBlocked, Active, ActiveStatus, Absent, Locked
<1>3. registry[ReplayOf[j]] = NoRow \/ registry[ReplayOf[j]].job = j
  <2>1. CASE RetryProof(j, b)
    BY <2>1 DEF RetryProof
  <2>2. CASE CreateJob(j) /\ registry[ReplayOf[j]] # NoRow
    <3>1. job[registry[ReplayOf[j]].job].status = "pruned" /\ registry[ReplayOf[j]].state = "reserved"
      BY <2>2 DEF CreateJob, MayBeCreated
    <3>2. Active(job[registry[ReplayOf[j]].job])
      BY <1>1, <2>2, <3>1, ReservedRow
    <3>3. QED
      BY <3>1, <3>2 DEF Active, ActiveStatus
  <2>3. QED
    BY <2>1, <2>2
<1>4. \A k \in Jobs : ReplayOf[k] = ReplayOf[j] => ~Owns(job[k])
  BY <1>2, <1>3 DEF JobsSound, Sound, Owns
<1>5. \E rec : /\ rec.status = "queued" /\ rec.lock = "reserved" /\ rec.prover = 0
               /\ job' = [job EXCEPT ![j] = rec]
  <2>1. /\ [Absent EXCEPT !.status = "queued", !.lock = "reserved"].status = "queued"
        /\ [Absent EXCEPT !.status = "queued", !.lock = "reserved"].lock = "reserved"
        /\ [Absent EXCEPT !.status = "queued", !.lock = "reserved"].prover = 0
    BY DEF Absent
  <2> DEFINE new == [job[j] EXCEPT !.status = "queued", !.lease = 0, !.prover = 0,
                       !.error = "none", !.lock = "reserved", !.lockedBy = "none"]
  <2>2. new.status = "queued" /\ new.lock = "reserved" /\ new.prover = 0
    BY <1>1 DEF JobRecord
  <2>3. CreateJob(j) \/ job' = [job EXCEPT ![j] = new]
    BY DEF RetryProof
  <2> HIDE DEF new
  <2>4. QED
    BY <2>1, <2>2, <2>3 DEF CreateJob
<1>6. /\ job'[j].status = "queued" /\ job'[j].lock = "reserved" /\ job'[j].prover = 0
      /\ OthersSame(j)
  BY <1>5 DEF IInv, TypeOK, OthersSame
<1>7. job[j].prover = 0
  BY <1>1, <1>2 DEF ProverFits, Locked
<1>8. QED
  BY <1>2, <1>4, <1>6, <1>7 DEF Effect, Opens, Mild, Active, ActiveStatus, Locked

\* A consumer, or a sender, writes only the job of its message, which waits.
LEMMA ConsumerEffect ==
  ASSUME IInv, JobsSound, Undisturbed, NEW m \in Messages,
         \/ SendEnds(m) \/ SendFails(m) \/ SendLost(m) \/ Consume(m) \/ ConsumerCrash(m)
  PROVE  \/ UNCHANGED job
         \/ /\ message[m].job \in Jobs /\ Effect(message[m].job)
            /\ job[message[m].job].prover = 0
<1> DEFINE j == message[m].job
<1>1. message[m].at \notin {"unsent", "gone"}
  BY DEF SendEnds, SendFails, SendLost, Consume, Deliver, KickStaleSlot, SlotFreed,
         SlotStillBusy, Reject, PreflightFails, BeginExternalDispatch, Submit, SettleAccepted,
         SettleRetry, SettleFailed, ConsumerCrash, DeadLetter, InHand
<1>2. j \in Jobs /\ job[j] \in JobRecord /\ Waits(job[j]) /\ Active(job[j]) /\ job[j].prover = 0
  BY <1>1, OneDrop DEF Waits
<1>3. CASE \/ SendEnds(m) \/ SendLost(m) \/ ConsumerCrash(m) \/ KickStaleSlot(m)
           \/ PreflightFails(m) \/ Submit(m)
  BY <1>3 DEF SendEnds, SendLost, ConsumerCrash, KickStaleSlot, PreflightFails, Submit
<1>4. ASSUME \E why \in Errors : MarkFailed(j, job[j], why) PROVE Effect(j)
  BY <1>2, <1>4, FailEffect
<1>5. CASE SendFails(m) \/ Reject(m) \/ DeadLetter(m)
  BY <1>2, <1>4, <1>5 DEF SendFails, Reject, DeadLetter, Errors
<1>6. CASE SettleRetry(m) \/ SlotStillBusy(m)
  BY <1>2, <1>4, <1>6, RetryEffect DEF SettleRetry, SlotStillBusy, Errors
<1>7. CASE Deliver(m) \/ SlotFreed(m)
  <2> DEFINE held == [job[j] EXCEPT !.status = "dispatching", !.lease = m]
  <2>1. held.status = "dispatching" /\ held.prover = 0 /\ held.lock = job[j].lock
    BY <1>2 DEF JobRecord
  <2>2. UNCHANGED job \/ job' = [job EXCEPT ![j] = held]
    BY <1>2, <1>7 DEF Deliver, SlotFreed, BeginQueueAttempt
  <2> HIDE DEF held
  <2>3. Active(held) /\ Mild(held) /\ (Locked(job[j]) => Locked(held))
    BY <2>1 DEF Active, ActiveStatus, Locked, Mild
  <2>4. QED
    BY <1>2, <2>2, <2>3, RewriteEffect
<1>8. CASE BeginExternalDispatch(m)
  <2> DEFINE new == [job[j] EXCEPT !.lock = "dispatching", !.lockedBy = message[m].backend]
  <2>1. new.status = job[j].status /\ new.prover = 0 /\ new.lock = "dispatching"
    BY <1>2 DEF JobRecord
  <2>2. UNCHANGED job \/ job' = [job EXCEPT ![j] = new]
    BY <1>8 DEF BeginExternalDispatch
  <2> HIDE DEF new
  <2>3. QED
    BY <1>2, <2>1, <2>2, RewriteEffect DEF Active, Locked, Mild
<1>9. CASE SettleAccepted(m)
  <2> DEFINE new == [job[j] EXCEPT !.status = "prover_running", !.lease = 0,
                       !.prover = message[m].request, !.error = "none", !.lock = "dispatched"]
  <2>1. new.status = "prover_running" /\ new.error = "none" /\ new.lock = "dispatched"
    BY <1>2 DEF JobRecord
  <2>2. job' = [job EXCEPT ![j] = new]
    BY <1>2, <1>9 DEF SettleAccepted
  <2> HIDE DEF new
  <2>3. Active(new) /\ Mild(new) /\ Locked(new)
    BY <2>1 DEF Active, ActiveStatus, Locked, Mild
  <2>4. QED
    BY <1>2, <2>2, <2>3, RewriteEffect
<1>10. CASE SettleFailed(m)
  <2> DEFINE n == job[j].tries + 1
             rec == IF Locked(job[j]) THEN job[j] ELSE [job[j] EXCEPT !.tries = n]
             new == [rec EXCEPT !.status = "queued", !.lease = 0, !.prover = 0, !.error = "none"]
  <2>1. n \in Nat
    BY <1>2 DEF JobRecord
  <2>2. MarkFailed(j, rec, "other") \/ job' = [job EXCEPT ![j] = new]
    BY <1>2, <1>10 DEF SettleFailed, Requeue
  <2> HIDE DEF n
  <2>3. rec \in JobRecord /\ rec.lock = job[j].lock
    BY <1>2, <2>1 DEF JobRecord
  <2> HIDE DEF rec
  <2>4. new.status = "queued" /\ new.prover = 0 /\ new.lock = job[j].lock
    BY <2>3 DEF JobRecord
  <2> HIDE DEF new
  <2>5. CASE MarkFailed(j, rec, "other")
    BY <1>2, <2>3, <2>5, FailEffect DEF Errors
  <2>6. CASE job' = [job EXCEPT ![j] = new]
    <3>1. Active(new) /\ Mild(new) /\ (Locked(job[j]) => Locked(new))
      BY <2>4 DEF Active, ActiveStatus, Locked, Mild
    <3>2. QED
      BY <1>2, <2>6, <3>1, RewriteEffect
  <2>7. QED
    BY <2>2, <2>5, <2>6
<1>11. QED
  BY <1>2, <1>3, <1>5, <1>6, <1>7, <1>8, <1>9, <1>10 DEF Consume

\* Without Vast no kickAlarm() runs; no failed job is recovered, and the record that
\* alarm() holds is the stored one.
OnePoller ==
  /\ ~poller["kick"].running /\ poller["kick"].at = NoJob /\ recovering = {}
  /\ poller["alarm"].at # NoJob => job[poller["alarm"].at] = poller["alarm"].snap
  /\ \A j \in Jobs : Mild(job[j])

\* A job that is kept or pruned stays mild.
LEMMA KeptIsMild ==
  ASSUME IInv, OnePoller, NEW k \in Jobs, Kept(k)
  PROVE  Mild(job'[k])
<1>1. job[k] \in JobRecord /\ Mild(job[k])
  BY DEF IInv, TypeOK, OnePoller
<1>2. Pruned(job[k]).prover = job[k].prover /\ Pruned(job[k]).error = job[k].error
  BY <1>1 DEF Pruned, JobRecord
<1>3. QED
  BY <1>1, <1>2 DEF Kept, Mild

\* What a step does to one job, it does to no other.
LEMMA EffectKeeps ==
  ASSUME NEW j \in Jobs, Effect(j)
  PROVE  Mild(job'[j]) /\ \A k \in Jobs \ {j} : Kept(k)
BY DEF Effect, Rewrites, Ends, Opens, OthersSame, OthersKept, Kept

\* A step of somebody else leaves the job that alarm() polls as it is.
LEMMA OthersLeaveOnePoller ==
  ASSUME IInv, JobsSound, OnePoller, UNCHANGED <<poller, recovering>>,
         \/ \A k \in Jobs : Kept(k)
         \/ \E j \in Jobs : Effect(j) /\ job[j].prover = 0
  PROVE  OnePoller'
<1>1. \A k \in Jobs : Mild(job'[k])
  BY KeptIsMild, EffectKeeps
<1>2. ASSUME poller["alarm"].at # NoJob
      PROVE  job'[poller["alarm"].at] = poller["alarm"].snap
  <2> DEFINE k == poller["alarm"].at
  <2>1. k \in Jobs /\ job[k] = poller["alarm"].snap /\ Active(job[k])
    BY <1>2, WaitingPoller DEF OnePoller, Pollers
  <2>2. age[k] = "fresh"
    BY <2>1 DEF JobsSound, Sound
  <2>3. job[k].prover # 0
    BY <1>2, WaitingPoller DEF ProverFits, Pollers
  <2>4. Kept(k)
    BY <2>1, <2>3, EffectKeeps
  <2>5. QED
    BY <2>1, <2>2, <2>4 DEF Kept
<1>3. QED
  BY <1>1, <1>2 DEF OnePoller, Mild

\* What alarm() makes of an answer, or of an attempt that took too long.
LEMMA PollerEffect ==
  ASSUME IInv, OnePoller, NEW p \in Pollers, NEW j \in Jobs,
         VisitOvertime(p, j) \/ (PollEnds(p) /\ poller[p].at = j)
  PROVE  UNCHANGED job \/ Effect(j)
<1>1. CASE VisitOvertime(p, j)
  <2>1. /\ job[j] \in JobRecord /\ job[j].lock = "dispatched" /\ GiveUp(j, job[j])
        /\ Active(job[j])
    BY <1>1 DEF VisitOvertime, IInv, TypeOK, JobsFit, ProverFits
  <2>2. MarkFailed(j, job[j], "other")
    BY <2>1 DEF GiveUp, NoNextBackend, Locked
  <2>3. QED
    BY <2>1, <2>2, FailEffect DEF Errors
<1>2. CASE PollEnds(p) /\ poller[p].at = j
  <2> DEFINE snap == poller[p].snap
             retrying == [snap EXCEPT !.status = "retrying"]
  <2>1. p = "alarm" /\ j # NoJob
    BY <1>2 DEF PollEnds, PollRunning, PollError, PollGivesUp, PollFatal, PollSucceeds,
       OnePoller, Pollers
  <2>2. /\ job[j] = snap /\ snap \in JobRecord /\ snap.lock = "dispatched" /\ Active(job[j])
        /\ snap.prover \in Requests /\ Mild(snap)
    BY <1>2, <2>1, WaitingPoller DEF OnePoller
  <2>3. retrying.status = "retrying" /\ retrying.lock = "dispatched" /\ Mild(retrying)
    BY <2>2 DEF JobRecord, Mild
  <2>4. NoNextBackend(snap)
    BY <2>2 DEF NoNextBackend, Locked
  <2>5. \/ \E rec \in {snap, retrying} : job' = [job EXCEPT ![j] = rec]
        \/ UNCHANGED job
        \/ MarkFailed(j, snap, "other")
        \/ MarkFailed(j, job[j], "other")
        \/ MarkSucceeded(j, snap.prover)
    BY <1>2, <2>4 DEF PollEnds, PollRunning, PollError, PollGivesUp, PollFatal, PollSucceeds, GiveUp
  <2> HIDE DEF retrying
  <2>6. CASE \E rec \in {snap, retrying} : job' = [job EXCEPT ![j] = rec]
    <3>1. PICK rec \in {snap, retrying} : job' = [job EXCEPT ![j] = rec]
      BY <2>6
    <3>2. Active(rec) /\ Mild(rec) /\ Locked(rec)
      BY <2>2, <2>3 DEF Active, ActiveStatus, Locked
    <3>3. QED
      BY <2>2, <3>1, <3>2, RewriteEffect
  <2>7. CASE MarkFailed(j, snap, "other") \/ MarkFailed(j, job[j], "other")
    BY <2>2, <2>7, FailEffect DEF Errors
  <2>8. CASE MarkSucceeded(j, snap.prover)
    <3> DEFINE new == [job[j] EXCEPT !.status = "succeeded", !.lease = 0,
                         !.result = snap.prover, !.error = "none"]
    <3>1. new.error = "none"
      BY <2>2 DEF JobRecord
    <3>2. Complete(j, new)
      BY <2>8 DEF MarkSucceeded
    <3> HIDE DEF new
    <3>3. Mild(job'[j])
      BY <3>1, <3>2, CompleteWrites DEF Mild
    <3>4. Succeeds(j)
      BY <2>2, <2>8, MarkSucceededWrites
    <3>5. QED
      BY <2>2, <3>3, <3>4 DEF Succeeds, Effect, Ends, Locked
  <2>9. QED
    BY <2>5, <2>6, <2>7, <2>8
<1>3. QED
  BY <1>1, <1>2

\* A step of alarm() itself: it holds no record, or the one it has just loaded.
LEMMA AlarmKeepsOnePoller ==
  ASSUME IInv, OnePoller,
         \/ \E p \in Pollers : Visit(p) \/ PollEnds(p)
         \/ AlarmFires \/ AlarmEnds \/ KickEnds \/ CoordinatorRestart
  PROVE  /\ OnePoller'
         /\ UNCHANGED job \/ \E j \in Jobs : Effect(j)
<1>1. /\ poller \in [Pollers -> PollerRecord] /\ Pollers = {"alarm", "kick"}
      /\ poller["alarm"] \in PollerRecord /\ poller["kick"] \in PollerRecord
  BY DEF IInv, TypeOK, Pollers
<1>2. ASSUME UNCHANGED job \/ \E j \in Jobs : Effect(j)
      PROVE  \A k \in Jobs : Mild(job'[k])
  BY <1>2, KeptIsMild, EffectKeeps DEF Kept
<1>3. ASSUME UNCHANGED job \/ \E j \in Jobs : Effect(j), recovering' = {},
             ~poller'["kick"].running, poller'["kick"].at = NoJob,
             poller'["alarm"].at = NoJob
      PROVE  OnePoller'
  BY <1>2, <1>3 DEF OnePoller, Mild
<1>4. CASE AlarmFires \/ AlarmEnds \/ KickEnds \/ CoordinatorRestart
  <2>1. UNCHANGED job
    BY <1>4 DEF AlarmFires, AlarmEnds, KickEnds, CoordinatorRestart
  <2>2. ~KickEnds
    BY DEF KickEnds, Finished, OnePoller
  <2>3. CASE AlarmEnds \/ CoordinatorRestart
    <3>1. /\ recovering' = {} /\ ~poller'["kick"].running
          /\ poller'["kick"].at = NoJob /\ poller'["alarm"].at = NoJob
      BY <1>1, <2>3 DEF AlarmEnds, CoordinatorRestart, OnePoller, Idle
    <3>2. QED
      BY <1>3, <2>1, <3>1
  <2>4. CASE AlarmFires
    <3>1. /\ UNCHANGED recovering /\ poller'["kick"] = poller["kick"]
          /\ poller'["alarm"].at = poller["alarm"].at /\ poller'["alarm"].snap = poller["alarm"].snap
      BY <1>1, <2>4 DEF AlarmFires, PollerRecord
    <3>2. QED
      BY <2>1, <3>1 DEF OnePoller, Mild
  <2>5. QED
    BY <1>4, <2>1, <2>2, <2>3, <2>4
<1>5. ASSUME NEW p \in Pollers, NEW j \in Jobs, VisitIdle(p, j) \/ VisitOvertime(p, j)
      PROVE  OnePoller' /\ (UNCHANGED job \/ \E k \in Jobs : Effect(k))
  <2>1. UNCHANGED job \/ Effect(j)
    BY <1>5, PollerEffect DEF VisitIdle
  <2>2. p = "alarm" /\ poller["alarm"].at = NoJob
    BY <1>5 DEF VisitIdle, VisitOvertime, CanVisit, OnePoller, Pollers
  <2>3. /\ UNCHANGED recovering /\ poller'["kick"] = poller["kick"] /\ poller'["alarm"].at = NoJob
    BY <1>1, <1>5, <2>2 DEF VisitIdle, VisitOvertime, PollerRecord
  <2>4. QED
    BY <1>3, <2>1, <2>3 DEF OnePoller
<1>6. ASSUME NEW p \in Pollers, NEW j \in Jobs, VisitPoll(p, j)
      PROVE  OnePoller' /\ UNCHANGED job
  <2>1. UNCHANGED <<job, recovering>>
    BY <1>6 DEF VisitPoll
  <2>2. p = "alarm"
    BY <1>6 DEF VisitPoll, CanVisit, OnePoller, Pollers
  <2>3. /\ poller'["kick"] = poller["kick"]
        /\ poller'["alarm"].at = j /\ poller'["alarm"].snap = job[j]
    BY <1>1, <1>6, <2>2 DEF VisitPoll, PollerRecord
  <2>4. QED
    BY <2>1, <2>3 DEF OnePoller, Mild
<1>7. ASSUME NEW p \in Pollers, PollEnds(p)
      PROVE  OnePoller' /\ (UNCHANGED job \/ \E k \in Jobs : Effect(k))
  <2>1. poller[p].at # NoJob /\ Answered(p)
    BY <1>7 DEF PollEnds, PollRunning, PollError, PollGivesUp, PollFatal, PollSucceeds
  <2>2. p = "alarm" /\ poller[p].at \in Jobs
    BY <2>1, WaitingPoller DEF OnePoller, Pollers
  <2>3. UNCHANGED job \/ Effect(poller[p].at)
    BY <1>7, <2>2, PollerEffect
  <2>4. /\ UNCHANGED recovering /\ poller'["kick"] = poller["kick"] /\ poller'["alarm"].at = NoJob
    BY <1>1, <2>1, <2>2 DEF Answered, PollerRecord
  <2>5. QED
    BY <1>3, <2>2, <2>3, <2>4 DEF OnePoller
<1>8. QED
  BY <1>4, <1>5, <1>6, <1>7 DEF Visit

\* Every step, on the jobs.
LEMMA NextEffect ==
  ASSUME IInv, JobsSound, OnePoller, Undisturbed, "vast" \notin Backends, [Next]_vars
  PROVE  /\ OnePoller'
         /\ \/ \A k \in Jobs : Kept(k)
            \/ \E j \in Jobs : Effect(j)
<1>1. UNCHANGED job => \A k \in Jobs : Kept(k)
  BY DEF Kept
<1>2. ASSUME NEW j \in Jobs,
             \/ CreateJob(j) \/ Cancel(j) \/ Ages(j) \/ Expires(j)
             \/ RecoverStarts(j) \/ RecoverEnds(j)
             \/ \E b \in Backends : RetryProof(j, b)
      PROVE  /\ UNCHANGED <<poller, recovering>>
             /\ UNCHANGED job \/ (Effect(j) /\ job[j].prover = 0)
  <2>1. ~Cancel(j) /\ ~Ages(j)
    BY DEF Cancel, Ages, Spend, Undisturbed, IInv, TypeOK, Events
  <2>2. ~RecoverStarts(j) /\ ~RecoverEnds(j)
    BY DEF RecoverStarts, RecoverEnds, IsRecoverable, OnePoller, Mild
  <2>3. CASE Expires(j)
    BY <2>3 DEF Expires
  <2>4. CASE CreateJob(j) \/ \E b \in Backends : RetryProof(j, b)
    BY <2>4, OpenEffect, BackendsAssumption DEF CreateJob, RetryProof
  <2>5. QED
    BY <1>2, <2>1, <2>2, <2>3, <2>4
<1>3. ASSUME NEW m \in Messages,
             \/ SendEnds(m) \/ SendFails(m) \/ SendLost(m) \/ Consume(m) \/ ConsumerCrash(m)
      PROVE  /\ UNCHANGED <<poller, recovering>>
             /\ UNCHANGED job \/ \E j \in Jobs : Effect(j) /\ job[j].prover = 0
  <2>1. ~KickStaleSlot(m)
    BY DEF KickStaleSlot, IInv, TypeOK, MessageRecord
  <2>2. UNCHANGED <<poller, recovering>>
    BY <1>3, <2>1 DEF SendEnds, SendFails, SendLost, ConsumerCrash, Consume, Deliver, SlotFreed,
       SlotStillBusy, Reject, PreflightFails, BeginExternalDispatch, Submit, SettleAccepted,
       SettleRetry, SettleFailed, DeadLetter
  <2>3. QED
    BY <1>3, <2>2, ConsumerEffect
<1>4. CASE \/ \E q \in Requests : RequestEnds(q)
           \/ \E r \in Replays : ReservationLapses(r)
           \/ UNCHANGED vars
  BY <1>4 DEF RequestEnds, ReservationLapses, vars, OnePoller, Mild, Kept
<1>5. CASE RunMaintenance
  <2>1. UNCHANGED <<poller, recovering>> /\ \A k \in Jobs : Kept(k)
    BY <1>5 DEF RunMaintenance, Sweep, Kept
  <2>2. QED
    BY <2>1, OthersLeaveOnePoller
<1>6. CASE Next
  BY <1>1, <1>2, <1>3, <1>4, <1>5, <1>6, OthersLeaveOnePoller, AlarmKeepsOnePoller DEF Next
<1>7. QED
  BY <1>4, <1>6

\* ProofCoordinator implements ProofLedger: with Boundless alone, while nobody cancels a
\* job, no consumer crashes and no send that throws reaches the queue, every step of
\* consumers, pollers, routes and clocks is a step of the ledger or none at all.
THEOREM LedgerIsKept ==
  ASSUME Undisturbed, "vast" \notin Backends PROVE Spec => KeepsLedger
<1>1. Init => OnePoller
  BY DEF Init, OnePoller, Idle, Absent, Mild, Pollers
<1>2. IInv /\ CalmInv /\ OnePoller /\ [Next]_vars => OnePoller'
  BY NextEffect DEF CalmInv
<1>3. Init => Ledger!Init
  <2> SUFFICES ASSUME Init PROVE Ledger!Init
    OBVIOUS
  <2>1. \A j \in Jobs : job[j] \in JobRecord /\ Phase(job[j]) = "none" /\ ~Locked(job[j])
    BY InitIInv, PhaseOf DEF IInv, TypeOK, Init, Absent, Locked
  <2>2. \A r : Owners(job, r) = {}
    BY <2>1 DEF Owners
  <2>3. PhaseIn(job) = [j \in Jobs |-> "none"]
    BY <2>1 DEF PhaseIn
  <2>4. OwnerIn(job) = [r \in Replays |-> NoJob]
    BY <2>2 DEF OwnerIn, Owner
  <2>5. QED
    BY <2>3, <2>4 DEF Ledger!Init
<1>4. /\ IInv /\ CalmInv /\ OnePoller /\ [Next]_vars
      /\ IInv' /\ CalmInv'
      => [Ledger!Next]_<<PhaseIn(job), OwnerIn(job)>>
  <2> SUFFICES ASSUME IInv, CalmInv, OnePoller, [Next]_vars, IInv', CalmInv'
               PROVE  [Ledger!Next]_<<PhaseIn(job), OwnerIn(job)>>
    OBVIOUS
  <2>1. JobsSound /\ JobsSound' /\ \A j \in Jobs : job'[j] \in JobRecord
    BY DEF CalmInv, IInv, TypeOK
  <2>2. LedgerStep
    <3>1. CASE \A k \in Jobs : Kept(k)
      BY <2>1, <3>1, MaintenanceInLedger, NoJobAssumption
    <3>2. ASSUME NEW j \in Jobs, Effect(j) PROVE LedgerStep
      BY <2>1, <3>2, RewritesInLedger, EndsInLedger, OpensInLedger DEF Effect
    <3>3. QED
      BY <2>1, <3>1, <3>2, NextEffect
  <2>3. QED
    BY <2>2, NextLedger DEF LedgerStep
<1>5. QED
  BY <1>1, <1>2, <1>3, <1>4, Inductive, CalmInductive, PTL DEF Spec, KeepsLedger, Ledger!Spec
-----------------------------------------------------------------------------
(* What the ledger is for, for any jobs and replays, whoever implements it. *)

\* The strengthening of OneProofPerReplay: a proved job owns its replay.
ProvedByOwner ==
  \A j \in Jobs : PhaseIn(job)[j] = "proved" => OwnerIn(job)[ReplayOf[j]] = j

LedgerInv == Ledger!TypeOK /\ ProvedByOwner

\* The invariant holds in the initial states.
LEMMA LedgerStarts ==
  ASSUME Ledger!LedgerAssumption
  PROVE  Ledger!Init => LedgerInv
BY DEF Ledger!LedgerAssumption, Ledger!Init, LedgerInv, Ledger!TypeOK, Ledger!Phases,
       ProvedByOwner

\* A move leaves every other job where it is, or forgets it.
LEMMA MoveKeeps ==
  ASSUME Ledger!TypeOK, NEW j \in Jobs, NEW to \in Ledger!Phases, Ledger!Move(j, to)
  PROVE  /\ PhaseIn(job)' \in [Jobs -> Ledger!Phases]
         /\ PhaseIn(job)'[j] = to
         /\ \A k \in Jobs \ {j} : PhaseIn(job)'[k] \in {PhaseIn(job)[k], "forgotten"}
BY DEF Ledger!TypeOK, Ledger!Move, Ledger!Phases, Ledger!Completed

\* Every step of the ledger keeps the invariant.
LEMMA LedgerMoves ==
  ASSUME Ledger!LedgerAssumption
  PROVE  LedgerInv /\ [Ledger!Next]_<<PhaseIn(job), OwnerIn(job)>> => LedgerInv'
<1> SUFFICES ASSUME LedgerInv, [Ledger!Next]_<<PhaseIn(job), OwnerIn(job)>>
             PROVE  LedgerInv'
  OBVIOUS
<1> USE DEF Ledger!LedgerAssumption, LedgerInv, Ledger!TypeOK, ProvedByOwner
<1>1. ASSUME NEW j \in Jobs, Ledger!Open(j)
      PROVE  LedgerInv'
  <2>1. Ledger!Move(j, "open") /\ UNCHANGED OwnerIn(job)
    BY <1>1 DEF Ledger!Open
  <2>2. QED
    BY <2>1, MoveKeeps DEF Ledger!Phases
<1>2. ASSUME NEW j \in Jobs, Ledger!HandOver(j)
      PROVE  LedgerInv'
  <2>1. Ledger!TypeOK'
    BY <1>2 DEF Ledger!HandOver
  <2>2. \A k \in Jobs : PhaseIn(job)[k] = "proved" => ReplayOf[k] # ReplayOf[j]
    BY <1>2 DEF Ledger!HandOver
  <2>3. QED
    BY <1>2, <2>1, <2>2 DEF Ledger!HandOver
<1>3. ASSUME NEW j \in Jobs, Ledger!Prove(j)
      PROVE  LedgerInv'
  <2>1. Ledger!Move(j, "proved") /\ UNCHANGED OwnerIn(job) /\ OwnerIn(job)[ReplayOf[j]] = j
    BY <1>3 DEF Ledger!Prove
  <2>2. QED
    BY <2>1, MoveKeeps DEF Ledger!Phases
<1>4. ASSUME NEW j \in Jobs, Ledger!Fail(j)
      PROVE  LedgerInv'
  <2>1. Ledger!Move(j, "failed") /\ UNCHANGED OwnerIn(job)
    BY <1>4 DEF Ledger!Fail
  <2>2. QED
    BY <2>1, MoveKeeps DEF Ledger!Phases
<1>5. CASE Ledger!Forget
  BY <1>5 DEF Ledger!Forget, Ledger!Completed, Ledger!Phases
<1>6. CASE UNCHANGED <<PhaseIn(job), OwnerIn(job)>>
  BY <1>6
<1>7. QED
  BY <1>1, <1>2, <1>3, <1>4, <1>5, <1>6 DEF Ledger!Next

\* The ledger's variables keep their types.
THEOREM LedgerTypeCorrect ==
  ASSUME Ledger!LedgerAssumption
  PROVE  Ledger!Spec => []Ledger!TypeOK
<1>1. LedgerInv => Ledger!TypeOK
  BY DEF LedgerInv
<1>2. Ledger!Init => LedgerInv
  BY LedgerStarts
<1>3. LedgerInv /\ [Ledger!Next]_<<PhaseIn(job), OwnerIn(job)>> => LedgerInv'
  BY LedgerMoves
<1>4. QED
  BY <1>1, <1>2, <1>3, PTL DEF Ledger!Spec

\* Whatever the jobs and the replays are, two jobs never both prove a replay.
THEOREM LedgerSafe ==
  ASSUME Ledger!LedgerAssumption
  PROVE  Ledger!Spec => []Ledger!OneProofPerReplay
<1>1. LedgerInv => Ledger!OneProofPerReplay
  BY DEF LedgerInv, ProvedByOwner, Ledger!OneProofPerReplay
<1>2. Ledger!Init => LedgerInv
  BY LedgerStarts
<1>3. LedgerInv /\ [Ledger!Next]_<<PhaseIn(job), OwnerIn(job)>> => LedgerInv'
  BY LedgerMoves
<1>4. QED
  BY <1>1, <1>2, <1>3, PTL DEF Ledger!Spec

\* What the ledger is for holds of the program too: undisturbed, the coordinator never has two
\* succeeded jobs for one replay.  This does not need the ledger to be kept, and is true with
\* Vast as well: a proof is that of a request of its own job (applyPollResult), and all requests
\* for a replay are made for one job (beginExternalDispatch).
COROLLARY ReplaysAreProvedOnce ==
  ASSUME Undisturbed PROVE Spec => []Ledger!OneProofPerReplay
<1>1. TypeOK /\ ProofFromOwnRequest /\ ReplayDispatchedByOneJob => Ledger!OneProofPerReplay
  <2> SUFFICES ASSUME TypeOK, ProofFromOwnRequest, ReplayDispatchedByOneJob,
                      NEW j \in Jobs, NEW k \in Jobs, PhaseIn(job)[j] = "proved",
                      PhaseIn(job)[k] = "proved", ReplayOf[j] = ReplayOf[k]
               PROVE  j = k
    BY DEF Ledger!OneProofPerReplay
  <2>1. job[j].status = "succeeded" /\ job[k].status = "succeeded"
    BY PhaseOf DEF PhaseIn, TypeOK
  <2>2. /\ job[j].result \in Requests /\ job[k].result \in Requests
        /\ request[job[j].result].job = j /\ request[job[j].result].phase # "none"
        /\ request[job[k].result].job = k /\ request[job[k].result].phase # "none"
    BY <2>1 DEF TypeOK, JobRecord, ProofFromOwnRequest
  <2>3. QED
    BY <2>2 DEF ReplayDispatchedByOneJob
<1>2. QED
  BY <1>1, TypeCorrect, ProofsAreOwn, ReplaysAreDispatchedOnce, PTL
-----------------------------------------------------------------------------
(* The lease, with consumers that crash but do not outlive it. *)

\* As long as consumers are not slow, no failed job is retried, and Vast is not there to
\* clear the lease of a job that waits for its slot.
LeasesLast == SlowConsumers = FALSE /\ MaxRetries = 0 /\ "vast" \notin Backends

\* A consumer that has hold of a job that still waits has its lease.
Held ==
  \A m \in Messages : message[m].at \in Working =>
    /\ message[m].job \in Jobs /\ job[message[m].job].status # "absent"
    /\ Waits(job[message[m].job]) => job[message[m].job].lease = m
LeaseInv == Held /\ LeaseIsExclusive

NobodyWorksOn(k) == \A m \in Messages : message'[m].at \in Working => message'[m].job # k

\* A job that waits after the step waited before under the same lease, unless no
\* consumer has hold of it.
LeaseKept(k) ==
  /\ job'[k].status = "absent" => job[k].status = "absent"
  /\ \/ ~Waits(job'[k])
     \/ Waits(job[k]) /\ job'[k].lease = job[k].lease
     \/ NobodyWorksOn(k)

\* A step in which no consumer gets hold of a job.
LEMMA LeaseFrame ==
  ASSUME LeaseInv, NoneBegins, \A k \in Jobs : LeaseKept(k)
  PROVE  LeaseInv'
<1>1. \A m \in Messages : message'[m].at \in Working =>
        message[m].at \in Working /\ message'[m].job = message[m].job
  BY DEF NoneBegins
<1>2. LeaseIsExclusive'
  BY <1>1 DEF LeaseInv, LeaseIsExclusive, Working
<1>3. ASSUME NEW m \in Messages, message'[m].at \in Working
      PROVE  /\ message'[m].job \in Jobs /\ job'[message'[m].job].status # "absent"
             /\ Waits(job'[message'[m].job]) => job'[message'[m].job].lease = m
  <2>1. /\ message[m].job \in Jobs /\ message'[m].job = message[m].job
        /\ job[message[m].job].status # "absent"
        /\ Waits(job[message[m].job]) => job[message[m].job].lease = m
    BY <1>1, <1>3 DEF LeaseInv, Held
  <2>2. LeaseKept(message[m].job) /\ ~NobodyWorksOn(message[m].job)
    BY <1>3, <2>1 DEF NobodyWorksOn
  <2>3. QED
    BY <2>1, <2>2 DEF LeaseKept
<1>4. Held'
  BY <1>3 DEF Held, Waits, Active
<1>5. QED
  BY <1>2, <1>4 DEF LeaseInv

\* A job that is kept, or only pruned.
LEMMA KeptLease ==
  ASSUME IInv, NEW k \in Jobs, Kept(k)
  PROVE  LeaseKept(k)
<1>1. Pruned(job[k]).status = "pruned"
  BY DEF Pruned, IInv, TypeOK, JobRecord
<1>2. QED
  BY <1>1 DEF Kept, LeaseKept, Waits, Active, ActiveStatus

\* A step about job j, which waits for nothing any more, or which nobody works on.
LEMMA OneLease ==
  ASSUME IInv, LeaseInv, NoneBegins, NEW j \in Jobs, OthersKept(j), job'[j].status # "absent",
         ~Waits(job'[j]) \/ NobodyWorksOn(j)
  PROVE  LeaseInv'
BY KeptLease, LeaseFrame DEF OthersKept, LeaseKept

\* A step that leaves the jobs as they are.
LEMMA SameLease ==
  ASSUME IInv, LeaseInv, NoneBegins, UNCHANGED job
  PROVE  LeaseInv'
BY KeptLease, LeaseFrame DEF Kept

\* A failure.
LEMMA FailLease ==
  ASSUME IInv, LeaseInv, NoneBegins, NEW j \in Jobs, NEW rec \in JobRecord, NEW why \in Errors,
         rec.lock = job[j].lock, MarkFailed(j, rec, why)
  PROVE  LeaseInv'
<1>1. CASE UNCHANGED job
  BY <1>1, SameLease
<1>2. CASE Fails(j)
  BY <1>2, OneLease DEF Fails, Waits, Active, ActiveStatus
<1>3. QED
  BY <1>1, <1>2, MarkFailedWrites

\* The consumer that had hold of a job lets it go.
LEMMA LetGo ==
  ASSUME LeaseInv, NoneBegins, NEW m \in Messages, message[m].at \in Working,
         message'[m].at \notin Working
  PROVE  NobodyWorksOn(message[m].job)
<1> SUFFICES ASSUME NEW n \in Messages, message'[n].at \in Working, message'[n].job = message[m].job
             PROVE  FALSE
  BY DEF NobodyWorksOn
<1>1. message[n].at \in Working /\ message[n].job = message[m].job
  BY DEF NoneBegins
<1>2. n = m
  BY <1>1 DEF LeaseInv, LeaseIsExclusive, Working
<1>3. QED
  BY <1>2

\* beginQueueAttempt() gives the lease to one delivery, when nobody else has it.
LEMMA BeginLease ==
  ASSUME IInv, LeaseInv, LeasesLast, NEW m \in Messages, NEW n \in Nat,
         message[m].at \notin Working \cup {"unsent", "gone"},
         BeginQueueAttempt(m, n), UNCHANGED age
  PROVE  LeaseInv'
<1> DEFINE j == message[m].job
           running == [job[j] EXCEPT !.status = "prover_running", !.lease = 0]
           held == [job[j] EXCEPT !.status = "dispatching", !.lease = m]
           at == IF age[j] = "fresh" THEN "begun" ELSE "late"
           msg == [message[m] EXCEPT !.attempts = n, !.at = at]
           msgs == [message EXCEPT ![m].attempts = n]
<1>1. j \in Jobs /\ job[j] \in JobRecord /\ message[m] \in MessageRecord
  BY SentMessage
<1>2. /\ running.prover = job[j].prover /\ running.status = "prover_running"
      /\ held.prover = job[j].prover /\ held.lease = m /\ held.status = "dispatching"
  BY <1>1 DEF JobRecord
<1>3. msg.job = j /\ msg.at \in {"begun", "late"}
  BY <1>1 DEF MessageRecord
<1>4. \/ AckIn(msgs, m) /\ UNCHANGED job
      \/ job[j].prover # 0 /\ AckIn(msgs, m) /\ job' = [job EXCEPT ![j] = running]
      \/ /\ Active(job[j]) /\ job[j].prover = 0
         /\ job[j].lease \in {0, m} \/ MayBeStale(job[j])
         /\ job' = [job EXCEPT ![j] = held] /\ message' = [message EXCEPT ![m] = msg]
  BY <1>1 DEF BeginQueueAttempt, IInv, TypeOK
<1>5. AckIn(msgs, m) => NoneBegins
  BY QuietAcks
<1> HIDE DEF running, held, msg, msgs, j
<1>6. CASE AckIn(msgs, m) /\ UNCHANGED job
  BY <1>5, <1>6, SameLease
<1>7. CASE job[j].prover # 0 /\ AckIn(msgs, m) /\ job' = [job EXCEPT ![j] = running]
  <2>1. OthersKept(j) /\ job'[j] = running
    BY <1>1, <1>7, WriteKeepsOthers
  <2>2. QED
    BY <1>1, <1>2, <1>5, <1>7, <2>1, OneLease DEF Waits
<1>8. CASE /\ Active(job[j]) /\ job[j].prover = 0
           /\ job[j].lease \in {0, m} \/ MayBeStale(job[j])
           /\ job' = [job EXCEPT ![j] = held] /\ message' = [message EXCEPT ![m] = msg]
  <2>1. ASSUME NEW k \in Messages, message[k].at \in Working, message[k].job = j PROVE FALSE
    <3>1. job[j].lease = k
      BY <1>8, <2>1 DEF LeaseInv, Held, Waits
    <3>2. k # 0 /\ k # m
      BY <2>1 DEF Messages
    <3>3. message[k].at \in InHand
      BY <2>1 DEF Working, InHand
    <3>4. QED
      BY <1>8, <3>1, <3>2, <3>3 DEF MayBeStale, LeasesLast
  <2>2. \A k \in Messages : message'[k] = IF k = m THEN msg ELSE message[k]
    BY <1>8 DEF IInv, TypeOK
  <2>3. \A k \in Jobs : job'[k] = IF k = j THEN held ELSE job[k]
    BY <1>8 DEF IInv, TypeOK
  <2>4. LeaseIsExclusive'
    BY <1>3, <2>1, <2>2 DEF LeaseInv, LeaseIsExclusive, Working
  <2>5. ASSUME NEW k \in Messages, message'[k].at \in Working
        PROVE  /\ message'[k].job \in Jobs /\ job'[message'[k].job].status # "absent"
               /\ Waits(job'[message'[k].job]) => job'[message'[k].job].lease = k
    <3>1. CASE k = m
      BY <1>1, <1>2, <1>3, <2>2, <2>3, <3>1
    <3>2. CASE k # m
      <4>1. message'[k] = message[k] /\ message[k].job # j /\ message[k].job \in Jobs
        BY <2>1, <2>2, <2>5, <3>2 DEF LeaseInv, Held
      <4>2. job'[message[k].job] = job[message[k].job]
        BY <2>3, <4>1
      <4>3. QED
        BY <2>5, <4>1, <4>2 DEF LeaseInv, Held
    <3>3. QED
      BY <3>1, <3>2
  <2>6. Held'
    BY <2>5 DEF Held, Waits, Active
  <2>7. QED
    BY <2>4, <2>6 DEF LeaseInv
<1>9. QED
  BY <1>4, <1>6, <1>7, <1>8

\* Creating a job finds nobody at work on it; cancelling one ends the wait.
LEMMA ApiLease ==
  ASSUME IInv, LeaseInv, NEW j \in Jobs, CreateJob(j) \/ Cancel(j)
  PROVE  LeaseInv'
<1>1. job[j] \in JobRecord
  BY DEF IInv, TypeOK
<1>2. CASE Cancel(j)
  <2>1. NoneBegins /\ MarkFailed(j, job[j], "other")
    BY <1>2 DEF Cancel, NoneBegins
  <2>2. QED
    BY <1>1, <2>1, FailLease DEF Errors
<1>3. CASE CreateJob(j)
  <2> DEFINE new == [Absent EXCEPT !.status = "queued", !.lock = "reserved"]
  <2>1. new.status = "queued"
    BY DEF Absent
  <2>2. /\ job[j].status = "absent" /\ job' = [job EXCEPT ![j] = new] /\ UNCHANGED age
        /\ \E n \in Messages : message' = [message EXCEPT ![n] = NewMessage(j, Preferred, "sending")]
    <3>1. Absent.status = "absent"
      BY DEF Absent
    <3>2. QED
      BY <1>3, <3>1 DEF CreateJob
  <2> HIDE DEF new
  <2>3. NoneBegins
    BY <2>2, QuietWrite, BackendsAssumption DEF Preferred
  <2>4. OthersKept(j) /\ job'[j] = new
    BY <2>2, WriteKeepsOthers
  <2>5. NobodyWorksOn(j)
    BY <2>2, <2>3 DEF NobodyWorksOn, NoneBegins, LeaseInv, Held
  <2>6. QED
    BY <2>1, <2>3, <2>4, <2>5, OneLease
<1>4. QED
  BY <1>2, <1>3

\* Without Vast no delivery waits for the slot.
LEMMA NoSlot ==
  ASSUME IInv, LeasesLast, NEW m \in Messages
  PROVE  ~KickStaleSlot(m) /\ ~SlotStillBusy(m)
<1>1. message[m] \in MessageRecord /\ message[m].backend # "vast"
  BY DEF IInv, TypeOK, MessageRecord, LeasesLast
<1>2. \A j \in Jobs : ~OnVast(job[j])
  BY DEF IInv, TypeOK, JobRecord, RequestRecord, OnVast, Backend, LeasesLast
<1>3. QED
  BY <1>1, <1>2 DEF KickStaleSlot, SlotStillBusy, SlotBusy, ActiveJobs

\* The steps in which a message moves on and the job keeps its lease, or fails.
LEMMA ConsumerLease ==
  ASSUME IInv, LeaseInv, NEW m \in Messages,
         \/ SendEnds(m) \/ SendFails(m) \/ SendLost(m) \/ Reject(m) \/ PreflightFails(m)
         \/ Submit(m) \/ ConsumerCrash(m) \/ DeadLetter(m)
  PROVE  LeaseInv'
<1> DEFINE j == message[m].job
<1>1. message[m].at \notin {"unsent", "gone"}
  BY DEF SendEnds, SendFails, Reject, PreflightFails, Submit, SendLost, ConsumerCrash,
         DeadLetter, InHand
<1>2. /\ j \in Jobs /\ job[j] \in JobRecord /\ message[m] \in MessageRecord
      /\ message \in [Messages -> MessageRecord]
  BY <1>1, SentMessage DEF IInv, TypeOK
<1>3. CASE SendEnds(m)
  BY <1>3, QuietMove, SameLease DEF SendEnds, Working
<1>4. CASE PreflightFails(m)
  BY <1>4, QuietMove, SameLease DEF PreflightFails, Working
<1>5. CASE SendLost(m) \/ ConsumerCrash(m)
  BY <1>5, QuietWrite, SameLease DEF SendLost, ConsumerCrash
<1>6. CASE SendFails(m)
  <2>1. NoneBegins
    BY <1>6, QuietMove, QuietWrite DEF SendFails, Working
  <2>2. QED
    BY <1>2, <1>6, <2>1, FailLease DEF SendFails, Errors
<1>7. CASE Reject(m)
  <2>1. NoneBegins
    BY <1>7, QuietAcks DEF Reject
  <2>2. QED
    BY <1>2, <1>7, <2>1, FailLease DEF Reject, Errors
<1>8. CASE DeadLetter(m)
  <2>1. NoneBegins
    BY <1>8, QuietWrite DEF DeadLetter
  <2>2. CASE Active(job[j])
    BY <1>2, <1>8, <2>1, <2>2, FailLease DEF DeadLetter, Errors
  <2>3. CASE ~Active(job[j])
    BY <1>8, <2>1, <2>3, SameLease DEF DeadLetter, stored
  <2>4. QED
    BY <2>2, <2>3
<1>9. CASE Submit(m)
  <2>1. PICK o, q : \/ message' = [message EXCEPT ![m].at = "answered", ![m].outcome = o]
                   \/ message' = [message EXCEPT ![m].at = "answered", ![m].outcome = o,
                                                 ![m].request = q]
    BY <1>9 DEF Submit
  <2>2. message[m].at \in Working /\ UNCHANGED job
    BY <1>9 DEF Submit, Working
  <2>3. CASE message' = [message EXCEPT ![m].at = "answered", ![m].outcome = o]
    BY <2>2, <2>3, QuietMove, SameLease
  <2>4. CASE message' = [message EXCEPT ![m].at = "answered", ![m].outcome = o, ![m].request = q]
    BY <2>2, <2>4, QuietMove, SameLease
  <2>5. QED
    BY <2>1, <2>3, <2>4
<1>10. QED
  BY <1>3, <1>4, <1>5, <1>6, <1>7, <1>8, <1>9

\* beginExternalDispatch() leaves the lease where it is.
LEMMA DispatchLease ==
  ASSUME IInv, LeaseInv, NEW m \in Messages, BeginExternalDispatch(m)
  PROVE  LeaseInv'
<1> DEFINE j == message[m].job
           new == [job[j] EXCEPT !.lock = "dispatching", !.lockedBy = message[m].backend]
<1>1. /\ message[m].at \in Working /\ message[m].at \notin {"unsent", "gone"}
      /\ message \in [Messages -> MessageRecord] /\ message[m] \in MessageRecord
  BY DEF BeginExternalDispatch, Working, IInv, TypeOK
<1>2. j \in Jobs /\ job[j] \in JobRecord
  BY <1>1, SentMessage
<1>3. new.status = job[j].status /\ new.prover = job[j].prover /\ new.lease = job[j].lease
  BY <1>2 DEF JobRecord
<1>4. /\ UNCHANGED age
      /\ UNCHANGED job \/ job' = [job EXCEPT ![j] = new]
      /\ \/ message' = [message EXCEPT ![m].at = "dispatching"]
         \/ message' = [message EXCEPT ![m].at = "answered", ![m].outcome = "fatal"]
  BY DEF BeginExternalDispatch
<1> HIDE DEF new, j
<1>5. NoneBegins
  <2>1. CASE message' = [message EXCEPT ![m].at = "dispatching"]
    BY <1>1, <2>1 DEF NoneBegins, MessageRecord
  <2>2. CASE message' = [message EXCEPT ![m].at = "answered", ![m].outcome = "fatal"]
    BY <1>1, <2>2, QuietMove
  <2>3. QED
    BY <1>4, <2>1, <2>2
<1>6. CASE UNCHANGED job
  BY <1>5, <1>6, SameLease
<1>7. CASE job' = [job EXCEPT ![j] = new]
  <2>1. OthersKept(j) /\ job'[j] = new
    BY <1>2, <1>4, <1>7, WriteKeepsOthers
  <2>2. LeaseKept(j)
    BY <1>3, <2>1 DEF LeaseKept, Waits, Active
  <2>3. \A k \in Jobs : LeaseKept(k)
    BY <2>1, <2>2, KeptLease DEF OthersKept
  <2>4. QED
    BY <1>5, <2>3, LeaseFrame
<1>8. QED
  BY <1>4, <1>6, <1>7

\* The answer of the prover lets the job go, before anything else may hold it.
LEMMA SettleLease ==
  ASSUME IInv, LeaseInv, NEW m \in Messages, SettleAccepted(m) \/ SettleRetry(m) \/ SettleFailed(m)
  PROVE  LeaseInv'
<1> DEFINE j == message[m].job
<1>1. message[m].at = "answered" /\ message[m].at \notin {"unsent", "gone"} /\ message[m].at \in Working
  BY DEF SettleAccepted, SettleRetry, SettleFailed, Working
<1>2. /\ j \in Jobs /\ job[j] \in JobRecord /\ message[m] \in MessageRecord
      /\ job[j].status # "absent"
  BY <1>1, SentMessage DEF LeaseInv, Held
<1>3. CASE SettleAccepted(m)
  <2> DEFINE new == [job[j] EXCEPT !.status = "prover_running", !.lease = 0,
                       !.prover = message[m].request, !.error = "none", !.lock = "dispatched"]
  <2>1. new.status = "prover_running"
    BY <1>2 DEF JobRecord
  <2>2. NoneBegins /\ message'[m].at \notin Working
    BY <1>3, QuietAcks DEF SettleAccepted
  <2>3. NobodyWorksOn(j)
    BY <1>1, <2>2, LetGo
  <2>4. UNCHANGED age /\ (UNCHANGED job \/ job' = [job EXCEPT ![j] = new])
    BY <1>3 DEF SettleAccepted
  <2> HIDE DEF new, j
  <2>5. CASE UNCHANGED job
    BY <2>2, <2>5, SameLease
  <2>6. CASE job' = [job EXCEPT ![j] = new]
    BY <1>2, <2>1, <2>2, <2>3, <2>4, <2>6, WriteKeepsOthers, OneLease
  <2>7. QED
    BY <2>4, <2>5, <2>6
<1>4. CASE SettleRetry(m)
  <2>1. NoneBegins /\ message'[m].at \notin Working
    BY <1>4, QuietMove DEF SettleRetry, Working
  <2>2. NobodyWorksOn(j)
    BY <1>1, <2>1, LetGo
  <2>3. OthersKept(j) /\ job'[j].status # "absent"
    BY <1>2, <1>4, MarkRetryWrites DEF SettleRetry
  <2> HIDE DEF j
  <2>4. QED
    BY <1>2, <2>1, <2>2, <2>3, OneLease
<1>5. CASE SettleFailed(m)
  <2> DEFINE n == job[j].tries + 1
             rec == IF Locked(job[j]) THEN job[j] ELSE [job[j] EXCEPT !.tries = n]
             new == [rec EXCEPT !.status = "queued", !.lease = 0, !.prover = 0, !.error = "none"]
             next == NewMessage(j, NextBackend(message[m].backend), "sending")
  <2>1. n \in Nat /\ NextBackend(message[m].backend) \in Backends
    BY <1>2, NextBackendType DEF JobRecord, MessageRecord
  <2>2. \/ ~Active(job[j]) /\ Ack(m) /\ UNCHANGED stored
        \/ MarkFailed(j, rec, "other") /\ Ack(m)
        \/ /\ job' = [job EXCEPT ![j] = new] /\ UNCHANGED age
           /\ \E k \in Messages : Fresh(k) /\ AckIn([message EXCEPT ![k] = next], m)
    BY <1>5 DEF SettleFailed, Requeue
  <2>3. NoneBegins /\ message'[m].at \notin Working
    BY <1>2, <2>1, <2>2, QuietAcks
  <2>4. NobodyWorksOn(j)
    BY <1>1, <2>3, LetGo
  <2> HIDE DEF n
  <2>5. rec \in JobRecord /\ rec.lock = job[j].lock
    BY <1>2, <2>1 DEF JobRecord
  <2> HIDE DEF rec
  <2>6. new.status = "queued"
    BY <2>5 DEF JobRecord
  <2> HIDE DEF new, next, j
  <2>7. CASE UNCHANGED stored
    BY <2>3, <2>7, SameLease DEF stored
  <2>8. CASE MarkFailed(j, rec, "other")
    BY <1>2, <2>3, <2>5, <2>8, FailLease DEF Errors
  <2>9. CASE job' = [job EXCEPT ![j] = new] /\ UNCHANGED age
    BY <1>2, <2>3, <2>4, <2>6, <2>9, WriteKeepsOthers, OneLease
  <2>10. QED
    BY <2>2, <2>7, <2>8, <2>9
<1>6. QED
  BY <1>3, <1>4, <1>5

\* What the pollers, the recovery and the cron job write is not waiting, or was already.
LEMMA PollersLease ==
  ASSUME IInv, LeaseInv,
         \/ \E p \in Pollers, j \in Jobs : VisitOvertime(p, j)
         \/ \E p \in Pollers : PollEnds(p)
         \/ \E j \in Jobs : RecoverEnds(j)
         \/ RunMaintenance
  PROVE  LeaseInv'
<1>1. ASSUME UNCHANGED message PROVE NoneBegins
  BY <1>1 DEF NoneBegins
<1>2. ASSUME NEW p \in Pollers, NEW j \in Jobs, VisitOvertime(p, j) PROVE LeaseInv'
  <2>1. /\ job[j] \in JobRecord /\ ProverFits(j, job[j]) /\ GiveUp(j, job[j]) /\ job[j].prover # 0
    BY <1>2 DEF VisitOvertime, IInv, TypeOK, JobsFit
  <2>2. NoNextBackend(job[j])
    BY <2>1 DEF NoNextBackend, Locked, ProverFits
  <2>3. MarkFailed(j, job[j], "other") /\ NoneBegins
    BY <1>1, <2>1, <2>2 DEF GiveUp
  <2>4. QED
    BY <2>1, <2>3, FailLease DEF Errors
<1>3. ASSUME NEW p \in Pollers, PollEnds(p) PROVE LeaseInv'
  <2> DEFINE j == poller[p].at
             snap == poller[p].snap
             retrying == [snap EXCEPT !.status = "retrying"]
  <2>1. j # NoJob
    BY <1>3 DEF PollEnds, PollRunning, PollError, PollGivesUp, PollFatal, PollSucceeds
  <2>2. /\ j \in Jobs /\ snap \in JobRecord /\ snap.lock = "dispatched" /\ job[j] \in JobRecord
        /\ job[j].lock = "dispatched" /\ snap.prover \in Requests /\ snap.prover # 0
        /\ Active(snap)
    BY <2>1, WaitingPoller, BoundAssumption DEF ProverFits
  <2>3. retrying.prover = snap.prover /\ retrying.status = "retrying"
    BY <2>2 DEF JobRecord
  <2>4. NoNextBackend(snap)
    BY <2>2 DEF NoNextBackend, Locked
  <2>5. /\ UNCHANGED message
        /\ \/ UNCHANGED age /\ \E rec \in {snap, retrying} : job' = [job EXCEPT ![j] = rec]
           \/ UNCHANGED job
           \/ MarkFailed(j, snap, "other")
           \/ MarkFailed(j, job[j], "other")
           \/ MarkSucceeded(j, snap.prover)
    BY <1>3, <2>4 DEF PollEnds, PollRunning, PollError, PollGivesUp, PollFatal, PollSucceeds, GiveUp
  <2>6. NoneBegins
    BY <1>1, <2>5
  <2> HIDE DEF retrying
  <2>7. CASE UNCHANGED age /\ \E rec \in {snap, retrying} : job' = [job EXCEPT ![j] = rec]
    <3>1. PICK rec \in {snap, retrying} : job' = [job EXCEPT ![j] = rec]
      BY <2>7
    <3>2. OthersKept(j) /\ job'[j] = rec
      BY <2>2, <2>7, <3>1, WriteKeepsOthers
    <3>3. rec.prover # 0 /\ rec.status # "absent"
      BY <2>2, <2>3 DEF Active, ActiveStatus
    <3>4. QED
      BY <2>2, <2>6, <3>2, <3>3, OneLease DEF Waits
  <2>8. CASE UNCHANGED job
    BY <2>6, <2>8, SameLease
  <2>9. CASE MarkFailed(j, snap, "other") \/ MarkFailed(j, job[j], "other")
    <3>1. "other" \in Errors
      BY DEF Errors
    <3>2. QED
      BY <2>2, <2>6, <2>9, <3>1, FailLease
  <2>10. CASE MarkSucceeded(j, snap.prover)
    <3>1. OthersKept(j) /\ job'[j].status = "succeeded"
      BY <2>2, <2>10, MarkSucceededWrites DEF Succeeds
    <3>2. QED
      BY <2>2, <2>6, <3>1, OneLease DEF Waits, Active, ActiveStatus
  <2>11. QED
    BY <2>5, <2>7, <2>8, <2>9, <2>10
<1>4. ASSUME NEW j \in Jobs, RecoverEnds(j) PROVE LeaseInv'
  <2>1. /\ job[j].prover \in Requests /\ NoneBegins
    BY <1>1, <1>4 DEF RecoverEnds, IInv, RecoveringAreLocked, TypeOK, JobsFit, ProverFits, JobRecord
  <2>2. CASE MarkSucceeded(j, job[j].prover)
    <3>1. OthersKept(j) /\ job'[j].status = "succeeded"
      BY <2>1, <2>2, MarkSucceededWrites DEF Succeeds
    <3>2. QED
      BY <2>1, <3>1, OneLease DEF Waits, Active, ActiveStatus
  <2>3. CASE UNCHANGED stored
    BY <2>1, <2>3, SameLease DEF stored
  <2>4. QED
    BY <1>4, <2>2, <2>3 DEF RecoverEnds
<1>5. CASE RunMaintenance
  <2>1. NoneBegins
    BY <1>1, <1>5 DEF RunMaintenance
  <2>2. \A k \in Jobs : Kept(k)
    BY <1>5 DEF RunMaintenance, Sweep, Kept, IInv, TypeOK
  <2>3. QED
    BY <2>1, <2>2, KeptLease, LeaseFrame
<1>6. QED
  BY <1>2, <1>3, <1>4, <1>5

\* Every step keeps it.
LEMMA NextLease ==
  ASSUME IInv, LeaseInv, LeasesLast, [Next]_vars
  PROVE  LeaseInv'
<1>1. ASSUME UNCHANGED <<job, message>> PROVE LeaseInv'
  BY <1>1, SameLease DEF NoneBegins
<1>2. ASSUME NEW j \in Jobs,
             \/ CreateJob(j) \/ Cancel(j) \/ Ages(j) \/ Expires(j)
             \/ RecoverStarts(j) \/ RecoverEnds(j)
      PROVE  LeaseInv'
  <2>1. CASE CreateJob(j) \/ Cancel(j)
    BY <2>1, ApiLease
  <2>2. CASE RecoverEnds(j)
    BY <2>2, PollersLease
  <2>3. CASE Ages(j) \/ Expires(j) \/ RecoverStarts(j)
    BY <1>1, <2>3 DEF Ages, Expires, RecoverStarts
  <2>4. QED
    BY <1>2, <2>1, <2>2, <2>3
<1>3. ASSUME NEW j \in Jobs, NEW b \in Backends, RetryProof(j, b) PROVE FALSE
  <2>1. spent["retry"] \in Nat /\ spent["retry"] < 0
    BY <1>3 DEF RetryProof, Spend, LeasesLast, IInv, TypeOK, Events
  <2>2. QED
    BY <2>1
<1>4. ASSUME NEW m \in Messages,
             \/ SendEnds(m) \/ SendFails(m) \/ SendLost(m) \/ Consume(m) \/ ConsumerCrash(m)
      PROVE  LeaseInv'
  <2>1. CASE Deliver(m) \/ SlotFreed(m)
    <3>1. message[m].at \notin Working \cup {"unsent", "gone"} /\ UNCHANGED age
      BY <2>1 DEF Deliver, SlotFreed, Working
    <3>2. message[m].attempts \in Nat /\ message[m].attempts + 1 \in Nat
      BY DEF IInv, TypeOK, MessageRecord
    <3>3. BeginQueueAttempt(m, message[m].attempts + 1) \/ BeginQueueAttempt(m, message[m].attempts)
      BY <2>1 DEF Deliver, SlotFreed
    <3>4. QED
      BY <3>1, <3>2, <3>3, BeginLease
  <2>2. CASE KickStaleSlot(m) \/ SlotStillBusy(m)
    BY <2>2, NoSlot
  <2>3. CASE SettleAccepted(m) \/ SettleRetry(m) \/ SettleFailed(m)
    BY <2>3, SettleLease
  <2>4. CASE BeginExternalDispatch(m)
    BY <2>4, DispatchLease
  <2>5. CASE \/ SendEnds(m) \/ SendFails(m) \/ SendLost(m) \/ Reject(m) \/ PreflightFails(m)
             \/ Submit(m) \/ ConsumerCrash(m) \/ DeadLetter(m)
    BY <2>5, ConsumerLease
  <2>6. QED
    BY <1>4, <2>1, <2>2, <2>3, <2>4, <2>5 DEF Consume
<1>5. CASE \/ \E q \in Requests : RequestEnds(q)
           \/ \E r \in Replays : ReservationLapses(r)
           \/ AlarmFires \/ AlarmEnds \/ KickEnds \/ CoordinatorRestart
  BY <1>1, <1>5 DEF RequestEnds, ReservationLapses, AlarmFires, AlarmEnds, KickEnds,
     CoordinatorRestart
<1>6. CASE RunMaintenance
  BY <1>6, PollersLease
<1>7. ASSUME NEW p \in Pollers, Visit(p) \/ PollEnds(p) PROVE LeaseInv'
  <2>1. CASE PollEnds(p)
    BY <2>1, PollersLease
  <2>2. ASSUME NEW j \in Jobs, VisitOvertime(p, j) PROVE LeaseInv'
    BY <2>2, PollersLease
  <2>3. ASSUME NEW j \in Jobs, VisitIdle(p, j) \/ VisitPoll(p, j) PROVE LeaseInv'
    BY <1>1, <2>3 DEF VisitIdle, VisitPoll
  <2>4. QED
    BY <1>7, <2>1, <2>2, <2>3 DEF Visit
<1>8. CASE UNCHANGED vars
  BY <1>1, <1>8 DEF vars
<1>9. QED
  BY <1>2, <1>3, <1>4, <1>5, <1>6, <1>7, <1>8 DEF Next

\* Where no failed job is retried, no consumer outlives its lease and Vast is not in use,
\* at most one delivery of a job is between beginQueueAttempt() and the answer of the
\* prover, whatever crashes, is cancelled, overruns or is sent twice.
THEOREM LeasesAreExclusive ==
  ASSUME LeasesLast
  PROVE  Spec => []LeaseIsExclusive
<1>1. Init => LeaseInv
  BY DEF Init, LeaseInv, Held, LeaseIsExclusive, Unsent, Working
<1>2. IInv /\ LeaseInv /\ [Next]_vars => LeaseInv'
  BY NextLease
<1>3. LeaseInv => LeaseIsExclusive
  BY DEF LeaseInv
<1>4. QED
  BY Inductive, <1>1, <1>2, <1>3, PTL DEF Spec
=============================================================================
