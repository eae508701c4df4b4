----------------------- MODULE BoundlessRequestProofs -----------------------
(***************************************************************************)
(* Proofs about BoundlessRequest, for any calls, jobs, prices, block       *)
(* ranges and faults: a job owns at most one request, the proof it is      *)
(* given is about its own tape unless ids clash, the money a request       *)
(* counts on was sent, and a search of the logs has no gaps.               *)
(*                                                                         *)
(* Calls of different jobs share the wallet and the market, so what a call *)
(* has read of the balance soon is old.  What is proved rests on what only *)
(* grows: all that the wallet has ever put in, the requests that are out,  *)
(* and the ids of calls that have begun.                                   *)
(***************************************************************************)
EXTENDS BoundlessRequest, TLAPS

\* A call has made its id, which it keeps.
Knows(c) == call[c].at # "idle"

\* Calls of a job come one after the other, and none after the one the job knows of.
CallsFit ==
  /\ \A l \in logs : Knows(l.call)
  /\ \A j \in Jobs : accepted[j] # None =>
       /\ call[accepted[j]].at = "done" /\ call[accepted[j]].answer = "success"
       /\ JobOf(accepted[j]) = j
  /\ \A c \in Calls :
       /\ call[c].answer = "success" => call[c].at = "answered" \/ accepted[JobOf(c)] = c
       /\ call[c].at = "answered" => call[c].answer = "success"
       /\ call[c].at \in {"funding", "deposit", "transport"} => call[c].answer = "none"
       /\ call[c].at = "idle" => call[c].answer = "none" /\ ~call[c].funded
  /\ \A c, d \in Calls : JobOf(c) = JobOf(d) /\ UnderWay(c) =>
       /\ accepted[JobOf(c)] = None
       /\ UnderWay(d) => c = d

\* A request that is out was sent by a call that has begun.
Out == wallet.requests \cup market.requests \cup stream
OutFits == \A c \in Out : Knows(c)

\* The deposit a call is about to make covers what the market lacks.
FundingFits ==
  \A c \in Calls :
    /\ call[c].at = "deposit" => call[c].price <= PutIn + call[c].deficit
    /\ call[c].funded => call[c].price <= PutIn

\* What a search has left behind holds no log of its request.
PollFits ==
  /\ \A l \in logs : l.block <= block
  /\ poll.at # "idle" =>
       poll.job \in Jobs /\ accepted[poll.job] # None /\ delivered[poll.job] = None
  /\ poll.at = "search" =>
       /\ poll.upto <= block
       /\ \A l \in logs : Id(l) = IdOf(poll.job) => l.block \notin (poll.to + 1) .. poll.upto

\* A delivered proof is that of a request with the id of one of the job's.
DeliveredFits ==
  \A j \in Jobs : delivered[j] # None =>
    \E c, d \in Calls : /\ JobOf(c) = j /\ JobOf(d) = delivered[j] /\ call[c].id = call[d].id
                        /\ Knows(c) /\ Knows(d)

BoundlessInv ==
  TypeOK /\ CallsFit /\ OutFits /\ FundingFits /\ PollFits /\ DeliveredFits
-----------------------------------------------------------------------------
\* Prices and deposits are amounts, and a deposit covers its deficit.
LEMMA Amounts ==
  /\ OfferPrices \subseteq Nat
  /\ \A deficit \in Nat : AutoDeposit(deficit) \in Nat /\ deficit <= AutoDeposit(deficit)
<1>1. ASSUME NEW n \in Nat, NEW d \in Nat \ {0} PROVE n \div d \in Nat
  OBVIOUS
<1>2. ASSUME NEW a \in Nat, NEW b \in Nat PROVE a * b \in Nat
  OBVIOUS
<1>3. ASSUME NEW ethPrice \in EthPrices PROVE UsdToWei(MaxUsd, ethPrice) \in Nat
  BY <1>1, <1>2, BoundlessAssumption DEF BoundlessAssumption, UsdToWei
<1>4. ASSUME NEW deficit \in Nat
      PROVE  AutoDeposit(deficit) \in Nat /\ deficit <= AutoDeposit(deficit)
  <2>1. deficit * BufferBps \in Nat
    BY <1>2, BoundlessAssumption DEF BoundlessAssumption
  <2>2. Buffer(deficit) \in Nat
    BY <1>1, <2>1 DEF Buffer
  <2>3. QED
    BY <2>2 DEF AutoDeposit
<1>5. QED
  BY <1>3, <1>4 DEF OfferPrices

\* The parser finds the journal in the event's data.
LEMMA JournalIsParsed ==
  ASSUME NEW j PROVE JournalOf(EventData(j)) = j
<1> DEFINE data == EventData(j)
<1>1. /\ Len(data) = 15
      /\ data[1] = 1 /\ data[5] = 1 /\ data[6] = 6 /\ data[7] = 12 /\ data[8] = 5
      /\ data[9] = 1 /\ data[11] = 2 /\ data[12] = 1 /\ data[13] = j /\ data[14] = 1
  BY DEF EventData
<1> HIDE DEF data
<1>2. QED
  BY <1>1 DEF JournalOf, WordAt, FitsIn, data

\* Nothing has been called yet.
LEMMA BoundlessInit == Init => BoundlessInv
<1> SUFFICES ASSUME Init PROVE BoundlessInv
  OBVIOUS
<1>1. ASSUME NEW j \in Jobs PROVE NewCall(j) \in CallRecord
  BY <1>1, BoundlessAssumption DEF NewCall, CallRecord, Steps, Nonces, BoundlessAssumption
<1>2. PICK job \in [Calls -> Jobs] : call = [c \in Calls |-> NewCall(job[c])]
  BY DEF Init
<1>3. \A c \in Calls : call[c] = NewCall(job[c]) /\ call[c] \in CallRecord
  BY <1>1, <1>2
<1>4. \A j \in Jobs : /\ NewCall(j).at = "idle" /\ NewCall(j).answer = "none"
                     /\ NewCall(j).funded = FALSE
  BY DEF NewCall
<1> HIDE DEF NewCall
<1>5. TypeOK
  BY <1>2, <1>3, BoundlessAssumption
  DEF Init, TypeOK, PollRecord, NoPoll, BoundlessAssumption
<1>6. CallsFit /\ OutFits /\ FundingFits
  BY <1>2, <1>3, <1>4, BoundlessAssumption
  DEF Init, CallsFit, OutFits, FundingFits, Out, Knows, UnderWay, BoundlessAssumption
<1>7. PollFits /\ DeliveredFits
  BY BoundlessAssumption DEF Init, PollFits, DeliveredFits, NoPoll, BoundlessAssumption
<1>8. QED
  BY <1>5, <1>6, <1>7 DEF BoundlessInv

\* What a step of submitRequest does: it moves one call, which has not ended, from the record
\* it has to the record new, and says what may be relied on of it.
Moves(c, new) ==
  /\ call' = [call EXCEPT ![c] = new]
  /\ new \in CallRecord /\ new.job = JobOf(c) /\ new.at # "idle" /\ call[c].at # "done"
  /\ Knows(c) => new.id = call[c].id
  /\ ~Knows(c) => MayBegin(c)
  /\ new.at \in {"funding", "deposit", "transport"} => new.answer = "none"
  /\ new.at = "answered" => UnderWay(c) /\ new.answer = "success"
  /\ new.answer = "success" /\ new.at # "answered" => accepted'[JobOf(c)] = c
  /\ \/ accepted' = accepted
     \/ /\ accepted' = [accepted EXCEPT ![JobOf(c)] = c] /\ UnderWay(c)
        /\ new.at = "done" /\ new.answer = "success"
  /\ new.at = "deposit" => new.price <= PutIn' + new.deficit
  /\ new.funded => new.price <= PutIn'

\* What it leaves alone, or only adds to.
Sends(c) ==
  /\ locked' \in SUBSET Jobs
  /\ wallet' \in [due : Nat, requests : SUBSET Calls] /\ stream' \in SUBSET Calls
  /\ wallet.due <= wallet'.due
  /\ wallet'.requests \cup stream' \subseteq Out \cup {c}
  /\ faults' \in Nat
  /\ UNCHANGED <<market, logs, block, poll, delivered>>

SubmitStep(c) == Sends(c) /\ \E new \in CallRecord : Moves(c, new)

\* All that was put in is a number, and what is sent adds to it.
LEMMA PutInGrows ==
  ASSUME TypeOK
  PROVE  /\ PutIn \in Nat
         /\ \A c \in Calls : Sends(c) => PutIn' \in Nat /\ PutIn <= PutIn'
BY DEF TypeOK, PutIn, Sends

\* A step of submitRequest keeps the invariant.
LEMMA SubmitKeepsInv ==
  ASSUME BoundlessInv, NEW c \in Calls, SubmitStep(c)
  PROVE  BoundlessInv'
<1> PICK new \in CallRecord : Moves(c, new)
  BY DEF SubmitStep
<1> USE DEF BoundlessInv
<1>1. Sends(c)
  BY DEF SubmitStep
<1>2. TypeOK
  OBVIOUS
<1>3. /\ call'[c] = new
      /\ \A d \in Calls : d # c => call'[d] = call[d]
      /\ call' \in [Calls -> CallRecord]
  BY <1>2 DEF TypeOK, Moves
<1>4. \A d \in Calls : JobOf(d)' = JobOf(d) /\ (Knows(d) => Knows(d)' /\ call'[d].id = call[d].id)
  BY <1>3 DEF Moves, JobOf, Knows
<1>5. JobOf(c) \in Jobs /\ call[c] \in CallRecord
  BY <1>2 DEF TypeOK, CallRecord, JobOf
<1>6. accepted' \in [Jobs -> Calls \cup {None}]
  BY <1>2, <1>5 DEF TypeOK, Moves
<1>7. TypeOK'
  BY <1>1, <1>2, <1>3, <1>6 DEF TypeOK, Sends
<1>8. CallsFit'
  <2> DEFINE Before == JobOf(c)
  <2>1. \A l \in logs' : Knows(l.call)'
    BY <1>1, <1>2, <1>4 DEF Sends, CallsFit, TypeOK
  <2>2. UnderWay(c) \/ MayBegin(c)
    BY DEF Moves, UnderWay, Knows
  <2>3. accepted[JobOf(c)] = None
    BY <2>2 DEF CallsFit, MayBegin
  <2>4. ASSUME NEW j \in Jobs, accepted'[j] # None
        PROVE  /\ call'[accepted'[j]].at = "done" /\ call'[accepted'[j]].answer = "success"
               /\ call'[accepted'[j]].job = j
    <3>1. CASE accepted'[j] = accepted[j]
      <4>1. accepted[j] \in Calls /\ accepted[j] # c
        BY <3>1, <2>4, <1>2 DEF TypeOK, CallsFit, Moves
      <4>2. QED
        BY <3>1, <4>1, <2>4, <1>3 DEF CallsFit, JobOf
    <3>2. CASE accepted'[j] # accepted[j]
      <4>1. j = JobOf(c) /\ accepted'[j] = c /\ new.at = "done" /\ new.answer = "success"
        BY <3>2, <1>2, <1>5 DEF Moves, TypeOK
      <4>2. QED
        BY <4>1, <1>3 DEF Moves
    <3>3. QED
      BY <3>1, <3>2
  <2>5. \A d \in Calls : JobOf(d) # JobOf(c) => accepted'[JobOf(d)] = accepted[JobOf(d)]
    BY <1>2, <1>5 DEF Moves, TypeOK, CallRecord, JobOf
  <2>6. ASSUME NEW d \in Calls
        PROVE  /\ call'[d].answer = "success" =>
                    call'[d].at = "answered" \/ accepted'[JobOf(d)'] = d
               /\ call'[d].at = "answered" => call'[d].answer = "success"
               /\ call'[d].at \in {"funding", "deposit", "transport"} => call'[d].answer = "none"
               /\ call'[d].at = "idle" => call'[d].answer = "none" /\ ~call'[d].funded
    <3>1. CASE d = c
      BY <3>1, <1>3, <1>4 DEF Moves
    <3>2. CASE d # c /\ JobOf(d) # JobOf(c)
      BY <3>2, <1>3, <1>4, <2>5 DEF CallsFit
    <3>3. CASE d # c /\ JobOf(d) = JobOf(c)
      <4>1. ~UnderWay(d)
        BY <3>3, <2>2 DEF CallsFit, MayBegin
      <4>2. call[d].answer # "success"
        BY <3>3, <4>1, <2>3, BoundlessAssumption DEF CallsFit, UnderWay, None, BoundlessAssumption
      <4>3. QED
        BY <3>3, <4>2, <1>3, <1>4 DEF CallsFit
    <3>4. QED
      BY <3>1, <3>2, <3>3
  <2>7. ASSUME NEW d \in Calls, NEW e \in Calls, JobOf(d)' = JobOf(e)', UnderWay(d)'
        PROVE  accepted'[JobOf(d)'] = None /\ (UnderWay(e)' => d = e)
    <3>1. JobOf(d) = JobOf(e)
      BY <2>7, <1>4
    <3>2. CASE JobOf(d) # JobOf(c)
      <4>1. call'[d] = call[d] /\ call'[e] = call[e]
        BY <3>1, <3>2, <1>3
      <4>2. UnderWay(d) /\ (UnderWay(e)' => UnderWay(e))
        BY <2>7, <4>1 DEF UnderWay
      <4>3. QED
        BY <3>1, <3>2, <4>2, <2>5, <1>4 DEF CallsFit
    <3>3. CASE JobOf(d) = JobOf(c)
      <4>1. \A f \in Calls : f # c /\ JobOf(f) = JobOf(c) => ~UnderWay(f)
        BY <2>2 DEF CallsFit, MayBegin
      <4>2. \A f \in Calls : f # c /\ JobOf(f) = JobOf(c) => ~UnderWay(f)'
        BY <4>1, <1>3 DEF UnderWay
      <4>3. d = c /\ (UnderWay(e)' => e = c)
        BY <3>1, <3>3, <4>2, <2>7
      <4>4. new.at # "done"
        BY <2>7, <4>3, <1>3 DEF UnderWay
      <4>5. accepted'[JobOf(c)] = None
        BY <2>3, <4>4 DEF Moves
      <4>6. QED
        BY <4>3, <4>5, <1>4
    <3>4. QED
      BY <3>2, <3>3
  <2>8. QED
    BY <2>1, <2>4, <2>6, <2>7 DEF CallsFit, JobOf
<1>9. OutFits'
  <2>1. Out' \subseteq Out \cup {c}
    BY <1>1 DEF Sends, Out
  <2>2. Knows(c)'
    BY <1>3 DEF Moves, Knows
  <2>3. Out \subseteq Calls
    BY <1>2 DEF TypeOK, Out
  <2>4. QED
    BY <2>1, <2>2, <2>3, <1>4 DEF OutFits
<1>10. FundingFits'
  <2>1. PutIn \in Nat /\ PutIn' \in Nat /\ PutIn <= PutIn'
    BY <1>1, <1>2, PutInGrows
  <2>2. ASSUME NEW d \in Calls
        PROVE  /\ call'[d].at = "deposit" => call'[d].price <= PutIn' + call'[d].deficit
               /\ call'[d].funded => call'[d].price <= PutIn'
    <3>1. CASE d = c
      BY <3>1, <1>3 DEF Moves
    <3>2. CASE d # c
      <4>1. call'[d] = call[d] /\ call[d].price \in Nat /\ call[d].deficit \in Nat
        BY <3>2, <1>2, <1>3 DEF TypeOK, CallRecord
      <4>2. QED
        BY <4>1, <2>1 DEF FundingFits
    <3>3. QED
      BY <3>1, <3>2
  <2>3. QED
    BY <2>2 DEF FundingFits
<1>11. PollFits' /\ DeliveredFits'
  <2>1. \A l \in logs : Id(l)' = Id(l)
    BY <1>2, <1>4 DEF CallsFit, TypeOK, Id, Knows
  <2>2. ASSUME poll.at # "idle"
        PROVE  accepted'[poll.job] = accepted[poll.job] /\ IdOf(poll.job)' = IdOf(poll.job)
    <3>1. poll.job \in Jobs /\ accepted[poll.job] # None
      BY <2>2 DEF PollFits
    <3>2. accepted[poll.job] \in Calls /\ Knows(accepted[poll.job])
      BY <3>1, <1>2 DEF TypeOK, CallsFit, Knows
    <3>3. UnderWay(c) => poll.job # JobOf(c)
      BY <3>1 DEF CallsFit
    <3>4. accepted'[poll.job] = accepted[poll.job]
      BY <3>1, <3>3, <1>2, <1>5 DEF Moves, TypeOK
    <3>5. QED
      BY <3>2, <3>4, <1>1, <1>4 DEF IdOf, Sends
  <2>3. PollFits'
    BY <2>1, <2>2, <1>1 DEF PollFits, Sends
  <2>4. DeliveredFits'
    BY <1>1, <1>4 DEF DeliveredFits, Sends
  <2>5. QED
    BY <2>3, <2>4
<1>12. QED
  BY <1>7, <1>8, <1>9, <1>10, <1>11

\* What the record of a call may become.
LEMMA RecordTypes ==
  ASSUME NEW rec \in CallRecord
  PROVE  /\ \A answer \in {"retry", "fatal", "crashed", "unowned"} :
              Ended(rec, answer) \in CallRecord
         /\ Funded(rec) \in CallRecord /\ Succeeded(rec) \in CallRecord
         /\ \A b \in BOOLEAN : AfterFundingError(rec, b) \in CallRecord
         /\ \A b \in BOOLEAN : AfterSendError(rec, b) \in CallRecord
         /\ NextTransport(rec) \in CallRecord
<1>1. 1 \in 1 .. MaxTries /\ 0 \in Nonces /\ 0 \in Nat
  BY BoundlessAssumption DEF BoundlessAssumption, Nonces
<1>2. NewCall(rec.job) \in CallRecord
  BY <1>1 DEF NewCall, CallRecord, Steps
<1>3. \A r \in CallRecord, answer \in {"retry", "fatal", "crashed", "unowned"} :
        Ended(r, answer) \in CallRecord
  BY <1>1 DEF NewCall, CallRecord, Steps, Ended
<1>4. Funded(rec) \in CallRecord
  BY <1>1 DEF CallRecord, Steps, Funded
<1>5. Succeeded(rec) \in CallRecord
  BY <1>1 DEF NewCall, CallRecord, Steps, Succeeded
<1>6. ASSUME NEW b \in BOOLEAN PROVE (rec.retryable \/ b) \in BOOLEAN
  OBVIOUS
<1>7. rec.tries < MaxTries => rec.tries + 1 \in 1 .. MaxTries
  BY BoundlessAssumption DEF BoundlessAssumption, CallRecord
<1>8. ASSUME NEW b \in BOOLEAN PROVE AfterFundingError(rec, b) \in CallRecord
  <2>1. CASE rec.tries < MaxTries
    BY <2>1, <1>7 DEF AfterFundingError, CallRecord, Steps
  <2>2. CASE ~(rec.tries < MaxTries)
    <3> DEFINE moved ==
          [rec EXCEPT !.at = "transport", !.tries = 1, !.deficit = 0, !.plan = "attached"]
    <3>1. moved \in CallRecord
      BY <1>1 DEF CallRecord, Steps
    <3>2. AfterFundingError(rec, b) = [moved EXCEPT !.retryable = rec.retryable \/ b]
      BY <2>2 DEF AfterFundingError, CallRecord
    <3> HIDE DEF moved
    <3>3. [moved EXCEPT !.retryable = rec.retryable \/ b] \in CallRecord
      BY <3>1, <1>6 DEF CallRecord
    <3>4. QED
      BY <3>2, <3>3
  <2>3. QED
    BY <2>1, <2>2
<1>9. ASSUME NEW r \in CallRecord PROVE NextTransport(r) \in CallRecord
  <2>1. [r EXCEPT !.via = "stream", !.tries = 1] \in CallRecord
    BY <1>1 DEF CallRecord
  <2>2. [r EXCEPT !.plan = "attached", !.via = "chain", !.tries = 1] \in CallRecord
    BY <1>1 DEF CallRecord
  <2>3. Ended(r, "retry") \in CallRecord /\ Ended(r, "fatal") \in CallRecord
    BY <1>3
  <2>4. QED
    BY <2>1, <2>2, <2>3 DEF NextTransport
<1>10. ASSUME NEW b \in BOOLEAN PROVE AfterSendError(rec, b) \in CallRecord
  <2> DEFINE seen == [rec EXCEPT !.retryable = rec.retryable \/ b]
  <2>1. seen \in CallRecord /\ seen.tries = rec.tries
    BY <1>6 DEF CallRecord
  <2> HIDE DEF seen
  <2>2. rec.tries < MaxTries => [seen EXCEPT !.tries = seen.tries + 1] \in CallRecord
    BY <2>1, <1>7 DEF CallRecord
  <2>3. AfterSendError(rec, b) =
          IF rec.tries < MaxTries THEN [seen EXCEPT !.tries = seen.tries + 1]
          ELSE NextTransport(seen)
    BY DEF AfterSendError, seen
  <2>4. QED
    BY <2>1, <2>2, <2>3, <1>9
<1>11. QED
  BY <1>3, <1>4, <1>5, <1>8, <1>9, <1>10

\* An error of the funding keeps the job, id and price of a call; it is not over.
LEMMA FundingErrorFields ==
  ASSUME NEW rec \in CallRecord, rec.answer = "none", NEW b \in BOOLEAN
  PROVE  LET r == AfterFundingError(rec, b)
         IN  /\ r.job = rec.job /\ r.id = rec.id /\ r.price = rec.price
             /\ r.at \in {"funding", "transport"} /\ r.answer = "none"
             /\ (r.funded => rec.funded)
BY DEF AfterFundingError, CallRecord

\* After a transport, whether it has failed or is only advisory, a call goes on or is over.
LEMMA SendErrorFields ==
  ASSUME NEW rec \in CallRecord, rec.at = "transport", rec.answer = "none"
  PROVE  \A b \in BOOLEAN : \A r \in {AfterSendError(rec, b), NextTransport(rec)} :
           /\ r.job = rec.job /\ r.id = rec.id /\ r.at \in {"transport", "done"}
           /\ r.answer \in {"none", "retry", "fatal"} /\ (r.at # "done" => r.answer = "none")
           /\ (r.funded => rec.funded /\ r.price = rec.price)
<1>1. ASSUME NEW r \in CallRecord, r.at = "transport", r.answer = "none"
      PROVE  LET n == NextTransport(r)
             IN  /\ n.job = r.job /\ n.id = r.id /\ n.at \in {"transport", "done"}
                 /\ n.answer \in {"none", "retry", "fatal"}
                 /\ (n.at # "done" => n.answer = "none")
                 /\ (n.funded => r.funded /\ n.price = r.price)
  BY <1>1 DEF NextTransport, Ended, NewCall, CallRecord
<1>2. ASSUME NEW b \in BOOLEAN
      PROVE  LET r == AfterSendError(rec, b)
             IN  /\ r.job = rec.job /\ r.id = rec.id /\ r.at \in {"transport", "done"}
                 /\ r.answer \in {"none", "retry", "fatal"}
                 /\ (r.at # "done" => r.answer = "none")
                 /\ (r.funded => rec.funded /\ r.price = rec.price)
  <2> DEFINE seen == [rec EXCEPT !.retryable = rec.retryable \/ b]
  <2>1. seen \in CallRecord
    BY DEF CallRecord
  <2>2. /\ seen.at = "transport" /\ seen.answer = "none" /\ seen.job = rec.job
        /\ seen.id = rec.id /\ seen.funded = rec.funded /\ seen.price = rec.price
    BY DEF CallRecord
  <2>3. AfterSendError(rec, b) =
          IF rec.tries < MaxTries THEN [seen EXCEPT !.tries = rec.tries + 1]
          ELSE NextTransport(seen)
    BY DEF AfterSendError, seen, CallRecord
  <2> HIDE DEF seen
  <2>4. CASE rec.tries < MaxTries
    BY <2>1, <2>2, <2>3, <2>4 DEF CallRecord
  <2>5. CASE ~(rec.tries < MaxTries)
    BY <2>1, <2>2, <2>3, <2>5, <1>1
  <2>6. QED
    BY <2>4, <2>5
<1>3. QED
  BY <1>1, <1>2
-----------------------------------------------------------------------------
(* Every action of submitRequest is such a step. *)

\* What is known of a call and of the market before a step.
LEMMA CallFacts ==
  ASSUME BoundlessInv, NEW c \in Calls
  PROVE  /\ call[c] \in CallRecord /\ call[c].job = JobOf(c)
         /\ MayBegin(c) => ~Knows(c) /\ call[c].at # "done"
         /\ UnderWay(c) => Knows(c) /\ call[c].at # "done"
         /\ call[c].funded => call[c].price <= PutIn
         /\ call[c].at \in {"funding", "deposit", "transport"} =>
              UnderWay(c) /\ call[c].answer = "none"
         /\ market.balance \in Nat /\ wallet.due \in Nat
         /\ PutIn \in Nat /\ market.balance <= PutIn
BY PutInGrows
DEF BoundlessInv, TypeOK, CallRecord, JobOf, MayBegin, Knows, UnderWay, FundingFits, CallsFit,
    PutIn

\* Actions that leave what others see of a call alone.
LEMMA QuietSends ==
  ASSUME BoundlessInv, NEW c \in Calls, locked' \in SUBSET Jobs, faults' \in Nat,
         UNCHANGED <<wallet, stream, chain, polling>>
  PROVE  Sends(c)
BY DEF BoundlessInv, TypeOK, Sends, Out, chain, polling

LEMMA FaultsCount == ASSUME BoundlessInv, Fails PROVE faults' \in Nat
BY DEF BoundlessInv, TypeOK, Fails

\* A call that ends, whatever of it is out, knows no success.
LEMMA EndingSteps ==
  ASSUME BoundlessInv, NEW c \in Calls, MayBegin(c) \/ UnderWay(c), Sends(c),
         NEW answer \in {"retry", "fatal", "crashed", "unowned"},
         call' = [call EXCEPT ![c] = Ended(call[c], answer)], UNCHANGED accepted
  PROVE  SubmitStep(c)
<1> DEFINE new == Ended(call[c], answer)
<1>1. /\ call[c] \in CallRecord /\ call[c].job = JobOf(c)
      /\ ~Knows(c) => MayBegin(c)
      /\ call[c].at # "done"
  BY CallFacts
<1>2. new \in CallRecord
  BY <1>1, RecordTypes
<1>3. /\ new.job = JobOf(c) /\ new.id = call[c].id /\ new.at = "done"
      /\ new.answer = answer /\ new.funded = FALSE
  BY <1>1 DEF Ended, NewCall, CallRecord
<1> HIDE DEF new
<1>4. Moves(c, new)
  BY <1>1, <1>2, <1>3 DEF Moves, new
<1>5. QED
  BY <1>2, <1>4 DEF SubmitStep

\* A call that goes on keeps its job and id and has no answer yet.
LEMMA GoingOnSteps ==
  ASSUME BoundlessInv, NEW c \in Calls, UnderWay(c), Sends(c), UNCHANGED accepted,
         NEW new \in CallRecord, call' = [call EXCEPT ![c] = new],
         new.job = JobOf(c), new.id = call[c].id,
         \/ new.at \in {"funding", "deposit", "transport"} /\ new.answer = "none"
         \/ new.at = "answered" /\ new.answer = "success"
         \/ new.at = "done" /\ new.answer \in {"retry", "fatal"},
         new.at = "deposit" => new.price <= PutIn' + new.deficit,
         new.funded => new.price <= PutIn'
  PROVE  SubmitStep(c)
<1>1. Knows(c) /\ call[c].at # "done"
  BY CallFacts
<1>2. Moves(c, new)
  BY <1>1 DEF Moves
<1>3. QED
  BY <1>2 DEF SubmitStep

LEMMA BuildRequestSteps ==
  ASSUME BoundlessInv, NEW c \in Calls, BuildRequest(c) PROVE SubmitStep(c)
<1>1. PICK price \in OfferPrices, nonce \in Nonces :
        call' = [call EXCEPT ![c].at = "funding", ![c].id = nonce, ![c].price = price]
  BY DEF BuildRequest
<1> DEFINE new == [call[c] EXCEPT !.at = "funding", !.id = nonce, !.price = price]
<1>2. MayBegin(c) /\ call[c] \in CallRecord /\ call[c].job = JobOf(c) /\ call[c].at # "done"
  BY CallFacts DEF BuildRequest
<1>3. call[c].answer = "none"
  BY <1>2 DEF MayBegin, BoundlessInv, CallsFit
<1>4. ~Knows(c)
  BY <1>2 DEF MayBegin, Knows
<1>5. call' = [call EXCEPT ![c] = new]
  BY <1>1, <1>2 DEF BoundlessInv, TypeOK
<1>6. new \in CallRecord
  BY <1>2, Amounts DEF CallRecord, Steps
<1>7. ~new.funded /\ new.at = "funding" /\ new.answer = "none" /\ new.job = JobOf(c)
  BY <1>2, <1>3 DEF MayBegin, BoundlessInv, CallsFit, CallRecord
<1>8. Sends(c)
  BY QuietSends DEF BuildRequest, BoundlessInv, TypeOK
<1> HIDE DEF new
<1>9. Moves(c, new)
  BY <1>2, <1>4, <1>5, <1>6, <1>7 DEF Moves, BuildRequest
<1>10. QED
  BY <1>6, <1>8, <1>9 DEF SubmitStep

LEMMA RequestNotBuiltSteps ==
  ASSUME BoundlessInv, NEW c \in Calls, RequestNotBuilt(c) PROVE SubmitStep(c)
<1>1. Sends(c)
  BY QuietSends, FaultsCount DEF RequestNotBuilt, BoundlessInv, TypeOK
<1>2. QED
  BY <1>1, EndingSteps
  DEF RequestNotBuilt, NoPrice, NoJwt, NoUpload, NoJournal, NoSignature

LEMMA AcceptedTooLateSteps ==
  ASSUME BoundlessInv, NEW c \in Calls, AcceptedTooLate(c) PROVE SubmitStep(c)
<1>1. Sends(c)
  BY QuietSends, FaultsCount DEF AcceptedTooLate, BoundlessInv, TypeOK
<1>2. QED
  BY <1>1, EndingSteps DEF AcceptedTooLate, UnderWay

LEMMA ConsumerCrashSteps ==
  ASSUME BoundlessInv, NEW c \in Calls, ConsumerCrash(c) PROVE SubmitStep(c)
<1>1. Sends(c)
  BY QuietSends, FaultsCount DEF ConsumerCrash, BoundlessInv, TypeOK
<1>2. QED
  BY <1>1, EndingSteps DEF ConsumerCrash

LEMMA DispatchFailsSteps ==
  ASSUME BoundlessInv, NEW c \in Calls, DispatchFails(c) PROVE SubmitStep(c)
<1>1. Sends(c)
  BY QuietSends, FaultsCount, CallFacts DEF DispatchFails, BoundlessInv, TypeOK, CallRecord
<1>2. QED
  BY <1>1, EndingSteps DEF DispatchFails, UnderWay

LEMMA BeginDispatchSteps ==
  ASSUME BoundlessInv, NEW c \in Calls, BeginDispatch(c) PROVE SubmitStep(c)
<1> DEFINE new == [call[c] EXCEPT !.dispatched = TRUE]
<1>1. /\ call[c] \in CallRecord /\ call[c].job = JobOf(c) /\ call[c].at = "transport"
      /\ UnderWay(c) /\ call[c].answer = "none" /\ (call[c].funded => call[c].price <= PutIn)
  BY CallFacts DEF BeginDispatch
<1>2. call' = [call EXCEPT ![c] = new]
  BY DEF BeginDispatch, BoundlessInv, TypeOK
<1>3. /\ new \in CallRecord /\ new.job = JobOf(c) /\ new.id = call[c].id
      /\ new.at = "transport" /\ new.answer = "none" /\ new.price = call[c].price
      /\ (new.funded => call[c].funded)
  BY <1>1 DEF CallRecord, Steps
<1>4. Sends(c) /\ PutIn' = PutIn
  BY <1>1, QuietSends DEF BeginDispatch, BoundlessInv, TypeOK, CallRecord, PutIn, chain
<1> HIDE DEF new
<1>5. new.funded => new.price <= PutIn'
  BY <1>1, <1>3, <1>4
<1>6. QED
  BY <1>1, <1>2, <1>3, <1>4, <1>5, GoingOnSteps DEF BeginDispatch

LEMMA ReadBalanceSteps ==
  ASSUME BoundlessInv, NEW c \in Calls, ReadBalance(c) PROVE SubmitStep(c)
<1>1. /\ call[c] \in CallRecord /\ call[c].job = JobOf(c) /\ call[c].at = "funding"
      /\ UnderWay(c) /\ call[c].answer = "none" /\ (call[c].funded => call[c].price <= PutIn)
      /\ market.balance \in Nat /\ PutIn \in Nat /\ market.balance <= PutIn
  BY CallFacts DEF ReadBalance
<1>2. Sends(c) /\ PutIn' = PutIn
  BY QuietSends DEF ReadBalance, BoundlessInv, TypeOK, PutIn, chain
<1>3. CASE market.balance < call[c].price
  <2> DEFINE new == [call[c] EXCEPT !.at = "deposit", !.deficit = call[c].price - market.balance]
  <2>1. call' = [call EXCEPT ![c] = new]
    BY <1>3 DEF ReadBalance, BoundlessInv, TypeOK
  <2>2. call[c].price - market.balance \in Nat
    BY <1>1, <1>3 DEF CallRecord
  <2>3. /\ new \in CallRecord /\ new.job = JobOf(c) /\ new.id = call[c].id
        /\ new.at = "deposit" /\ new.answer = "none" /\ new.price = call[c].price
        /\ new.deficit = call[c].price - market.balance /\ (new.funded => call[c].funded)
    BY <1>1, <2>2 DEF CallRecord, Steps
  <2> HIDE DEF new
  <2>4. call[c].price \in Nat
    BY <1>1 DEF CallRecord
  <2>5. new.price <= PutIn' + new.deficit
    BY <1>1, <1>2, <2>3, <2>4
  <2>6. new.funded => new.price <= PutIn'
    BY <1>1, <1>2, <2>3
  <2>7. QED
    BY <1>1, <1>2, <2>1, <2>3, <2>5, <2>6, GoingOnSteps DEF ReadBalance
<1>4. CASE ~(market.balance < call[c].price)
  <2> DEFINE new == Funded(call[c])
  <2>1. call' = [call EXCEPT ![c] = new]
    BY <1>4 DEF ReadBalance, BoundlessInv, TypeOK
  <2>2. new \in CallRecord
    BY <1>1, RecordTypes
  <2>3. /\ new.job = JobOf(c) /\ new.id = call[c].id
        /\ new.at = "transport" /\ new.answer = "none" /\ new.price = call[c].price
    BY <1>1 DEF CallRecord, Funded
  <2> HIDE DEF new
  <2>4. call[c].price \in Nat
    BY <1>1 DEF CallRecord
  <2>5. new.price <= PutIn'
    BY <1>1, <1>2, <1>4, <2>3, <2>4
  <2>6. QED
    BY <1>1, <1>2, <2>1, <2>2, <2>3, <2>5, GoingOnSteps DEF ReadBalance
<1>5. QED
  BY <1>3, <1>4

LEMMA ReadBalanceFailsSteps ==
  ASSUME BoundlessInv, NEW c \in Calls, ReadBalanceFails(c) PROVE SubmitStep(c)
<1>1. /\ call[c] \in CallRecord /\ call[c].job = JobOf(c) /\ call[c].at = "funding"
      /\ UnderWay(c) /\ call[c].answer = "none" /\ (call[c].funded => call[c].price <= PutIn)
  BY CallFacts DEF ReadBalanceFails
<1>2. Sends(c) /\ PutIn' = PutIn
  BY QuietSends, FaultsCount DEF ReadBalanceFails, BoundlessInv, TypeOK, PutIn, chain
<1>3. PICK b \in BOOLEAN : call' = [call EXCEPT ![c] = AfterFundingError(call[c], b)]
  BY DEF ReadBalanceFails, BoundlessInv, TypeOK
<1> DEFINE new == AfterFundingError(call[c], b)
<1>4. new \in CallRecord
  BY <1>1, RecordTypes
<1>5. /\ new.job = JobOf(c) /\ new.id = call[c].id /\ new.price = call[c].price
      /\ new.at \in {"funding", "transport"} /\ new.answer = "none"
      /\ (new.funded => call[c].funded)
  BY <1>1, FundingErrorFields
<1> HIDE DEF new
<1>6. new.funded => new.price <= PutIn'
  BY <1>1, <1>2, <1>5
<1>7. call' = [call EXCEPT ![c] = new]
  BY <1>3 DEF new
<1>8. QED
  BY <1>1, <1>2, <1>4, <1>5, <1>6, <1>7, GoingOnSteps DEF ReadBalanceFails

\* A deposit adds at least the deficit to what was put in.
LEMMA DepositAdds ==
  ASSUME BoundlessInv, NEW c \in Calls, call[c].at = "deposit",
         wallet' \in {wallet, Deposited(c)}, faults' \in Nat,
         UNCHANGED <<locked, accepted, chain, stream, polling>>
  PROVE  /\ Sends(c)
         /\ wallet' = Deposited(c) => call[c].price <= PutIn'
<1>1. call[c] \in CallRecord /\ PutIn \in Nat /\ wallet.due \in Nat
  BY CallFacts
<1>2. call[c].deficit \in Nat /\ call[c].price \in Nat
  BY <1>1 DEF CallRecord
<1> DEFINE sent == AutoDeposit(call[c].deficit)
<1>3. sent \in Nat /\ call[c].deficit <= sent
  BY <1>2, Amounts
<1> HIDE DEF sent
<1>4. Deposited(c) = [wallet EXCEPT !.due = wallet.due + sent]
  BY DEF Deposited, sent, BoundlessInv, TypeOK
<1>5. wallet \in [due : Nat, requests : SUBSET Calls]
  BY DEF BoundlessInv, TypeOK
<1>6. /\ Deposited(c) \in [due : Nat, requests : SUBSET Calls]
      /\ Deposited(c).due = wallet.due + sent /\ Deposited(c).requests = wallet.requests
  BY <1>3, <1>4, <1>5
<1>7. /\ wallet' \in [due : Nat, requests : SUBSET Calls] /\ wallet.due <= wallet'.due
      /\ wallet'.requests = wallet.requests
  BY <1>1, <1>3, <1>5, <1>6
<1>8. Sends(c)
  BY <1>7 DEF BoundlessInv, TypeOK, Sends, Out, chain, polling
<1>9. ASSUME wallet' = Deposited(c) PROVE call[c].price <= PutIn'
  <2>1. call[c].price <= PutIn + call[c].deficit
    BY DEF BoundlessInv, FundingFits
  <2>2. PutIn' = PutIn + sent
    BY <1>1, <1>3, <1>6, <1>9 DEF PutIn, chain, BoundlessInv, TypeOK
  <2>3. QED
    BY <1>1, <1>2, <1>3, <2>1, <2>2
<1>10. QED
  BY <1>8, <1>9

LEMMA DepositSteps ==
  ASSUME BoundlessInv, NEW c \in Calls, Deposit(c) PROVE SubmitStep(c)
<1> DEFINE new == Funded(call[c])
<1>1. /\ call[c] \in CallRecord /\ call[c].job = JobOf(c) /\ UnderWay(c)
      /\ call[c].answer = "none"
  BY CallFacts DEF Deposit
<1>2. Sends(c) /\ call[c].price <= PutIn'
  BY DepositAdds DEF Deposit, BoundlessInv, TypeOK
<1>3. new \in CallRecord
  BY <1>1, RecordTypes
<1>4. /\ new.job = JobOf(c) /\ new.id = call[c].id
      /\ new.at = "transport" /\ new.answer = "none" /\ new.price = call[c].price
  BY <1>1 DEF CallRecord, Funded
<1>5. call' = [call EXCEPT ![c] = new]
  BY DEF Deposit, BoundlessInv, TypeOK
<1> HIDE DEF new
<1>6. new.price <= PutIn'
  BY <1>2, <1>4
<1>7. QED
  BY <1>1, <1>2, <1>3, <1>4, <1>5, <1>6, GoingOnSteps DEF Deposit

LEMMA DepositFailsSteps ==
  ASSUME BoundlessInv, NEW c \in Calls, DepositFails(c) PROVE SubmitStep(c)
<1>1. /\ call[c] \in CallRecord /\ call[c].job = JobOf(c) /\ UnderWay(c)
      /\ call[c].answer = "none" /\ (call[c].funded => call[c].price <= PutIn)
  BY CallFacts DEF DepositFails
<1>2. Sends(c)
  BY DepositAdds, FaultsCount DEF DepositFails
<1>3. PutIn \in Nat /\ PutIn' \in Nat /\ PutIn <= PutIn' /\ call[c].price \in Nat
  BY <1>1, <1>2, PutInGrows DEF BoundlessInv, CallRecord
<1>4. PICK b \in BOOLEAN : call' = [call EXCEPT ![c] = AfterFundingError(call[c], b)]
  BY DEF DepositFails, BoundlessInv, TypeOK
<1> DEFINE new == AfterFundingError(call[c], b)
<1>5. new \in CallRecord
  BY <1>1, RecordTypes
<1>6. /\ new.job = JobOf(c) /\ new.id = call[c].id /\ new.price = call[c].price
      /\ new.at \in {"funding", "transport"} /\ new.answer = "none"
      /\ (new.funded => call[c].funded)
  BY <1>1, FundingErrorFields
<1> HIDE DEF new
<1>7. new.funded => new.price <= PutIn'
  BY <1>1, <1>3, <1>6
<1>8. call' = [call EXCEPT ![c] = new]
  BY <1>4 DEF new
<1>9. QED
  BY <1>1, <1>2, <1>5, <1>6, <1>7, <1>8, GoingOnSteps DEF DepositFails

\* What a transport sends is the call's request, with the price or without it.
LEMMA TransportSends ==
  ASSUME BoundlessInv, NEW c \in Calls, call[c].at = "transport",
         wallet' \in {wallet, SentOnChain(c)}, stream' \in {stream, stream \cup {c}},
         faults' \in Nat, UNCHANGED <<locked, accepted, chain, polling>>
  PROVE  /\ Sends(c)
         /\ PutIn \in Nat /\ PutIn' \in Nat /\ PutIn <= PutIn'
<1>1. call[c] \in CallRecord /\ wallet.due \in Nat
  BY CallFacts
<1>2. call[c].price \in Nat
  BY <1>1 DEF CallRecord
<1>3. wallet \in [due : Nat, requests : SUBSET Calls]
  BY DEF BoundlessInv, TypeOK
<1>4. /\ SentOnChain(c) \in [due : Nat, requests : SUBSET Calls]
      /\ wallet.due <= SentOnChain(c).due
      /\ SentOnChain(c).requests = wallet.requests \cup {c}
  <2>1. CASE call[c].plan = "attached"
    BY <1>1, <1>2, <1>3, <2>1 DEF SentOnChain
  <2>2. CASE call[c].plan # "attached"
    BY <1>1, <1>3, <2>2 DEF SentOnChain
  <2>3. QED
    BY <2>1, <2>2
<1>5. Sends(c)
  BY <1>1, <1>3, <1>4 DEF BoundlessInv, TypeOK, Sends, Out, chain, polling
<1>6. QED
  BY <1>5, PutInGrows DEF BoundlessInv

LEMMA SubmitOnChainSteps ==
  ASSUME BoundlessInv, NEW c \in Calls, SubmitOnChain(c) PROVE SubmitStep(c)
<1> DEFINE new == Succeeded(call[c])
<1>1. /\ call[c] \in CallRecord /\ call[c].job = JobOf(c) /\ UnderWay(c)
      /\ (call[c].funded => call[c].price <= PutIn)
  BY CallFacts DEF SubmitOnChain, MaySend
<1>2. Sends(c) /\ PutIn \in Nat /\ PutIn' \in Nat /\ PutIn <= PutIn'
  BY TransportSends DEF SubmitOnChain, MaySend, BoundlessInv, TypeOK
<1>3. new \in CallRecord
  BY <1>1, RecordTypes
<1>4. /\ new.job = JobOf(c) /\ new.id = call[c].id
      /\ new.at = "answered" /\ new.answer = "success"
      /\ new.price = call[c].price /\ (new.funded => call[c].funded)
  BY <1>1 DEF CallRecord, Succeeded, NewCall
<1>5. call' = [call EXCEPT ![c] = new]
  BY DEF SubmitOnChain, BoundlessInv, TypeOK
<1> HIDE DEF new
<1>6. call[c].price \in Nat
  BY <1>1 DEF CallRecord
<1>7. new.funded => new.price <= PutIn'
  BY <1>1, <1>2, <1>4, <1>6
<1>8. QED
  BY <1>1, <1>2, <1>3, <1>4, <1>5, <1>7, GoingOnSteps DEF SubmitOnChain

\* Where a call is after a transport, whether it has failed or is only advisory.
LEMMA AfterTransport ==
  ASSUME BoundlessInv, NEW c \in Calls, call[c].at = "transport", Sends(c),
         PutIn \in Nat, PutIn' \in Nat, PutIn <= PutIn', NEW b \in BOOLEAN,
         NEW new \in {AfterSendError(call[c], b), NextTransport(call[c])},
         call' = [call EXCEPT ![c] = new], UNCHANGED accepted
  PROVE  SubmitStep(c)
<1>1. /\ call[c] \in CallRecord /\ call[c].job = JobOf(c) /\ UnderWay(c)
      /\ call[c].answer = "none" /\ (call[c].funded => call[c].price <= PutIn)
  BY CallFacts
<1>2. new \in CallRecord
  BY <1>1, RecordTypes
<1>3. /\ new.job = JobOf(c) /\ new.id = call[c].id /\ new.at \in {"transport", "done"}
      /\ new.answer \in {"none", "retry", "fatal"} /\ (new.at # "done" => new.answer = "none")
      /\ (new.funded => call[c].funded /\ new.price = call[c].price)
  BY <1>1, SendErrorFields
<1>4. call[c].price \in Nat
  BY <1>1 DEF CallRecord
<1>5. new.funded => new.price <= PutIn'
  BY <1>1, <1>3, <1>4
<1>6. new.at = "done" => new.answer \in {"retry", "fatal", "none"}
  BY <1>3
<1>7. Moves(c, new)
  BY <1>1, <1>2, <1>3, <1>5, <1>6 DEF Moves, Knows, UnderWay
<1>8. QED
  BY <1>2, <1>7 DEF SubmitStep

LEMMA SubmitOnChainFailsSteps ==
  ASSUME BoundlessInv, NEW c \in Calls, SubmitOnChainFails(c) PROVE SubmitStep(c)
<1>1. PICK b \in BOOLEAN : call' = [call EXCEPT ![c] = AfterSendError(call[c], b)]
  BY DEF SubmitOnChainFails, BoundlessInv, TypeOK
<1>2. Sends(c) /\ PutIn \in Nat /\ PutIn' \in Nat /\ PutIn <= PutIn'
  BY TransportSends, FaultsCount DEF SubmitOnChainFails, MaySend
<1>3. QED
  BY <1>1, <1>2, AfterTransport DEF SubmitOnChainFails, MaySend

LEMMA SubmitToOrderStreamSteps ==
  ASSUME BoundlessInv, NEW c \in Calls, SubmitToOrderStream(c) PROVE SubmitStep(c)
<1>1. call' = [call EXCEPT ![c] = NextTransport(call[c])]
  BY DEF SubmitToOrderStream, BoundlessInv, TypeOK
<1>2. Sends(c) /\ PutIn \in Nat /\ PutIn' \in Nat /\ PutIn <= PutIn'
  BY TransportSends DEF SubmitToOrderStream, MaySend, BoundlessInv, TypeOK
<1>3. QED
  BY <1>1, <1>2, AfterTransport DEF SubmitToOrderStream, MaySend

LEMMA SubmitToOrderStreamFailsSteps ==
  ASSUME BoundlessInv, NEW c \in Calls, SubmitToOrderStreamFails(c) PROVE SubmitStep(c)
<1>1. PICK b \in BOOLEAN : call' = [call EXCEPT ![c] = AfterSendError(call[c], b)]
  BY DEF SubmitToOrderStreamFails, BoundlessInv, TypeOK
<1>2. Sends(c) /\ PutIn \in Nat /\ PutIn' \in Nat /\ PutIn <= PutIn'
  BY TransportSends, FaultsCount DEF SubmitToOrderStreamFails, MaySend
<1>3. QED
  BY <1>1, <1>2, AfterTransport DEF SubmitToOrderStreamFails, MaySend

LEMMA MarkProverAcceptedSteps ==
  ASSUME BoundlessInv, NEW c \in Calls, MarkProverAccepted(c) PROVE SubmitStep(c)
<1> DEFINE new == [call[c] EXCEPT !.at = "done"]
<1>1. /\ call[c] \in CallRecord /\ call[c].job = JobOf(c) /\ call[c].at = "answered"
      /\ (call[c].funded => call[c].price <= PutIn)
  BY CallFacts DEF MarkProverAccepted
<1>2. call[c].answer = "success"
  BY <1>1 DEF BoundlessInv, CallsFit
<1>3. Sends(c) /\ PutIn' = PutIn
  BY QuietSends DEF MarkProverAccepted, BoundlessInv, TypeOK, PutIn, chain
<1>4. /\ new \in CallRecord /\ new.job = JobOf(c) /\ new.id = call[c].id
      /\ new.at = "done" /\ new.answer = call[c].answer /\ new.price = call[c].price
      /\ (new.funded => call[c].funded)
  BY <1>1 DEF CallRecord, Steps
<1>5. call' = [call EXCEPT ![c] = new]
  BY DEF MarkProverAccepted, BoundlessInv, TypeOK
<1> HIDE DEF new
<1>6. accepted' = [accepted EXCEPT ![JobOf(c)] = c] /\ accepted'[JobOf(c)] = c
  BY <1>1 DEF MarkProverAccepted, BoundlessInv, TypeOK, CallRecord
<1>7. Moves(c, new)
  BY <1>1, <1>2, <1>3, <1>4, <1>5, <1>6 DEF Moves, Knows, UnderWay
<1>8. QED
  BY <1>3, <1>4, <1>7 DEF SubmitStep
-----------------------------------------------------------------------------
(* The chain and the poll. *)

\* Steps that leave the calls alone keep what is known of them.
LEMMA ChainKeeps ==
  ASSUME BoundlessInv, UNCHANGED <<call, locked, accepted, stream, polling>>,
         wallet' \in [due : Nat, requests : SUBSET Calls],
         market' \in [balance : Nat, taken : Nat, lost : Nat, requests : SUBSET Calls],
         Out' \subseteq Out, PutIn' = PutIn, block' \in Nat, block <= block', faults' \in Nat,
         logs \subseteq logs', logs' \subseteq [call : Calls, block : Nat],
         \A l \in logs' \ logs : l.call \in Out /\ block < l.block /\ l.block <= block'
  PROVE  BoundlessInv'
<1> USE DEF BoundlessInv, polling
<1>1. TypeOK'
  BY DEF TypeOK
<1>2. CallsFit'
  <2>1. \A l \in logs' : Knows(l.call)'
    BY DEF CallsFit, OutFits, Knows
  <2>2. QED
    BY <2>1 DEF CallsFit, JobOf, UnderWay
<1>3. OutFits'
  BY DEF OutFits, Knows
<1>4. FundingFits'
  BY DEF FundingFits
<1>5. PollFits'
  <2>1. block \in Nat /\ (poll.at = "search" => poll.upto \in Int /\ poll.to \in Int)
    BY DEF TypeOK, PollRecord
  <2>2. \A l \in logs' : l.block <= block' /\ l.block \in Nat
    BY <2>1 DEF TypeOK, PollFits
  <2>3. ASSUME poll.at = "search", NEW l \in logs', Id(l) = IdOf(poll.job)
        PROVE  l.block \notin (poll.to + 1) .. poll.upto
    <3>1. CASE l \in logs
      BY <3>1, <2>3 DEF PollFits
    <3>2. CASE l \notin logs
      <4>1. poll.upto <= block /\ block < l.block
        BY <3>2, <2>3 DEF PollFits
      <4>2. QED
        BY <4>1, <2>1, <2>2, <2>3
    <3>3. QED
      BY <3>1, <3>2
  <2>4. poll.at = "search" => poll.upto <= block'
    BY <2>1 DEF PollFits
  <2>5. QED
    BY <2>2, <2>3, <2>4 DEF PollFits, Id, IdOf
<1>6. DeliveredFits'
  BY DEF DeliveredFits, JobOf, Knows
<1>7. QED
  BY <1>1, <1>2, <1>3, <1>4, <1>5, <1>6

LEMMA MinedKeepsInv == ASSUME BoundlessInv, Mined PROVE BoundlessInv'
<1>1. /\ wallet \in [due : Nat, requests : SUBSET Calls]
      /\ market \in [balance : Nat, taken : Nat, lost : Nat, requests : SUBSET Calls]
      /\ block \in Nat /\ faults \in Nat /\ logs \subseteq [call : Calls, block : Nat]
  BY DEF BoundlessInv, TypeOK
<1>2. /\ wallet' = [due |-> 0, requests |-> {}]
      /\ market' = [market EXCEPT !.balance = market.balance + wallet.due,
                                  !.requests = market.requests \cup wallet.requests]
  BY <1>1 DEF Mined
<1>3. /\ market.balance + wallet.due \in Nat
      /\ market.requests \cup wallet.requests \in SUBSET Calls
  BY <1>1
<1>4. /\ market'.balance = market.balance + wallet.due /\ market'.taken = market.taken
      /\ market'.lost = market.lost
      /\ market'.requests = market.requests \cup wallet.requests
  BY <1>1, <1>2
<1>5. market' \in [balance : Nat, taken : Nat, lost : Nat, requests : SUBSET Calls]
  BY <1>1, <1>2, <1>3
<1>6. PutIn' = PutIn
  BY <1>1, <1>2, <1>4 DEF PutIn
<1>7. Out' \subseteq Out
  BY <1>2, <1>4 DEF Out, Mined
<1>8. wallet' \in [due : Nat, requests : SUBSET Calls]
  BY <1>2
<1>9. QED
  BY <1>1, <1>5, <1>6, <1>7, <1>8, ChainKeeps DEF Mined

LEMMA DroppedKeepsInv == ASSUME BoundlessInv, Dropped PROVE BoundlessInv'
<1>1. /\ wallet \in [due : Nat, requests : SUBSET Calls]
      /\ market \in [balance : Nat, taken : Nat, lost : Nat, requests : SUBSET Calls]
      /\ block \in Nat /\ logs \subseteq [call : Calls, block : Nat]
  BY DEF BoundlessInv, TypeOK
<1>2. /\ wallet' = [due |-> 0, requests |-> {}]
      /\ market' = [market EXCEPT !.lost = market.lost + wallet.due]
  BY <1>1 DEF Dropped
<1>3. /\ market'.balance = market.balance /\ market'.taken = market.taken
      /\ market'.lost = market.lost + wallet.due /\ market'.requests = market.requests
      /\ market' \in [balance : Nat, taken : Nat, lost : Nat, requests : SUBSET Calls]
  BY <1>1, <1>2
<1>4. PutIn' = PutIn
  BY <1>1, <1>2, <1>3 DEF PutIn
<1>5. Out' \subseteq Out
  BY <1>2, <1>3 DEF Out, Dropped
<1>6. faults' \in Nat
  BY FaultsCount DEF Dropped
<1>7. QED
  BY <1>1, <1>2, <1>3, <1>4, <1>5, <1>6, ChainKeeps DEF Dropped

LEMMA NewBlockKeepsInv == ASSUME BoundlessInv, NewBlock PROVE BoundlessInv'
<1>1. /\ wallet \in [due : Nat, requests : SUBSET Calls]
      /\ market \in [balance : Nat, taken : Nat, lost : Nat, requests : SUBSET Calls]
      /\ block \in Nat /\ faults \in Nat /\ logs \subseteq [call : Calls, block : Nat]
  BY DEF BoundlessInv, TypeOK
<1>2. PutIn' = PutIn /\ Out' \subseteq Out
  BY DEF PutIn, Out, NewBlock
<1>3. block' \in Nat /\ block <= block'
  BY <1>1 DEF NewBlock
<1>4. QED
  BY <1>1, <1>2, <1>3, ChainKeeps DEF NewBlock

LEMMA FulfilKeepsInv ==
  ASSUME BoundlessInv, NEW cs \in SUBSET Calls, Fulfil(cs) PROVE BoundlessInv'
<1>1. /\ wallet \in [due : Nat, requests : SUBSET Calls]
      /\ market \in [balance : Nat, taken : Nat, lost : Nat, requests : SUBSET Calls]
      /\ block \in Nat /\ faults \in Nat /\ logs \subseteq [call : Calls, block : Nat]
  BY DEF BoundlessInv, TypeOK
<1>2. PICK cost \in 0 .. market.balance :
        market' = [market EXCEPT !.balance = market.balance - cost,
                                 !.taken = market.taken + cost]
  BY <1>1 DEF Fulfil
<1>3. cost \in Nat /\ market.balance - cost \in Nat /\ market.taken + cost \in Nat
  BY <1>1, <1>2
<1>4. /\ market'.balance = market.balance - cost /\ market'.taken = market.taken + cost
      /\ market'.lost = market.lost /\ market'.requests = market.requests
      /\ market' \in [balance : Nat, taken : Nat, lost : Nat, requests : SUBSET Calls]
  BY <1>1, <1>2, <1>3
<1>5. PutIn' = PutIn
  BY <1>1, <1>3, <1>4 DEF PutIn, Fulfil
<1>6. Out' \subseteq Out
  BY <1>4 DEF Out, Fulfil
<1>7. block' = block + 1 /\ block' \in Nat /\ block <= block'
  BY <1>1 DEF Fulfil
<1>8. cs \subseteq Out
  BY DEF Fulfil, Open, Out
<1>9. \A l \in logs' \ logs : l.call \in Out /\ block < l.block /\ l.block <= block'
  BY <1>1, <1>7, <1>8 DEF Fulfil
<1>10. logs \subseteq logs' /\ logs' \subseteq [call : Calls, block : Nat]
  BY <1>1, <1>7 DEF Fulfil
<1>11. QED
  BY <1>1, <1>4, <1>5, <1>6, <1>7, <1>9, <1>10, ChainKeeps DEF Fulfil

\* A poll changes nothing but itself and what it delivers.
LEMMA PollKeeps ==
  ASSUME BoundlessInv, UNCHANGED <<call, locked, accepted, wallet, chain, stream>>,
         faults' \in Nat, TypeOK', PollFits', DeliveredFits'
  PROVE  BoundlessInv'
<1>1. CallsFit' /\ OutFits' /\ FundingFits'
  BY DEF BoundlessInv, CallsFit, OutFits, FundingFits, chain, JobOf, UnderWay, Knows, Out, PutIn
<1>2. QED
  BY <1>1 DEF BoundlessInv

\* Nothing is delivered by a step that only moves the poll.
LEMMA PollMoves ==
  ASSUME BoundlessInv, UNCHANGED <<call, locked, accepted, wallet, chain, stream, delivered>>,
         faults' \in Nat, poll' \in PollRecord, PollFits'
  PROVE  BoundlessInv'
<1>1. TypeOK'
  BY DEF BoundlessInv, TypeOK, chain
<1>2. DeliveredFits'
  BY DEF BoundlessInv, DeliveredFits, JobOf, Knows
<1>3. QED
  BY <1>1, <1>2, PollKeeps

LEMMA PollEnds ==
  ASSUME BoundlessInv, UNCHANGED <<call, locked, accepted, wallet, chain, stream, delivered>>,
         faults' \in Nat, poll' = NoPoll
  PROVE  BoundlessInv'
<1>1. poll' \in PollRecord /\ poll'.at = "idle"
  BY DEF NoPoll, PollRecord
<1>2. PollFits'
  BY <1>1 DEF BoundlessInv, PollFits, chain
<1>3. QED
  BY <1>1, <1>2, PollMoves

\* The proof that is delivered is that of the request with the id of the job's.
LEMMA DeliverKeepsInv ==
  ASSUME BoundlessInv, UNCHANGED <<call, locked, accepted, wallet, chain, stream, faults>>,
         poll.at # "idle", NEW l \in logs, Id(l) = IdOf(poll.job), Deliver(l)
  PROVE  BoundlessInv'
<1>1. /\ poll.job \in Jobs /\ accepted[poll.job] \in Calls /\ l.call \in Calls
      /\ delivered \in [Jobs -> Jobs \cup {None}]
      /\ JobOf(accepted[poll.job]) = poll.job
  BY DEF BoundlessInv, PollFits, TypeOK, CallsFit
<1>2. JobOf(l.call) \in Jobs
  BY <1>1 DEF BoundlessInv, TypeOK, CallRecord, JobOf
<1>3. /\ delivered' = [delivered EXCEPT ![poll.job] = JobOf(l.call)]
      /\ poll' = NoPoll
  BY JournalIsParsed DEF Deliver
<1>4. delivered' \in [Jobs -> Jobs \cup {None}]
  BY <1>1, <1>2, <1>3
<1>5. poll' \in PollRecord /\ poll'.at = "idle"
  BY <1>3 DEF NoPoll, PollRecord
<1>6. TypeOK'
  BY <1>4, <1>5 DEF BoundlessInv, TypeOK, chain
<1>7. PollFits'
  BY <1>5 DEF BoundlessInv, PollFits, chain
<1>8. DeliveredFits'
  <2> SUFFICES ASSUME NEW j \in Jobs, delivered'[j] # None
               PROVE  \E c, d \in Calls :
                        /\ JobOf(c) = j /\ JobOf(d) = delivered'[j] /\ call[c].id = call[d].id
                        /\ Knows(c) /\ Knows(d)
    BY DEF DeliveredFits, JobOf, Knows
  <2>1. CASE j = poll.job
    <3>1. delivered'[j] = JobOf(l.call)
      BY <1>1, <1>3, <2>1
    <3>2. call[accepted[poll.job]].id = call[l.call].id
      BY DEF Id, IdOf
    <3>3. Knows(accepted[poll.job]) /\ Knows(l.call)
      BY <1>1 DEF BoundlessInv, CallsFit, PollFits, Knows
    <3>4. QED
      BY <1>1, <2>1, <3>1, <3>2, <3>3
  <2>2. CASE j # poll.job
    <3>1. delivered'[j] = delivered[j]
      BY <1>1, <1>3, <2>2
    <3>2. QED
      BY <3>1 DEF BoundlessInv, DeliveredFits
  <2>3. QED
    BY <2>1, <2>2
<1>9. QED
  BY <1>6, <1>7, <1>8, PollKeeps DEF BoundlessInv, TypeOK

LEMMA PollStartsKeepsInv ==
  ASSUME BoundlessInv, NEW j \in Jobs, PollStarts(j) PROVE BoundlessInv'
<1>1. poll' = [at |-> "lookup", job |-> j, from |-> 0, to |-> 0, upto |-> 0]
  BY DEF PollStarts, NoPoll
<1>2. poll' \in PollRecord
  BY <1>1 DEF PollRecord
<1>3. PollFits'
  BY <1>1 DEF PollStarts, BoundlessInv, PollFits, chain
<1>4. QED
  BY <1>2, <1>3, PollMoves DEF PollStarts, BoundlessInv, TypeOK

LEMMA PollReceiptKeepsInv == ASSUME BoundlessInv, PollReceipt PROVE BoundlessInv'
<1>1. PICK l \in logs : IsProofDelivered(l, IdOf(poll.job)) /\ Deliver(l)
  BY DEF PollReceipt
<1>2. QED
  BY <1>1, DeliverKeepsInv DEF PollReceipt, IsProofDelivered

\* A search that begins has left nothing behind.
LEMMA ReadBlockNumberKeepsInv ==
  ASSUME BoundlessInv, NEW head \in Int, head <= block, poll.at = "lookup", faults' \in Nat,
         ReadBlockNumber(head),
         UNCHANGED <<call, locked, accepted, wallet, chain, stream, delivered>>
  PROVE  BoundlessInv'
<1> DEFINE from == IF Deployment > head - SearchWindow THEN Deployment ELSE head - SearchWindow
<1>1. from \in Int
  BY BoundlessAssumption DEF BoundlessAssumption
<1>2. poll' = [poll EXCEPT !.at = "search", !.to = head, !.upto = head, !.from = from]
  BY DEF ReadBlockNumber
<1> HIDE DEF from
<1>3. poll \in PollRecord
  BY DEF BoundlessInv, TypeOK
<1>4. /\ poll' \in PollRecord /\ poll'.at = "search" /\ poll'.job = poll.job
      /\ poll'.to = head /\ poll'.upto = head
  BY <1>1, <1>2, <1>3 DEF PollRecord
<1>5. PollFits'
  BY <1>4 DEF BoundlessInv, PollFits, chain
<1>6. QED
  BY <1>4, <1>5, PollMoves

LEMMA PollLogsKeepsInv == ASSUME BoundlessInv, PollLogs PROVE BoundlessInv'
BY ReadBlockNumberKeepsInv DEF PollLogs, BoundlessInv, TypeOK

LEMMA PollLogsLaggingKeepsInv == ASSUME BoundlessInv, PollLogsLagging PROVE BoundlessInv'
<1>1. block - 1 \in Int /\ block - 1 <= block
  BY DEF BoundlessInv, TypeOK
<1>2. faults' \in Nat
  BY FaultsCount DEF PollLogsLagging
<1>3. QED
  BY <1>1, <1>2, ReadBlockNumberKeepsInv DEF PollLogsLagging

\* The page before the one that was searched ends where that one begins.
LEMMA SearchPageKeepsInv == ASSUME BoundlessInv, SearchPage PROVE BoundlessInv'
<1> DEFINE found == {l \in logs : /\ IsProofDelivered(l, IdOf(poll.job))
                                  /\ l.block \in PageFrom .. poll.to}
<1>1. CASE \E l \in found : Deliver(l)
  <2>1. PICK l \in logs : IsProofDelivered(l, IdOf(poll.job)) /\ Deliver(l)
    BY <1>1
  <2>2. QED
    BY <2>1, DeliverKeepsInv DEF SearchPage, IsProofDelivered
<1>2. CASE found = {} /\ poll' = [poll EXCEPT !.to = Older] /\ UNCHANGED delivered
  <2>1. poll \in PollRecord /\ poll.at = "search" /\ poll.to \in Int /\ poll.from \in Int
        /\ poll.upto \in Int
    BY DEF BoundlessInv, TypeOK, PollRecord, SearchPage
  <2>2. PageFrom \in Int /\ PageFrom - 1 \in Int
    BY <2>1, BoundlessAssumption DEF PageFrom, BoundlessAssumption
  <2>3. /\ poll' \in PollRecord /\ poll'.at = "search" /\ poll'.job = poll.job
        /\ poll'.to = PageFrom - 1 /\ poll'.upto = poll.upto
    BY <1>2, <2>1, <2>2 DEF PollRecord, Older
  <2>4. ASSUME NEW l \in logs, Id(l) = IdOf(poll.job)
        PROVE  l.block \notin (poll'.to + 1) .. poll.upto
    <3>1. l.block \notin PageFrom .. poll.to
      BY <1>2, <2>4 DEF IsProofDelivered
    <3>2. l.block \notin (poll.to + 1) .. poll.upto
      BY <2>1, <2>4 DEF BoundlessInv, PollFits
    <3>3. l.block \in Nat
      BY DEF BoundlessInv, TypeOK
    <3>4. QED
      BY <2>1, <2>2, <2>3, <3>1, <3>2, <3>3
  <2>5. UNCHANGED <<call, accepted, logs, block, delivered>>
    BY <1>2 DEF SearchPage, chain
  <2>6. PollFits'
    BY <2>1, <2>3, <2>4, <2>5 DEF BoundlessInv, PollFits, Id, IdOf
  <2>7. QED
    BY <1>2, <2>3, <2>6, PollMoves DEF SearchPage, BoundlessInv, TypeOK
<1>3. CASE poll' = NoPoll /\ UNCHANGED delivered
  BY <1>3, PollEnds DEF SearchPage, BoundlessInv, TypeOK
<1>4. QED
  BY <1>1, <1>2, <1>3 DEF SearchPage

LEMMA PollFailsKeepsInv == ASSUME BoundlessInv, PollFails PROVE BoundlessInv'
BY PollEnds, FaultsCount DEF PollFails
-----------------------------------------------------------------------------
LEMMA SubmitRequestSteps ==
  ASSUME BoundlessInv, NEW c \in Calls, SubmitRequest(c) PROVE SubmitStep(c)
BY BuildRequestSteps, RequestNotBuiltSteps, ReadBalanceSteps, ReadBalanceFailsSteps,
   DepositSteps, DepositFailsSteps, BeginDispatchSteps, DispatchFailsSteps,
   SubmitOnChainSteps, SubmitOnChainFailsSteps, SubmitToOrderStreamSteps,
   SubmitToOrderStreamFailsSteps, MarkProverAcceptedSteps, AcceptedTooLateSteps,
   ConsumerCrashSteps
DEF SubmitRequest

\* Every step keeps the invariant.
LEMMA BoundlessStep == BoundlessInv /\ [Next]_vars => BoundlessInv'
<1> SUFFICES ASSUME BoundlessInv, [Next]_vars PROVE BoundlessInv'
  OBVIOUS
<1>1. ASSUME NEW c \in Calls, SubmitRequest(c) PROVE BoundlessInv'
  BY <1>1, SubmitRequestSteps, SubmitKeepsInv
<1>2. CASE Mined
  BY <1>2, MinedKeepsInv
<1>3. CASE Dropped
  BY <1>3, DroppedKeepsInv
<1>4. CASE NewBlock
  BY <1>4, NewBlockKeepsInv
<1>5. ASSUME NEW cs \in SUBSET Calls, Fulfil(cs) PROVE BoundlessInv'
  BY <1>5, FulfilKeepsInv
<1>6. ASSUME NEW j \in Jobs, PollStarts(j) PROVE BoundlessInv'
  BY <1>6, PollStartsKeepsInv
<1>7. CASE PollOnce
  BY <1>7, PollReceiptKeepsInv, PollLogsKeepsInv, SearchPageKeepsInv DEF PollOnce
<1>8. CASE PollLogsLagging
  BY <1>8, PollLogsLaggingKeepsInv
<1>9. CASE PollFails
  BY <1>9, PollFailsKeepsInv
<1>10. CASE UNCHANGED vars
  <2>1. UNCHANGED <<call, locked, accepted, wallet, chain, stream, polling, faults>>
    BY <1>10 DEF vars, chain, polling
  <2>2. PollFits' /\ DeliveredFits' /\ TypeOK'
    BY <2>1
    DEF BoundlessInv, TypeOK, PollFits, DeliveredFits, chain, polling, Id, IdOf, JobOf, Knows
  <2>3. QED
    BY <2>1, <2>2, PollKeeps DEF BoundlessInv, TypeOK, polling
<1>11. QED
  BY <1>1, <1>2, <1>3, <1>4, <1>5, <1>6, <1>7, <1>8, <1>9, <1>10 DEF Next

THEOREM BoundlessInvariant == Spec => []BoundlessInv
<1>1. Init => BoundlessInv
  BY BoundlessInit
<1>2. BoundlessInv /\ [Next]_vars => BoundlessInv'
  BY BoundlessStep
<1>3. QED
  BY <1>1, <1>2, PTL DEF Spec
-----------------------------------------------------------------------------
\* Whatever fails or is lost, calls, transactions, logs and polls keep their shape.
THEOREM BoundlessTypeCorrect == Spec => []TypeOK
<1>1. BoundlessInv => TypeOK
  BY DEF BoundlessInv
<1>2. QED
  BY <1>1, BoundlessInvariant, PTL

\* A job owns at most one request, however often it is submitted: a call that succeeds lets no
\* other of its job begin (coordinator.ts:1344-1366).
THEOREM JobsOwnOneRequest == Spec => []OneRequestIsOwned
<1>1. BoundlessInv => OneRequestIsOwned
  <2> SUFFICES ASSUME BoundlessInv, NEW c \in Calls, NEW d \in Calls, JobOf(c) = JobOf(d),
                      call[c].answer = "success", call[d].answer = "success"
               PROVE  c = d
    BY DEF OneRequestIsOwned
  <2>1. call[c].at = "answered" \/ accepted[JobOf(c)] = c
    BY DEF BoundlessInv, CallsFit
  <2>2. call[d].at = "answered" \/ accepted[JobOf(d)] = d
    BY DEF BoundlessInv, CallsFit
  <2>3. call[c].at = "answered" => UnderWay(c)
    BY DEF UnderWay
  <2>4. call[d].at = "answered" => UnderWay(d)
    BY DEF UnderWay
  <2>5. UnderWay(c) => accepted[JobOf(c)] = None /\ (UnderWay(d) => c = d)
    BY DEF BoundlessInv, CallsFit
  <2>6. UnderWay(d) => accepted[JobOf(d)] = None
    BY DEF BoundlessInv, CallsFit
  <2>7. c # None /\ d # None
    BY BoundlessAssumption DEF BoundlessAssumption, None
  <2>8. QED
    BY <2>1, <2>2, <2>3, <2>4, <2>5, <2>6, <2>7
<1>2. QED
  BY <1>1, BoundlessInvariant, PTL

\* The proof a job is given is about its own tape, unless calls of different jobs have one id
\* (client.ts:119-128, 345-346).
THEOREM ProofsAreOfTheirIds == Spec => []DeliveredProofIsOwn
<1>1. BoundlessInv => DeliveredProofIsOwn
  BY DEF BoundlessInv, DeliveredFits, DeliveredProofIsOwn
<1>2. QED
  BY <1>1, BoundlessInvariant, PTL

\* A call that counts on the market's balance counts on what the wallet has sent
\* (client.ts:481-513).
THEOREM FundsWereSent == Spec => []FundingAddsUp
<1>1. BoundlessInv => FundingAddsUp
  BY DEF BoundlessInv, FundingFits, FundingAddsUp
<1>2. QED
  BY <1>1, BoundlessInvariant, PTL

\* The pages of a search that ends without the proof cover its horizon (client.ts:187-235).
THEOREM SearchIsGapless == Spec => SearchMissesNothing
<1> DEFINE Ends == poll.at = "search" /\ poll'.at = "idle" /\ delivered' = delivered
                   /\ faults' = faults
           Missed == \A l \in logs : Id(l) = IdOf(poll.job) =>
                       l.block \notin poll.from .. poll.upto
<1>1. ASSUME BoundlessInv, [Next]_vars, Ends PROVE Missed
  <2>1. poll.at = "search" /\ poll'.at = "idle" /\ delivered' = delivered /\ faults' = faults
    BY <1>1
  <2>2. ~Fails
    BY <1>1, <2>1 DEF Fails, BoundlessInv, TypeOK
  <2>3. ~(UNCHANGED polling)
    BY <2>1 DEF polling
  <2>4. ~(\E c \in Calls : SubmitRequest(c))
    BY <2>3 DEF SubmitRequest, BuildRequest, RequestNotBuilt, ReadBalance, ReadBalanceFails,
      Deposit, DepositFails, BeginDispatch, DispatchFails, SubmitOnChain, SubmitOnChainFails,
      SubmitToOrderStream, SubmitToOrderStreamFails, MarkProverAccepted, AcceptedTooLate,
      ConsumerCrash
  <2>5. ~Mined /\ ~Dropped /\ ~NewBlock /\ ~(\E cs \in SUBSET Calls : Fulfil(cs))
    BY <2>3 DEF Mined, Dropped, NewBlock, Fulfil, polling
  <2>6. ~(\E j \in Jobs : PollStarts(j)) /\ ~PollReceipt /\ ~PollLogs /\ ~PollLogsLagging
    BY <2>1 DEF PollStarts, PollReceipt, PollLogs, PollLogsLagging
  <2>7. ~PollFails
    BY <2>2 DEF PollFails
  <2>8. ~(UNCHANGED vars)
    BY <2>1 DEF vars
  <2>9. SearchPage
    BY <1>1, <2>4, <2>5, <2>6, <2>7, <2>8 DEF Next, PollOnce
  <2>10. poll \in PollRecord /\ poll.to \in Int /\ poll.from \in Int /\ poll.upto \in Int
    BY <1>1 DEF BoundlessInv, TypeOK, PollRecord
  <2>11. poll.job \in Jobs /\ delivered[poll.job] = None /\ delivered \in [Jobs -> Jobs \cup {None}]
    BY <1>1, <2>1 DEF BoundlessInv, PollFits, TypeOK
  <2>12. ASSUME NEW l \in logs PROVE ~Deliver(l)
    <3>1. JobOf(l.call) \in Jobs
      BY <1>1 DEF BoundlessInv, TypeOK, CallRecord, JobOf
    <3>2. JobOf(l.call) # None
      BY <3>1, BoundlessAssumption DEF BoundlessAssumption, None
    <3>3. QED
      BY <2>1, <2>11, <3>2, JournalIsParsed DEF Deliver
  <2>13. PageFrom = poll.from /\ {l \in logs : /\ IsProofDelivered(l, IdOf(poll.job))
                                               /\ l.block \in PageFrom .. poll.to} = {}
    BY <2>1, <2>9, <2>10, <2>12 DEF SearchPage, PollRecord
  <2>14. ASSUME NEW l \in logs, Id(l) = IdOf(poll.job)
         PROVE  l.block \notin poll.from .. poll.upto
    <3>1. l.block \notin poll.from .. poll.to
      BY <2>13, <2>14 DEF IsProofDelivered
    <3>2. l.block \notin (poll.to + 1) .. poll.upto
      BY <1>1, <2>1, <2>14 DEF BoundlessInv, PollFits
    <3>3. l.block \in Nat
      BY <1>1 DEF BoundlessInv, TypeOK
    <3>4. QED
      BY <2>10, <3>1, <3>2, <3>3
  <2>15. QED
    BY <2>14
<1>2. BoundlessInv /\ [Next]_vars => [Ends => Missed]_vars
  BY <1>1
<1>3. QED
  BY <1>2, BoundlessInvariant, PTL DEF Spec, SearchMissesNothing
=============================================================================
