--------------------------- MODULE BoundlessRequest ---------------------------
(***************************************************************************)
(* How a job's request gets to the Boundless market and its proof back:    *)
(* BoundlessClient (worker/boundless/sdk/client.ts) with its prices        *)
(* (pricing.ts), its input (stdin.ts, storage.ts) and its ids (utils.ts).  *)
(*                                                                         *)
(* submitRequest is called by up to five consumers at a time, and again    *)
(* for every delivery of a message; all of them share one wallet.  A call  *)
(* fills up the wallet's balance at the market, takes the job's dispatch   *)
(* lock, and tries its transports in turn.  pollOnce looks for the proof   *)
(* that the market has logged, page by page.  What is sent to an RPC node, *)
(* the order stream or the coordinator may arrive although it has failed.  *)
(*                                                                         *)
(* The market is external: it is modelled by what the client reads of it.  *)
(***************************************************************************)
EXTENDS Integers, Sequences, FiniteSets

CONSTANTS
  Calls,         \* calls of submitRequest
  Jobs,
  NonceRange,    \* 2^32: ids hold the time in milliseconds modulo this
  MaxTries,      \* 3, of funding and of each transport
  MaxUsd,        \* BOUNDLESS_MAX_PRICE_USD
  EthPrices,     \* what the price feed may say
  Ether,         \* 10^18
  BufferBps,     \* BOUNDLESS_TOP_UP_BUFFER_BPS
  Deployment,    \* deploymentBlock
  SearchWindow,  \* LOG_SEARCH_WINDOW, 9900 blocks
  PageSize,      \* MAX_LOG_BLOCK_RANGE, 10 blocks
  MaxBlock,      \* bound: the last block
  MaxFaults      \* bound: calls that fail or are lost, and crashes

ASSUME BoundlessAssumption ==
  /\ "none" \notin Jobs /\ "none" \notin Calls
  /\ {NonceRange, MaxTries, PageSize, SearchWindow, Ether} \subseteq Nat \ {0}
  /\ {MaxUsd, BufferBps, Deployment, MaxBlock, MaxFaults} \subseteq Nat
  /\ EthPrices \subseteq Nat \ {0}

VARIABLES
  call,       \* the local state of each call
  locked,     \* the jobs that hold the dispatch lock of their replay
  accepted,   \* the call whose request id the job's record holds (markProverAccepted)
  wallet,     \* transactions of the wallet that are not in a block
  market,     \* the balance, and the requests submitted on chain
  stream,     \* the calls whose request the order stream holds
  logs,       \* ProofDelivered events
  block,
  poll,       \* the poll under way
  delivered,  \* whose tape the proof that a job was given is about
  faults

vars == <<call, locked, accepted, wallet, market, stream, logs, block, poll, delivered, faults>>
chain == <<market, logs, block>>
polling == <<poll, delivered>>

None == "none"
Nonces == 0 .. NonceRange - 1
Steps == {"idle", "funding", "deposit", "transport", "answered", "done"}

CallRecord ==
  [at : Steps, job : Jobs, id : Nonces, price : Nat, deficit : Nat, tries : 1 .. MaxTries,
   plan : {"market", "attached"}, via : {"chain", "stream"},
   funded : BOOLEAN, dispatched : BOOLEAN, retryable : BOOLEAN,
   answer : {"none", "success", "unowned", "retry", "fatal", "crashed"}]

PollRecord ==
  [at : {"idle", "lookup", "search"}, job : Jobs \cup {None}, from : Int, to : Int, upto : Int]

TypeOK ==
  /\ call \in [Calls -> CallRecord]
  /\ locked \in SUBSET Jobs
  /\ accepted \in [Jobs -> Calls \cup {None}]
  /\ wallet \in [due : Nat, requests : SUBSET Calls]
  /\ market \in [balance : Nat, taken : Nat, lost : Nat, requests : SUBSET Calls]
  /\ stream \in SUBSET Calls
  /\ logs \in SUBSET [call : Calls, block : Nat]
  /\ block \in Nat
  /\ poll \in PollRecord
  /\ delivered \in [Jobs -> Jobs \cup {None}]
  /\ faults \in Nat

NewCall(j) ==
  [at |-> "idle", job |-> j, id |-> 0, price |-> 0, deficit |-> 0, tries |-> 1,
   plan |-> "market", via |-> "chain", funded |-> FALSE, dispatched |-> FALSE,
   retryable |-> FALSE, answer |-> "none"]
JobOf(c) == call[c].job
NoPoll == [at |-> "idle", job |-> None, from |-> 0, to |-> 0, upto |-> 0]

Init ==
  /\ \E job \in [Calls -> Jobs] : call = [c \in Calls |-> NewCall(job[c])]
  /\ locked = {}
  /\ accepted = [j \in Jobs |-> None]
  /\ wallet = [due |-> 0, requests |-> {}]
  /\ market = [balance |-> 0, taken |-> 0, lost |-> 0, requests |-> {}]
  /\ stream = {}
  /\ logs = {}
  /\ block = Deployment
  /\ poll = NoPoll
  /\ delivered = [j \in Jobs |-> None]
  /\ faults = 0

Fails == faults < MaxFaults /\ faults' = faults + 1
-----------------------------------------------------------------------------
(* Prices and ids. *)

\* Both amounts are scaled to integers first; the division rounds down.
UsdToWei(usd, ethPrice) == (usd * Ether) \div ethPrice

\* The price feed is asked, or its last answer is used for five minutes.
OfferPrices == {UsdToWei(MaxUsd, ethPrice) : ethPrice \in EthPrices}

Buffer(deficit) == (deficit * BufferBps + 9999) \div 10000
\* Mutant: the buffer instead of the deficit and the buffer.
AutoDepositOfBuffer(deficit) == Buffer(deficit)

AutoDeposit(deficit) == deficit + Buffer(deficit)

\* The event's data: the offset of the tuple; id, two digests, type, and the offsets of
\* fulfillmentData and seal; then these two, each behind its length.  fulfillmentData holds the
\* offset of its tuple, the image, the offset of the journal, and the journal behind its
\* length.  Offsets and lengths count words; a journal is known by the job it is about.
EventData(j) ==
  <<1, "id", "digest", "digest", 1, 6, 12, 5, 1, "image", 2, 1, j, 1, "seal">>

\* The word i words behind the start of a tuple.
WordAt(data, start, i) == data[start + i + 1]
FitsIn(data, start, n) == start >= 0 /\ n >= 0 /\ start + n <= Len(data)

\* parseFulfillmentFromEventData: the journal, or nothing if an offset or length is wrong.
JournalOf(data) ==
  LET start  == 1
      fields == WordAt(data, start, 4)
      seal   == WordAt(data, start, 5)
      inner  == start + fields + 2
      at     == WordAt(data, inner, 1)
      size   == WordAt(data, start, fields)
  IN  IF /\ FitsIn(data, 0, 1) /\ data[1] = 1
         /\ FitsIn(data, start, 6) /\ WordAt(data, start, 3) = 1
         /\ FitsIn(data, start + seal, 1)
         /\ FitsIn(data, start + seal + 1, WordAt(data, start, seal))
         /\ FitsIn(data, start + fields, 1)
         /\ FitsIn(data, start + fields + 1, size)
         /\ size >= 3 /\ WordAt(data, start, fields + 1) = 1
         /\ at >= 0 /\ at + 1 <= size - 1
         /\ at + 1 + WordAt(data, inner, at) <= size - 1
      THEN WordAt(data, inner, at + 1)
      ELSE None
-----------------------------------------------------------------------------
(* submitRequest. *)

UnderWay(c) == call[c].at \notin {"idle", "done"}

\* Mutant: a job that knows its request is submitted again.
MayBeginAgain(c) ==
  /\ call[c].at = "idle"
  /\ \A d \in Calls : JobOf(d) = JobOf(c) =>
       /\ ~UnderWay(d)
       /\ call[d].answer # "unowned"
       /\ call[d].answer = "fatal" => JobOf(d) \notin locked

\* beginQueueAttempt lets one delivery of a job in at a time, and none once the job knows a
\* request; a job that has failed is tried again only if it holds no lock.  Here a call's
\* lease holds for as long as the call: ProofCoordinator has those that run out.
MayBegin(c) ==
  /\ call[c].at = "idle" /\ accepted[JobOf(c)] = None
  /\ \A d \in Calls : JobOf(d) = JobOf(c) =>
       /\ ~UnderWay(d)
       /\ call[d].answer # "unowned"
       /\ call[d].answer = "fatal" => JobOf(d) \notin locked

\* The price, the input (inline, or at IPFS if it is long), the id, the journal and the
\* signature; nothing of this is seen by anybody else.
BuildRequest(c) ==
  /\ MayBegin(c)
  /\ \E price \in OfferPrices, nonce \in Nonces :
       call' = [call EXCEPT ![c].at = "funding", ![c].id = nonce, ![c].price = price]
  /\ UNCHANGED <<locked, accepted, wallet, chain, stream, polling, faults>>

\* The request may be out; the rest of what a call knew is gone when it returns.
Ended(rec, answer) ==
  [NewCall(rec.job) EXCEPT !.at = "done", !.id = rec.id, !.answer = answer]

\* What submitRequest answers if a part of the request is missing.
NoPrice == {"retry"}
NoJwt == {"fatal"}        \* for an input that is too long to be put inline
NoUpload == {"retry"}
NoJournal == {"fatal"}
NoSignature == {"retry"}

RequestNotBuilt(c) ==
  /\ MayBegin(c) /\ Fails
  /\ \E answer \in NoPrice \cup NoJwt \cup NoUpload \cup NoJournal \cup NoSignature :
       call' = [call EXCEPT ![c] = Ended(@, answer)]
  /\ UNCHANGED <<locked, accepted, wallet, chain, stream, polling>>

\* The plan that spends the market balance comes first, if the balance could be prepared.
Funded(rec) ==
  [rec EXCEPT !.at = "transport", !.tries = 1, !.plan = "market", !.via = "chain",
              !.deficit = 0, !.funded = TRUE]

\* An error of the last attempt leaves only the plan that attaches the price.  Whether that
\* error was one of those to retry counts.
AfterFundingError(rec, isRetryable) ==
  IF rec.tries < MaxTries
  THEN [rec EXCEPT !.at = "funding", !.tries = @ + 1, !.deficit = 0]
  ELSE [rec EXCEPT !.at = "transport", !.tries = 1, !.deficit = 0, !.plan = "attached",
                   !.retryable = @ \/ isRetryable]

\* balanceOf says what the last block left.
ReadBalance(c) ==
  /\ call[c].at = "funding"
  /\ call' = [call EXCEPT ![c] =
       IF market.balance < @.price
       THEN [@ EXCEPT !.at = "deposit", !.deficit = call[c].price - market.balance]
       ELSE Funded(@)]
  /\ UNCHANGED <<locked, accepted, wallet, chain, stream, polling, faults>>

ReadBalanceFails(c) ==
  /\ call[c].at = "funding" /\ Fails
  /\ \E isRetryable \in BOOLEAN :
       call' = [call EXCEPT ![c] = AfterFundingError(@, isRetryable)]
  /\ UNCHANGED <<locked, accepted, wallet, chain, stream, polling>>

Deposited(c) == [wallet EXCEPT !.due = @ + AutoDeposit(call[c].deficit)]

\* The deposit is sent; nobody waits until it is in a block.
Deposit(c) ==
  /\ call[c].at = "deposit"
  /\ wallet' = Deposited(c)
  /\ call' = [call EXCEPT ![c] = Funded(@)]
  /\ UNCHANGED <<locked, accepted, chain, stream, polling, faults>>

DepositFails(c) ==
  /\ call[c].at = "deposit" /\ Fails
  /\ wallet' \in {wallet, Deposited(c)}
  /\ \E isRetryable \in BOOLEAN :
       call' = [call EXCEPT ![c] = AfterFundingError(@, isRetryable)]
  /\ UNCHANGED <<locked, accepted, chain, stream, polling>>

\* Before the first send beforeDispatch locks the job for Boundless (beginExternalDispatch).
\* It lets in a job whose earlier call has locked it, and a job that has ended.
BeginDispatch(c) ==
  /\ call[c].at = "transport" /\ ~call[c].dispatched
  /\ locked' = locked \cup {JobOf(c)}
  /\ call' = [call EXCEPT ![c].dispatched = TRUE]
  /\ UNCHANGED <<accepted, wallet, chain, stream, polling, faults>>

DispatchFails(c) ==
  /\ call[c].at = "transport" /\ ~call[c].dispatched /\ Fails
  /\ locked' \in {locked, locked \cup {JobOf(c)}}
  /\ call' = [call EXCEPT ![c] = Ended(@, "fatal")]
  /\ UNCHANGED <<accepted, wallet, chain, stream, polling>>

MaySend(c, via) == call[c].at = "transport" /\ call[c].dispatched /\ call[c].via = via

\* The order stream follows the chain, and the attached plan the one of the balance.
NextTransport(rec) ==
  CASE rec.via = "chain"  -> [rec EXCEPT !.via = "stream", !.tries = 1]
    [] rec.via = "stream" /\ rec.plan = "market" ->
         [rec EXCEPT !.plan = "attached", !.via = "chain", !.tries = 1]
    [] OTHER -> Ended(rec, IF rec.retryable THEN "retry" ELSE "fatal")

AfterSendError(rec, isRetryable) ==
  LET seen == [rec EXCEPT !.retryable = @ \/ isRetryable]
  IN  IF rec.tries < MaxTries THEN [seen EXCEPT !.tries = @ + 1] ELSE NextTransport(seen)

\* Every transport sends the same request, under the same id and signature.
SentOnChain(c) ==
  [due |-> wallet.due + (IF call[c].plan = "attached" THEN call[c].price ELSE 0),
   requests |-> wallet.requests \cup {c}]

Succeeded(rec) ==
  [NewCall(rec.job) EXCEPT !.at = "answered", !.id = rec.id, !.answer = "success",
                           !.price = rec.price, !.funded = rec.funded]

SubmitOnChain(c) ==
  /\ MaySend(c, "chain")
  /\ wallet' = SentOnChain(c)
  /\ call' = [call EXCEPT ![c] = Succeeded(@)]
  /\ UNCHANGED <<locked, accepted, chain, stream, polling, faults>>

SubmitOnChainFails(c) ==
  /\ MaySend(c, "chain") /\ Fails
  /\ wallet' \in {wallet, SentOnChain(c)}
  /\ \E isRetryable \in BOOLEAN :
       call' = [call EXCEPT ![c] = AfterSendError(@, isRetryable)]
  /\ UNCHANGED <<locked, accepted, chain, stream, polling>>

\* Provers may take the request from the order stream, but for the client this is no success.
SubmitToOrderStream(c) ==
  /\ MaySend(c, "stream")
  /\ stream' = stream \cup {c}
  /\ call' = [call EXCEPT ![c] = NextTransport(@)]
  /\ UNCHANGED <<locked, accepted, wallet, chain, polling, faults>>

SubmitToOrderStreamFails(c) ==
  /\ MaySend(c, "stream") /\ Fails
  /\ stream' \in {stream, stream \cup {c}}
  /\ \E isRetryable \in BOOLEAN :
       call' = [call EXCEPT ![c] = AfterSendError(@, isRetryable)]
  /\ UNCHANGED <<locked, accepted, wallet, chain, polling>>

\* The consumer reports a success; only then does the job's record know the id.
MarkProverAccepted(c) ==
  /\ call[c].at = "answered"
  /\ accepted' = [accepted EXCEPT ![JobOf(c)] = c]
  /\ call' = [call EXCEPT ![c].at = "done"]
  /\ UNCHANGED <<locked, wallet, chain, stream, polling, faults>>

\* ... unless the job has ended meanwhile: nobody polls this request.
AcceptedTooLate(c) ==
  /\ call[c].at = "answered" /\ Fails
  /\ call' = [call EXCEPT ![c] = Ended(@, "unowned")]
  /\ UNCHANGED <<locked, accepted, wallet, chain, stream, polling>>

ConsumerCrash(c) ==
  /\ UnderWay(c) /\ Fails
  /\ call' = [call EXCEPT ![c] = Ended(@, "crashed")]
  /\ UNCHANGED <<locked, accepted, wallet, chain, stream, polling>>
-----------------------------------------------------------------------------
(* The chain. *)

\* The wallet's transactions get into a block in the order of their nonces.
Mined ==
  /\ wallet # [due |-> 0, requests |-> {}]
  /\ market' = [market EXCEPT !.balance = @ + wallet.due, !.requests = @ \cup wallet.requests]
  /\ wallet' = [due |-> 0, requests |-> {}]
  /\ UNCHANGED <<call, locked, accepted, stream, logs, block, polling, faults>>

\* ... or never, if the fee is too low or another one has taken the nonce.
Dropped ==
  /\ wallet # [due |-> 0, requests |-> {}] /\ Fails
  /\ market' = [market EXCEPT !.lost = @ + wallet.due]
  /\ wallet' = [due |-> 0, requests |-> {}]
  /\ UNCHANGED <<call, locked, accepted, stream, logs, block, polling>>

Id(l) == call[l.call].id
Open == {c \in market.requests \cup stream : \A l \in logs : Id(l) # call[c].id}

\* One transaction delivers the proofs of one or more requests; an id is fulfilled once.
Fulfil(cs) ==
  /\ block < MaxBlock
  /\ cs \subseteq Open /\ cs # {}
  /\ \A c, d \in cs : call[c].id = call[d].id => c = d
  /\ \E cost \in 0 .. market.balance :
       market' = [market EXCEPT !.balance = @ - cost, !.taken = @ + cost]
  /\ logs' = logs \cup {[call |-> c, block |-> block + 1] : c \in cs}
  /\ block' = block + 1
  /\ UNCHANGED <<call, locked, accepted, wallet, stream, polling, faults>>

NewBlock ==
  /\ block < MaxBlock
  /\ block' = block + 1
  /\ UNCHANGED <<call, locked, accepted, wallet, market, stream, logs, polling, faults>>
-----------------------------------------------------------------------------
(* pollOnce. *)

\* Mutant: any log of the event will do.
IsAnyProofDelivered(l, id) == l \in logs

\* A log of the market's address with the event's topic and that of the request.
IsProofDelivered(l, id) == Id(l) = id
IsFulfilled(id) == \E l \in logs : IsProofDelivered(l, id)
IdOf(j) == call[accepted[j]].id

\* A request that is not fulfilled is running; nothing is kept of this answer.
PollStarts(j) ==
  /\ poll.at = "idle" /\ accepted[j] # None /\ delivered[j] = None
  /\ IsFulfilled(IdOf(j))
  /\ poll' = [NoPoll EXCEPT !.at = "lookup", !.job = j]
  /\ UNCHANGED <<call, locked, accepted, wallet, chain, stream, delivered, faults>>

Deliver(l) ==
  /\ delivered' = [delivered EXCEPT ![poll.job] = JournalOf(EventData(JobOf(l.call)))]
  /\ poll' = NoPoll

\* The indexer knows the transaction, which is known by its block: its receipt holds the logs
\* of all the requests it fulfilled.
PollReceipt ==
  /\ poll.at = "lookup"
  /\ \E known \in {l \in logs : Id(l) = IdOf(poll.job)} :
       LET receipt == {l \in logs : l.block = known.block}
       IN  \E l \in receipt : IsProofDelivered(l, IdOf(poll.job)) /\ Deliver(l)
  /\ UNCHANGED <<call, locked, accepted, wallet, chain, stream, faults>>

\* The indexer does not: a horizon of recent blocks is searched.
ReadBlockNumber(head) ==
  LET oldest == head - SearchWindow
  IN  poll' = [poll EXCEPT !.at = "search", !.to = head, !.upto = head,
                           !.from = IF Deployment > oldest THEN Deployment ELSE oldest]

PollLogs ==
  /\ poll.at = "lookup"
  /\ ReadBlockNumber(block)
  /\ UNCHANGED <<call, locked, accepted, wallet, chain, stream, delivered, faults>>

\* The node that is asked for the block number may lag behind the one asked before.
PollLogsLagging ==
  /\ poll.at = "lookup" /\ Fails
  /\ ReadBlockNumber(block - 1)
  /\ UNCHANGED <<call, locked, accepted, wallet, chain, stream, delivered>>

\* The pages of fetchProofDeliveredLog go from the newest block to the oldest.
PageFrom ==
  LET candidate == poll.to - (PageSize - 1)
  IN  IF candidate > poll.from THEN candidate ELSE poll.from

\* Mutant: the length of the page is counted wrong.
OlderSkips == poll.to - PageSize - 1

Older == PageFrom - 1

SearchPage ==
  /\ poll.at = "search"
  /\ LET found == {l \in logs : /\ IsProofDelivered(l, IdOf(poll.job))
                                /\ l.block \in PageFrom .. poll.to}
     IN  \/ \E l \in found : Deliver(l)
         \/ /\ found = {} /\ PageFrom # poll.from
            /\ poll' = [poll EXCEPT !.to = Older]
            /\ UNCHANGED delivered
         \/ /\ found = {} /\ PageFrom = poll.from
            /\ poll' = NoPoll
            /\ UNCHANGED delivered
  /\ UNCHANGED <<call, locked, accepted, wallet, chain, stream, faults>>

\* An RPC call fails, or the receipt is not there yet: the next poll starts anew.
PollFails ==
  /\ poll.at # "idle" /\ Fails
  /\ poll' = NoPoll
  /\ UNCHANGED <<call, locked, accepted, wallet, chain, stream, delivered>>
-----------------------------------------------------------------------------
SubmitRequest(c) ==
  \/ BuildRequest(c) \/ RequestNotBuilt(c) \/ ReadBalance(c) \/ ReadBalanceFails(c)
  \/ Deposit(c) \/ DepositFails(c) \/ BeginDispatch(c) \/ DispatchFails(c)
  \/ SubmitOnChain(c) \/ SubmitOnChainFails(c)
  \/ SubmitToOrderStream(c) \/ SubmitToOrderStreamFails(c)
  \/ MarkProverAccepted(c) \/ AcceptedTooLate(c) \/ ConsumerCrash(c)

PollOnce == PollReceipt \/ PollLogs \/ SearchPage

Next ==
  \/ \E c \in Calls : SubmitRequest(c)
  \/ Mined \/ Dropped \/ NewBlock \/ \E cs \in SUBSET Calls : Fulfil(cs)
  \/ \E j \in Jobs : PollStarts(j)
  \/ PollOnce \/ PollLogsLagging \/ PollFails

Spec == Init /\ [][Next]_vars
-----------------------------------------------------------------------------
\* A job owns at most one request, however often it is submitted: whatever else of it is on
\* the market was sent by a call that has failed, or that a crash or a cancel cut off, as
\* long as no lease runs out under a call (client.ts:571-660, coordinator.ts:1344-1366).
OneRequestIsOwned ==
  \A c, d \in Calls :
    JobOf(c) = JobOf(d) /\ call[c].answer = "success" /\ call[d].answer = "success" => c = d

\* The proof a job is given is about the job's own tape, though receipts hold the logs of other
\* requests (client.ts:119-128), unless two calls of different jobs got one id: ids are the
\* time in milliseconds, cut to 32 bits (client.ts:345-346).
DeliveredProofIsOwn ==
  \A j \in Jobs : delivered[j] \notin {None, j} =>
    \E c, d \in Calls : /\ JobOf(c) = j /\ JobOf(d) = delivered[j]
                        /\ call[c].id = call[d].id

\* A call goes on without attaching the price only if the wallet has put enough into the
\* market: what it counted on may be missing only because provers of other requests have been
\* paid with it or a transaction was dropped (client.ts:481-513).
PutIn == wallet.due + market.balance + market.taken + market.lost
FundingAddsUp == \A c \in Calls : call[c].funded => call[c].price <= PutIn

\* A search that ends without a failure and without the proof has missed none: the horizon
\* holds no log of the request (client.ts:187-235).
SearchMissesNothing ==
  [][poll.at = "search" /\ poll'.at = "idle" /\ delivered' = delivered /\ faults' = faults =>
       \A l \in logs : Id(l) = IdOf(poll.job) => l.block \notin poll.from .. poll.upto]_vars
=============================================================================
