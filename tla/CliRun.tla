------------------------------- MODULE CliRun -------------------------------
(***************************************************************************)
(* The command line tool's run command: worker threads play one game after *)
(* another for the seed of the window (cli/src/worker/game-worker.ts); the *)
(* main thread keeps the best tape of the window, submits it, and starts   *)
(* again when a window begins (cli/src/commands/run.ts).                   *)
(*                                                                         *)
(* The threads talk through queues.  In the main thread the callbacks of   *)
(* setInterval are asynchronous: one is called every two seconds whether   *)
(* or not those before it have returned, and they interleave at their      *)
(* awaits.  There is one seed per window, so a seed is named by its window.*)
(***************************************************************************)
EXTENDS Naturals, Sequences, FiniteSets

CONSTANTS
  Exploiter, Explorers,  \* the workers
  Elsewhere,   \* per window: the best score that the player's other clients have claimed
  Relayer,     \* is a relayer configured?
  MaxScore,    \* bound: the best score a game may reach
  MaxWindow,   \* bound: the last window
  MaxTicks,    \* bound: callbacks of the main interval that are under way at a time
  MaxGames,    \* bound: games played
  MaxFaults,   \* bound: requests that fail, and signals
  MaxDrains,   \* how often a tick submits before it leaves a window
  Patience,    \* EXPLORER_RESTART_THRESHOLD
  Budget       \* MAX_SUBMISSIONS_PER_EPOCH

ASSUME CliAssumption ==
  /\ Exploiter \notin Explorers /\ Relayer \in BOOLEAN
  /\ {MaxScore, MaxWindow, MaxTicks, MaxDrains, Patience, Budget} \subseteq Nat \ {0}
  /\ {MaxGames, MaxFaults} \subseteq Nat
  /\ Elsewhere \in [1 .. MaxWindow -> 0 .. MaxScore]

Workers == {Exploiter} \cup Explorers
Windows == 1 .. MaxWindow
MaybeWindow == 0 .. MaxWindow
Scores == 0 .. MaxScore
Ticks == 1 .. MaxTicks
None == 0

VARIABLES
  now,       \* the window by the clock
  ledger,    \* the windows whose seed the contract holds
  worker,    \* the module state of game-worker.ts, and where runOneGame is
  toWorker,  \* per worker: the messages on their way from the main thread
  toMain,    \* per worker: the new-best messages on their way to the main thread
  main,      \* the variables of runCommand
  ticks,     \* the callbacks of the main interval
  shut,      \* where shutdown is
  flight,    \* the submissions that have not been answered
  jobs,      \* the submissions the server has taken
  reading,   \* the windows whose on-chain best is being asked for
  games, faults

vars == <<now, ledger, worker, toWorker, toMain, main, ticks, shut, flight, jobs,
          reading, games, faults>>
mainThread == <<main, ticks, shut, flight, jobs, reading>>

\* A tape with its score, the window it says it was played in and the one its seed is of.
Tapes == [score : Scores, id : MaybeWindow, seed : MaybeWindow]
NoTape == [score |-> 0, id |-> None, seed |-> None]

\* What the main thread says to a worker.  stop is left out: a worker that is told to start no
\* more games does nothing that one too slow to start another does not.
ResetBest == [kind |-> "reset-best", score |-> 0]
SetConfig(s) == [kind |-> "set-config", score |-> s]
ForceConfig == [kind |-> "force-config", score |-> 0]
MainToWorker == {ResetBest, ForceConfig} \cup {SetConfig(s) : s \in Scores}

WorkerRecord ==
  [at : {"between", "ensuring", "bumping", "playing"}, asked : MaybeWindow,
   id : MaybeWindow, seed : MaybeWindow, best : Scores, without : Nat,
   game : [id : MaybeWindow, seed : MaybeWindow]]

Shutdown == 0
Flights == [by : {Shutdown} \cup Ticks, tape : Tapes, id : Windows]
NoTick == [at |-> "none", epoch |-> None, drains |-> 0]

TypeOK ==
  /\ now \in Windows /\ ledger \subseteq Windows
  /\ worker \in [Workers -> WorkerRecord]
  /\ toWorker \in [Workers -> Seq(MainToWorker)] /\ toMain \in [Workers -> Seq(Tapes)]
  /\ main \in [epoch : Windows, best : Tapes, last : Scores, count : Nat, submitting : BOOLEAN]
  /\ ticks \in [Ticks -> [at : {"none", "waiting", "draining", "last"}, epoch : MaybeWindow,
                          drains : 0 .. MaxDrains]]
  /\ shut \in {"no", "waiting", "submitting", "done"}
  /\ flight \subseteq Flights /\ jobs \subseteq [tape : Tapes, id : Windows]
  /\ reading \subseteq Windows
  /\ games \in 0 .. MaxGames /\ faults \in 0 .. MaxFaults

NewWorker == [at |-> "between", asked |-> None, id |-> None, seed |-> None, best |-> 0,
              without |-> 0, game |-> [id |-> None, seed |-> None]]

Init ==
  /\ now = 1 /\ ledger = {1}
  /\ worker = [w \in Workers |-> NewWorker]
  /\ toWorker = [w \in Workers |-> <<>>] /\ toMain = [w \in Workers |-> <<>>]
  /\ main \in [epoch : {1}, best : {NoTape}, last : 0 .. Elsewhere[1], count : {0},
               submitting : {FALSE}]
  /\ ticks = [t \in Ticks |-> NoTick]
  /\ shut = "no" /\ flight = {} /\ jobs = {} /\ reading = {}
  /\ games = 0 /\ faults = 0

Fault == faults < MaxFaults /\ faults' = faults + 1
FaultIf(bad) == IF bad THEN Fault ELSE UNCHANGED faults
Running == shut # "done"

-----------------------------------------------------------------------------
(* A worker *)

\* runOneGame() returns: the next one is scheduled.
Between(r) == [r EXCEPT !.at = "between", !.asked = None,
                        !.game = [id |-> None, seed |-> None]]

\* runOneGame() once it has a seed.
Play(r) == [r EXCEPT !.at = "playing", !.asked = None,
                     !.game = [id |-> r.id, seed |-> r.seed]]

\* runOneGame(), and ensureSeed() up to its first await: what is cached is good for the window
\* by the clock, or is forgotten.
RunOneGame(w) ==
  LET r == worker[w]
  IN /\ Running /\ r.at = "between" /\ games < MaxGames
     /\ games' = games + 1
     /\ worker' = [worker EXCEPT ![w] =
          IF r.id = now /\ r.seed # None THEN Play(r)
          ELSE [r EXCEPT !.at = "ensuring", !.asked = now,
                         !.seed = IF r.id # now THEN None ELSE @]]
     /\ UNCHANGED <<now, ledger, toWorker, toMain, mainThread, faults>>

\* ensureSeed() with a seed; without one there is no game.
Ensured(r, id, seed) == Play([r EXCEPT !.id = id, !.seed = seed])

\* An attempt of ensureSeed() reads the seed of the window it is made in, and files it under
\* the window ensureSeed() was called in.
FetchSeed(w) ==
  LET r == worker[w]
  IN /\ Running /\ r.at = "ensuring"
     /\ \E q \in ledger :
          /\ q \in r.asked .. now
          /\ worker' = [worker EXCEPT ![w] = Ensured(r, r.asked, q)]
     /\ UNCHANGED <<now, ledger, toWorker, toMain, mainThread, games, faults>>

\* The last of its attempts fails: the exploiter goes on to bumpSeedViaRelayer().
FetchSeedFails(w) ==
  LET r == worker[w]
  IN /\ Running /\ r.at = "ensuring"
     /\ \E bad \in BOOLEAN :
          /\ bad \/ ~(r.asked .. now \subseteq ledger)
          /\ FaultIf(bad)
     /\ worker' = [worker EXCEPT ![w] = IF w = Exploiter /\ Relayer
                                        THEN [r EXCEPT !.at = "bumping"] ELSE Between(r)]
     /\ UNCHANGED <<now, ledger, toWorker, toMain, mainThread, games>>

\* bumpSeedViaRelayer(): current_seed is submitted, and what is there of this window or of the
\* one before is read; or the relayer fails.
BumpSeed(w) ==
  LET r == worker[w]
  IN /\ Running /\ r.at = "bumping"
     /\ \/ \E bad \in BOOLEAN, included \in BOOLEAN, q \in r.asked .. now :
             LET held == ledger \cup (IF included THEN {now} ELSE {})
                 seen == {k \in {q - 1, q} : k \in held /\ ~(bad /\ k = q)}
             IN /\ FaultIf(bad \/ ~included)
                /\ ledger' = held
                /\ worker' = [worker EXCEPT ![w] =
                     IF seen = {} THEN Between(r)
                     ELSE LET k == IF q \in seen THEN q ELSE q - 1 IN Ensured(r, k, k)]
        \/ /\ Fault /\ worker' = [worker EXCEPT ![w] = Between(r)]
           /\ UNCHANGED ledger
     /\ UNCHANGED <<now, toWorker, toMain, mainThread, games>>

\* The game ends, at its end or at MAX_FRAMES: a better tape goes to the main thread; an
\* explorer that has not improved for long starts anew.
GameEnds(w) ==
  LET r == worker[w]
  IN /\ Running /\ r.at = "playing"
     /\ \/ \E s \in Scores :
             /\ s > r.best
             /\ worker' = [worker EXCEPT ![w] = [Between(r) EXCEPT !.best = s, !.without = 0]]
             /\ toMain' = [toMain EXCEPT ![w] =
                  Append(@, [score |-> s, id |-> r.game.id, seed |-> r.game.seed])]
        \/ /\ worker' = [worker EXCEPT ![w] =
                IF w \in Explorers /\ r.without + 1 >= Patience
                THEN [Between(r) EXCEPT !.best = 0, !.without = 0]
                ELSE [Between(r) EXCEPT !.without = IF w \in Explorers THEN @ + 1 ELSE @]]
           /\ UNCHANGED toMain
     /\ UNCHANGED <<now, ledger, toWorker, mainThread, games, faults>>

\* onmessage of a worker: between two games, at an await, or at a pause of a game.
Heard(w, r, m) ==
  CASE m.kind = "reset-best" -> [r EXCEPT !.best = 0, !.without = 0, !.id = None, !.seed = None]
    [] m.kind = "force-config" -> [r EXCEPT !.best = m.score]
    [] m.kind = "set-config" ->
         IF w = Exploiter /\ m.score > r.best THEN [r EXCEPT !.best = m.score]
         ELSE IF w # Exploiter /\ 10 * m.score > 11 * r.best
         THEN [r EXCEPT !.best = m.score, !.without = 0] ELSE r

WorkerHears(w) ==
  /\ Running /\ toWorker[w] # <<>>
  /\ worker' = [worker EXCEPT ![w] = Heard(w, @, Head(toWorker[w]))]
  /\ toWorker' = [toWorker EXCEPT ![w] = Tail(@)]
  /\ UNCHANGED <<now, ledger, toMain, mainThread, games, faults>>

-----------------------------------------------------------------------------
(* The main thread *)

Improved == main.best.score > main.last

\* Mutant: tapes of every window are kept.
AnyTape(tape) == TRUE
OfThisWindow(tape) == tape.id = main.epoch

\* onmessage of the main thread: a tape of another window is dropped, a better one is kept and
\* the others are told.
MainHears(w) ==
  /\ Running /\ toMain[w] # <<>>
  /\ LET tape == Head(toMain[w])
         better == OfThisWindow(tape) /\ tape.score > main.best.score
     IN /\ main' = IF better THEN [main EXCEPT !.best = tape] ELSE main
        /\ toWorker' = IF better
                       THEN [v \in Workers |-> IF v = w THEN toWorker[v]
                                               ELSE Append(toWorker[v], SetConfig(tape.score))]
                       ELSE toWorker
  /\ toMain' = [toMain EXCEPT ![w] = Tail(@)]
  /\ UNCHANGED <<now, ledger, worker, ticks, shut, flight, jobs, reading, games, faults>>

\* doSubmit() up to its await; beyond the budget only if forced.  The
\* delay in which a score must settle is time that a tick lets pass.
MaySubmit(force) ==
  /\ ~main.submitting /\ Improved
  /\ force \/ main.count < Budget
DoSubmit(t) ==
  /\ main' = [main EXCEPT !.submitting = TRUE]
  /\ flight' = flight \cup {[by |-> t, tape |-> main.best, id |-> main.epoch]}

\* The interval calls: a window has begun, or there may be something to submit.  A tick has the
\* first number that is free.
TickStarts(t) ==
  /\ shut = "no" /\ ticks[t].at = "none" /\ \A u \in 1 .. t - 1 : ticks[u].at # "none"
  /\ \/ /\ now # main.epoch
        /\ ticks' = [ticks EXCEPT ![t] = [at |-> "waiting", epoch |-> now, drains |-> 0]]
        /\ UNCHANGED <<main, flight>>
     \/ /\ now = main.epoch /\ MaySubmit(FALSE)
        /\ DoSubmit(t)
        /\ ticks' = [ticks EXCEPT ![t].at = "last"]
  /\ UNCHANGED <<now, ledger, worker, toWorker, toMain, shut, jobs, reading, games, faults>>

\* Mutant: a tick drains once.
DrainOnce(t) == Improved /\ ticks[t].drains = 0
\* Of the ticks that wait for a submission any may be first to see it end.
MoreToDrain(t) == Improved /\ ticks[t].drains < MaxDrains

\* The drain: submit what has not been submitted, settled or not, and look again.
Drain(t) ==
  /\ Running /\ ticks[t].at = "waiting" /\ ~main.submitting
  /\ MoreToDrain(t)
  /\ DoSubmit(t)
  /\ ticks' = [ticks EXCEPT ![t].at = "draining", ![t].drains = @ + 1]
  /\ UNCHANGED <<now, ledger, worker, toWorker, toMain, shut, jobs, reading, games, faults>>

\* Mutant: what was submitted in the window before still counts.
ResetButLast(t) == [main EXCEPT !.epoch = ticks[t].epoch, !.best = NoTape, !.count = 0]
Reset(t) == [main EXCEPT !.epoch = ticks[t].epoch, !.best = NoTape, !.last = 0, !.count = 0]

\* resetEpoch(), and the questions for the new window that nobody waits for.
Leave(t) ==
  /\ Running /\ ticks[t].at = "waiting" /\ ~main.submitting
  /\ ~MoreToDrain(t)
  /\ main' = Reset(t)
  /\ toWorker' = [w \in Workers |->
       toWorker[w] \o IF w = Exploiter THEN <<ResetBest, ForceConfig>> ELSE <<ResetBest>>]
  /\ reading' = reading \cup {ticks[t].epoch}
  /\ ticks' = [ticks EXCEPT ![t] = NoTick]
  /\ UNCHANGED <<now, ledger, worker, toMain, shut, flight, jobs, games, faults>>

\* fetchBestScoreForSeedOnNetwork() answers, with 0 if it failed.
ApplyReading(k, s) ==
  main' = IF k = main.epoch /\ s > main.last THEN [main EXCEPT !.last = s] ELSE main
\* What the player's best score in the contract may be, or seem to be: jobs take their time.
OnChain(k) ==
  0 .. Elsewhere[k] \cup {j.tape.score : j \in {i \in jobs : i.id = k /\ i.tape.seed = k}}
BestIsRead ==
  /\ Running
  /\ \E k \in reading : \E s \in OnChain(k) :
       /\ ApplyReading(k, s)
       /\ reading' = reading \ {k}
  /\ UNCHANGED <<now, ledger, worker, toWorker, toMain, ticks, shut, flight, jobs, games, faults>>

\* submitTape() is answered: taken, refused (the rate limit included), or lost on its way there
\* or back.
Taken(f) == jobs' = jobs \cup {[tape |-> f.tape, id |-> f.id]}

\* Mutant: after a failure the flag stays up.
StillSubmitting == main
Failed == [main EXCEPT !.submitting = FALSE]

\* doSubmit() after its await: the tick goes on with its drain, or returns.
SubmitAnswered(t) ==
  /\ Running
  /\ \E f \in flight :
       /\ f.by = t
       /\ \/ /\ Taken(f) /\ UNCHANGED faults
             /\ main' = [main EXCEPT !.submitting = FALSE, !.count = @ + 1,
                                     !.last = f.tape.score]
          \/ /\ Taken(f) \/ UNCHANGED jobs
             /\ Fault
             /\ main' = Failed
       /\ flight' = flight \ {f}
  /\ ticks' = [ticks EXCEPT ![t] = IF @.at = "draining" THEN [@ EXCEPT !.at = "waiting"]
                                   ELSE NoTick]
  /\ UNCHANGED <<now, ledger, worker, toWorker, toMain, shut, reading, games>>

\* SIGINT or SIGTERM: no more ticks are called; those under way go on.
Signal ==
  /\ shut = "no" /\ shut' = "waiting" /\ Fault
  /\ UNCHANGED <<now, ledger, worker, toWorker, toMain, main, ticks, flight, jobs, reading, games>>

\* process.exit(): nothing of the process is left.
Exit ==
  /\ shut' = "done"
  /\ worker' = [w \in Workers |-> NewWorker]
  /\ toWorker' = [w \in Workers |-> <<>>] /\ toMain' = [w \in Workers |-> <<>>]
  /\ ticks' = [t \in Ticks |-> NoTick]
  /\ flight' = {} /\ reading' = {}

\* shutdown() after the submission under way: one last submission, which doSubmit() and its
\* flag have no part in.
FinalSubmit ==
  /\ shut = "waiting" /\ ~main.submitting
  /\ \/ /\ Improved
        /\ flight' = flight \cup {[by |-> Shutdown, tape |-> main.best, id |-> main.epoch]}
        /\ shut' = "submitting"
        /\ UNCHANGED <<worker, toWorker, toMain, ticks, reading>>
     \/ ~Improved /\ Exit
  /\ UNCHANGED <<now, ledger, main, jobs, games, faults>>

FinalAnswered ==
  /\ \E f \in flight :
       /\ f.by = Shutdown
       /\ \/ Taken(f) /\ UNCHANGED faults
          \/ UNCHANGED jobs
  /\ Exit
  /\ UNCHANGED <<now, ledger, main, games, faults>>

-----------------------------------------------------------------------------
(* The world *)

\* Somebody has the contract make the seed of the window.
Materialize ==
  /\ now \notin ledger /\ ledger' = ledger \cup {now}
  /\ UNCHANGED <<now, worker, toWorker, toMain, mainThread, games, faults>>

NextWindow ==
  /\ now < MaxWindow /\ now' = now + 1
  /\ UNCHANGED <<ledger, worker, toWorker, toMain, mainThread, games, faults>>

WorkerStep(w) ==
  RunOneGame(w) \/ FetchSeed(w) \/ FetchSeedFails(w) \/ BumpSeed(w) \/ GameEnds(w)
  \/ WorkerHears(w)
MainStep ==
  \/ \E w \in Workers : MainHears(w)
  \/ \E t \in Ticks : TickStarts(t) \/ Drain(t) \/ Leave(t) \/ SubmitAnswered(t)
  \/ BestIsRead \/ Signal \/ FinalSubmit \/ FinalAnswered

Next == (\E w \in Workers : WorkerStep(w)) \/ MainStep \/ Materialize \/ NextWindow

Spec == Init /\ [][Next]_vars

\* The timers of the main thread run, its queues are emptied, and a request has an end.
Fairness ==
  /\ \A w \in Workers : WF_vars(MainHears(w))
  /\ \A t \in Ticks :
       /\ WF_vars(TickStarts(t)) /\ WF_vars(SubmitAnswered(t))
       /\ WF_vars(Drain(t) \/ Leave(t))

FairSpec == Spec /\ Fairness

-----------------------------------------------------------------------------
(* Properties *)

\* A tape is submitted under the window it was played in, however ticks, new windows and tapes
\* that come late follow each other (run.ts:232, 344).
TapeOfItsWindow == \A s \in flight \cup jobs : s.tape.id = s.id

\* What the main thread takes for submitted in this window has been taken by the server for
\* this window, or is in the contract.
LastIsTrue ==
  \/ main.last = 0
  \/ Elsewhere[main.epoch] >= main.last
  \/ \E j \in jobs : j.id = main.epoch /\ j.tape.score = main.last

\* run.ts:376: "Keep submitting until no unsubmitted improvements remain so we never lose a
\* late-arriving high score": the best tape gives way only to a better one, or after it has been
\* submitted or beaten, or after the drain's last attempt.
BestIsKept ==
  [][main'.best # main.best =>
       \/ main'.best.score > main.best.score
       \/ ~Improved
       \/ \E t \in Ticks : ticks[t].drains = MaxDrains]_vars

\* A new best score is submitted, beaten by what is known of the chain, left with its window or
\* with the process, as long as the budget lasts.
BestIsSubmitted == []<>(~Improved \/ main.count >= Budget \/ shut # "no")

\* run.ts:231: "Discard tapes from a stale epoch (worker hadn't received reset-best yet)".  Once
\* a worker and the main thread are in one window and have heard each other out, the score the
\* worker has to beat is not above the best the main thread knows: what it does not send, the
\* main thread does not need.
BarIsReported ==
  \A w \in Workers :
    toMain[w] = <<>> /\ toWorker[w] = <<>> /\ worker[w].id = main.epoch =>
      worker[w].best <= main.best.score
=============================================================================
