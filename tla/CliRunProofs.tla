---------------------------- MODULE CliRunProofs ----------------------------
(***************************************************************************)
(* Proofs about CliRun, for any workers, scores, windows, ticks and        *)
(* faults: a tape is submitted under the window it was played in, the main *)
(* thread's idea of what it has submitted is true, and the best tape is    *)
(* not given up.                                                           *)
(*                                                                         *)
(* Ticks overlap, and one of them resets the window while others wait.     *)
(* What keeps them apart is the flag of doSubmit(): the submission of a    *)
(* tick is the only one while the flag is up, and no tick leaves the       *)
(* window before it is down.                                               *)
(***************************************************************************)
EXTENDS CliRun, TLAPS

\* The best tape, if there is one, is of the window the main thread is in.
BestFits == main.best.score > 0 => main.best.id = main.epoch

\* Submissions carry tapes of their window.  The one of a tick, and there is one at a
\* time, is of the window the main thread is in.
FlightFits ==
  /\ \A f \in flight : f.tape.id = f.id
  /\ \A f \in flight : f.by \in Ticks => main.submitting /\ f.id = main.epoch
  /\ \A f, g \in flight : f.by \in Ticks /\ g.by \in Ticks => f = g

JobsFit == \A j \in jobs : j.tape.id = j.id

\* A tick that waits to leave the window knows the one it goes to.
TicksFit ==
  \A t \in Ticks : ticks[t].at \in {"waiting", "draining"} => ticks[t].epoch \in Windows

CliInv == TypeOK /\ BestFits /\ FlightFits /\ JobsFit /\ LastIsTrue /\ TicksFit
-----------------------------------------------------------------------------
\* What the sets of windows, scores and drains hold.
LEMMA Bounds ==
  /\ None \in MaybeWindow /\ Windows \subseteq MaybeWindow /\ 1 \in Windows
  /\ Windows \subseteq Nat /\ 0 \in Scores /\ Scores \subseteq Nat
  /\ 0 \in 0 .. MaxDrains /\ MaxDrains \in Nat /\ Shutdown \notin Ticks
  /\ \A k \in Windows : Elsewhere[k] \in Scores
BY CliAssumption DEF CliAssumption, Windows, MaybeWindow, Scores, None, Shutdown, Ticks

\* What a step that leaves the main thread's variables alone keeps.
LEMMA MainRests ==
  ASSUME CliInv, TypeOK', UNCHANGED <<main, ticks, flight, jobs>>
  PROVE  CliInv'
BY DEF CliInv, BestFits, FlightFits, JobsFit, LastIsTrue, TicksFit

\* A fault is counted, within the bound.
LEMMA FaultCounts ==
  ASSUME TypeOK
  PROVE  /\ Fault => faults' \in 0 .. MaxFaults
         /\ \A bad \in BOOLEAN : FaultIf(bad) => faults' \in 0 .. MaxFaults
BY CliAssumption DEF CliAssumption, TypeOK, Fault, FaultIf

\* What a worker is when it is between two games, or plays.
LEMMA WorkerTypes ==
  ASSUME NEW r \in WorkerRecord
  PROVE  /\ Between(r) \in WorkerRecord
         /\ Play(r) \in WorkerRecord
         /\ \A id, seed \in MaybeWindow : Ensured(r, id, seed) \in WorkerRecord
<1>1. ASSUME NEW q \in WorkerRecord PROVE Play(q) \in WorkerRecord
  BY Bounds DEF WorkerRecord, Play
<1>2. Between(r) \in WorkerRecord
  BY Bounds DEF WorkerRecord, Between
<1>3. ASSUME NEW id \in MaybeWindow, NEW seed \in MaybeWindow
      PROVE  Ensured(r, id, seed) \in WorkerRecord
  <2>1. [r EXCEPT !.id = id, !.seed = seed] \in WorkerRecord
    BY DEF WorkerRecord
  <2>2. QED
    BY <1>1, <2>1 DEF Ensured
<1>4. QED
  BY <1>1, <1>2, <1>3

\* Nothing has been played yet.
LEMMA CliInit == Init => CliInv
<1> SUFFICES ASSUME Init PROVE CliInv
  OBVIOUS
<1>1. NewWorker \in WorkerRecord
  BY Bounds DEF NewWorker, WorkerRecord
<1>2. NoTape \in Tapes /\ NoTick \in [at : {"none", "waiting", "draining", "last"},
                                      epoch : MaybeWindow, drains : 0 .. MaxDrains]
  BY Bounds DEF NoTape, NoTick, Tapes
<1>3. 1 \in Windows /\ Elsewhere[1] \in Scores /\ 0 .. Elsewhere[1] \subseteq Scores
  <2>1. 1 \in Windows /\ Elsewhere[1] \in Scores
    BY Bounds
  <2>2. QED
    BY <2>1, CliAssumption DEF CliAssumption, Scores
<1>4. /\ main.epoch = 1 /\ main.best = NoTape /\ main.last \in 0 .. Elsewhere[1]
      /\ main.count = 0 /\ ~main.submitting
      /\ main \in [epoch : Windows, best : Tapes, last : Scores, count : Nat,
                   submitting : BOOLEAN]
  <2>1. main \in [epoch : {1}, best : {NoTape}, last : 0 .. Elsewhere[1], count : {0},
                  submitting : {FALSE}]
    BY DEF Init
  <2>2. PICK l \in 0 .. Elsewhere[1] :
          main = [epoch |-> 1, best |-> NoTape, last |-> l, count |-> 0, submitting |-> FALSE]
    <3>1. main = [epoch |-> 1, best |-> NoTape, last |-> main.last, count |-> 0,
                  submitting |-> FALSE]
      BY <2>1
    <3>2. main.last \in 0 .. Elsewhere[1]
      BY <2>1
    <3>3. QED
      BY <3>1, <3>2
  <2>3. l \in Scores
    BY <1>3
  <2> HIDE DEF NoTape
  <2>4. QED
    BY <1>2, <1>3, <2>2, <2>3
<1>5. TypeOK
  BY <1>1, <1>2, <1>3, <1>4, CliAssumption, Bounds DEF CliAssumption, Init, TypeOK
<1>6. BestFits /\ FlightFits /\ JobsFit
  BY <1>4 DEF Init, BestFits, FlightFits, JobsFit, NoTape
<1>7. LastIsTrue
  BY <1>3, <1>4 DEF LastIsTrue
<1>8. TicksFit
  BY DEF Init, TicksFit, NoTick
<1>9. QED
  BY <1>5, <1>6, <1>7, <1>8 DEF CliInv
-----------------------------------------------------------------------------
(* The workers do not touch what the main thread keeps.                    *)

\* A worker becomes another one, and its messages may be taken or sent.
LEMMA WorkerGoesOn ==
  ASSUME CliInv, NEW w \in Workers, NEW r \in WorkerRecord, worker' = [worker EXCEPT ![w] = r],
         toWorker' \in [Workers -> Seq(MainToWorker)], toMain' \in [Workers -> Seq(Tapes)],
         ledger' \subseteq Windows, UNCHANGED <<now, mainThread>>,
         games' \in 0 .. MaxGames, faults' \in 0 .. MaxFaults
  PROVE  CliInv'
<1>1. TypeOK'
  BY DEF CliInv, TypeOK, mainThread
<1>2. QED
  BY <1>1, MainRests DEF mainThread

\* A game begins, or its seed is asked for.
LEMMA RunOneGameStep == ASSUME CliInv, NEW w \in Workers, RunOneGame(w) PROVE CliInv'
<1>1. worker[w] \in WorkerRecord /\ now \in MaybeWindow /\ games' \in 0 .. MaxGames
  BY CliAssumption DEF CliAssumption, CliInv, TypeOK, Windows, MaybeWindow, RunOneGame
<1>2. PICK r \in WorkerRecord : worker' = [worker EXCEPT ![w] = r]
  <2>1. CASE worker' = [worker EXCEPT ![w] = Play(worker[w])]
    BY <1>1, <2>1, WorkerTypes
  <2>2. CASE \E seed \in {None, worker[w].seed} :
          worker' = [worker EXCEPT ![w] =
                       [worker[w] EXCEPT !.at = "ensuring", !.asked = now, !.seed = seed]]
    BY <1>1, <2>2, Bounds DEF WorkerRecord
  <2>3. QED
    BY <2>1, <2>2 DEF RunOneGame
<1>3. QED
  BY <1>1, <1>2, WorkerGoesOn DEF RunOneGame, CliInv, TypeOK

\* The seed is filed under the window that ensureSeed() was called in.
LEMMA FetchSeedStep == ASSUME CliInv, NEW w \in Workers, FetchSeed(w) PROVE CliInv'
<1>1. PICK q \in ledger : worker' = [worker EXCEPT ![w] = Ensured(worker[w], worker[w].asked, q)]
  BY DEF FetchSeed
<1>2. Ensured(worker[w], worker[w].asked, q) \in WorkerRecord
  <2>1. worker[w] \in WorkerRecord /\ worker[w].asked \in MaybeWindow /\ q \in MaybeWindow
    BY CliAssumption DEF CliAssumption, CliInv, TypeOK, WorkerRecord, Windows, MaybeWindow
  <2>2. QED
    BY <2>1, WorkerTypes
<1>3. QED
  BY <1>1, <1>2, WorkerGoesOn DEF FetchSeed, CliInv, TypeOK

\* There is no seed.
LEMMA FetchSeedFailsStep == ASSUME CliInv, NEW w \in Workers, FetchSeedFails(w) PROVE CliInv'
<1>1. worker[w] \in WorkerRecord /\ faults' \in 0 .. MaxFaults
  BY FaultCounts DEF CliInv, TypeOK, FetchSeedFails
<1>2. PICK r \in WorkerRecord : worker' = [worker EXCEPT ![w] = r]
  BY <1>1, WorkerTypes DEF FetchSeedFails, WorkerRecord
<1>3. QED
  BY <1>1, <1>2, WorkerGoesOn DEF FetchSeedFails, CliInv, TypeOK

\* The relayer has the seed drawn, of this window or the one before, or fails.
LEMMA BumpSeedStep == ASSUME CliInv, NEW w \in Workers, BumpSeed(w) PROVE CliInv'
<1>1. worker[w] \in WorkerRecord /\ now \in Windows /\ ledger \subseteq Windows
  BY DEF CliInv, TypeOK
<1>2. faults' \in 0 .. MaxFaults /\ ledger' \subseteq Windows
  BY <1>1, FaultCounts DEF CliInv, BumpSeed
<1>3. PICK r \in WorkerRecord : worker' = [worker EXCEPT ![w] = r]
  <2>1. CASE worker' = [worker EXCEPT ![w] = Between(worker[w])]
    BY <1>1, <2>1, WorkerTypes
  <2>2. CASE \E k \in Windows : worker' = [worker EXCEPT ![w] = Ensured(worker[w], k, k)]
    <3>1. PICK k \in Windows : worker' = [worker EXCEPT ![w] = Ensured(worker[w], k, k)]
      BY <2>2
    <3>2. Ensured(worker[w], k, k) \in WorkerRecord
      BY <1>1, WorkerTypes, Bounds
    <3>3. QED
      BY <3>1, <3>2
  <2>3. QED
    <3>1. CASE worker' = [worker EXCEPT ![w] = Between(worker[w])]
      BY <2>1, <3>1
    <3>2. CASE worker' # [worker EXCEPT ![w] = Between(worker[w])]
      <4>1. PICK bad \in BOOLEAN, included \in BOOLEAN, q \in worker[w].asked .. now :
              LET held == ledger \cup (IF included THEN {now} ELSE {})
                  seen == {k \in {q - 1, q} : k \in held /\ ~(bad /\ k = q)}
              IN /\ seen # {}
                 /\ worker' = [worker EXCEPT ![w] =
                      LET k == IF q \in seen THEN q ELSE q - 1 IN Ensured(worker[w], k, k)]
        BY <3>2 DEF BumpSeed
      <4>2. \E k \in Windows : worker' = [worker EXCEPT ![w] = Ensured(worker[w], k, k)]
        BY <1>1, <4>1
      <4>3. QED
        BY <2>2, <4>2
    <3>3. QED
      BY <3>1, <3>2
<1>4. QED
  BY <1>2, <1>3, WorkerGoesOn DEF BumpSeed, CliInv, TypeOK

\* A game ends, and a better tape is sent.
LEMMA GameEndsStep == ASSUME CliInv, NEW w \in Workers, GameEnds(w) PROVE CliInv'
<1>1. worker[w] \in WorkerRecord /\ Between(worker[w]) \in WorkerRecord
  BY WorkerTypes DEF CliInv, TypeOK
<1>2. toMain' \in [Workers -> Seq(Tapes)]
  <2>1. CASE UNCHANGED toMain
    BY <2>1 DEF CliInv, TypeOK
  <2>2. CASE \E s \in Scores :
          toMain' = [toMain EXCEPT ![w] = Append(@,
             [score |-> s, id |-> worker[w].game.id, seed |-> worker[w].game.seed])]
    <3>1. PICK s \in Scores :
            toMain' = [toMain EXCEPT ![w] = Append(toMain[w],
               [score |-> s, id |-> worker[w].game.id, seed |-> worker[w].game.seed])]
      BY <2>2
    <3>2. [score |-> s, id |-> worker[w].game.id, seed |-> worker[w].game.seed] \in Tapes
      BY <1>1 DEF WorkerRecord, Tapes
    <3>3. QED
      BY <3>1, <3>2 DEF CliInv, TypeOK
  <2>3. QED
    BY <2>1, <2>2 DEF GameEnds
<1>3. PICK r \in WorkerRecord : worker' = [worker EXCEPT ![w] = r]
  <2>1. CASE \E s \in Scores :
          worker' = [worker EXCEPT ![w] = [Between(worker[w]) EXCEPT !.best = s, !.without = 0]]
    BY <1>1, <2>1 DEF WorkerRecord
  <2>2. CASE worker' = [worker EXCEPT ![w] =
                 [Between(worker[w]) EXCEPT !.best = 0, !.without = 0]]
    <3>1. 0 \in Scores
      BY CliAssumption DEF CliAssumption, Scores
    <3>2. QED
      BY <1>1, <2>2, <3>1 DEF WorkerRecord
  <2>3. CASE worker' = [worker EXCEPT ![w] = [Between(worker[w]) EXCEPT !.without =
                 IF w \in Explorers THEN @ + 1 ELSE @]]
    <3> DEFINE n == IF w \in Explorers THEN Between(worker[w]).without + 1
                    ELSE Between(worker[w]).without
    <3>1. n \in Nat
      BY <1>1 DEF WorkerRecord
    <3>2. worker' = [worker EXCEPT ![w] = [Between(worker[w]) EXCEPT !.without = n]]
      BY <2>3
    <3> HIDE DEF n
    <3>3. QED
      BY <1>1, <3>1, <3>2 DEF WorkerRecord
  <2>4. QED
    BY <2>1, <2>2, <2>3 DEF GameEnds
<1>4. QED
  BY <1>2, <1>3, WorkerGoesOn DEF GameEnds, CliInv, TypeOK

\* A worker that hears a message has another bar.
LEMMA WorkerHearsStep == ASSUME CliInv, NEW w \in Workers, WorkerHears(w) PROVE CliInv'
<1>1. /\ worker[w] \in WorkerRecord /\ Head(toWorker[w]) \in MainToWorker
      /\ Tail(toWorker[w]) \in Seq(MainToWorker)
  BY DEF CliInv, TypeOK, WorkerHears
<1>2. Heard(w, worker[w], Head(toWorker[w])) \in WorkerRecord
  <2>1. ASSUME NEW m \in MainToWorker PROVE Heard(w, worker[w], m) \in WorkerRecord
    <3>1. m.kind \in {"reset-best", "force-config", "set-config"} /\ m.score \in Scores
      BY CliAssumption DEF CliAssumption, MainToWorker, ResetBest, SetConfig, ForceConfig, Scores
    <3>2. CASE m.kind = "reset-best"
      BY <1>1, <3>2, Bounds DEF Heard, WorkerRecord
    <3>3. CASE m.kind = "force-config"
      BY <1>1, <3>1, <3>3 DEF Heard, WorkerRecord
    <3>4. CASE m.kind = "set-config"
      BY <1>1, <3>1, <3>4 DEF Heard, WorkerRecord
    <3>5. QED
      BY <3>1, <3>2, <3>3, <3>4
  <2>2. QED
    BY <1>1, <2>1
<1>3. worker' = [worker EXCEPT ![w] = Heard(w, worker[w], Head(toWorker[w]))]
      /\ toWorker' \in [Workers -> Seq(MainToWorker)]
  BY <1>1 DEF CliInv, TypeOK, WorkerHears
<1>4. QED
  BY <1>2, <1>3, WorkerGoesOn DEF WorkerHears, CliInv, TypeOK
-----------------------------------------------------------------------------
(* The main thread.                                                        *)

\* A better tape of this window is kept.
LEMMA MainHearsStep == ASSUME CliInv, NEW w \in Workers, MainHears(w) PROVE CliInv'
<1> DEFINE tape == Head(toMain[w])
<1>1. tape \in Tapes /\ Tail(toMain[w]) \in Seq(Tapes)
  BY DEF CliInv, TypeOK, MainHears
<1>2. SetConfig(tape.score) \in MainToWorker
  BY <1>1 DEF MainToWorker, Tapes
<1>3. \/ UNCHANGED main
      \/ main' = [main EXCEPT !.best = tape] /\ tape.id = main.epoch
  BY DEF MainHears, OfThisWindow
<1>4. toWorker' \in [Workers -> Seq(MainToWorker)]
  <2>1. \A v \in Workers : Append(toWorker[v], SetConfig(tape.score)) \in Seq(MainToWorker)
    BY <1>2 DEF CliInv, TypeOK
  <2>2. QED
    BY <2>1 DEF MainHears, CliInv, TypeOK
<1>5. toMain' \in [Workers -> Seq(Tapes)]
  BY <1>1 DEF MainHears, CliInv, TypeOK
<1> HIDE DEF tape
<1>6. TypeOK'
  BY <1>1, <1>3, <1>4, <1>5 DEF MainHears, CliInv, TypeOK
<1>7. /\ main'.epoch = main.epoch /\ main'.last = main.last
      /\ main'.submitting = main.submitting
  BY <1>3 DEF CliInv, TypeOK
<1>8. BestFits'
  BY <1>3 DEF CliInv, TypeOK, BestFits
<1>9. FlightFits' /\ JobsFit' /\ LastIsTrue' /\ TicksFit'
  BY <1>7 DEF MainHears, CliInv, FlightFits, JobsFit, LastIsTrue, TicksFit
<1>10. QED
  BY <1>6, <1>8, <1>9 DEF CliInv

\* The best tape is submitted while the flag is down: no other tick submits.
LEMMA Submitted ==
  ASSUME CliInv, NEW t \in Ticks, ~main.submitting, Improved, DoSubmit(t), UNCHANGED jobs
  PROVE  /\ main' \in [epoch : Windows, best : Tapes, last : Scores, count : Nat,
                       submitting : BOOLEAN]
         /\ flight' \subseteq Flights
         /\ BestFits' /\ FlightFits' /\ JobsFit' /\ LastIsTrue'
<1> DEFINE f == [by |-> t, tape |-> main.best, id |-> main.epoch]
<1>1. /\ main \in [epoch : Windows, best : Tapes, last : Scores, count : Nat,
                   submitting : BOOLEAN]
      /\ flight \subseteq Flights
  BY DEF CliInv, TypeOK
<1>2. main' = [main EXCEPT !.submitting = TRUE] /\ flight' = flight \cup {f}
  BY DEF DoSubmit
<1>3. main.best.score > 0
  <2>1. main.best.score \in Nat /\ main.last \in Nat
    BY <1>1, Bounds DEF Tapes
  <2>2. QED
    BY <2>1 DEF Improved
<1>4. main.best.id = main.epoch
  BY <1>3 DEF CliInv, BestFits
<1>5. f \in Flights
  BY <1>1 DEF Flights
<1>6. FlightFits'
  <2>1. \A g \in flight : g.by \notin Ticks
    BY DEF CliInv, FlightFits
  <2>2. main'.submitting /\ main'.epoch = main.epoch
    BY <1>1, <1>2
  <2>3. QED
    BY <1>2, <1>4, <2>1, <2>2 DEF CliInv, FlightFits
<1>7. BestFits' /\ JobsFit' /\ LastIsTrue'
  BY <1>1, <1>2 DEF CliInv, BestFits, JobsFit, LastIsTrue
<1> HIDE DEF f
<1>8. QED
  BY <1>1, <1>2, <1>5, <1>6, <1>7

\* A tick begins: it waits to leave the window, or it submits.
LEMMA TickStartsStep == ASSUME CliInv, NEW t \in Ticks, TickStarts(t) PROVE CliInv'
<1>1. CASE /\ ticks' = [ticks EXCEPT ![t] = [at |-> "waiting", epoch |-> now, drains |-> 0]]
           /\ UNCHANGED <<main, flight>>
  <2>1. TypeOK'
    BY <1>1, Bounds DEF TickStarts, CliInv, TypeOK
  <2>2. TicksFit'
    BY <1>1 DEF CliInv, TypeOK, TicksFit
  <2>3. BestFits' /\ FlightFits' /\ JobsFit' /\ LastIsTrue'
    BY <1>1 DEF TickStarts, CliInv, BestFits, FlightFits, JobsFit, LastIsTrue
  <2>4. QED
    BY <2>1, <2>2, <2>3 DEF CliInv
<1>2. CASE MaySubmit(FALSE) /\ DoSubmit(t) /\ ticks' = [ticks EXCEPT ![t].at = "last"]
  <2>1. /\ main' \in [epoch : Windows, best : Tapes, last : Scores, count : Nat,
                      submitting : BOOLEAN]
        /\ flight' \subseteq Flights
        /\ BestFits' /\ FlightFits' /\ JobsFit' /\ LastIsTrue'
    BY <1>2, Submitted DEF MaySubmit, TickStarts
  <2>2. TypeOK' /\ TicksFit'
    BY <1>2, <2>1 DEF TickStarts, CliInv, TypeOK, TicksFit
  <2>3. QED
    BY <2>1, <2>2 DEF CliInv
<1>3. QED
  BY <1>1, <1>2 DEF TickStarts

\* A tick that is about to leave submits first.
LEMMA DrainStep == ASSUME CliInv, NEW t \in Ticks, Drain(t) PROVE CliInv'
<1>1. /\ main' \in [epoch : Windows, best : Tapes, last : Scores, count : Nat,
                    submitting : BOOLEAN]
      /\ flight' \subseteq Flights
      /\ BestFits' /\ FlightFits' /\ JobsFit' /\ LastIsTrue'
  BY Submitted DEF Drain, MoreToDrain
<1>2. ticks[t].drains + 1 \in 0 .. MaxDrains
  BY Bounds DEF Drain, MoreToDrain, CliInv, TypeOK
<1>3. ticks' = [ticks EXCEPT ![t] =
        [at |-> "draining", epoch |-> ticks[t].epoch, drains |-> ticks[t].drains + 1]]
  <2>1. ticks \in [Ticks -> [at : {"none", "waiting", "draining", "last"},
                            epoch : MaybeWindow, drains : 0 .. MaxDrains]]
    BY DEF CliInv, TypeOK
  <2>2. ticks[t] = [at |-> ticks[t].at, epoch |-> ticks[t].epoch, drains |-> ticks[t].drains]
    BY <2>1
  <2>3. ticks' = [ticks EXCEPT ![t].at = "draining", ![t].drains = ticks[t].drains + 1]
    BY DEF Drain
  <2>4. QED
    BY <2>1, <2>2, <2>3
<1>4. ticks[t].epoch \in Windows
  BY DEF Drain, CliInv, TicksFit
<1>5. TypeOK'
  <2>1. [at |-> "draining", epoch |-> ticks[t].epoch, drains |-> ticks[t].drains + 1]
          \in [at : {"none", "waiting", "draining", "last"}, epoch : MaybeWindow,
               drains : 0 .. MaxDrains]
    BY <1>2, <1>4, Bounds
  <2>2. ticks' \in [Ticks -> [at : {"none", "waiting", "draining", "last"},
                             epoch : MaybeWindow, drains : 0 .. MaxDrains]]
    BY <1>3, <2>1 DEF CliInv, TypeOK
  <2>3. QED
    BY <1>1, <2>2 DEF Drain, CliInv, TypeOK
<1>6. TicksFit'
  BY <1>3, <1>4 DEF CliInv, TypeOK, TicksFit
<1>7. QED
  BY <1>1, <1>5, <1>6 DEF CliInv

\* A tick leaves the window while the flag is down: nothing of the old window is on its way
\* but what shutdown sends.
LEMMA LeaveStep == ASSUME CliInv, NEW t \in Ticks, Leave(t) PROVE CliInv'
<1>1. ticks[t].epoch \in Windows /\ ~main.submitting
  BY DEF Leave, CliInv, TicksFit
<1>2. NoTape \in Tapes /\ NoTick \in [at : {"none", "waiting", "draining", "last"},
                                      epoch : MaybeWindow, drains : 0 .. MaxDrains]
  BY Bounds DEF NoTape, NoTick, Tapes
<1>3. /\ main' \in [epoch : Windows, best : Tapes, last : Scores, count : Nat,
                    submitting : BOOLEAN]
      /\ main'.best = NoTape /\ main'.last = 0
  BY <1>1, <1>2, Bounds DEF Leave, Reset, CliInv, TypeOK
<1>4. toWorker' \in [Workers -> Seq(MainToWorker)]
  <2>1. <<ResetBest, ForceConfig>> \in Seq(MainToWorker) /\ <<ResetBest>> \in Seq(MainToWorker)
    BY DEF MainToWorker
  <2>2. \A w \in Workers : \A q \in Seq(MainToWorker) : toWorker[w] \o q \in Seq(MainToWorker)
    BY DEF CliInv, TypeOK
  <2>3. QED
    BY <2>1, <2>2 DEF Leave
<1>5. TypeOK'
  BY <1>1, <1>2, <1>3, <1>4 DEF Leave, CliInv, TypeOK
<1>6. BestFits' /\ LastIsTrue'
  BY <1>3 DEF BestFits, LastIsTrue, NoTape
<1>7. FlightFits' /\ JobsFit'
  BY <1>1 DEF Leave, CliInv, FlightFits, JobsFit
<1>8. TicksFit'
  BY DEF Leave, CliInv, TypeOK, TicksFit, NoTick
<1>9. QED
  BY <1>5, <1>6, <1>7, <1>8 DEF CliInv

\* What the chain is said to hold is there, or was claimed by another client.
LEMMA BestIsReadStep == ASSUME CliInv, BestIsRead PROVE CliInv'
<1>0. PICK k \in reading : \E s \in OnChain(k) : /\ ApplyReading(k, s)
                                                 /\ reading' = reading \ {k}
  BY DEF BestIsRead
<1>1. PICK s \in OnChain(k) : ApplyReading(k, s) /\ reading' = reading \ {k}
  BY <1>0
<1>2. k \in Windows /\ Elsewhere[k] \in Scores
  BY Bounds DEF CliInv, TypeOK
<1>3. s \in Scores /\ (\/ s <= Elsewhere[k]
                       \/ \E j \in jobs : j.id = k /\ j.tape.score = s)
  <2>1. CASE s \in 0 .. Elsewhere[k]
    BY <1>2, <2>1, CliAssumption DEF CliAssumption, Scores
  <2>2. CASE \E j \in jobs : j.id = k /\ j.tape.score = s
    BY <2>2 DEF CliInv, TypeOK, Tapes
  <2>3. QED
    BY <1>1, <2>1, <2>2 DEF OnChain
<1>4. \/ UNCHANGED main
      \/ k = main.epoch /\ main' = [main EXCEPT !.last = s]
  BY <1>1 DEF ApplyReading
<1>5. TypeOK'
  BY <1>1, <1>3, <1>4 DEF BestIsRead, CliInv, TypeOK
<1>6. BestFits' /\ FlightFits' /\ JobsFit' /\ TicksFit'
  BY <1>4 DEF BestIsRead, CliInv, TypeOK, BestFits, FlightFits, JobsFit, TicksFit
<1>7. LastIsTrue'
  <2>1. CASE UNCHANGED main
    BY <2>1 DEF BestIsRead, CliInv, LastIsTrue
  <2>2. CASE k = main.epoch /\ main' = [main EXCEPT !.last = s]
    <3>1. main'.epoch = k /\ main'.last = s
      BY <2>2 DEF CliInv, TypeOK
    <3>2. s <= Elsewhere[k] => Elsewhere[k] >= s
      BY <1>2, <1>3, Bounds
    <3>3. QED
      BY <1>3, <3>1, <3>2 DEF BestIsRead, LastIsTrue
  <2>3. QED
    BY <1>4, <2>1, <2>2
<1>8. QED
  BY <1>5, <1>6, <1>7 DEF CliInv

\* An answer ends the submission: the flag goes down, and what was taken is remembered.
LEMMA SubmitAnsweredStep == ASSUME CliInv, NEW t \in Ticks, SubmitAnswered(t) PROVE CliInv'
<1>1. PICK f \in flight :
        /\ f.by = t /\ flight' = flight \ {f}
        /\ \/ /\ Taken(f) /\ UNCHANGED faults
              /\ main' = [main EXCEPT !.submitting = FALSE, !.count = main.count + 1,
                                      !.last = f.tape.score]
           \/ /\ Taken(f) \/ UNCHANGED jobs
              /\ Fault
              /\ main' = Failed
  BY DEF SubmitAnswered
<1>2. /\ f.tape \in Tapes /\ f.id \in Windows /\ f.tape.id = f.id /\ f.id = main.epoch
      /\ f.tape.score \in Scores
  BY <1>1 DEF CliInv, TypeOK, Flights, FlightFits, Tapes
<1>3. faults' \in 0 .. MaxFaults
  BY <1>1, FaultCounts DEF CliInv, TypeOK
<1>4. /\ main' \in [epoch : Windows, best : Tapes, last : Scores, count : Nat,
                    submitting : BOOLEAN]
      /\ main'.epoch = main.epoch /\ main'.best = main.best
      /\ \/ main'.last = main.last
         \/ main'.last = f.tape.score /\ Taken(f)
  <2>1. main \in [epoch : Windows, best : Tapes, last : Scores, count : Nat,
                  submitting : BOOLEAN]
    BY DEF CliInv, TypeOK
  <2>2. main.count + 1 \in Nat
    BY <2>1
  <2>3. QED
    BY <1>1, <1>2, <2>1, <2>2 DEF Failed
<1>5. /\ jobs \subseteq jobs' /\ jobs' \subseteq [tape : Tapes, id : Windows]
      /\ \A j \in jobs' : j.tape.id = j.id
  <2> DEFINE taken == [tape |-> f.tape, id |-> f.id]
  <2>1. taken \in [tape : Tapes, id : Windows] /\ taken.tape.id = taken.id
    BY <1>2
  <2>2. jobs' = jobs \/ jobs' = jobs \cup {taken}
    BY <1>1 DEF Taken
  <2> HIDE DEF taken
  <2>3. QED
    BY <2>1, <2>2 DEF CliInv, TypeOK, JobsFit
<1>6. \A u \in Ticks : ticks'[u].at \in {"waiting", "draining"} =>
        ticks'[u].epoch = ticks[u].epoch /\ ticks[u].at \in {"waiting", "draining"}
  <2>1. ticks' = [ticks EXCEPT ![t] = IF ticks[t].at = "draining"
                                      THEN [ticks[t] EXCEPT !.at = "waiting"] ELSE NoTick]
    BY DEF SubmitAnswered
  <2>2. QED
    BY <2>1 DEF CliInv, TypeOK, NoTick
<1>7. ticks' \in [Ticks -> [at : {"none", "waiting", "draining", "last"}, epoch : MaybeWindow,
                            drains : 0 .. MaxDrains]]
  <2>1. NoTick \in [at : {"none", "waiting", "draining", "last"}, epoch : MaybeWindow,
                    drains : 0 .. MaxDrains]
    BY Bounds DEF NoTick
  <2>2. QED
    BY <2>1 DEF SubmitAnswered, CliInv, TypeOK
<1>8. TypeOK'
  BY <1>1, <1>3, <1>4, <1>5, <1>7 DEF SubmitAnswered, CliInv, TypeOK
<1>9. BestFits' /\ JobsFit' /\ TicksFit'
  BY <1>4, <1>5, <1>6 DEF CliInv, BestFits, JobsFit, TicksFit
<1>10. FlightFits'
  <2>1. \A g \in flight' : g \in flight /\ g.by \notin Ticks
    BY <1>1 DEF CliInv, FlightFits
  <2>2. QED
    BY <2>1 DEF CliInv, FlightFits
<1>11. LastIsTrue'
  <2>1. CASE main'.last = main.last
    BY <1>4, <1>5, <2>1 DEF CliInv, LastIsTrue
  <2>2. CASE main'.last = f.tape.score /\ Taken(f)
    <3>1. [tape |-> f.tape, id |-> f.id] \in jobs'
      BY <2>2 DEF Taken
    <3>2. QED
      BY <1>2, <1>4, <2>2, <3>1 DEF LastIsTrue
  <2>3. QED
    BY <1>4, <2>1, <2>2
<1>12. QED
  BY <1>8, <1>9, <1>10, <1>11 DEF CliInv

\* shutdown sends one tape more, of the window it finds.
LEMMA SignalStep == ASSUME CliInv, Signal PROVE CliInv'
<1>1. TypeOK'
  BY FaultCounts DEF Signal, CliInv, TypeOK
<1>2. QED
  BY <1>1, MainRests DEF Signal

\* What is left when the process has ended.
LEMMA ExitStep ==
  ASSUME CliInv, Exit, UNCHANGED <<now, ledger, main, games>>, faults' \in 0 .. MaxFaults,
         jobs \subseteq jobs', jobs' \subseteq [tape : Tapes, id : Windows], JobsFit'
  PROVE  CliInv'
<1>1. NewWorker \in WorkerRecord
  BY Bounds DEF NewWorker, WorkerRecord
<1>2. NoTick \in [at : {"none", "waiting", "draining", "last"}, epoch : MaybeWindow,
                  drains : 0 .. MaxDrains]
  BY Bounds DEF NoTick
<1>3. TypeOK'
  BY <1>1, <1>2 DEF Exit, CliInv, TypeOK
<1>4. BestFits' /\ FlightFits'
  BY DEF Exit, CliInv, BestFits, FlightFits
<1>5. LastIsTrue'
  BY DEF CliInv, LastIsTrue
<1>6. TicksFit'
  BY DEF Exit, TicksFit, NoTick
<1>7. QED
  BY <1>3, <1>4, <1>5, <1>6 DEF CliInv

\* shutdown submits the best tape once more, or exits.
LEMMA FinalSubmitStep == ASSUME CliInv, FinalSubmit PROVE CliInv'
<1>1. CASE Exit
  BY <1>1, ExitStep DEF FinalSubmit, CliInv, TypeOK, JobsFit
<1>2. CASE /\ Improved /\ shut' = "submitting"
           /\ flight' = flight \cup {[by |-> Shutdown, tape |-> main.best, id |-> main.epoch]}
           /\ UNCHANGED <<worker, toWorker, toMain, ticks, reading>>
  <2> DEFINE f == [by |-> Shutdown, tape |-> main.best, id |-> main.epoch]
  <2>1. /\ main \in [epoch : Windows, best : Tapes, last : Scores, count : Nat,
                     submitting : BOOLEAN]
        /\ main.best.score > 0
    <3>1. main \in [epoch : Windows, best : Tapes, last : Scores, count : Nat,
                    submitting : BOOLEAN]
      BY DEF CliInv, TypeOK
    <3>2. main.best.score \in Nat /\ main.last \in Nat
      BY <3>1, Bounds DEF Tapes
    <3>3. QED
      BY <1>2, <3>1, <3>2 DEF Improved
  <2>2. f \in Flights /\ f.tape.id = f.id /\ f.by \notin Ticks
    BY <2>1, Bounds DEF Flights, CliInv, BestFits
  <2>3. flight' = flight \cup {f}
    BY <1>2
  <2> HIDE DEF f
  <2>4. TypeOK'
    BY <1>2, <2>2, <2>3 DEF FinalSubmit, CliInv, TypeOK
  <2>5. FlightFits'
    BY <2>2, <2>3 DEF FinalSubmit, CliInv, FlightFits
  <2>6. BestFits' /\ JobsFit' /\ LastIsTrue' /\ TicksFit'
    BY <1>2 DEF FinalSubmit, CliInv, BestFits, JobsFit, LastIsTrue, TicksFit
  <2>7. QED
    BY <2>4, <2>5, <2>6 DEF CliInv
<1>3. QED
  BY <1>1, <1>2 DEF FinalSubmit

\* That submission is answered, or not, and the process exits.
LEMMA FinalAnsweredStep == ASSUME CliInv, FinalAnswered PROVE CliInv'
<1>1. PICK f \in flight : Taken(f) \/ UNCHANGED jobs
  BY DEF FinalAnswered
<1> DEFINE taken == [tape |-> f.tape, id |-> f.id]
<1>2. taken \in [tape : Tapes, id : Windows] /\ taken.tape.id = taken.id
  BY <1>1 DEF CliInv, TypeOK, Flights, FlightFits
<1>3. jobs' = jobs \/ jobs' = jobs \cup {taken}
  BY <1>1 DEF Taken
<1> HIDE DEF taken
<1>4. /\ jobs \subseteq jobs' /\ jobs' \subseteq [tape : Tapes, id : Windows]
      /\ JobsFit'
  BY <1>2, <1>3 DEF CliInv, TypeOK, JobsFit
<1>5. QED
  BY <1>4, ExitStep DEF FinalAnswered, CliInv, TypeOK

\* A window begins, or the contract draws its seed.
LEMMA WorldStep == ASSUME CliInv, Materialize \/ NextWindow PROVE CliInv'
<1>1. now' \in Windows /\ ledger' \subseteq Windows
  <2>1. now \in Windows /\ ledger \subseteq Windows /\ MaxWindow \in Nat
    BY CliAssumption DEF CliAssumption, CliInv, TypeOK
  <2>2. CASE Materialize
    BY <2>1, <2>2 DEF Materialize
  <2>3. CASE NextWindow
    <3>1. now + 1 \in Windows
      BY <2>1, <2>3 DEF NextWindow, Windows
    <3>2. QED
      BY <2>1, <2>3, <3>1 DEF NextWindow
  <2>4. QED
    BY <2>2, <2>3
<1>2. TypeOK'
  BY <1>1 DEF Materialize, NextWindow, CliInv, TypeOK, mainThread
<1>3. QED
  BY <1>2, MainRests DEF Materialize, NextWindow, mainThread
-----------------------------------------------------------------------------
\* Every step keeps the invariant.
LEMMA CliStep == CliInv /\ [Next]_vars => CliInv'
<1> SUFFICES ASSUME CliInv, [Next]_vars PROVE CliInv'
  OBVIOUS
<1>1. CASE \E w \in Workers : WorkerStep(w)
  BY <1>1, RunOneGameStep, FetchSeedStep, FetchSeedFailsStep, BumpSeedStep, GameEndsStep,
     WorkerHearsStep DEF WorkerStep
<1>2. CASE \E w \in Workers : MainHears(w)
  BY <1>2, MainHearsStep
<1>3. CASE \E t \in Ticks : TickStarts(t) \/ Drain(t) \/ Leave(t) \/ SubmitAnswered(t)
  BY <1>3, TickStartsStep, DrainStep, LeaveStep, SubmitAnsweredStep
<1>4. CASE BestIsRead \/ Signal \/ FinalSubmit \/ FinalAnswered
  BY <1>4, BestIsReadStep, SignalStep, FinalSubmitStep, FinalAnsweredStep
<1>5. CASE Materialize \/ NextWindow
  BY <1>5, WorldStep
<1>6. CASE UNCHANGED vars
  <2>1. TypeOK'
    BY <1>6 DEF vars, CliInv, TypeOK
  <2>2. QED
    BY <1>6, <2>1, MainRests DEF vars
<1>7. QED
  BY <1>1, <1>2, <1>3, <1>4, <1>5, <1>6 DEF Next, MainStep

\* The invariant holds of every reachable state.
LEMMA CliInvariant == Spec => []CliInv
<1>1. QED
  BY CliInit, CliStep, PTL DEF Spec

\* The variables keep their types.
THEOREM CliTypeCorrect == Spec => []TypeOK
<1>1. CliInv => TypeOK
  BY DEF CliInv
<1>2. QED
  BY <1>1, CliInvariant, PTL

\* A tape is submitted, and taken, under the window it was played in, for any number of
\* overlapping ticks, of windows that begin and of workers that are late (run.ts:232, 344).
THEOREM TapesAreFiledRight == Spec => []TapeOfItsWindow
<1>1. CliInv => TapeOfItsWindow
  BY DEF CliInv, FlightFits, JobsFit, TapeOfItsWindow
<1>2. QED
  BY <1>1, CliInvariant, PTL

\* The score that the main thread holds for submitted in this window was taken by the server
\* for this window, or is another client's: a tape is not held back for one that is not there.
THEOREM SubmittedScoreIsThere == Spec => []LastIsTrue
<1>1. CliInv => LastIsTrue
  BY DEF CliInv
<1>2. QED
  BY <1>1, CliInvariant, PTL

\* The best tape gives way only to a better one, when it has been submitted or beaten, or
\* after the last attempt of a drain (run.ts:376).
THEOREM BestTapeIsKept == Spec => BestIsKept
<1> DEFINE A == main'.best # main.best =>
                  \/ main'.best.score > main.best.score
                  \/ ~Improved
                  \/ \E t \in Ticks : ticks[t].drains = MaxDrains
<1>1. CliInv /\ [Next]_vars => A
  <2> SUFFICES ASSUME CliInv, [Next]_vars, main'.best # main.best
               PROVE  \/ main'.best.score > main.best.score
                      \/ ~Improved
                      \/ \E t \in Ticks : ticks[t].drains = MaxDrains
    OBVIOUS
  <2>1. main \in [epoch : Windows, best : Tapes, last : Scores, count : Nat,
                  submitting : BOOLEAN]
    BY DEF CliInv, TypeOK
  <2>2. CASE \E w \in Workers : WorkerStep(w)
    BY <2>2 DEF WorkerStep, RunOneGame, FetchSeed, FetchSeedFails, BumpSeed, GameEnds,
                WorkerHears, mainThread
  <2>3. CASE \E w \in Workers : MainHears(w)
    <3>1. PICK w \in Workers : MainHears(w)
      BY <2>3
    <3>2. /\ Head(toMain[w]).score > main.best.score
          /\ main' = [main EXCEPT !.best = Head(toMain[w])]
      BY <3>1 DEF MainHears
    <3>3. QED
      BY <2>1, <3>2
  <2>4. CASE \E t \in Ticks : Leave(t)
    <3>1. PICK t \in Ticks : Leave(t)
      BY <2>4
    <3>2. ~Improved \/ ticks[t].drains >= MaxDrains
      BY <3>1, Bounds DEF Leave, MoreToDrain, CliInv, TypeOK
    <3>3. ticks[t].drains \in 0 .. MaxDrains
      BY DEF CliInv, TypeOK
    <3>4. QED
      BY <3>2, <3>3, Bounds
  <2>5. CASE \E t \in Ticks : TickStarts(t) \/ Drain(t)
    BY <2>1, <2>5 DEF TickStarts, Drain, DoSubmit
  <2>6. CASE \E t \in Ticks : SubmitAnswered(t)
    BY <2>1, <2>6 DEF SubmitAnswered, Failed
  <2>7. CASE BestIsRead
    BY <2>1, <2>7 DEF BestIsRead, ApplyReading
  <2>8. CASE Signal \/ FinalSubmit \/ FinalAnswered \/ Materialize \/ NextWindow
    BY <2>8 DEF Signal, FinalSubmit, FinalAnswered, Materialize, NextWindow, mainThread
  <2>9. CASE UNCHANGED vars
    BY <2>9 DEF vars
  <2>10. QED
    BY <2>2, <2>3, <2>4, <2>5, <2>6, <2>7, <2>8, <2>9 DEF Next, MainStep
<1>2. QED
  BY <1>1, CliInvariant, PTL DEF Spec, BestIsKept
=============================================================================
