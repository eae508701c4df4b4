---------------------------- MODULE ScoreProofs ----------------------------
(***************************************************************************)
(* Proofs about a score and its replay: AsteroidsScore, what the contract  *)
(* mints and emits, and ReplayIndex, how the leaderboard finds the tape of *)
(* a score.                                                                *)
(***************************************************************************)
EXTENDS AsteroidsScore, ReplayIndex, FiniteSetTheorems, TLAPS

(***************************************************************************)
(* The contract: AsteroidsScore, for any claimants, seeds, scores, times   *)
(* to live and bounds.  A best score is stored while its seed lives, so it *)
(* outlives the seed; a seed is drawn once, since it outlives its window;  *)
(* when a best score is gone, nothing is submitted for its window any      *)
(* more.                                                                   *)
(***************************************************************************)
\* A seed was drawn in its window, and not before.
Drawn(w) == seeds[w].until # 0
SeedsFit ==
  \A w \in Windows : Drawn(w) =>
    /\ seeds[w].until <= ledger + TempTtl
    /\ w <= window
    /\ w = window => seeds[w].until >= opened + TempTtl

\* The window is as old as its ledgers allow.
WindowFits == opened <= ledger /\ ledger <= opened + PerWindow

\* A best score belongs to a drawn seed and outlives it; it is what was minted.
BestFits ==
  \A c \in Claimants, w \in Windows :
    /\ minted[c][w] = best[c][w].score
    /\ best[c][w].score # 0 => Drawn(w) /\ best[c][w].until >= seeds[w].until

\* A submitted journal names the seed drawn for its window.
EventsFit ==
  \A e \in events :
    /\ Drawn(e.seed_id) /\ seeds[e.seed_id].seed = e.seed
    /\ e.score # 0

ScoreInv == TypeOK /\ SeedsFit /\ WindowFits /\ BestFits /\ EventsFit /\ MintedIsBestScore

\* The invariant holds in the initial states.
LEMMA ScoreInit == Init => ScoreInv
<1> SUFFICES ASSUME Init PROVE ScoreInv
  OBVIOUS
<1>1. 0 \in Windows
  BY ScoreAssumption DEF Windows
<1>2. TypeOK
  <2>1. ledger \in Nat \ {0} /\ opened \in Nat \ {0} /\ window \in Windows
    BY <1>1 DEF Init
  <2>2. claimed \in [Journals -> Nat]
    BY DEF Init
  <2>3. paused \in BOOLEAN /\ events \subseteq Journals
    BY DEF Init
  <2>4. seeds \in [Windows -> [seed : Seeds \cup {"unset"}, until : Nat]]
    BY DEF Init, NoSeed
  <2>5. best \in [Claimants -> [Windows -> [score : Nat, until : Nat]]]
    BY DEF Init, NoBest
  <2>6. minted \in [Claimants -> [Windows -> Nat]]
    BY DEF Init
  <2>7. QED
    BY <2>1, <2>2, <2>3, <2>4, <2>5, <2>6 DEF TypeOK
<1>3. SeedsFit /\ WindowFits /\ BestFits /\ EventsFit
  BY ScoreAssumption DEF Init, SeedsFit, WindowFits, BestFits, EventsFit, Drawn, NoSeed, NoBest
<1>4. MintedIsBestScore
  BY DEF Init, MintedIsBestScore
<1>5. QED
  BY <1>2, <1>3, <1>4 DEF ScoreInv

\* As long as a seed is active, what is stored of a claimant's best score for it
\* is alive: the best score submit_score reads is the one it stored.
LEMMA BestIsRead ==
  ASSUME ScoreInv, NEW c \in Claimants, NEW w \in Windows, NEW s, IsActiveSeed(w, s)
  PROVE  BestScore(c, w) = best[c][w].score /\ best[c][w].score \in Nat
<1>1. best[c][w] \in [score : Nat, until : Nat] /\ seeds[w].until \in Nat /\ ledger \in Nat
  BY DEF ScoreInv, TypeOK
<1>2. CASE best[c][w].score = 0
  BY <1>1, <1>2 DEF BestScore
<1>3. CASE best[c][w].score # 0
  <2>1. best[c][w].until >= seeds[w].until /\ ledger <= seeds[w].until
    BY <1>3 DEF ScoreInv, BestFits, IsActiveSeed, Live
  <2>2. QED
    BY <1>1, <2>1 DEF BestScore, Live
<1>4. QED
  BY <1>2, <1>3

\* A seed that was drawn for the current window is still alive.
LEMMA SeedIsDrawnOnce ==
  ASSUME ScoreInv, Drawn(window)
  PROVE  Live(seeds[window].until)
<1>1. window \in Windows /\ opened \in Nat /\ ledger \in Nat /\ seeds[window].until \in Nat
  BY DEF ScoreInv, TypeOK
<1>2. seeds[window].until >= opened + TempTtl /\ ledger <= opened + PerWindow
  BY <1>1 DEF ScoreInv, SeedsFit, WindowFits
<1>3. QED
  BY <1>1, <1>2, ScoreAssumption, TtlAssumption DEF Live

\* Submitting a score keeps the invariant.
LEMMA SubmitScoreStep ==
  ASSUME ScoreInv, NEW j \in Journals, SubmitScore(j)
  PROVE  ScoreInv'
<1> DEFINE c == j.claimant
           w == j.seed_id
           entry == [score |-> j.score, until |-> ledger + TempTtl]
<1>1. /\ c \in Claimants /\ w \in Windows /\ j.score \in Nat /\ j.seed \in Seeds
      /\ TempTtl \in Nat /\ ledger \in Nat
  BY ScoreAssumption DEF Journals, ScoreInv, TypeOK
<1>2. /\ IsActiveSeed(w, j.seed) /\ j.score # 0 /\ j.score > BestScore(c, w)
      /\ UNCHANGED <<ledger, window, opened, seeds, paused>>
  BY DEF SubmitScore, MayBeSubmitted
<1>3. BestScore(c, w) = best[c][w].score /\ best[c][w].score \in Nat
  BY <1>1, <1>2, BestIsRead
<1>4. minted[c][w] = best[c][w].score
  BY <1>1 DEF ScoreInv, BestFits
<1>5. minted[c][w] + MintedDelta(j) = j.score
  BY <1>1, <1>2, <1>3, <1>4 DEF MintedDelta
<1>6. /\ best' = [best EXCEPT ![c][w] = entry]
      /\ minted' = [minted EXCEPT ![c][w] = j.score]
      /\ events' = events \cup {j}
      /\ claimed' = [claimed EXCEPT ![j] = ledger + TempTtl]
  BY <1>5 DEF SubmitScore, KeepBest
<1>7. TypeOK'
  <2>1. entry \in [score : Nat, until : Nat]
    BY <1>1
  <2>2. best' \in [Claimants -> [Windows -> [score : Nat, until : Nat]]]
    <3> HIDE DEF entry
    <3>1. QED
      BY <1>1, <1>6, <2>1 DEF ScoreInv, TypeOK
  <2>3. minted' \in [Claimants -> [Windows -> Nat]]
    BY <1>1, <1>6 DEF ScoreInv, TypeOK
  <2>4. claimed' \in [Journals -> Nat] /\ events' \subseteq Journals
    BY <1>1, <1>6 DEF ScoreInv, TypeOK
  <2>5. QED
    BY <1>2, <2>2, <2>3, <2>4 DEF ScoreInv, TypeOK
<1>8. /\ \A d \in Claimants, v \in Windows :
           /\ best'[d][v] = IF d = c /\ v = w THEN entry ELSE best[d][v]
           /\ minted'[d][v] = IF d = c /\ v = w THEN j.score ELSE minted[d][v]
  BY <1>1, <1>6 DEF ScoreInv, TypeOK
<1>9. SeedsFit' /\ WindowFits'
  BY <1>2 DEF ScoreInv, SeedsFit, WindowFits, Drawn
<1>10. Drawn(w) /\ seeds[w].seed = j.seed /\ seeds[w].until <= ledger + TempTtl
  <2>1. Drawn(w) /\ seeds[w].seed = j.seed
    BY <1>1, <1>2 DEF IsActiveSeed, Live, Drawn, ScoreInv, TypeOK
  <2>2. QED
    BY <1>1, <2>1 DEF ScoreInv, SeedsFit
<1>11. BestFits'
  <2> SUFFICES ASSUME NEW d \in Claimants, NEW v \in Windows
               PROVE  /\ minted'[d][v] = best'[d][v].score
                      /\ best'[d][v].score # 0 =>
                           (seeds[v].until # 0 /\ best'[d][v].until >= seeds[v].until)
    BY <1>2 DEF BestFits, Drawn
  <2>1. CASE d = c /\ v = w
    <3>1. best'[d][v] = entry /\ minted'[d][v] = j.score
      BY <1>8, <2>1
    <3>2. seeds[w].until \in Nat
      BY <1>1 DEF ScoreInv, TypeOK
    <3>3. QED
      BY <1>1, <1>10, <2>1, <3>1, <3>2 DEF Drawn
  <2>2. CASE ~(d = c /\ v = w)
    <3>1. best'[d][v] = best[d][v] /\ minted'[d][v] = minted[d][v]
      BY <1>8, <2>2
    <3>2. QED
      BY <3>1 DEF ScoreInv, BestFits, Drawn
  <2>3. QED
    BY <2>1, <2>2
<1>12. EventsFit'
  BY <1>2, <1>6, <1>10 DEF ScoreInv, EventsFit, Drawn
<1>13. MintedIsBestScore'
  <2> SUFFICES ASSUME NEW d \in Claimants, NEW v \in Windows
               PROVE  /\ \A e \in events' : e.claimant = d /\ e.seed_id = v => e.score <= minted'[d][v]
                      /\ minted'[d][v] # 0 =>
                           \E e \in events' : e.claimant = d /\ e.seed_id = v /\ e.score = minted'[d][v]
    BY DEF MintedIsBestScore
  <2>1. CASE d = c /\ v = w
    <3>1. minted'[d][v] = j.score /\ minted[d][v] \in Nat /\ minted[d][v] < j.score
      BY <1>1, <1>2, <1>3, <1>4, <1>8, <2>1
    <3>2. \A e \in events : e.claimant = d /\ e.seed_id = v => e.score <= minted[d][v] /\ e.score \in Nat
      BY ScoreAssumption DEF ScoreInv, MintedIsBestScore, TypeOK, Journals
    <3>3. QED
      BY <1>1, <1>6, <2>1, <3>1, <3>2
  <2>2. CASE ~(d = c /\ v = w)
    <3>1. minted'[d][v] = minted[d][v]
      BY <1>8, <2>2
    <3>2. QED
      BY <1>6, <2>2, <3>1 DEF ScoreInv, MintedIsBestScore
  <2>3. QED
    BY <2>1, <2>2
<1>14. QED
  BY <1>7, <1>9, <1>11, <1>12, <1>13 DEF ScoreInv

\* Drawing a seed keeps the invariant: the window has none yet, nor any score.
LEMMA MaterializeStep ==
  ASSUME ScoreInv, Materialize
  PROVE  ScoreInv'
<1> USE ScoreAssumption
<1>1. ~Drawn(window) /\ window \in Windows /\ UNCHANGED <<ledger, window, opened, best, minted, events>>
  BY SeedIsDrawnOnce DEF Materialize, ScoreInv, TypeOK
<1>2. PICK s \in Seeds :
        seeds' = [seeds EXCEPT ![window] = [seed |-> s, until |-> ledger + TempTtl]]
  BY DEF Materialize
<1>3. ledger \in Nat /\ opened \in Nat /\ TempTtl \in Nat
  BY DEF ScoreInv, TypeOK
<1>4. TypeOK'
  BY <1>1, <1>2, <1>3 DEF Materialize, ScoreInv, TypeOK
<1>5. \A v \in Windows :
        seeds'[v] = IF v = window THEN [seed |-> s, until |-> ledger + TempTtl] ELSE seeds[v]
  BY <1>1, <1>2 DEF ScoreInv, TypeOK
<1>6. WindowFits'
  BY <1>1 DEF ScoreInv, WindowFits
<1>7. SeedsFit'
  BY <1>1, <1>3, <1>5 DEF ScoreInv, SeedsFit, WindowFits, Drawn, Windows
<1>8. BestFits'
  BY <1>1, <1>5 DEF ScoreInv, BestFits, Drawn
<1>9. EventsFit'
  BY <1>1, <1>5 DEF ScoreInv, EventsFit, Drawn, TypeOK, Journals
<1>10. MintedIsBestScore'
  BY <1>1 DEF ScoreInv, MintedIsBestScore
<1>11. QED
  BY <1>4, <1>6, <1>7, <1>8, <1>9, <1>10 DEF ScoreInv

\* The closing of a ledger keeps the invariant.
LEMMA CloseLedgerStep ==
  ASSUME ScoreInv, CloseLedger
  PROVE  ScoreInv'
<1> USE ScoreAssumption
<1>1. /\ ledger' = ledger + 1 /\ UNCHANGED <<seeds, best, claimed, paused, minted, events>>
      /\ ledger \in Nat /\ opened \in Nat \ {0} /\ window \in Nat
  BY DEF CloseLedger, ScoreInv, TypeOK, Windows
<1>2. /\ window' \in Windows /\ window' >= window /\ opened' \in Nat \ {0}
      /\ opened' <= ledger' /\ ledger' <= opened' + PerWindow
      /\ window' = window => opened' = opened
  BY <1>1 DEF CloseLedger, ScoreInv, WindowFits, TypeOK, Windows
<1>3. TypeOK'
  BY <1>1, <1>2 DEF ScoreInv, TypeOK
<1>4. WindowFits'
  BY <1>2 DEF WindowFits
<1>5. SeedsFit'
  <2> SUFFICES ASSUME NEW w \in Windows, seeds[w].until # 0
               PROVE  /\ seeds[w].until <= ledger' + TempTtl
                      /\ w <= window'
                      /\ w = window' => seeds[w].until >= opened' + TempTtl
    BY <1>1 DEF SeedsFit, Drawn
  <2>1. /\ seeds[w].until <= ledger + TempTtl /\ w <= window
        /\ w = window => seeds[w].until >= opened + TempTtl
    BY DEF ScoreInv, SeedsFit, Drawn
  <2>2. seeds[w].until \in Nat /\ w \in Nat /\ window' \in Nat /\ TempTtl \in Nat
    BY <1>2 DEF ScoreInv, TypeOK, Windows
  <2>3. QED
    BY <1>1, <1>2, <2>1, <2>2
<1>6. BestFits' /\ EventsFit' /\ MintedIsBestScore'
  BY <1>1 DEF ScoreInv, BestFits, EventsFit, MintedIsBestScore, Drawn
<1>7. QED
  BY <1>3, <1>4, <1>5, <1>6 DEF ScoreInv

\* Every step of the contract keeps the invariant.
LEMMA ScoreStep == ScoreInv /\ [Next]_vars => ScoreInv'
<1> SUFFICES ASSUME ScoreInv, [Next]_vars PROVE ScoreInv'
  OBVIOUS
<1>1. ASSUME NEW p \in BOOLEAN, SetPaused(p) PROVE ScoreInv'
  BY <1>1 DEF SetPaused, ScoreInv, TypeOK, SeedsFit, WindowFits, BestFits, EventsFit,
              MintedIsBestScore, Drawn
<1>2. CASE UNCHANGED vars
  BY <1>2 DEF vars, ScoreInv, TypeOK, SeedsFit, WindowFits, BestFits, EventsFit,
              MintedIsBestScore, Drawn
<1>3. QED
  BY <1>1, <1>2, SubmitScoreStep, MaterializeStep, CloseLedgerStep DEF Next

\* The invariant holds in every reachable state.
LEMMA ScoreInductive == Spec => []ScoreInv
BY ScoreInit, ScoreStep, PTL DEF Spec

\* The contract's entries keep their types, and what is minted is never negative.
THEOREM ScoreTypeCorrect == Spec => []TypeOK
<1>1. ScoreInv => TypeOK
  BY DEF ScoreInv
<1>2. QED
  BY <1>1, ScoreInductive, PTL

\* No score is paid twice: what is minted for a claimant and a window is the best
\* score submitted for them, for any time to live that outlasts a window.
THEOREM NoScoreIsPaidTwice == Spec => []MintedIsBestScore
<1>1. ScoreInv => MintedIsBestScore
  BY DEF ScoreInv
<1>2. QED
  BY <1>1, ScoreInductive, PTL

\* A score that does not beat a submitted one is refused for good.
THEOREM BeatenScoresAreRefused == Spec => []BeatenIsRefused
<1>1. ScoreInv => BeatenIsRefused
  <2> SUFFICES ASSUME ScoreInv, NEW e \in events, NEW j \in Journals,
                      e.claimant = j.claimant, e.seed_id = j.seed_id, j.score <= e.score,
                      MayBeSubmitted(j)
               PROVE  FALSE
    BY DEF BeatenIsRefused
  <2>1. j.claimant \in Claimants /\ j.seed_id \in Windows /\ j.score \in Nat /\ e.score \in Nat
    BY ScoreAssumption DEF Journals, ScoreInv, TypeOK
  <2>2. IsActiveSeed(j.seed_id, j.seed) /\ j.score > BestScore(j.claimant, j.seed_id)
    BY DEF MayBeSubmitted
  <2>3. /\ BestScore(j.claimant, j.seed_id) = minted[j.claimant][j.seed_id]
        /\ minted[j.claimant][j.seed_id] \in Nat
    BY <2>1, <2>2, BestIsRead DEF ScoreInv, BestFits
  <2>4. e.score <= minted[j.claimant][j.seed_id]
    BY <2>1 DEF ScoreInv, MintedIsBestScore
  <2>5. QED
    BY <2>1, <2>2, <2>3, <2>4
<1>2. QED
  BY <1>1, ScoreInductive, PTL

\* All scores of a window are scores of games with one seed.
THEOREM WindowsHaveOneSeed == Spec => []OneSeedPerWindow
<1>1. ScoreInv => OneSeedPerWindow
  BY DEF ScoreInv, EventsFit, OneSeedPerWindow
<1>2. QED
  BY <1>1, ScoreInductive, PTL

(***************************************************************************)
(* The replays of scores: ReplayIndex, for any jobs, games, page sizes,    *)
(* limits and numbers of failures.  A row is sound when it is found: a job *)
(* with the transaction is the score's own, and a guess is made only where *)
(* the page that was read did not hold it.  A row is deleted for a tape    *)
(* that is gone; if the score's own tape is there, then all jobs of the    *)
(* game were forgotten before whatever runs began, so nobody has written   *)
(* another row for it since the prune has read the one it deletes.         *)
(***************************************************************************)
Alike(e) == {k \in Jobs : Game[k] = Game[e]}

\* The claim of e was accepted, and its transaction will never be in its job.
Lost(e) == e \in landed /\ delivery[e].at # "answer" /\ claim[e].tx # e

\* A row that may be written: it shows the score's own game, and where one page holds all
\* jobs, the score's own job if the coordinator could tell which that is.
Sound(r) ==
  /\ Game[r.job] = Game[r.tx] /\ job[r.job] # "new"
  /\ LastJob <= PageSize => r.job = r.tx \/ job[r.tx] = "pruned" \/ Lost(r.tx)

\* What job, claim, delivery and landed say of each other.  While the answer of a relay is
\* to come, no other claim of the same game succeeds: there is one consumer.
Waiting(j) == delivery[j].at \notin {"none", "queued"}
JobFits(j) ==
  /\ job[j] = "new" =>
       claim[j] = Open /\ delivery[j].at = "none" /\ j \notin landed /\ j \notin tape
  /\ job[j] = "pruned" => delivery[j].at = "none"
  /\ claim[j].tx \in {None, j}
  /\ claim[j].status = "open" => claim[j].tx = None
  /\ delivery[j].at = "answer" => claim[j].status = "open" /\ j \in landed
AnswerFits(j) ==
  delivery[j].at = "answer" =>
    \A k \in Jobs \ {j} : Game[k] = Game[j] /\ job[k] = "listed" => claim[k].status # "succeeded"
ClaimsFit ==
  /\ \A j \in Jobs : JobFits(j) /\ AnswerFits(j)
  /\ \A j, k \in Jobs : Waiting(j) /\ Waiting(k) => j = k
  /\ \A j \in Range(byClaim) : job[j] # "new"

\* A transaction has one row, and all rows are sound.
OneRow == \A i, k \in DOMAIN byTx : byTx[i].tx = byTx[k].tx => i = k
RowsFit == OneRow /\ (\A r \in Range(byTx) : Sound(r)) /\ (\A r \in prune.rows : Sound(r))

\* The page that was read holds the job of e, with its transaction, or before any job of the
\* game had succeeded.
Recalled(me, e) ==
  \E s \in me.found :
    /\ s.job = e
    /\ \/ s.claim.tx = e
       \/ \A t \in me.found : Game[t.job] = Game[e] => t.claim.status # "succeeded"

\* The scores a run still has to do with.
Work(me) == me.todo \cup me.queue \cup me.left \cup {r.tx : r \in Range(me.writes)}

OneClaimant(S) == \A e, f \in S : Game[e].claimant = Game[f].claimant
FoundFits(me) ==
  \A s \in me.found :
    job[s.job] # "new" /\ s.claim.tx \in {None, s.job} /\ s.job \notin me.forgotten
WritesFit(me) ==
  \A r \in Range(me.writes) :
    Sound(r) /\ (me.at # "unindex" => r.job = r.tx \/ r.job \notin me.forgotten)
StageFits(me) ==
  /\ me.at = "idle" => Work(me) = {}
  /\ me.at \in {"entries", "index", "list", "exact", "best", "end"} => me.passes # 0
  /\ me.at = "list" => OneClaimant(me.left)
  /\ me.at \in {"exact", "best"} => OneClaimant(me.left \cup me.queue)
  /\ LastJob <= PageSize =>
       /\ me.at = "list" => me.found = {}
       /\ me.at \in {"exact", "best"} =>
            /\ me.full
            /\ \A e \in me.queue \cup me.left : job[e] = "pruned" \/ Lost(e) \/ Recalled(me, e)
WalkFits(me) ==
  /\ me.queue \cup me.left \cup me.todo \subseteq landed
  /\ \A j \in me.forgotten : job[j] = "pruned"
  /\ FoundFits(me) /\ WritesFit(me) /\ StageFits(me)

\* A tape expires when all jobs of its game were forgotten before whatever runs began.
TapesFit ==
  \A k \in Jobs : job[k] # "new" /\ k \notin tape =>
    \A i \in Alike(k) :
      job[i] = "pruned" /\ \A w \in Walkers : walker[w].at = "idle" \/ i \in walker[w].forgotten

\* A run forgets what the run it overlaps has forgotten.  What a page is about to write of a game
\* that is forgotten has no other row in the meantime.
PageFits ==
  LET cron == walker["cron"]
      page == walker["page"]
  IN  /\ cron.at # "idle" /\ page.at # "idle" => cron.forgotten = page.forgotten
      /\ \A e \in Work(page) :
           Alike(e) \subseteq page.forgotten => \A r \in Range(byTx) : r.tx = e => r.job = e

\* The rows of the prune are about tapes that are gone; a row with the tape of another job is
\* still in the table, unless it is being removed.
PruneFits ==
  LET cron == walker["cron"] IN
  /\ cron.at \notin {"claims", "heads", "delete", "unindex"} => prune.rows = {}
  /\ cron.at \in {"delete", "unindex"} => \A r \in prune.rows : r.job \notin tape
  /\ cron.at = "unindex" => Len(cron.writes) = 1 /\ cron.writes[1] \in prune.rows
  /\ \A r \in prune.rows :
       /\ r.job # r.tx /\ r.tx \in tape /\ Alike(r.tx) \subseteq cron.forgotten
       /\ ~(cron.at = "unindex" /\ r = cron.writes[1])
       => r \in Range(byTx)

IndexInv ==
  /\ IndexTypeOK /\ ClaimsFit /\ RowsFit
  /\ \A w \in Walkers : WalkFits(walker[w])
  /\ TapesFit /\ PageFits /\ PruneFits

(***************************************************************************)
(* The tables.                                                             *)
(***************************************************************************)
Keyed(t) == \A i, k \in DOMAIN t : t[i].tx = t[k].tx => i = k

\* A table without its k-th row has the other rows, in their order.
LEMMA WithoutType ==
  ASSUME NEW S, NEW t \in Seq(S), NEW k \in DOMAIN t
  PROVE  /\ Without(t, k) \in Seq(S)
         /\ DOMAIN Without(t, k) = 1 .. (Len(t) - 1)
         /\ \A i \in 1 .. (Len(t) - 1) : Without(t, k)[i] = t[IF i < k THEN i ELSE i + 1]
         /\ Range(Without(t, k)) \subseteq Range(t)
         /\ \A i \in DOMAIN t \ {k} : t[i] \in Range(Without(t, k))
<1>1. Len(t) \in Nat /\ DOMAIN t = 1 .. Len(t) /\ k \in 1 .. Len(t)
  OBVIOUS
<1>2. Len(t) - 1 \in Nat
  BY <1>1
<1>3. \A i \in 1 .. (Len(t) - 1) : (IF i < k THEN i ELSE i + 1) \in DOMAIN t
  BY <1>1
<1> DEFINE W == Without(t, k)
<1>4. W = [i \in 1 .. (Len(t) - 1) |-> t[IF i < k THEN i ELSE i + 1]]
  BY DEF Without
<1> HIDE DEF W
<1>5. \A i \in 1 .. (Len(t) - 1) : W[i] = t[IF i < k THEN i ELSE i + 1] /\ W[i] \in S
  BY <1>1, <1>3, <1>4
<1>6. DOMAIN W = 1 .. (Len(t) - 1)
  BY <1>4
<1>7. W \in Seq(S)
  <2>1. W \in [1 .. (Len(t) - 1) -> S]
    BY <1>4, <1>5, <1>6
  <2>2. QED
    BY <1>2, <2>1
<1>8. Range(W) \subseteq Range(t)
  BY <1>3, <1>5, <1>6 DEF Range
<1>9. ASSUME NEW i \in DOMAIN t \ {k} PROVE t[i] \in Range(W)
  <2>1. CASE i < k
    <3>1. i \in 1 .. (Len(t) - 1)
      BY <1>1, <2>1
    <3>2. W[i] = t[i]
      BY <1>5, <2>1, <3>1
    <3>3. QED
      BY <1>6, <3>1, <3>2 DEF Range
  <2>2. CASE ~(i < k)
    <3>1. i - 1 \in 1 .. (Len(t) - 1) /\ ~(i - 1 < k) /\ (i - 1) + 1 = i
      BY <1>1, <2>2
    <3>2. W[i - 1] = t[i]
      BY <1>5, <3>1
    <3>3. QED
      BY <1>6, <3>1, <3>2 DEF Range
  <2>3. QED
    BY <2>1, <2>2
<1>10. QED
  BY <1>5, <1>6, <1>7, <1>8, <1>9 DEF W

\* Dropping a row never brings one in.
LEMMA DroppedType ==
  ASSUME NEW S, NEW t \in Seq(S), NEW R
  PROVE  Dropped(t, R) \in Seq(S) /\ Range(Dropped(t, R)) \subseteq Range(t)
<1>1. CASE \E k \in DOMAIN t : t[k] \in R
  <2> DEFINE c == CHOOSE k \in DOMAIN t : t[k] \in R
  <2>1. c \in DOMAIN t
    BY <1>1
  <2> HIDE DEF c
  <2>2. Dropped(t, R) = Without(t, c)
    BY <1>1 DEF Dropped, c
  <2>3. QED
    BY <2>1, <2>2, WithoutType
<1>2. CASE ~(\E k \in DOMAIN t : t[k] \in R)
  BY <1>2 DEF Dropped
<1>3. QED
  BY <1>1, <1>2

\* Where a transaction has one row, dropping it leaves all others, and only them.
LEMMA DroppedRow ==
  ASSUME NEW t \in Seq(Rows), Keyed(t), NEW e \in Jobs
  PROVE  /\ Dropped(t, RowsOf(e)) \in Seq(Rows)
         /\ Keyed(Dropped(t, RowsOf(e)))
         /\ Range(Dropped(t, RowsOf(e))) = {r \in Range(t) : r.tx # e}
<1> DEFINE R == RowsOf(e)
<1>1. \A r \in Rows : r \in R <=> r.tx = e
  BY DEF Rows, RowsOf, Row
<1>2. \A k \in DOMAIN t : t[k] \in Rows
  OBVIOUS
<1> HIDE DEF R
<1>3. CASE \E k \in DOMAIN t : t[k] \in R
  <2> DEFINE c == CHOOSE k \in DOMAIN t : t[k] \in R
              W == Without(t, c)
  <2>1. c \in DOMAIN t /\ t[c] \in R
    BY <1>3
  <2> HIDE DEF c
  <2>2. Dropped(t, R) = W
    BY <1>3 DEF Dropped, c
  <2>3. /\ W \in Seq(Rows) /\ DOMAIN W = 1 .. (Len(t) - 1)
        /\ \A i \in 1 .. (Len(t) - 1) : W[i] = t[IF i < c THEN i ELSE i + 1]
        /\ Range(W) \subseteq Range(t)
        /\ \A i \in DOMAIN t \ {c} : t[i] \in Range(W)
    BY <2>1, WithoutType
  <2>4. DOMAIN t = 1 .. Len(t) /\ Len(t) \in Nat /\ c \in Nat
    BY <2>1
  <2> HIDE DEF W
  <2>5. ASSUME NEW i \in DOMAIN W
        PROVE  /\ (IF i < c THEN i ELSE i + 1) \in DOMAIN t \ {c}
               /\ W[i] = t[IF i < c THEN i ELSE i + 1]
    BY <2>3, <2>4
  <2>6. Keyed(W)
    <3> SUFFICES ASSUME NEW i \in DOMAIN W, NEW k \in DOMAIN W, W[i].tx = W[k].tx PROVE i = k
      BY DEF Keyed
    <3>1. (IF i < c THEN i ELSE i + 1) = (IF k < c THEN k ELSE k + 1)
      BY <2>5 DEF Keyed
    <3>2. i \in Nat /\ k \in Nat
      BY <2>3
    <3>3. QED
      BY <2>4, <3>1, <3>2
  <2>7. ASSUME NEW r \in Range(W) PROVE r \in Range(t) /\ r.tx # e
    <3>1. PICK i \in DOMAIN W : r = W[i]
      BY DEF Range
    <3>2. PICK k \in DOMAIN t \ {c} : r = t[k]
      BY <2>5, <3>1
    <3>3. t[c].tx = e
      BY <1>1, <1>2, <2>1
    <3>4. r.tx # e
      BY <2>1, <3>2, <3>3 DEF Keyed
    <3>5. QED
      BY <3>2, <3>4 DEF Range
  <2>8. ASSUME NEW r \in Range(t), r.tx # e PROVE r \in Range(W)
    <3>1. PICK k \in DOMAIN t : r = t[k]
      BY DEF Range
    <3>2. k # c
      BY <1>1, <1>2, <2>1, <2>8, <3>1
    <3>3. QED
      BY <2>3, <3>1, <3>2
  <2>9. QED
    BY <2>2, <2>3, <2>6, <2>7, <2>8 DEF R
<1>4. CASE ~(\E k \in DOMAIN t : t[k] \in R)
  <2>1. Dropped(t, R) = t
    BY <1>4 DEF Dropped
  <2>2. \A r \in Range(t) : r.tx # e
    BY <1>1, <1>2, <1>4 DEF Range
  <2>3. QED
    BY <2>1, <2>2 DEF R
<1>5. QED
  BY <1>3, <1>4

\* Rows that are appended.
LEMMA AppendedRange ==
  ASSUME NEW S, NEW t \in Seq(S), NEW x \in S
  PROVE  /\ Append(t, x) \in Seq(S) /\ Range(Append(t, x)) = Range(t) \cup {x}
         /\ Len(Append(t, x)) = Len(t) + 1
         /\ \A i \in DOMAIN t : i \in DOMAIN Append(t, x) /\ Append(t, x)[i] = t[i]
<1>1. /\ Append(t, x) \in Seq(S) /\ Len(t) \in Nat
      /\ DOMAIN t = 1 .. Len(t) /\ DOMAIN Append(t, x) = 1 .. (Len(t) + 1)
      /\ Append(t, x)[Len(t) + 1] = x /\ \A i \in 1 .. Len(t) : Append(t, x)[i] = t[i]
  OBVIOUS
<1>2. \A i \in 1 .. (Len(t) + 1) : i \in 1 .. Len(t) \/ i = Len(t) + 1
  BY <1>1
<1>3. 1 .. Len(t) \subseteq 1 .. (Len(t) + 1) /\ Len(t) + 1 \in 1 .. (Len(t) + 1)
  BY <1>1
<1> DEFINE A == Append(t, x)
<1>4. DOMAIN A = 1 .. (Len(t) + 1) /\ A[Len(t) + 1] = x /\ \A i \in 1 .. Len(t) : A[i] = t[i]
  BY <1>1
<1> HIDE DEF A
<1>5. Range(A) = Range(t) \cup {x}
  <2>1. \A y \in Range(A) : y \in Range(t) \cup {x}
    BY <1>1, <1>2, <1>4 DEF Range
  <2>2. \A y \in Range(t) : y \in Range(A)
    BY <1>1, <1>3, <1>4 DEF Range
  <2>3. x \in Range(A)
    BY <1>3, <1>4 DEF Range
  <2>4. QED
    BY <2>1, <2>2, <2>3
<1>6. QED
  BY <1>1, <1>3, <1>5 DEF A

\* A mapping that is written replaces that of its transaction and leaves the others.
LEMMA WrittenRow ==
  ASSUME NEW t \in Seq(Rows), Keyed(t), NEW e \in Jobs, NEW j \in Jobs
  PROVE  LET u == Append(Dropped(t, RowsOf(e)), Row(e, j))
         IN  /\ u \in Seq(Rows) /\ Keyed(u)
             /\ Range(u) = {r \in Range(t) : r.tx # e} \cup {Row(e, j)}
<1> DEFINE D == Dropped(t, RowsOf(e))
           x == Row(e, j)
           u == Append(D, x)
<1>1. D \in Seq(Rows) /\ Keyed(D) /\ Range(D) = {r \in Range(t) : r.tx # e}
  BY DroppedRow
<1>2. x \in Rows /\ x.tx = e
  BY DEF Row, Rows
<1> HIDE DEF D, x
<1>3. u \in Seq(Rows) /\ Range(u) = Range(D) \cup {x} /\ \A i \in DOMAIN D : u[i] = D[i]
  BY <1>1, <1>2, AppendedRange
<1>4. Len(D) \in Nat /\ DOMAIN D = 1 .. Len(D) /\ DOMAIN u = 1 .. (Len(D) + 1) /\ u[Len(D) + 1] = x
  BY <1>1, <1>2
<1>5. \A i \in DOMAIN D : D[i].tx # e
  BY <1>1 DEF Range
<1> HIDE DEF u
<1>6. Keyed(u)
  <2> SUFFICES ASSUME NEW i \in DOMAIN u, NEW k \in DOMAIN u, u[i].tx = u[k].tx PROVE i = k
    BY DEF Keyed
  <2>1. (i \in DOMAIN D \/ i = Len(D) + 1) /\ (k \in DOMAIN D \/ k = Len(D) + 1)
    BY <1>4
  <2>2. QED
    BY <1>1, <1>2, <1>3, <1>4, <1>5, <2>1 DEF Keyed
<1>7. QED
  BY <1>1, <1>3, <1>6 DEF u, D, x

(***************************************************************************)
(* Jobs, tapes and claims.                                                 *)
(***************************************************************************)
ClaimSide(j) ==
  \/ CreateJob(j) \/ Relay(j) \/ MarkClaimSucceeded(j) \/ MarkWithoutHash(j)
  \/ Redeliver(j) \/ PersistFails(j) \/ HandlerDies(j)
  \/ PersistEntry(j) \/ PersistMapping(j) \/ Ingest(j)
  \/ PruneJob(j) \/ EventAges(j) \/ TapeExpires(j)

\* The steps of the claim queue and of time leave the runs and the prune alone.
LEMMA ClaimSideTypes ==
  ASSUME IndexTypeOK, OneRow, NEW j \in Jobs, ClaimSide(j)
  PROVE  IndexTypeOK' /\ UNCHANGED <<walker, prune>>
<1> USE DEF IndexTypeOK
<1>t. \A k \in Jobs : delivery[k] \in [at : {"none", "queued", "answer", "index", "map"},
                                       attempts : 0 .. (MaxAttempts - 1)]
  OBVIOUS
<1>1. CASE CreateJob(j)
  BY <1>1 DEF CreateJob, chain, tables
<1>2. CASE Relay(j)
  <2>1. landed' \subseteq Jobs /\ scores' \in Seq(landed')
    <3>1. landed \subseteq landed' /\ landed' \subseteq Jobs /\ scores' = scores
      BY <1>2 DEF Relay
    <3>2. QED
      BY <3>1
  <2>2. delivery' \in [Jobs -> [at : {"none", "queued", "answer", "index", "map"},
                            attempts : 0 .. (MaxAttempts - 1)]]
    BY <1>2, <1>t DEF Relay, Goto
  <2>3. UNCHANGED <<job, claim, scores, aged, tape, byClaim, byTx, walker, prune, faults>>
    BY <1>2 DEF Relay, tables
  <2>4. QED
    BY <2>1, <2>2, <2>3
<1>3. CASE MarkClaimSucceeded(j)
  BY <1>3, <1>t DEF MarkClaimSucceeded, chain, tables, Goto, Claims
<1>4. CASE MarkWithoutHash(j)
  BY <1>4, <1>t DEF MarkWithoutHash, chain, tables, Goto, Claims
<1>5. CASE Redeliver(j)
  BY <1>5, <1>t DEF Redeliver, chain, tables, Goto
<1>6. CASE PersistFails(j)
  <2>1. delivery' \in [Jobs -> [at : {"none", "queued", "answer", "index", "map"},
                            attempts : 0 .. (MaxAttempts - 1)]]
    <3>1. MaxAttempts \in Nat
      BY ReplayAssumption
    <3>2. delivery[j].attempts \in 0 .. (MaxAttempts - 1)
      BY <1>t
    <3>3. (IF delivery[j].attempts + 1 < MaxAttempts
            THEN [at |-> "queued", attempts |-> delivery[j].attempts + 1]
            ELSE [delivery[j] EXCEPT !.at = "none"])
          \in [at : {"none", "queued", "answer", "index", "map"}, attempts : 0 .. (MaxAttempts - 1)]
      <4>1. CASE delivery[j].attempts + 1 < MaxAttempts
        <5>1. delivery[j].attempts + 1 \in 0 .. (MaxAttempts - 1)
          BY <3>1, <3>2, <4>1
        <5>2. QED
          BY <4>1, <5>1
      <4>2. CASE ~(delivery[j].attempts + 1 < MaxAttempts)
        BY <1>t, <4>2
      <4>3. QED
        BY <4>1, <4>2
    <3>4. QED
      BY <1>6, <3>3 DEF PersistFails
  <2>2. faults' \in 0 .. MaxFaults
    BY <1>6, ReplayAssumption DEF PersistFails, Fault
  <2>3. UNCHANGED <<job, claim, landed, scores, aged, tape, byClaim, byTx, walker, prune>>
    BY <1>6 DEF PersistFails, chain, tables
  <2>4. QED
    BY <2>1, <2>2, <2>3
<1>7. CASE HandlerDies(j)
  <2>1. delivery' \in [Jobs -> [at : {"none", "queued", "answer", "index", "map"},
                            attempts : 0 .. (MaxAttempts - 1)]]
    BY <1>7, <1>t DEF HandlerDies, Goto
  <2>2. faults' \in 0 .. MaxFaults
    BY <1>7, ReplayAssumption DEF HandlerDies, Fault
  <2>3. UNCHANGED <<job, claim, landed, scores, aged, tape, byClaim, byTx, walker, prune>>
    BY <1>7 DEF HandlerDies, chain, tables
  <2>4. QED
    BY <2>1, <2>2, <2>3
<1>8. CASE PersistEntry(j)
  <2>1. byClaim' \in Seq(Jobs)
    <3>1. Dropped(byClaim, {j}) \in Seq(Jobs)
      BY DroppedType
    <3>2. QED
      BY <1>8, <3>1, AppendedRange DEF PersistEntry, WriteProofClaimIndexEntry
  <2>2. delivery' \in [Jobs -> [at : {"none", "queued", "answer", "index", "map"},
                            attempts : 0 .. (MaxAttempts - 1)]]
    BY <1>8, <1>t DEF PersistEntry, Goto
  <2>3. UNCHANGED <<job, claim, landed, scores, aged, tape, byTx, walker, prune, faults>>
    BY <1>8 DEF PersistEntry, chain
  <2>4. QED
    BY <2>1, <2>2, <2>3
<1>9. CASE PersistMapping(j)
  <2>1. byTx' \in Seq(Rows)
    BY <1>9, WrittenRow DEF PersistMapping, WriteProofTapeMapping, OneRow, Keyed
  <2>2. delivery' \in [Jobs -> [at : {"none", "queued", "answer", "index", "map"},
                            attempts : 0 .. (MaxAttempts - 1)]]
    BY <1>9, <1>t DEF PersistMapping, Goto
  <2>3. UNCHANGED <<job, claim, landed, scores, aged, tape, byClaim, walker, prune, faults>>
    BY <1>9 DEF PersistMapping, chain
  <2>4. QED
    BY <2>1, <2>2, <2>3
<1>10. CASE Ingest(j)
  <2>1. scores' \in Seq(landed) /\ Range(scores') = Range(scores) \cup {j}
    BY <1>10, AppendedRange DEF Ingest
  <2>2. UNCHANGED <<job, claim, landed, aged, tape, byClaim, byTx, delivery, walker, prune, faults>>
    BY <1>10 DEF Ingest, tables
  <2>3. QED
    BY <2>1, <2>2
<1>11. CASE PruneJob(j)
  BY <1>11 DEF PruneJob, chain, tables
<1>12. CASE EventAges(j)
  BY <1>12 DEF EventAges, tables
<1>13. CASE TapeExpires(j)
  BY <1>13 DEF TapeExpires, chain, tables
<1>14. QED
  BY <1>1, <1>2, <1>3, <1>4, <1>5, <1>6, <1>7, <1>8, <1>9, <1>10, <1>11, <1>12, <1>13
     DEF ClaimSide

\* What holds of a job, a claim or a tape for good.
Onwards ==
  /\ \A j \in Jobs : job[j] # "new" => job'[j] # "new"
  /\ \A j \in Jobs : job[j] = "pruned" => job'[j] = "pruned"
  /\ \A j \in Jobs : Lost(j) => Lost(j)'
  /\ landed \subseteq landed'
  /\ \A j \in tape' \ tape : job[j] = "new"

\* No claim, job or delivery is turned back, and no tape comes back.
LEMMA ClaimSideGoesOn ==
  ASSUME IndexTypeOK, ClaimsFit, NEW j \in Jobs, ClaimSide(j)
  PROVE  Onwards
<1>t. /\ job \in [Jobs -> {"new", "listed", "pruned"}] /\ claim \in [Jobs -> Claims]
      /\ delivery \in [Jobs -> [at : {"none", "queued", "answer", "index", "map"},
                                attempts : 0 .. (MaxAttempts - 1)]]
  BY DEF IndexTypeOK
<1>f. \A k \in Jobs : JobFits(k)
  BY DEF ClaimsFit
<1> SUFFICES /\ \A k \in Jobs : job[k] # "new" => job'[k] # "new"
             /\ \A k \in Jobs : job[k] = "pruned" => job'[k] = "pruned"
             /\ \A k \in Jobs : Lost(k) => Lost(k)'
             /\ landed \subseteq landed'
             /\ \A k \in tape' \ tape : job[k] = "new"
  BY DEF Onwards
<1>1. CASE CreateJob(j)
  BY <1>1, <1>t, <1>f DEF CreateJob, chain, JobFits, Lost
<1>2. CASE Relay(j)
  BY <1>2, <1>t, <1>f DEF Relay, Goto, Improves, JobFits, Lost
<1>3. CASE MarkClaimSucceeded(j)
  BY <1>3, <1>t, <1>f DEF MarkClaimSucceeded, chain, Goto, JobFits, Lost
<1>4. CASE MarkWithoutHash(j)
  BY <1>4, <1>t, <1>f DEF MarkWithoutHash, chain, Goto, JobFits, Lost
<1>5. CASE Redeliver(j)
  BY <1>5, <1>t, <1>f DEF Redeliver, chain, Goto, JobFits, Lost
<1>6. CASE PersistFails(j)
  BY <1>6, <1>t, <1>f DEF PersistFails, chain, JobFits, Lost
<1>7. CASE HandlerDies(j)
  BY <1>7, <1>t, <1>f DEF HandlerDies, chain, Goto, JobFits, Lost
<1>8. CASE PersistEntry(j)
  BY <1>8, <1>t, <1>f DEF PersistEntry, chain, Goto, JobFits, Lost
<1>9. CASE PersistMapping(j)
  BY <1>9, <1>t, <1>f DEF PersistMapping, chain, Goto, JobFits, Lost
<1>10. CASE Ingest(j)
  BY <1>10, <1>t DEF Ingest, Lost
<1>11. CASE PruneJob(j)
  BY <1>11, <1>t, <1>f DEF PruneJob, chain, JobFits, Lost
<1>12. CASE EventAges(j)
  BY <1>12, <1>t DEF EventAges, Lost
<1>13. CASE TapeExpires(j)
  BY <1>13, <1>t DEF TapeExpires, chain, Lost
<1>14. QED
  BY <1>1, <1>2, <1>3, <1>4, <1>5, <1>6, <1>7, <1>8, <1>9, <1>10, <1>11, <1>12, <1>13
     DEF ClaimSide

LEMMA ClaimSideFits ==
  ASSUME IndexTypeOK, ClaimsFit, NEW j \in Jobs, ClaimSide(j)
  PROVE  ClaimsFit'
<1>t. /\ job \in [Jobs -> {"new", "listed", "pruned"}] /\ claim \in [Jobs -> Claims]
      /\ delivery \in [Jobs -> [at : {"none", "queued", "answer", "index", "map"},
                                attempts : 0 .. (MaxAttempts - 1)]]
      /\ byClaim \in Seq(Jobs)
  BY DEF IndexTypeOK
<1>f. /\ \A k \in Jobs : JobFits(k) /\ AnswerFits(k)
      /\ \A k, i \in Jobs : Waiting(k) /\ Waiting(i) => k = i
      /\ \A k \in Range(byClaim) : job[k] # "new"
  BY DEF ClaimsFit
<1> USE DEF JobFits, AnswerFits, Waiting
<1> SUFFICES /\ \A k \in Jobs : JobFits(k)'
             /\ \A k \in Jobs : AnswerFits(k)'
             /\ \A k, i \in Jobs : Waiting(k)' /\ Waiting(i)' => k = i
             /\ \A k \in Range(byClaim)' : job'[k] # "new"
  BY DEF ClaimsFit
<1>1. CASE CreateJob(j)
  BY <1>1, <1>t, <1>f DEF CreateJob, chain, tables, Open
<1>2. CASE Relay(j)
  <2>1. /\ delivery' = [delivery EXCEPT ![j].at = "answer"] /\ landed' = landed \cup {j}
        /\ UNCHANGED <<job, claim, tape, byClaim>>
    BY <1>2 DEF Relay, Goto, tables
  <2>2. /\ delivery[j].at = "queued" /\ claim[j].status = "open"
        /\ \A k \in Jobs : delivery[k].at \in {"none", "queued"}
        /\ \A k \in Jobs \ {j} :
             ~(job[k] = "listed" /\ Game[k] = Game[j] /\ claim[k].status = "succeeded")
    BY <1>2 DEF Relay, ConsumerIsFree, Superseded
  <2>3. \A k \in Jobs : delivery'[k].at = IF k = j THEN "answer" ELSE delivery[k].at
    BY <1>t, <2>1
  <2>4. QED
    BY <1>t, <1>f, <2>1, <2>2, <2>3
<1>3. CASE MarkClaimSucceeded(j)
  BY <1>3, <1>t, <1>f DEF MarkClaimSucceeded, chain, tables, Goto
<1>4. CASE MarkWithoutHash(j)
  BY <1>4, <1>t, <1>f DEF MarkWithoutHash, chain, tables, Goto, ConsumerIsFree
<1>5. CASE Redeliver(j)
  BY <1>5, <1>t, <1>f DEF Redeliver, chain, tables, Goto, ConsumerIsFree
<1>6. CASE PersistFails(j)
  BY <1>6, <1>t, <1>f DEF PersistFails, chain, tables
<1>7. CASE HandlerDies(j)
  BY <1>7, <1>t, <1>f DEF HandlerDies, chain, tables, Goto
<1>8. CASE PersistEntry(j)
  <2>1. Range(byClaim') \subseteq Range(byClaim) \cup {j}
    <3>1. Dropped(byClaim, {j}) \in Seq(Jobs) /\ Range(Dropped(byClaim, {j})) \subseteq Range(byClaim)
      BY <1>t, DroppedType
    <3>2. Range(Append(Dropped(byClaim, {j}), j)) = Range(Dropped(byClaim, {j})) \cup {j}
      BY <3>1, AppendedRange
    <3>3. QED
      BY <1>8, <3>1, <3>2 DEF PersistEntry, WriteProofClaimIndexEntry
  <2>2. delivery[j].at = "index" /\ UNCHANGED <<job, claim, landed, tape>>
        /\ delivery' = [delivery EXCEPT ![j].at = "map"]
    BY <1>8 DEF PersistEntry, chain, Goto
  <2>3. QED
    BY <1>t, <1>f, <2>1, <2>2
<1>9. CASE PersistMapping(j)
  BY <1>9, <1>t, <1>f DEF PersistMapping, chain, Goto
<1>10. CASE Ingest(j)
  BY <1>10, <1>t, <1>f DEF Ingest, tables
<1>11. CASE PruneJob(j)
  BY <1>11, <1>t, <1>f DEF PruneJob, chain, tables
<1>12. CASE EventAges(j)
  BY <1>12, <1>t, <1>f DEF EventAges, tables
<1>13. CASE TapeExpires(j)
  BY <1>13, <1>t, <1>f DEF TapeExpires, chain, tables
<1>14. QED
  BY <1>1, <1>2, <1>3, <1>4, <1>5, <1>6, <1>7, <1>8, <1>9, <1>10, <1>11, <1>12, <1>13
     DEF ClaimSide

\* What was sound, or fits a run, stays so.
LEMMA SoundStays ==
  ASSUME NEW r \in Rows, Sound(r), Onwards
  PROVE  Sound(r)'
<1>1. r.tx \in Jobs /\ r.job \in Jobs
  BY DEF Rows
<1>2. QED
  BY <1>1 DEF Sound, Onwards

LEMMA WalkStays ==
  ASSUME NEW me \in Walks, WalkFits(me), Onwards, landed \subseteq Jobs
  PROVE  WalkFits(me)'
<1>1. /\ me.queue \subseteq Jobs /\ me.left \subseteq Jobs /\ me.todo \subseteq Jobs
      /\ me.forgotten \subseteq Jobs /\ me.writes \in Seq(Rows)
      /\ \A s \in me.found : s.job \in Jobs
  BY DEF Walks
<1>2. Range(me.writes) \subseteq Rows
  BY <1>1 DEF Range
<1>3. WritesFit(me)'
  BY <1>2, SoundStays DEF WalkFits, WritesFit
<1>4. FoundFits(me)'
  BY <1>1 DEF WalkFits, FoundFits, Onwards
<1>5. StageFits(me)'
  <2>1. \A e \in me.queue \cup me.left :
          job[e] = "pruned" \/ Lost(e) => job'[e] = "pruned" \/ Lost(e)'
    BY <1>1 DEF Onwards
  <2>2. StageFits(me)
    BY DEF WalkFits
  <2>3. \A e \in me.queue \cup me.left : Recalled(me, e) = Recalled(me, e)'
    BY DEF Recalled
  <2>4. (Work(me) = Work(me)') /\ (OneClaimant(me.left) = OneClaimant(me.left)')
        /\ (OneClaimant(me.left \cup me.queue) = OneClaimant(me.left \cup me.queue)')
    BY DEF Work, OneClaimant
  <2>5. QED
    BY <2>1, <2>2, <2>3, <2>4 DEF StageFits
<1>6. QED
  BY <1>1, <1>3, <1>4, <1>5 DEF WalkFits, Onwards

\* The claim queue writes one mapping: that of a job to its own transaction.
LEMMA ClaimSideRows ==
  ASSUME IndexTypeOK, ClaimsFit, OneRow, NEW j \in Jobs, ClaimSide(j)
  PROVE  \/ byTx' = byTx
         \/ /\ OneRow' /\ Range(byTx') = {r \in Range(byTx) : r.tx # j} \cup {Row(j, j)}
            /\ delivery[j].at = "map" /\ UNCHANGED <<job, tape>>
<1>1. CASE PersistMapping(j)
  <2>1. byTx \in Seq(Rows) /\ Keyed(byTx)
    BY DEF IndexTypeOK, OneRow, Keyed
  <2>2. Keyed(byTx') /\ Range(byTx') = {r \in Range(byTx) : r.tx # j} \cup {Row(j, j)}
    BY <1>1, <2>1, WrittenRow DEF PersistMapping, WriteProofTapeMapping
  <2>3. QED
    BY <1>1, <2>2 DEF PersistMapping, OneRow, Keyed
<1>2. CASE ~PersistMapping(j)
  BY <1>2 DEF ClaimSide, CreateJob, Relay, MarkClaimSucceeded, MarkWithoutHash, Redeliver,
     PersistFails, HandlerDies, PersistEntry, Ingest, PruneJob, EventAges, TapeExpires, tables
<1>3. QED
  BY <1>1, <1>2

\* Only the lifecycle rule removes a tape.
LEMMA ClaimSideTapes ==
  ASSUME IndexTypeOK, NEW j \in Jobs, ClaimSide(j),
         NEW k \in Jobs, job'[k] # "new", k \notin tape'
  PROVE  \/ job[k] # "new" /\ k \notin tape
         \/ k = j /\ TapeExpires(j)
<1>t. job \in [Jobs -> {"new", "listed", "pruned"}]
  BY DEF IndexTypeOK
<1>1. CASE CreateJob(j)
  BY <1>1, <1>t DEF CreateJob
<1>2. CASE PruneJob(j)
  BY <1>2, <1>t DEF PruneJob
<1>3. CASE TapeExpires(j)
  BY <1>3 DEF TapeExpires
<1>4. CASE ~CreateJob(j) /\ ~PruneJob(j) /\ ~TapeExpires(j)
  BY <1>4 DEF ClaimSide, Relay, MarkClaimSucceeded, MarkWithoutHash, Redeliver,
     PersistFails, HandlerDies, PersistEntry, PersistMapping, Ingest, EventAges
<1>5. QED
  BY <1>1, <1>2, <1>3, <1>4

\* A tape that is gone stays gone.
LEMMA GoneStays ==
  ASSUME Onwards, NEW k \in Jobs, job[k] # "new", k \notin tape
  PROVE  k \notin tape'
BY DEF Onwards

\* Every step of the claim queue and of time keeps the invariant.
LEMMA ClaimSideKeeps ==
  ASSUME IndexInv, NEW j \in Jobs, ClaimSide(j)
  PROVE  IndexInv'
<1>1. /\ IndexTypeOK /\ ClaimsFit /\ RowsFit /\ TapesFit /\ PageFits /\ PruneFits
      /\ \A w \in Walkers : WalkFits(walker[w])
  BY DEF IndexInv
<1>2. OneRow /\ (\A r \in Range(byTx) : Sound(r)) /\ (\A r \in prune.rows : Sound(r))
  BY <1>1 DEF RowsFit
<1>3. IndexTypeOK' /\ UNCHANGED <<walker, prune>>
  BY <1>1, <1>2, ClaimSideTypes
<1>4. ClaimsFit' /\ Onwards
  BY <1>1, ClaimSideFits, ClaimSideGoesOn
<1>t. /\ Range(byTx) \subseteq Rows /\ prune.rows \subseteq Rows /\ landed \subseteq Jobs
      /\ walker \in [Walkers -> Walks] /\ {"cron", "page"} \subseteq Walkers
      /\ job \in [Jobs -> {"new", "listed", "pruned"}]
  BY <1>1 DEF IndexTypeOK, Range, Walkers
<1>5. \/ byTx' = byTx
      \/ /\ OneRow' /\ Range(byTx') = {r \in Range(byTx) : r.tx # j} \cup {Row(j, j)}
         /\ delivery[j].at = "map" /\ UNCHANGED <<job, tape>>
  BY <1>1, <1>2, ClaimSideRows
<1>m. delivery[j].at = "map" => job[j] = "listed"
  BY <1>1, <1>t DEF ClaimsFit, JobFits
<1>r. Row(j, j) \in Rows /\ Row(j, j).tx = j /\ Row(j, j).job = j
  BY DEF Row, Rows
<1>6. RowsFit'
  <2>1. \A r \in Rows : Sound(r) => Sound(r)'
    BY <1>4, SoundStays
  <2>2. \A r \in (prune.rows)' : Sound(r)'
    BY <1>2, <1>3, <1>t, <2>1
  <2>3. CASE byTx' = byTx
    BY <1>2, <1>t, <2>1, <2>2, <2>3 DEF RowsFit, OneRow
  <2>4. CASE byTx' # byTx
    <3>1. Sound(Row(j, j))
      BY <1>5, <1>m, <1>r, <2>4 DEF Sound
    <3>2. \A r \in Range(byTx') : Sound(r)'
      BY <1>2, <1>5, <1>r, <1>t, <2>1, <2>4, <3>1
    <3>3. QED
      BY <1>5, <2>2, <2>4, <3>2 DEF RowsFit
  <2>5. QED
    BY <2>3, <2>4
<1>7. \A w \in Walkers : WalkFits(walker[w])'
  <2> SUFFICES ASSUME NEW w \in Walkers PROVE WalkFits(walker[w])'
    OBVIOUS
  <2> DEFINE me == walker[w]
  <2>1. me \in Walks /\ WalkFits(me) /\ me' = me
    BY <1>1, <1>3, <1>t
  <2>2. WalkFits(me)'
    BY <1>4, <1>t, <2>1, WalkStays
  <2>3. QED
    BY <2>2
<1>8. TapesFit'
  <2> SUFFICES ASSUME NEW k \in Jobs, job'[k] # "new", k \notin tape', NEW i \in Alike(k)
               PROVE  job'[i] = "pruned"
                      /\ \A w \in Walkers : walker[w].at = "idle" \/ i \in walker[w].forgotten
    BY <1>3 DEF TapesFit, Alike
  <2>1. i \in Jobs /\ Game[i] = Game[k]
    BY DEF Alike
  <2>2. CASE job[k] # "new" /\ k \notin tape
    BY <1>1, <1>4, <2>1, <2>2 DEF TapesFit, Onwards
  <2>3. CASE k = j /\ TapeExpires(j)
    BY <2>1, <2>3 DEF TapeExpires
  <2>4. QED
    BY <1>1, <2>2, <2>3, ClaimSideTapes
<1>9. PageFits'
  <2>1. CASE byTx' = byTx
    BY <1>1, <1>3, <2>1 DEF PageFits, Alike, Work
  <2>2. CASE byTx' # byTx
    <3>1. \A r \in Range(byTx') : r \in Range(byTx) \/ r = Row(j, j)
      BY <1>5, <2>2
    <3>2. QED
      BY <1>1, <1>3, <1>r, <3>1 DEF PageFits, Alike, Work
  <2>3. QED
    BY <2>1, <2>2
<1>10. PruneFits'
  <2> DEFINE cron == walker["cron"]
  <2>1. cron' = cron /\ prune' = prune
    BY <1>3
  <2>2. \A r \in prune.rows : r.tx \in Jobs /\ r.job \in Jobs /\ job[r.job] # "new"
    BY <1>2, <1>t DEF Sound, Rows
  <2>3. cron.at \in {"delete", "unindex"} => \A r \in prune.rows : r.job \notin tape'
    BY <1>1, <1>4, <2>2, GoneStays DEF PruneFits
  <2>4. ASSUME NEW r \in prune.rows, r.job # r.tx, r.tx \in tape', Alike(r.tx) \subseteq cron.forgotten,
               ~(cron.at = "unindex" /\ r = cron.writes[1])
        PROVE  r \in Range(byTx')
    <3>1. r.tx \in Alike(r.tx)
      BY <2>2 DEF Alike
    <3>2. job[r.tx] = "pruned"
      BY <1>1, <1>t, <2>4, <3>1 DEF WalkFits
    <3>3. r.tx \in tape
      BY <1>4, <2>4, <3>2 DEF Onwards
    <3>4. r \in Range(byTx)
      BY <1>1, <2>4, <3>3 DEF PruneFits
    <3>5. byTx' # byTx => r.tx # j
      BY <1>5, <1>m, <3>2
    <3>6. QED
      BY <1>5, <3>4, <3>5
  <2>5. QED
    BY <1>1, <2>1, <2>3, <2>4 DEF PruneFits, Alike
<1>11. QED
  BY <1>3, <1>4, <1>6, <1>7, <1>8, <1>9, <1>10 DEF IndexInv

(***************************************************************************)
(* The runs of the cron and of the page.                                   *)
(***************************************************************************)
PruneStages == {"claims", "heads", "delete", "unindex"}

\* A step of a run leaves jobs, claims, tapes and the claim index as they are.
LEMMA InWalkGoesOn ==
  ASSUME NEW w \in Walkers, InWalk(w)
  PROVE  Onwards /\ UNCHANGED <<job, claim, landed, scores, aged, tape, byClaim, delivery>>
BY DEF InWalk, chain, Onwards, Lost

\* What such a step, that makes the run n out of the run of w, always keeps.
LEMMA WalkKeeps ==
  ASSUME IndexInv, NEW w \in Walkers, NEW n \in Walks, IsFiniteSet(n.found), WalkFits(n),
         walker' = [walker EXCEPT ![w] = n],
         UNCHANGED <<job, claim, landed, scores, aged, tape, delivery>>,
         byClaim' \in Seq(Jobs), Range(byClaim') \subseteq Range(byClaim),
         byTx' \in Seq(Rows), faults' \in 0 .. MaxFaults,
         prune' \in [runs : 0 .. (PruneEvery - 1), rows : SUBSET Rows]
  PROVE  /\ IndexTypeOK' /\ ClaimsFit'
         /\ \A v \in Walkers : WalkFits(walker[v])'
         /\ \A v \in Walkers : walker'[v] = IF v = w THEN n ELSE walker[v]
<1>1. IndexTypeOK /\ ClaimsFit /\ \A v \in Walkers : WalkFits(walker[v])
  BY DEF IndexInv
<1>2. Onwards
  BY DEF Onwards, Lost
<1>3. walker \in [Walkers -> Walks] /\ landed \subseteq Jobs
      /\ \A v \in Walkers : IsFiniteSet(walker[v].found)
  BY <1>1 DEF IndexTypeOK
<1>4. \A v \in Walkers : walker'[v] = IF v = w THEN n ELSE walker[v]
  BY <1>3
<1>5. walker' \in [Walkers -> Walks] /\ \A v \in Walkers : IsFiniteSet(walker'[v].found)
  BY <1>3, <1>4
<1>6. IndexTypeOK'
  BY <1>1, <1>5 DEF IndexTypeOK
<1>7. ClaimsFit'
  BY <1>1 DEF ClaimsFit, JobFits, AnswerFits, Waiting
<1>8. \A v \in Walkers : WalkFits(walker[v])'
  <2> SUFFICES ASSUME NEW v \in Walkers PROVE WalkFits(walker[v])'
    OBVIOUS
  <2> DEFINE me == walker'[v]
  <2>1. me \in Walks
    BY <1>5
  <2>2. WalkFits(me)
    BY <1>1, <1>4
  <2> HIDE DEF me
  <2>3. PICK x \in Walks : x = me
    BY <2>1
  <2>4. WalkFits(x)'
    BY <1>2, <1>3, <2>2, <2>3, WalkStays
  <2>5. QED
    BY <2>3, <2>4 DEF me
<1>9. QED
  BY <1>4, <1>6, <1>7, <1>8

\* A run that goes on, or ends: it keeps what it has forgotten, and the page takes up nothing new.
LEMMA WalkerGoesOn ==
  ASSUME IndexInv, NEW w \in Walkers, NEW n \in Walks, IsFiniteSet(n.found), WalkFits(n),
         Set(w, n), InWalk(w), UNCHANGED <<byTx, prune>>, faults' \in 0 .. MaxFaults,
         walker[w].at # "idle",
         n.at # "idle" =>
           n.forgotten = walker[w].forgotten /\ (w = "page" => Work(n) \subseteq Work(walker[w])),
         w = "cron" => walker[w].at \notin PruneStages /\ n.at \notin PruneStages
  PROVE  IndexInv'
<1>1. /\ IndexTypeOK /\ ClaimsFit /\ RowsFit /\ TapesFit /\ PageFits /\ PruneFits
      /\ \A v \in Walkers : WalkFits(walker[v])
  BY DEF IndexInv
<1>2. Onwards /\ UNCHANGED <<job, claim, landed, scores, aged, tape, byClaim, delivery>>
  BY InWalkGoesOn
<1>3. byTx' \in Seq(Rows) /\ prune' \in [runs : 0 .. (PruneEvery - 1), rows : SUBSET Rows]
      /\ byClaim' \in Seq(Jobs) /\ walker' = [walker EXCEPT ![w] = n]
  BY <1>1, <1>2 DEF IndexTypeOK, Set
<1>4. /\ IndexTypeOK' /\ ClaimsFit'
      /\ \A v \in Walkers : WalkFits(walker[v])'
      /\ \A v \in Walkers : walker'[v] = IF v = w THEN n ELSE walker[v]
  BY <1>2, <1>3, WalkKeeps
<1>5. RowsFit'
  BY <1>1, <1>2 DEF RowsFit, OneRow, Sound, Lost
<1>6. TapesFit'
  BY <1>1, <1>2, <1>4 DEF TapesFit, Alike
<1>w. Walkers = {"cron", "page"} /\ "cron" # "page"
  BY DEF Walkers
<1>7. PageFits'
  <2>1. n.at = "idle" => Work(n) = {}
    BY DEF WalkFits, StageFits
  <2> DEFINE cron == walker["cron"]
             page == walker["page"]
  <2>2. cron'.at # "idle" /\ page'.at # "idle" => cron'.forgotten = page'.forgotten
    BY <1>1, <1>4, <1>w DEF PageFits
  <2>3. ASSUME NEW e \in Work(page'), Alike(e) \subseteq page'.forgotten,
               NEW r \in Range(byTx'), r.tx = e
        PROVE  r.job = e
    <3>1. e \in Work(page) /\ page'.forgotten = page.forgotten
      BY <1>4, <1>w, <2>1, <2>3
    <3>2. QED
      BY <1>1, <2>3, <3>1 DEF PageFits
  <2>4. Work(page)' = Work(page') /\ \A e : Alike(e)' = Alike(e)
    BY DEF Work, Alike
  <2>5. QED
    BY <2>2, <2>3, <2>4 DEF PageFits
<1>8. PruneFits'
  <2>1. CASE w = "cron"
    <3>1. prune.rows = {} /\ walker'["cron"] = n
      BY <1>1, <1>4, <2>1 DEF PruneFits, PruneStages
    <3>2. QED
      BY <2>1, <3>1 DEF PruneFits, PruneStages
  <2>2. CASE w = "page"
    <3>1. walker'["cron"] = walker["cron"]
      BY <1>4, <1>w, <2>2
    <3>2. QED
      BY <1>1, <1>2, <3>1 DEF PruneFits, Alike
  <2>3. QED
    BY <1>w, <2>1, <2>2
<1>9. QED
  BY <1>4, <1>5, <1>6, <1>7, <1>8 DEF IndexInv

\* What holds of a run before one of its steps.
LEMMA RunFits ==
  ASSUME IndexInv, NEW w \in Walkers
  PROVE  /\ walker[w] \in Walks /\ IsFiniteSet(walker[w].found) /\ WalkFits(walker[w])
         /\ landed \subseteq Jobs /\ scores \in Seq(landed) /\ faults \in 0 .. MaxFaults
         /\ \A j \in landed : job[j] # "new"
         /\ job \in [Jobs -> {"new", "listed", "pruned"}] /\ claim \in [Jobs -> Claims]
<1>1. IndexTypeOK /\ ClaimsFit /\ \A v \in Walkers : WalkFits(walker[v])
  BY DEF IndexInv
<1>2. landed \subseteq Jobs
  BY <1>1 DEF IndexTypeOK
<1>3. \A j \in landed : job[j] # "new"
  BY <1>1, <1>2 DEF ClaimsFit, JobFits
<1>4. QED
  BY <1>1, <1>2, <1>3 DEF IndexTypeOK

LEMMA FaultType ==
  ASSUME faults \in 0 .. MaxFaults, Fault \/ NoFault
  PROVE  faults' \in 0 .. MaxFaults
BY ReplayAssumption DEF Fault, NoFault

\* A job whose transaction is known is the job of that transaction.
LEMMA ExactIsOwn ==
  ASSUME NEW me \in Walks, FoundFits(me), NEW e \in Jobs, NEW j \in ExactMatches(me.found, e)
  PROVE  j = e
<1>1. PICK s \in me.found : s.job = j /\ s.claim.tx = e
  BY DEF ExactMatches, MatchingJobs, JobsIn
<1>2. e # None
  BY DEF Jobs, None
<1>3. QED
  BY <1>1, <1>2 DEF FoundFits

\* A guess is a job that was found, and of the same game.
LEMMA GuessWasFound ==
  ASSUME NEW me \in Walks, NEW e \in Jobs, NEW b \in BOOLEAN, NEW j \in BestMatches(me.found, e, b)
  PROVE  \E s \in me.found : s.job = j /\ Game[j] = Game[e]
<1> DEFINE M == MatchingJobs(me.found, e)
<1>1. \A s \in M : s \in me.found /\ Game[s.job] = Game[e]
  BY DEF MatchingJobs
<1>2. \E s \in M : s.job = j
  BY DEF BestMatches, ExactMatches, Only, JobsIn
<1>3. QED
  BY <1>1, <1>2

\* If the page that was read held the job of e with its transaction, or before any job of the
\* game had succeeded, then there is no other job to guess.
LEMMA RecalledIsOwn ==
  ASSUME NEW me \in Walks, FoundFits(me), NEW e \in Jobs, Recalled(me, e),
         NEW b \in BOOLEAN, NEW j \in BestMatches(me.found, e, b)
  PROVE  j = e
<1> DEFINE M == MatchingJobs(me.found, e)
           S == {s \in M : s.claim.status = "succeeded"}
<1>1. PICK s \in me.found : /\ s.job = e
                            /\ \/ s.claim.tx = e
                               \/ \A t \in me.found : Game[t.job] = Game[e] => t.claim.status # "succeeded"
  BY DEF Recalled
<1>2. s \in M
  BY <1>1 DEF MatchingJobs
<1>3. CASE ExactMatches(me.found, e) # {}
  <2>1. j \in ExactMatches(me.found, e)
    BY <1>3 DEF BestMatches
  <2>2. QED
    BY <2>1, ExactIsOwn
<1>4. CASE ExactMatches(me.found, e) = {}
  <2>1. s.claim.tx # e
    BY <1>2, <1>4 DEF ExactMatches, JobsIn
  <2>2. S = {}
    BY <1>1, <2>1 DEF MatchingJobs
  <2>3. j \in Only(M)
    BY <1>4, <2>2 DEF BestMatches
  <2>4. PICK t \in M : M = {t} /\ j = t.job
    BY <2>3 DEF Only
  <2>5. QED
    BY <1>1, <1>2, <2>4
<1>5. QED
  BY <1>3, <1>4

\* What a run finds for a score may be written.
LEMMA MatchIsSound ==
  ASSUME IndexInv, NEW w \in Walkers, Looking(w),
         NEW e \in walker[w].queue, NEW j \in Matches(w, e)
  PROVE  /\ e \in Jobs /\ j \in Jobs /\ Row(e, j) \in Rows
         /\ Row(e, j).tx = e /\ Row(e, j).job = j
         /\ Sound(Row(e, j)) /\ (j = e \/ j \notin walker[w].forgotten)
<1> DEFINE me == walker[w]
<1>1. /\ me \in Walks /\ WalkFits(me) /\ landed \subseteq Jobs /\ \A k \in landed : job[k] # "new"
  BY RunFits
<1>2. e \in landed /\ e \in Jobs /\ job[e] # "new"
  BY <1>1 DEF WalkFits
<1>3. FoundFits(me) /\ StageFits(me)
  BY <1>1 DEF WalkFits
<1>4. me.at \in {"index", "exact", "best"}
  BY DEF Looking
<1>5. /\ j \in Jobs /\ Game[j] = Game[e] /\ job[j] # "new" /\ (j = e \/ j \notin me.forgotten)
      /\ LastJob <= PageSize => j = e \/ job[e] = "pruned" \/ Lost(e)
  <2>1. CASE me.at = "index"
    BY <1>2, <2>1 DEF Matches
  <2>2. CASE me.at = "exact"
    <3>1. j \in ExactMatches(me.found, e)
      BY <2>2 DEF Matches
    <3>2. QED
      BY <1>1, <1>2, <1>3, <3>1, ExactIsOwn
  <2>3. CASE me.at = "best"
    <3> DEFINE b == w = "cron"
    <3>1. j \in BestMatches(me.found, e, b) /\ b \in BOOLEAN
      BY <2>3 DEF Matches
    <3> HIDE DEF b
    <3>2. \E s \in me.found : s.job = j /\ Game[j] = Game[e]
      BY <1>1, <1>2, <3>1, GuessWasFound
    <3>3. j \in Jobs /\ Game[j] = Game[e] /\ job[j] # "new" /\ j \notin me.forgotten
      BY <1>1, <1>3, <3>2 DEF FoundFits, Walks
    <3>4. ASSUME LastJob <= PageSize PROVE j = e \/ job[e] = "pruned" \/ Lost(e)
      <4>1. job[e] = "pruned" \/ Lost(e) \/ Recalled(me, e)
        BY <1>3, <2>3, <3>4 DEF StageFits
      <4>2. QED
        BY <1>1, <1>2, <1>3, <3>1, <4>1, RecalledIsOwn
    <3>5. QED
      BY <3>3, <3>4
  <2>4. QED
    BY <1>4, <2>1, <2>2, <2>3
<1>6. Row(e, j) \in Rows /\ Row(e, j).tx = e /\ Row(e, j).job = j
  BY <1>2, <1>5 DEF Row, Rows
<1>7. QED
  BY <1>2, <1>5, <1>6 DEF Sound

LEMMA GetEntriesKeeps ==
  ASSUME IndexInv, NEW w \in Walkers, GetEntries(w)
  PROVE  IndexInv'
<1> DEFINE me == walker[w]
           n1 == [me EXCEPT !.at = "index", !.queue = me.todo, !.todo = {},
                            !.entries = EntriesOf(me.todo)]
           n2 == [me EXCEPT !.at = "index", !.left = me.todo, !.todo = {}]
<1>1. /\ me \in Walks /\ IsFiniteSet(me.found) /\ WalkFits(me)
      /\ landed \subseteq Jobs /\ faults \in 0 .. MaxFaults
  BY RunFits
<1>2. /\ me.at = "entries" /\ InWalk(w) /\ UNCHANGED <<byTx, prune>>
      /\ Fault \/ NoFault
      /\ Set(w, n1) \/ Set(w, n2)
  BY DEF GetEntries
<1>3. faults' \in 0 .. MaxFaults
  BY <1>1, <1>2, FaultType
<1> HIDE DEF me
<1>4. ASSUME NEW n, n \in {n1, n2}
      PROVE  /\ n \in Walks /\ IsFiniteSet(n.found) /\ WalkFits(n) /\ n.at = "index"
             /\ n.forgotten = me.forgotten /\ Work(n) \subseteq Work(me)
  <2>1. /\ n1 \in Walks /\ n2 \in Walks
    BY <1>1 DEF Walks, EntriesOf, Stages
  <2>2. /\ n.at = "index" /\ n.forgotten = me.forgotten /\ n.writes = me.writes /\ n.found = me.found
        /\ n.queue \cup n.left \cup n.todo \subseteq me.queue \cup me.left \cup me.todo
        /\ n.passes = me.passes
    BY <1>1, <1>4 DEF Walks
  <2>3. WalkFits(n)
    BY <1>1, <1>2, <2>2 DEF WalkFits, FoundFits, WritesFit, StageFits
  <2>4. Work(n) \subseteq Work(me)
    BY <2>2 DEF Work
  <2>5. QED
    BY <1>1, <1>4, <2>1, <2>2, <2>3, <2>4
<1> DEFINE n == IF Set(w, n1) THEN n1 ELSE n2
<1>5. Set(w, n) /\ n \in {n1, n2}
  BY <1>2
<1> HIDE DEF n, n1, n2
<1>6. QED
  BY <1>2, <1>3, <1>4, <1>5, WalkerGoesOn DEF PruneStages, me

LEMMA TryKeeps ==
  ASSUME IndexInv, NEW w \in Walkers, Try(w)
  PROVE  IndexInv'
<1> DEFINE me == walker[w]
<1>1. /\ me \in Walks /\ IsFiniteSet(me.found) /\ WalkFits(me)
      /\ landed \subseteq Jobs /\ faults \in 0 .. MaxFaults
  BY RunFits
<1>2. PICK e \in Newest(me.queue) :
        LET next == [me EXCEPT !.queue = @ \ {e}]
        IN \/ /\ Matches(w, e) \cap tape = {} /\ NoFault
              /\ Set(w, [next EXCEPT !.left = @ \cup {e}])
           \/ /\ Matches(w, e) \cap tape # {} /\ Fault
              /\ Set(w, [next EXCEPT !.left = @ \cup {e}])
           \/ \E j \in Matches(w, e) \cap tape :
                Set(w, [next EXCEPT !.writes = Append(@, Row(e, j))]) /\ NoFault
  BY DEF Try
<1>3. /\ Looking(w) /\ InWalk(w) /\ UNCHANGED <<byTx, prune>> /\ e \in me.queue
      /\ Fault \/ NoFault
  BY <1>2 DEF Try, Newest
<1>4. faults' \in 0 .. MaxFaults
  BY <1>1, <1>3, FaultType
<1>5. me.at \in {"index", "exact", "best"}
  BY <1>3 DEF Looking
<1>6. ASSUME NEW j \in Matches(w, e)
      PROVE  /\ Row(e, j) \in Rows /\ Row(e, j).tx = e /\ Row(e, j).job = j
             /\ Sound(Row(e, j)) /\ (j = e \/ j \notin me.forgotten)
  BY <1>3, MatchIsSound
<1> DEFINE m == [me EXCEPT !.queue = @ \ {e}]
<1>m. /\ m \in Walks /\ m.queue = me.queue \ {e} /\ m.left = me.left /\ m.todo = me.todo
      /\ m.at = me.at /\ m.found = me.found /\ m.forgotten = me.forgotten /\ m.full = me.full
      /\ m.writes = me.writes /\ m.passes = me.passes
  BY <1>1 DEF Walks
<1> HIDE DEF me, m
<1>7. CASE Set(w, [m EXCEPT !.left = @ \cup {e}])
  <2> DEFINE n == [m EXCEPT !.left = @ \cup {e}]
  <2>1. /\ n \in Walks /\ n.queue = me.queue \ {e} /\ n.left = me.left \cup {e} /\ n.todo = me.todo
        /\ n.at = me.at /\ n.found = me.found /\ n.forgotten = me.forgotten /\ n.full = me.full
        /\ n.writes = me.writes /\ n.passes = me.passes
    <3>1. e \in Jobs
      BY <1>1, <1>3 DEF Walks
    <3>2. QED
      BY <1>m, <3>1 DEF Walks
  <2> HIDE DEF n
  <2>2. n.queue \cup n.left = me.queue \cup me.left
    BY <1>3, <2>1
  <2>3. OneClaimant(me.left \cup me.queue) => OneClaimant(n.left \cup n.queue)
    BY <2>2 DEF OneClaimant
  <2>4. \A f : Recalled(me, f) => Recalled(n, f)
    BY <2>1 DEF Recalled
  <2>5. FoundFits(n) /\ WritesFit(n)
    BY <1>1, <2>1 DEF WalkFits, FoundFits, WritesFit
  <2>6. StageFits(n)
    BY <1>1, <1>5, <2>1, <2>2, <2>3, <2>4 DEF WalkFits, StageFits
  <2>7. WalkFits(n)
    BY <1>1, <2>1, <2>2, <2>5, <2>6 DEF WalkFits
  <2>8. Work(n) \subseteq Work(me)
    BY <2>1, <2>2 DEF Work
  <2>9. Set(w, n)
    BY <1>7 DEF n
  <2>10. QED
    BY <1>1, <1>3, <1>4, <1>5, <2>1, <2>7, <2>8, <2>9, WalkerGoesOn DEF PruneStages, me
<1>8. ASSUME NEW j \in Matches(w, e), Set(w, [m EXCEPT !.writes = Append(@, Row(e, j))])
      PROVE  IndexInv'
  <2> DEFINE x == Row(e, j)
             n == [m EXCEPT !.writes = Append(@, x)]
  <2>1. /\ x \in Rows /\ x.tx = e /\ Sound(x) /\ (x.job = x.tx \/ x.job \notin me.forgotten)
    BY <1>6
  <2>s. Set(w, n)
    BY <1>8
  <2> HIDE DEF x
  <2>2. /\ me.writes \in Seq(Rows)
        /\ Append(me.writes, x) \in Seq(Rows)
        /\ Range(Append(me.writes, x)) = Range(me.writes) \cup {x}
    BY <1>1, <2>1, AppendedRange DEF Walks
  <2>3. /\ n \in Walks /\ n.queue = me.queue \ {e} /\ n.left = me.left /\ n.todo = me.todo
        /\ n.at = me.at /\ n.found = me.found /\ n.forgotten = me.forgotten /\ n.full = me.full
        /\ n.writes = Append(me.writes, x) /\ n.passes = me.passes
    BY <1>m, <2>2 DEF Walks
  <2> HIDE DEF n
  <2>4. OneClaimant(me.left \cup me.queue) => OneClaimant(n.left \cup n.queue)
    BY <2>3 DEF OneClaimant
  <2>5. \A f : Recalled(me, f) => Recalled(n, f)
    BY <2>3 DEF Recalled
  <2>6. FoundFits(n)
    BY <1>1, <2>3 DEF WalkFits, FoundFits
  <2>7. WritesFit(n)
    BY <1>1, <2>1, <2>2, <2>3 DEF WalkFits, WritesFit
  <2>8. StageFits(n)
    BY <1>1, <1>5, <2>3, <2>4, <2>5 DEF WalkFits, StageFits
  <2>9. WalkFits(n)
    BY <1>1, <2>3, <2>6, <2>7, <2>8 DEF WalkFits
  <2>10. Work(n) \subseteq Work(me)
    BY <1>3, <2>1, <2>2, <2>3 DEF Work
  <2>11. QED
    BY <1>1, <1>3, <1>4, <1>5, <2>3, <2>9, <2>10, <2>s, WalkerGoesOn DEF PruneStages, me
<1>9. QED
  BY <1>2, <1>7, <1>8 DEF m, me

\* A run between two stages: nothing is asked of the stage.
Steady(me) ==
  /\ me.queue \cup me.left \cup me.todo \subseteq landed
  /\ \A j \in me.forgotten : job[j] = "pruned"
  /\ FoundFits(me) /\ me.passes # 0
  /\ \A r \in Range(me.writes) : Sound(r) /\ (r.job = r.tx \/ r.job \notin me.forgotten)

LEMMA NextClaimantFits ==
  ASSUME NEW me \in Walks, Steady(me), IsFiniteSet(me.found), NEW n \in NextClaimant(me)
  PROVE  /\ n \in Walks /\ IsFiniteSet(n.found) /\ WalkFits(n) /\ n.at \in {"end", "list"}
         /\ n.forgotten = me.forgotten /\ Work(n) \subseteq Work(me)
<1>1. CASE me.todo = {}
  <2>1. n = [me EXCEPT !.at = "end", !.left = {}]
    BY <1>1 DEF NextClaimant
  <2>2. /\ n \in Walks /\ n.queue = me.queue /\ n.left = {} /\ n.todo = me.todo
        /\ n.at = "end" /\ n.found = me.found /\ n.forgotten = me.forgotten
        /\ n.writes = me.writes /\ n.passes = me.passes
    BY <2>1 DEF Walks, Stages
  <2>3. WalkFits(n)
    BY <2>2 DEF Steady, WalkFits, FoundFits, WritesFit, StageFits
  <2>4. QED
    BY <2>2, <2>3 DEF Work
<1>2. CASE me.todo # {}
  <2>1. PICK e \in me.todo :
          n = [me EXCEPT !.at = "list", !.found = {}, !.full = FALSE,
                         !.left = {f \in me.todo : Game[f].claimant = Game[e].claimant},
                         !.todo = {f \in me.todo : Game[f].claimant # Game[e].claimant}]
    BY <1>2 DEF NextClaimant, Newest
  <2>2. /\ n \in Walks /\ n.queue = me.queue /\ n.at = "list" /\ n.found = {}
        /\ n.left = {f \in me.todo : Game[f].claimant = Game[e].claimant}
        /\ n.todo \subseteq me.todo /\ n.left \subseteq me.todo
        /\ n.forgotten = me.forgotten /\ n.writes = me.writes /\ n.passes = me.passes
    <3> DEFINE L == {f \in me.todo : Game[f].claimant = Game[e].claimant}
               T == {f \in me.todo : Game[f].claimant # Game[e].claimant}
    <3>1. L \subseteq me.todo /\ T \subseteq me.todo /\ me.todo \subseteq Jobs
      BY DEF Walks
    <3>2. n = [me EXCEPT !.at = "list", !.found = {}, !.full = FALSE, !.left = L, !.todo = T]
      BY <2>1
    <3> HIDE DEF L, T
    <3>3. n \in Walks /\ n.left = L /\ n.todo = T /\ n.queue = me.queue /\ n.at = "list"
          /\ n.found = {} /\ n.forgotten = me.forgotten /\ n.writes = me.writes
          /\ n.passes = me.passes
      BY <3>1, <3>2 DEF Walks, Stages
    <3>4. QED
      BY <3>1, <3>3 DEF L
  <2>3. OneClaimant(n.left)
    BY <2>2 DEF OneClaimant
  <2>4. WalkFits(n)
    BY <2>2, <2>3 DEF Steady, WalkFits, FoundFits, WritesFit, StageFits
  <2>5. QED
    BY <2>2, <2>4, FS_EmptySet DEF Work
<1>3. QED
  BY <1>1, <1>2

LEMMA EndStageKeeps ==
  ASSUME IndexInv, NEW w \in Walkers, EndStage(w)
  PROVE  IndexInv'
<1> DEFINE me == walker[w]
<1>1. /\ me \in Walks /\ IsFiniteSet(me.found) /\ WalkFits(me)
      /\ landed \subseteq Jobs /\ faults \in 0 .. MaxFaults
  BY RunFits
<1>2. /\ me.at \in {"index", "exact", "best"} /\ me.queue = {}
      /\ InWalk(w) /\ NoFault /\ UNCHANGED <<byTx, prune>>
  BY DEF EndStage, Looking
<1>3. PICK n \in AfterStage(w, me) : Set(w, n)
  BY DEF EndStage
<1>4. faults' \in 0 .. MaxFaults
  BY <1>1, <1>2, FaultType
<1> HIDE DEF me
<1>5. Steady(me)
  BY <1>1, <1>2 DEF Steady, WalkFits, WritesFit, StageFits
<1>6. /\ n \in Walks /\ IsFiniteSet(n.found) /\ WalkFits(n) /\ n.at \in {"end", "list", "best"}
      /\ n.forgotten = me.forgotten /\ Work(n) \subseteq Work(me)
  <2>1. CASE n \in AfterIndex(w, me)
    <3> DEFINE S == {e \in me.left : w = "cron" \/ e \notin aged}
               m == [me EXCEPT !.todo = S]
    <3>1. n \in NextClaimant(m)
      BY <2>1 DEF AfterIndex
    <3>2. S \subseteq me.left
      OBVIOUS
    <3> HIDE DEF S
    <3>3. /\ m \in Walks /\ m.queue = me.queue /\ m.left = me.left /\ m.todo = S
          /\ m.found = me.found /\ m.forgotten = me.forgotten /\ m.writes = me.writes
          /\ m.passes = me.passes
      BY <1>1, <3>2 DEF Walks
    <3> HIDE DEF m
    <3>4. Steady(m)
      BY <1>5, <3>2, <3>3 DEF Steady, FoundFits
    <3>5. Work(m) \subseteq Work(me)
      BY <3>2, <3>3 DEF Work
    <3>6. QED
      BY <1>1, <3>1, <3>3, <3>4, <3>5, NextClaimantFits
  <2>2. CASE n \in NextClaimant(me)
    BY <1>1, <1>5, <2>2, NextClaimantFits
  <2>3. CASE me.at = "exact" /\ me.left # {} /\ me.full
             /\ n = [me EXCEPT !.at = "best", !.queue = me.left, !.left = {}]
    <3>1. /\ n \in Walks /\ n.queue = me.left /\ n.left = {} /\ n.todo = me.todo
          /\ n.at = "best" /\ n.found = me.found /\ n.forgotten = me.forgotten /\ n.full = me.full
          /\ n.writes = me.writes /\ n.passes = me.passes
      BY <1>1, <2>3 DEF Walks, Stages
    <3>2. \A f : Recalled(me, f) => Recalled(n, f)
      BY <3>1 DEF Recalled
    <3>3. OneClaimant(me.left \cup me.queue) => OneClaimant(n.left \cup n.queue)
      BY <3>1 DEF OneClaimant
    <3>4. StageFits(n)
      BY <1>1, <2>3, <3>1, <3>2, <3>3 DEF WalkFits, StageFits
    <3>5. WalkFits(n)
      BY <1>1, <2>3, <3>1, <3>4 DEF WalkFits, FoundFits, WritesFit
    <3>6. QED
      BY <1>1, <3>1, <3>5 DEF Work
  <2>4. CASE me.at = "exact" /\ me.left # {} /\ ~me.full /\ n = [me EXCEPT !.at = "list"]
    <3>1. /\ n \in Walks /\ n.queue = me.queue /\ n.left = me.left /\ n.todo = me.todo
          /\ n.at = "list" /\ n.found = me.found /\ n.forgotten = me.forgotten
          /\ n.writes = me.writes /\ n.passes = me.passes
      BY <1>1, <2>4 DEF Walks, Stages
    <3>2. OneClaimant(me.left \cup me.queue) => OneClaimant(n.left)
      BY <3>1 DEF OneClaimant
    <3>3. ~(LastJob <= PageSize)
      BY <1>1, <2>4 DEF WalkFits, StageFits
    <3>4. StageFits(n)
      BY <1>1, <2>4, <3>1, <3>2, <3>3 DEF WalkFits, StageFits
    <3>5. WalkFits(n)
      BY <1>1, <2>4, <3>1, <3>4 DEF WalkFits, FoundFits, WritesFit
    <3>6. QED
      BY <1>1, <3>1, <3>5 DEF Work
  <2>5. QED
    BY <1>3, <2>1, <2>2, <2>3, <2>4 DEF AfterStage
<1>7. QED
  BY <1>2, <1>3, <1>4, <1>6, WalkerGoesOn DEF PruneStages, me

\* Where a page of jobs holds as many as there are, it is all the claimant's jobs.
LEMMA OnePage ==
  ASSUME NEW c, LastJob <= PageSize
  PROVE  PageOfJobs(c, 0) = JobsOf(c)
<1>1. LastJob \in Nat \ {0} /\ PageSize \in Nat \ {0}
  BY ReplayAssumption
<1> SUFFICES ASSUME NEW j \in JobsOf(c)
             PROVE  Cardinality({k \in JobsOf(c) : k > j}) \in 0 .. (0 + PageSize - 1)
  BY DEF PageOfJobs
<1> DEFINE S == {k \in JobsOf(c) : k > j}
<1>2. S \subseteq 2 .. LastJob
  BY <1>1 DEF JobsOf, Jobs
<1> HIDE DEF S
<1>3. IsFiniteSet(2 .. LastJob)
      /\ Cardinality(2 .. LastJob) = IF 2 > LastJob THEN 0 ELSE LastJob - 2 + 1
  <2>1. 2 \in Int /\ LastJob \in Int
    BY <1>1
  <2>2. QED
    BY <2>1, FS_Interval
<1>4. IsFiniteSet(S) /\ Cardinality(S) <= Cardinality(2 .. LastJob)
  BY <1>2, <1>3, FS_Subset
<1>5. Cardinality(S) \in Nat
  BY <1>4, FS_CardinalityType
<1>6. Cardinality(S) <= LastJob - 1
  BY <1>1, <1>3, <1>4, <1>5
<1>7. Cardinality(S) \in 0 .. (0 + PageSize - 1)
  BY <1>1, <1>5, <1>6
<1>8. QED
  BY <1>7 DEF S

LEMMA JobsAreFinite ==
  ASSUME NEW S \in SUBSET Jobs
  PROVE  IsFiniteSet(S) /\ Cardinality(S) \in Nat
<1>1. 1 \in Int /\ LastJob \in Int
  BY ReplayAssumption
<1>2. IsFiniteSet(1 .. LastJob)
  BY <1>1, FS_Interval
<1>3. IsFiniteSet(S)
  BY <1>2, FS_Subset DEF Jobs
<1>4. QED
  BY <1>3, FS_CardinalityType

LEMMA SeenAreFinite ==
  ASSUME NEW S \in SUBSET Jobs, NEW o
  PROVE  IsFiniteSet({Seen(j, o) : j \in S})
<1> DEFINE T == {Seen(j, o) : j \in S}
           f == [j \in S |-> Seen(j, o)]
<1>1. f \in Surjection(S, T)
  BY DEF Surjection
<1>2. IsFiniteSet(S)
  BY JobsAreFinite
<1> HIDE DEF T, f
<1>3. IsFiniteSet(T)
  BY <1>1, <1>2, FS_Surjection
<1>4. QED
  BY <1>3 DEF T

LEMMA ListKeeps ==
  ASSUME IndexInv, NEW w \in Walkers, ListJobsForClaimant(w)
  PROVE  IndexInv'
<1> DEFINE me == walker[w]
           offset == Cardinality(me.found)
<1>1. /\ me \in Walks /\ IsFiniteSet(me.found) /\ WalkFits(me)
      /\ landed \subseteq Jobs /\ faults \in 0 .. MaxFaults /\ \A j \in landed : job[j] # "new"
      /\ job \in [Jobs -> {"new", "listed", "pruned"}] /\ claim \in [Jobs -> Claims]
  BY RunFits
<1>2. /\ me.at = "list" /\ InWalk(w) /\ UNCHANGED <<byTx, prune>>
      /\ Fault \/ NoFault
  BY DEF ListJobsForClaimant
<1>3. faults' \in 0 .. MaxFaults
  BY <1>1, <1>2, FaultType
<1>4. CASE \E next \in NextClaimant(me) : Set(w, next)
  <2>1. PICK n \in NextClaimant(me) : Set(w, n)
    BY <1>4
  <2> HIDE DEF me
  <2>2. Steady(me)
    BY <1>1, <1>2 DEF Steady, WalkFits, WritesFit, StageFits
  <2>3. /\ n \in Walks /\ IsFiniteSet(n.found) /\ WalkFits(n) /\ n.at \in {"end", "list"}
        /\ n.forgotten = me.forgotten /\ Work(n) \subseteq Work(me)
    BY <1>1, <2>1, <2>2, NextClaimantFits
  <2>4. QED
    BY <1>2, <1>3, <2>1, <2>3, WalkerGoesOn DEF PruneStages, me
<1>5. ASSUME NEW e \in Newest(me.left),
             LET c == Game[e].claimant
                 read == PageOfJobs(c, offset)
             IN Set(w, [me EXCEPT !.at = "exact", !.queue = me.left, !.left = {},
                          !.found = @ \cup {Seen(j, offset) : j \in read},
                          !.full = \/ offset + Cardinality(read) >= Cardinality(JobsOf(c))
                                   \/ Cardinality(read) < PageSize])
      PROVE  IndexInv'
  <2> DEFINE c == Game[e].claimant
             read == PageOfJobs(c, offset)
             seen == {Seen(j, offset) : j \in read}
             found == me.found \cup seen
             full == \/ offset + Cardinality(read) >= Cardinality(JobsOf(c))
                     \/ Cardinality(read) < PageSize
             n == [me EXCEPT !.at = "exact", !.queue = me.left, !.left = {},
                             !.found = found, !.full = full]
  <2>1. Set(w, n)
    BY <1>5
  <2>2. e \in me.left
    BY DEF Newest
  <2>3. read \subseteq Jobs /\ \A j \in read : job[j] = "listed"
    BY DEF PageOfJobs, JobsOf
  <2>4. offset \in Nat
    BY <1>1, FS_CardinalityType
  <2>c. \A j \in Jobs : JobFits(j) /\ AnswerFits(j)
    BY DEF IndexInv, ClaimsFit
  <2> HIDE DEF me, offset, read
  <2>5. /\ seen \subseteq [job : Jobs, claim : Claims, offset : Nat]
        /\ \A s \in seen : s.job \in read /\ s.claim = claim[s.job]
    BY <1>1, <2>3, <2>4 DEF Seen
  <2>6. IsFiniteSet(seen)
    BY <2>3, SeenAreFinite
  <2>7. IsFiniteSet(found)
    BY <1>1, <2>6, FS_Union
  <2>8. full \in BOOLEAN
    OBVIOUS
  <2>9. \A s \in seen : job[s.job] # "new" /\ s.claim.tx \in {None, s.job} /\ s.job \notin me.forgotten
    BY <1>1, <2>3, <2>5, <2>c DEF JobFits, WalkFits
  <2>10. LastJob <= PageSize =>
           full /\ \A f \in me.left : \/ job[f] = "pruned" \/ Lost(f)
                                      \/ \E s \in found : /\ s.job = f
                                                          /\ \/ s.claim.tx = f
                                                             \/ \A t \in found : Game[t.job] = Game[f] =>
                                                                  t.claim.status # "succeeded"
    <3> SUFFICES ASSUME LastJob <= PageSize
                 PROVE  full /\ \A f \in me.left : \/ job[f] = "pruned" \/ Lost(f)
                                      \/ \E s \in found : /\ s.job = f
                                                          /\ \/ s.claim.tx = f
                                                             \/ \A t \in found : Game[t.job] = Game[f] =>
                                                                  t.claim.status # "succeeded"
      OBVIOUS
    <3>1. me.found = {} /\ OneClaimant(me.left)
      BY <1>1, <1>2 DEF WalkFits, StageFits
    <3>2. offset = 0 /\ found = seen
      BY <3>1, FS_EmptySet DEF offset
    <3>3. read = JobsOf(c)
      BY <3>2, OnePage DEF read
    <3>4. full
      <4>1. Cardinality(JobsOf(c)) \in Nat
        BY <2>3, <3>3, JobsAreFinite
      <4>2. QED
        BY <3>2, <3>3, <4>1
    <3>5. ASSUME NEW f \in me.left, job[f] # "pruned", ~Lost(f)
          PROVE  \E s \in seen : /\ s.job = f
                                 /\ \/ s.claim.tx = f
                                    \/ \A t \in seen : Game[t.job] = Game[f] =>
                                         t.claim.status # "succeeded"
      <4>1. f \in landed /\ f \in Jobs /\ job[f] = "listed" /\ Game[f].claimant = c
        BY <1>1, <2>2, <3>1, <3>5 DEF WalkFits, OneClaimant
      <4>2. f \in read
        BY <3>3, <4>1 DEF JobsOf
      <4>3. Seen(f, offset) \in seen /\ Seen(f, offset).job = f /\ Seen(f, offset).claim = claim[f]
        BY <4>2 DEF Seen
      <4>4. CASE claim[f].tx = f
        BY <4>3, <4>4
      <4>5. CASE claim[f].tx # f
        <5>1. delivery[f].at = "answer"
          BY <3>5, <4>1, <4>5 DEF Lost
        <5>2. claim[f].status = "open"
          BY <2>c, <4>1, <5>1 DEF JobFits
        <5>3. \A t \in seen : Game[t.job] = Game[f] => t.claim.status # "succeeded"
          BY <2>3, <2>5, <2>c, <4>1, <5>1, <5>2 DEF AnswerFits
        <5>4. QED
          BY <4>3, <5>3
      <4>6. QED
        BY <4>4, <4>5
    <3>6. QED
      BY <3>2, <3>4, <3>5
  <2>11. found \subseteq [job : Jobs, claim : Claims, offset : Nat]
    BY <1>1, <2>5 DEF Walks
  <2>12. \A s \in found : job[s.job] # "new" /\ s.claim.tx \in {None, s.job} /\ s.job \notin me.forgotten
    BY <1>1, <2>9 DEF WalkFits, FoundFits
  <2> HIDE DEF seen, full, found, c
  <2>13. /\ n \in Walks /\ n.queue = me.left /\ n.left = {} /\ n.todo = me.todo
         /\ n.at = "exact" /\ n.found = found /\ n.forgotten = me.forgotten /\ n.full = full
         /\ n.writes = me.writes /\ n.passes = me.passes
    BY <1>1, <2>8, <2>11 DEF Walks, Stages
  <2> HIDE DEF n
  <2>14. OneClaimant(n.left \cup n.queue)
    BY <1>1, <1>2, <2>13 DEF WalkFits, StageFits, OneClaimant
  <2>15. StageFits(n)
    <3>1. LastJob <= PageSize =>
            n.full /\ \A f \in n.queue \cup n.left : job[f] = "pruned" \/ Lost(f) \/ Recalled(n, f)
      BY <2>10, <2>13 DEF Recalled
    <3>2. n.passes # 0
      BY <1>1, <1>2, <2>13 DEF WalkFits, StageFits
    <3>3. QED
      BY <2>13, <2>14, <3>1, <3>2 DEF StageFits
  <2>16. WalkFits(n)
    BY <1>1, <1>2, <2>12, <2>13, <2>15 DEF WalkFits, FoundFits, WritesFit
  <2>17. Work(n) \subseteq Work(me)
    BY <2>13 DEF Work
  <2>18. QED
    BY <1>2, <1>3, <2>1, <2>7, <2>13, <2>16, <2>17, WalkerGoesOn DEF PruneStages, me
<1>6. QED
  BY <1>4, <1>5 DEF ListJobsForClaimant

\* No walk is a walk that fits, and so is a fresh one that keeps what the last had forgotten.
LEMMA NoWalkFits ==
  /\ NoWalk \in Walks /\ IsFiniteSet(NoWalk.found) /\ WalkFits(NoWalk)
  /\ NoWalk.at = "idle" /\ Work(NoWalk) = {} /\ NoWalk.forgotten = {} /\ NoWalk.queue = {}
  /\ NoWalk.left = {} /\ NoWalk.todo = {} /\ NoWalk.writes = <<>> /\ NoWalk.found = {}
<1>1. 0 \in 0 .. MaxPasses
  BY ReplayAssumption
<1>2. <<>> \in Seq(Rows)
  OBVIOUS
<1>3. NoWalk \in Walks
  BY <1>1, <1>2 DEF NoWalk, Walks, Stages
<1>4. Range(<<>>) = {}
  BY DEF Range
<1>5. /\ NoWalk.at = "idle" /\ NoWalk.queue = {} /\ NoWalk.left = {} /\ NoWalk.todo = {}
      /\ NoWalk.writes = <<>> /\ NoWalk.found = {} /\ NoWalk.forgotten = {}
  BY DEF NoWalk
<1>6. Work(NoWalk) = {}
  BY <1>4, <1>5 DEF Work
<1>7. WalkFits(NoWalk)
  BY <1>4, <1>5, <1>6 DEF WalkFits, FoundFits, WritesFit, StageFits
<1>8. QED
  BY <1>3, <1>5, <1>6, <1>7, FS_EmptySet

LEMMA AfreshType ==
  ASSUME NEW me \in Walks
  PROVE  /\ Afresh(me) \in Walks /\ Afresh(me).found = {} /\ Afresh(me).writes = <<>>
         /\ Afresh(me).queue = {} /\ Afresh(me).left = {} /\ Afresh(me).todo = {}
         /\ Afresh(me).forgotten = me.forgotten /\ Afresh(me).settled = me.settled
<1>1. me.settled \subseteq Jobs /\ me.forgotten \subseteq Jobs
  BY DEF Walks
<1> DEFINE a == [NoWalk EXCEPT !.settled = me.settled]
<1>2. /\ a \in Walks /\ a.settled = me.settled /\ a.found = {} /\ a.writes = <<>>
      /\ a.queue = {} /\ a.left = {} /\ a.todo = {}
  BY <1>1, NoWalkFits DEF Walks
<1>3. Afresh(me) = [a EXCEPT !.forgotten = me.forgotten]
  BY DEF Afresh, NoWalk
<1> HIDE DEF a
<1>4. QED
  BY <1>1, <1>2, <1>3 DEF Walks

LEMMA EndPageKeeps ==
  ASSUME IndexInv, EndPage
  PROVE  IndexInv'
<1> DEFINE me == walker["page"]
           n1 == [Afresh(me) EXCEPT !.at = "persist", !.writes = me.writes]
<1>1. "page" \in Walkers /\ "page" # "cron"
  BY DEF Walkers
<1>2. /\ me \in Walks /\ IsFiniteSet(me.found) /\ WalkFits(me)
      /\ landed \subseteq Jobs /\ faults \in 0 .. MaxFaults
  BY <1>1, RunFits
<1>3. InWalk("page") /\ NoFault /\ UNCHANGED <<byTx, prune>>
  BY DEF EndPage
<1>4. faults' \in 0 .. MaxFaults
  BY <1>2, <1>3, FaultType
<1>5. CASE me.at = "end" /\ Set("page", n1)
  <2> DEFINE a == Afresh(me)
  <2>1. /\ a \in Walks /\ a.found = {} /\ a.queue = {} /\ a.left = {} /\ a.todo = {}
        /\ a.forgotten = me.forgotten
    BY <1>2, AfreshType
  <2>2. n1 = [a EXCEPT !.at = "persist", !.writes = me.writes]
    OBVIOUS
  <2> HIDE DEF a, me
  <2>3. /\ n1 \in Walks /\ n1.found = {} /\ n1.queue = {} /\ n1.left = {} /\ n1.todo = {}
        /\ n1.forgotten = me.forgotten /\ n1.at = "persist" /\ n1.writes = me.writes
    BY <1>2, <2>1, <2>2 DEF Walks, Stages
  <2> HIDE DEF n1
  <2>4. WalkFits(n1) /\ IsFiniteSet(n1.found)
    BY <1>2, <1>5, <2>3, FS_EmptySet DEF WalkFits, FoundFits, WritesFit, StageFits
  <2>5. Work(n1) \subseteq Work(me)
    BY <2>3 DEF Work
  <2>6. QED
    BY <1>1, <1>3, <1>4, <1>5, <2>3, <2>4, <2>5, WalkerGoesOn DEF me
<1>6. CASE me.at = "persist" /\ Set("page", NoWalk)
  BY <1>1, <1>3, <1>4, <1>6, NoWalkFits, WalkerGoesOn
<1>7. QED
  BY <1>5, <1>6 DEF EndPage

LEMMA EndPassKeeps ==
  ASSUME IndexInv, EndPass
  PROVE  IndexInv'
<1> DEFINE me == walker["cron"]
           a == Afresh(me)
<1>1. "cron" \in Walkers /\ "page" # "cron"
  BY DEF Walkers
<1>2. /\ me \in Walks /\ IsFiniteSet(me.found) /\ WalkFits(me)
      /\ landed \subseteq Jobs /\ faults \in 0 .. MaxFaults /\ scores \in Seq(landed)
  BY <1>1, RunFits
<1>3. InWalk("cron") /\ NoFault /\ UNCHANGED <<byTx, prune>> /\ me.at = "end"
  BY DEF EndPass
<1>4. faults' \in 0 .. MaxFaults
  BY <1>2, <1>3, FaultType
<1>5. /\ a \in Walks /\ a.found = {} /\ a.queue = {} /\ a.left = {} /\ a.todo = {}
      /\ a.forgotten = me.forgotten /\ a.writes = <<>>
  BY <1>2, AfreshType
<1>r. Range(<<>>) = {}
  BY DEF Range
<1>6. CASE ~(me.wrote /\ me.passes < MaxPasses)
  <2> DEFINE n == [a EXCEPT !.at = "after"]
  <2>1. Set("cron", n)
    BY <1>6 DEF EndPass
  <2> HIDE DEF a, me
  <2>2. /\ n \in Walks /\ n.found = {} /\ n.queue = {} /\ n.left = {} /\ n.todo = {}
        /\ n.forgotten = me.forgotten /\ n.writes = <<>> /\ n.at = "after"
    BY <1>5 DEF Walks, Stages
  <2> HIDE DEF n
  <2>3. WalkFits(n) /\ IsFiniteSet(n.found)
    BY <1>2, <1>r, <2>2, FS_EmptySet DEF WalkFits, FoundFits, WritesFit, StageFits
  <2>4. QED
    BY <1>1, <1>3, <1>4, <2>1, <2>2, <2>3, WalkerGoesOn DEF PruneStages, me
<1>7. CASE me.wrote /\ me.passes < MaxPasses
  <2> DEFINE S == GetUnmapped
             p == me.passes + 1
             at == IF S # {} THEN "entries" ELSE "after"
             n == [a EXCEPT !.at = at, !.todo = S, !.passes = p]
  <2>1. S \subseteq landed
    BY <1>2 DEF GetUnmapped, FirstOf, Range
  <2>2. me.passes # 0 /\ me.passes \in Nat /\ MaxPasses \in Nat
    BY <1>2, <1>3, ReplayAssumption DEF WalkFits, StageFits, Walks
  <2>3. p \in 0 .. MaxPasses /\ p # 1 /\ p # 0
    BY <1>7, <2>2
  <2>4. Begin("cron", S, p)
    BY <1>7 DEF EndPass
  <2> HIDE DEF p, S
  <2>5. Set("cron", n)
    <3>1. Set("cron", [a EXCEPT !.at = at, !.todo = S, !.passes = p,
                                !.settled = @, !.forgotten = @])
      BY <2>3, <2>4 DEF Begin
    <3>2. [a EXCEPT !.at = at, !.todo = S, !.passes = p, !.settled = @, !.forgotten = @] = n
      BY DEF Afresh, NoWalk
    <3>3. QED
      BY <3>1, <3>2
  <2> HIDE DEF a, me
  <2>6. at \in {"entries", "after"}
    OBVIOUS
  <2> HIDE DEF at
  <2>7. /\ n \in Walks /\ n.found = {} /\ n.queue = {} /\ n.left = {} /\ n.todo = S
        /\ n.forgotten = me.forgotten /\ n.writes = <<>> /\ n.at \in {"entries", "after"}
        /\ n.passes = p
    BY <1>2, <1>5, <2>1, <2>3, <2>6 DEF Walks, Stages
  <2> HIDE DEF n
  <2>8. WalkFits(n) /\ IsFiniteSet(n.found)
    BY <1>2, <1>r, <2>1, <2>3, <2>7, FS_EmptySet DEF WalkFits, FoundFits, WritesFit, StageFits
  <2>9. QED
    BY <1>1, <1>3, <1>4, <2>5, <2>7, <2>8, WalkerGoesOn DEF PruneStages, me
<1>8. QED
  BY <1>6, <1>7

\* A run that begins forgets what is over, and what the run it overlaps had forgotten.
LEMMA BeginKeeps ==
  ASSUME IndexInv, NEW w \in Walkers, walker[w].at = "idle",
         NEW S \in SUBSET landed, w = "page" => \A e \in S : ~Mapped(e),
         Begin(w, S, 1), InWalk(w), NoFault, UNCHANGED <<byTx, prune>>
  PROVE  IndexInv'
<1> DEFINE me == walker[w]
           a == Afresh(me)
           at == IF S # {} THEN "entries" ELSE IF w = "cron" THEN "after" ELSE "idle"
           n == [a EXCEPT !.at = at, !.todo = S, !.passes = 1,
                          !.settled = Settled, !.forgotten = Forgotten]
<1>1. Walkers = {"cron", "page"} /\ "page" # "cron"
  BY DEF Walkers
<1>2. /\ me \in Walks /\ WalkFits(me) /\ landed \subseteq Jobs /\ faults \in 0 .. MaxFaults
  BY RunFits
<1>3. faults' \in 0 .. MaxFaults
  BY <1>2, FaultType
<1>4. Set(w, n)
  BY DEF Begin
<1>5. /\ a \in Walks /\ a.found = {} /\ a.queue = {} /\ a.left = {} /\ a.writes = <<>>
  BY <1>2, AfreshType
<1>6. /\ at \in {"entries", "after", "idle"} /\ (at = "idle" => S = {})
      /\ Settled \subseteq Jobs /\ Forgotten \subseteq Jobs /\ 1 \in 0 .. MaxPasses
  BY ReplayAssumption DEF Settled, Forgotten
<1> HIDE DEF a, me, at
<1>7. /\ n \in Walks /\ n.found = {} /\ n.queue = {} /\ n.left = {} /\ n.todo = S
      /\ n.writes = <<>> /\ n.at = at /\ n.passes = 1 /\ n.forgotten = Forgotten
  BY <1>2, <1>5, <1>6 DEF Walks, Stages
<1> HIDE DEF n
<1>r. Range(<<>>) = {}
  BY DEF Range
<1>8. Work(n) = S
  BY <1>7, <1>r DEF Work
<1>9. WalkFits(n) /\ IsFiniteSet(n.found)
  BY <1>2, <1>6, <1>7, <1>8, <1>r, FS_EmptySet
     DEF WalkFits, FoundFits, WritesFit, StageFits, Forgotten
<1>10. /\ IndexTypeOK /\ ClaimsFit /\ RowsFit /\ TapesFit /\ PageFits /\ PruneFits
       /\ \A v \in Walkers : WalkFits(walker[v])
  BY DEF IndexInv
<1>11. Onwards /\ UNCHANGED <<job, claim, landed, scores, aged, tape, byClaim, delivery>>
  BY InWalkGoesOn
<1>12. byTx' \in Seq(Rows) /\ prune' \in [runs : 0 .. (PruneEvery - 1), rows : SUBSET Rows]
       /\ byClaim' \in Seq(Jobs) /\ walker' = [walker EXCEPT ![w] = n]
       /\ walker \in [Walkers -> Walks]
  BY <1>4, <1>10, <1>11 DEF IndexTypeOK, Set
<1>13. /\ IndexTypeOK' /\ ClaimsFit'
       /\ \A v \in Walkers : WalkFits(walker[v])'
       /\ \A v \in Walkers : walker'[v] = IF v = w THEN n ELSE walker[v]
  BY <1>3, <1>7, <1>9, <1>11, <1>12, WalkKeeps
<1>14. RowsFit'
  BY <1>10, <1>11 DEF RowsFit, OneRow, Sound, Lost
<1>15. TapesFit'
  <2> SUFFICES ASSUME NEW k \in Jobs, job[k] # "new", k \notin tape, NEW i \in Alike(k)
               PROVE  job[i] = "pruned"
                      /\ \A v \in Walkers : walker'[v].at = "idle" \/ i \in walker'[v].forgotten
    BY <1>11 DEF TapesFit, Alike
  <2>1. /\ i \in Jobs /\ job[i] = "pruned"
        /\ \A v \in Walkers : walker[v].at = "idle" \/ i \in walker[v].forgotten
    BY <1>10 DEF TapesFit, Alike
  <2>2. i \in Forgotten
    BY <2>1 DEF Forgotten, Running
  <2>3. QED
    BY <1>7, <1>13, <2>1, <2>2
<1>16. \A v \in Walkers \ {w} : walker[v].at # "idle" => Forgotten = walker[v].forgotten
  <2> SUFFICES ASSUME NEW v \in Walkers \ {w}, walker[v].at # "idle"
               PROVE  Forgotten = walker[v].forgotten
    OBVIOUS
  <2>1. Running = {v}
    BY <1>1 DEF Running
  <2>2. walker[v].forgotten \subseteq Jobs /\ \A j \in walker[v].forgotten : job[j] = "pruned"
    BY <1>10, <1>12 DEF WalkFits, Walks
  <2>3. QED
    BY <2>1, <2>2 DEF Forgotten
<1>17. PageFits'
  <2> DEFINE cron == walker["cron"]
             page == walker["page"]
  <2>1. cron'.at # "idle" /\ page'.at # "idle" => cron'.forgotten = page'.forgotten
    BY <1>1, <1>7, <1>13, <1>16
  <2>2. ASSUME NEW e \in Work(page'), Alike(e) \subseteq page'.forgotten,
               NEW r \in Range(byTx), r.tx = e
        PROVE  r.job = e
    <3>1. CASE w = "page"
      <4>1. e \in S
        BY <1>8, <1>13, <2>2, <3>1
      <4>2. r.job \in MappedTo(e)
        BY <2>2 DEF MappedTo
      <4>3. QED
        BY <3>1, <4>1, <4>2 DEF Mapped
    <3>2. CASE w = "cron"
      <4>1. page' = page
        BY <1>1, <1>13, <3>2
      <4>2. QED
        BY <1>10, <2>2, <4>1 DEF PageFits
    <3>3. QED
      BY <1>1, <3>1, <3>2
  <2>3. Work(page)' = Work(page') /\ \A e : Alike(e)' = Alike(e)
    BY DEF Work, Alike
  <2>4. QED
    BY <2>1, <2>2, <2>3 DEF PageFits
<1>18. PruneFits'
  <2>1. CASE w = "cron"
    <3>1. prune.rows = {} /\ walker'["cron"] = n /\ n.at \notin PruneStages
      BY <1>6, <1>7, <1>10, <1>13, <2>1 DEF PruneFits, PruneStages
    <3>2. QED
      BY <2>1, <3>1 DEF PruneFits, PruneStages
  <2>2. CASE w = "page"
    <3>1. walker'["cron"] = walker["cron"]
      BY <1>1, <1>13, <2>2
    <3>2. QED
      BY <1>10, <1>11, <3>1 DEF PruneFits, Alike
  <2>3. QED
    BY <1>1, <2>1, <2>2
<1>19. QED
  BY <1>13, <1>14, <1>15, <1>17, <1>18 DEF IndexInv

LEMMA BeginningsKeep ==
  ASSUME IndexInv, CronBegins \/ \E c \in {Game[j].claimant : j \in Jobs} : PageBegins(c)
  PROVE  IndexInv'
<1>1. "cron" \in Walkers /\ "page" \in Walkers /\ "cron" # "page"
  BY DEF Walkers
<1>2. scores \in Seq(landed)
  BY <1>1, RunFits
<1>3. Range(scores) \subseteq landed
  BY <1>2 DEF Range
<1>4. CASE CronBegins
  <2>1. GetUnmapped \in SUBSET landed
    BY <1>3 DEF GetUnmapped, FirstOf
  <2>2. QED
    BY <1>1, <1>4, <2>1, BeginKeeps DEF CronBegins
<1>5. ASSUME NEW c, PageBegins(c) PROVE IndexInv'
  <2>1. UnresolvedRuns(c) \in SUBSET landed /\ \A e \in UnresolvedRuns(c) : ~Mapped(e)
    BY <1>3 DEF UnresolvedRuns, RecentRuns, FirstOf
  <2>2. QED
    BY <1>1, <1>5, <2>1, BeginKeeps DEF PageBegins
<1>6. QED
  BY <1>4, <1>5

\* A mapping is written: of what was found since the run began, or was not yet forgotten then.
LEMMA WriteKeeps ==
  ASSUME IndexInv, NEW w \in Walkers, Write(w)
  PROVE  IndexInv'
<1> DEFINE me == walker[w]
           r == Head(me.writes)
           rest == [me EXCEPT !.writes = Tail(@)]
<1>1. /\ me \in Walks /\ IsFiniteSet(me.found) /\ WalkFits(me)
      /\ landed \subseteq Jobs /\ faults \in 0 .. MaxFaults
  BY RunFits
<1>2. /\ me.writes # <<>> /\ InWalk(w) /\ UNCHANGED prune
      /\ me.at \in {"index", "exact", "best", "persist"}
      /\ w = "cron" => me.at # "persist"
      /\ \/ WriteProofTapeMapping(r.tx, r.job) /\ Set(w, [rest EXCEPT !.wrote = TRUE]) /\ NoFault
         \/ Set(w, rest) /\ UNCHANGED byTx /\ Fault
  BY DEF Write, Looking
<1>w. Walkers = {"cron", "page"} /\ "page" # "cron"
  BY DEF Walkers
<1>3. faults' \in 0 .. MaxFaults
  BY <1>1, <1>2, FaultType
<1>4. /\ r \in Range(me.writes) /\ r \in Rows
      /\ Tail(me.writes) \in Seq(Rows) /\ Range(Tail(me.writes)) \subseteq Range(me.writes)
  <2>1. me.writes \in Seq(Rows)
    BY <1>1 DEF Walks
  <2> DEFINE ws == me.writes
  <2> HIDE DEF ws
  <2>2. ws \in Seq(Rows) /\ ws # <<>>
    BY <1>2, <2>1 DEF ws
  <2>3. /\ Len(ws) \in Nat /\ Len(ws) # 0 /\ DOMAIN ws = 1 .. Len(ws)
        /\ Head(ws) = ws[1] /\ Tail(ws) \in Seq(Rows) /\ DOMAIN Tail(ws) = 1 .. (Len(ws) - 1)
        /\ \A i \in 1 .. (Len(ws) - 1) : Tail(ws)[i] = ws[i + 1]
    BY <2>2
  <2>4. 1 \in DOMAIN ws /\ \A i \in 1 .. (Len(ws) - 1) : i + 1 \in DOMAIN ws
    BY <2>3
  <2>5. Head(ws) \in Range(ws) /\ Head(ws) \in Rows
    BY <2>2, <2>3, <2>4 DEF Range
  <2>6. Range(Tail(ws)) \subseteq Range(ws)
    BY <2>3, <2>4 DEF Range
  <2>7. QED
    BY <2>3, <2>5, <2>6 DEF ws
<1>5. /\ Sound(r) /\ (r.job = r.tx \/ r.job \notin me.forgotten)
  BY <1>1, <1>2, <1>4 DEF WalkFits, WritesFit
<1>6. /\ rest \in Walks /\ rest.queue = me.queue /\ rest.left = me.left /\ rest.todo = me.todo
      /\ rest.at = me.at /\ rest.found = me.found /\ rest.forgotten = me.forgotten
      /\ rest.full = me.full /\ rest.writes = Tail(me.writes) /\ rest.passes = me.passes
  BY <1>1, <1>4 DEF Walks
<1> HIDE DEF me, r, rest
<1>7. ASSUME NEW n, n \in {rest, [rest EXCEPT !.wrote = TRUE]}
      PROVE  /\ n \in Walks /\ IsFiniteSet(n.found) /\ WalkFits(n)
             /\ n.at = me.at /\ n.forgotten = me.forgotten /\ Work(n) \subseteq Work(me)
  <2>1. /\ n \in Walks /\ n.queue = me.queue /\ n.left = me.left /\ n.todo = me.todo
        /\ n.at = me.at /\ n.found = me.found /\ n.forgotten = me.forgotten
        /\ n.full = me.full /\ n.writes = Tail(me.writes) /\ n.passes = me.passes
    BY <1>6, <1>7 DEF Walks
  <2>2. \A f : Recalled(me, f) => Recalled(n, f)
    BY <2>1 DEF Recalled
  <2>3. OneClaimant(me.left \cup me.queue) => OneClaimant(n.left \cup n.queue)
    BY <2>1
  <2>4. StageFits(n)
    BY <1>1, <1>2, <2>1, <2>2, <2>3 DEF WalkFits, StageFits
  <2>5. FoundFits(n) /\ WritesFit(n)
    BY <1>1, <1>4, <2>1 DEF WalkFits, FoundFits, WritesFit
  <2>6. WalkFits(n)
    BY <1>1, <2>1, <2>4, <2>5 DEF WalkFits
  <2>7. Work(n) \subseteq Work(me)
    BY <1>4, <2>1 DEF Work
  <2>8. QED
    BY <1>1, <2>1, <2>6, <2>7
<1>8. CASE Set(w, rest) /\ UNCHANGED byTx
  BY <1>2, <1>3, <1>7, <1>8, WalkerGoesOn DEF PruneStages, me
<1>9. CASE WriteProofTapeMapping(r.tx, r.job) /\ Set(w, [rest EXCEPT !.wrote = TRUE])
  <2> DEFINE n == [rest EXCEPT !.wrote = TRUE]
  <2>1. /\ n \in Walks /\ IsFiniteSet(n.found) /\ WalkFits(n)
        /\ n.at = me.at /\ n.forgotten = me.forgotten /\ Work(n) \subseteq Work(me)
    BY <1>7
  <2>s. Set(w, n)
    BY <1>9
  <2> HIDE DEF n
  <2>2. /\ IndexTypeOK /\ ClaimsFit /\ RowsFit /\ TapesFit /\ PageFits /\ PruneFits
        /\ \A v \in Walkers : WalkFits(walker[v])
    BY DEF IndexInv
  <2>3. UNCHANGED <<job, claim, landed, scores, aged, tape, byClaim, delivery>>
    BY <1>2, InWalkGoesOn
  <2>4. byTx \in Seq(Rows) /\ Keyed(byTx) /\ r.tx \in Jobs /\ r.job \in Jobs /\ r = Row(r.tx, r.job)
    BY <1>4, <2>2 DEF IndexTypeOK, RowsFit, OneRow, Keyed, Rows, Row
  <2>5. /\ byTx' \in Seq(Rows) /\ Keyed(byTx')
        /\ Range(byTx') = {x \in Range(byTx) : x.tx # r.tx} \cup {r}
    BY <1>9, <2>4, WrittenRow DEF WriteProofTapeMapping
  <2>6. /\ prune' \in [runs : 0 .. (PruneEvery - 1), rows : SUBSET Rows]
        /\ byClaim' \in Seq(Jobs) /\ walker' = [walker EXCEPT ![w] = n]
    BY <1>2, <2>2, <2>3, <2>s DEF IndexTypeOK, Set
  <2>7. /\ IndexTypeOK' /\ ClaimsFit'
        /\ \A v \in Walkers : WalkFits(walker[v])'
        /\ \A v \in Walkers : walker'[v] = IF v = w THEN n ELSE walker[v]
    BY <1>3, <2>1, <2>3, <2>5, <2>6, WalkKeeps
  <2>8. RowsFit'
    <3>1. \A x : Sound(x) => Sound(x)'
      BY <2>3 DEF Sound, Lost
    <3>2. (\A x \in Range(byTx) : Sound(x)) /\ (\A x \in prune.rows : Sound(x))
      BY <2>2 DEF RowsFit
    <3>3. \A x \in Range(byTx') : Sound(x)'
      BY <1>5, <2>5, <3>1, <3>2
    <3>4. \A x \in prune.rows' : Sound(x)'
      BY <1>2, <3>1, <3>2
    <3>5. QED
      BY <2>5, <3>3, <3>4 DEF RowsFit, OneRow, Keyed
  <2>9. TapesFit'
    BY <2>1, <2>2, <2>3, <2>7 DEF TapesFit, Alike, me
  <2> DEFINE cron == walker["cron"]
             page == walker["page"]
  <2>p. /\ cron.at # "idle" /\ page.at # "idle" => cron.forgotten = page.forgotten
        /\ \A e \in Work(page) : Alike(e) \subseteq page.forgotten =>
             \A x \in Range(byTx) : x.tx = e => x.job = e
    BY <2>2 DEF PageFits
  <2>q. r.job \in Alike(r.tx)
    BY <1>5, <2>4 DEF Alike, Sound
  <2>r. Work(page) # {} => page.at # "idle"
    BY <1>w, <2>2 DEF WalkFits, StageFits
  <2>10. PageFits'
    <3>1. cron'.at # "idle" /\ page'.at # "idle" => cron'.forgotten = page'.forgotten
      BY <1>2, <1>w, <2>1, <2>7, <2>p DEF me
    <3>2. ASSUME NEW e \in Work(page'), Alike(e) \subseteq page'.forgotten,
                 NEW x \in Range(byTx'), x.tx = e
          PROVE  x.job = e
      <4>1. e \in Work(page) /\ page'.forgotten = page.forgotten
        BY <1>w, <2>1, <2>7, <3>2 DEF me
      <4>2. CASE x \in Range(byTx)
        BY <2>p, <3>2, <4>1, <4>2
      <4>3. CASE x = r
        <5>1. r.job \in page.forgotten
          BY <2>q, <3>2, <4>1, <4>3
        <5>2. me.forgotten = page.forgotten
          <6>1. CASE w = "page"
            BY <6>1 DEF me
          <6>2. CASE w = "cron"
            <7>1. page.at # "idle" /\ cron.at # "idle"
              BY <1>2, <2>r, <4>1, <6>2 DEF me
            <7>2. QED
              BY <2>p, <6>2, <7>1 DEF me
          <6>3. QED
            BY <1>w, <6>1, <6>2
        <5>3. QED
          BY <1>5, <3>2, <4>3, <5>1, <5>2
      <4>4. QED
        BY <2>5, <4>2, <4>3
    <3>3. Work(page)' = Work(page') /\ \A e : Alike(e)' = Alike(e)
      BY DEF Work, Alike
    <3>4. QED
      BY <3>1, <3>2, <3>3 DEF PageFits
  <2>11. PruneFits'
    <3>1. CASE w = "cron"
      <4>1. prune.rows = {} /\ walker'["cron"] = n /\ n.at \notin PruneStages
        BY <1>2, <2>1, <2>2, <2>7, <3>1 DEF PruneFits, PruneStages, me
      <4>2. QED
        BY <1>2, <4>1 DEF PruneFits, PruneStages
    <3>2. CASE w = "page"
      <4>1. cron' = cron /\ prune' = prune
        BY <1>2, <1>w, <2>7, <3>2
      <4>2. ASSUME NEW x \in prune.rows, x.job # x.tx, x.tx \in tape,
                   Alike(x.tx) \subseteq cron.forgotten,
                   ~(cron.at = "unindex" /\ x = cron.writes[1])
            PROVE  x \in Range(byTx')
        <5>1. x \in Range(byTx)
          BY <2>2, <4>2 DEF PruneFits
        <5>2. ASSUME x.tx = r.tx PROVE FALSE
          <6>1. x.tx \in Work(page)
            BY <1>4, <3>2, <5>2 DEF Work, me
          <6>2. page.at # "idle"
            BY <2>r, <6>1
          <6>3. cron.at # "idle"
            BY <2>2, <4>2 DEF PruneFits
          <6>4. x.job = x.tx
            BY <2>p, <4>2, <5>1, <6>1, <6>2, <6>3
          <6>5. QED
            BY <4>2, <6>4
        <5>3. QED
          BY <2>5, <5>1, <5>2
      <4>3. QED
        BY <2>2, <2>3, <4>1, <4>2 DEF PruneFits, Alike
    <3>3. QED
      BY <1>w, <3>1, <3>2
  <2>12. QED
    BY <2>7, <2>8, <2>9, <2>10, <2>11 DEF IndexInv
<1>10. QED
  BY <1>2, <1>8, <1>9

(***************************************************************************)
(* The prune.                                                              *)
(***************************************************************************)

\* A step of the cron that ends or prunes: it writes no row, and keeps what fits its prune.
LEMMA PruneKeeps ==
  ASSUME IndexInv, NEW n \in Walks, IsFiniteSet(n.found), WalkFits(n),
         walker["cron"].at # "idle",
         n.at # "idle" => n.forgotten = walker["cron"].forgotten,
         walker' = [walker EXCEPT !["cron"] = n],
         UNCHANGED <<job, claim, landed, scores, aged, tape, delivery>>,
         byClaim' \in Seq(Jobs), Range(byClaim') \subseteq Range(byClaim),
         byTx' \in Seq(Rows), OneRow', Range(byTx') \subseteq Range(byTx),
         prune' \in [runs : 0 .. (PruneEvery - 1), rows : SUBSET Rows],
         \A r \in prune'.rows : Sound(r),
         Fault \/ NoFault,
         n.at \notin PruneStages => prune'.rows = {},
         n.at \in {"delete", "unindex"} => \A r \in prune'.rows : r.job \notin tape,
         n.at = "unindex" => Len(n.writes) = 1 /\ n.writes[1] \in prune'.rows,
         \A r \in prune'.rows :
           /\ r.job # r.tx /\ r.tx \in tape /\ Alike(r.tx) \subseteq n.forgotten
           /\ ~(n.at = "unindex" /\ r = n.writes[1])
           => r \in Range(byTx')
  PROVE  IndexInv'
<1>1. Walkers = {"cron", "page"} /\ "page" # "cron"
  BY DEF Walkers
<1>2. /\ IndexTypeOK /\ ClaimsFit /\ RowsFit /\ TapesFit /\ PageFits /\ PruneFits
  BY DEF IndexInv
<1>3. faults' \in 0 .. MaxFaults
  BY <1>2, FaultType DEF IndexTypeOK
<1>4. /\ IndexTypeOK' /\ ClaimsFit'
      /\ \A v \in Walkers : WalkFits(walker[v])'
      /\ \A v \in Walkers : walker'[v] = IF v = "cron" THEN n ELSE walker[v]
  BY <1>1, <1>3, WalkKeeps
<1>5. RowsFit'
  <2>1. \A r : Sound(r) => Sound(r)'
    BY DEF Sound, Lost
  <2>2. \A r \in Range(byTx) : Sound(r)
    BY <1>2 DEF RowsFit
  <2>3. QED
    BY <2>1, <2>2 DEF RowsFit
<1>6. TapesFit'
  BY <1>2, <1>4 DEF TapesFit, Alike
<1>7. PageFits'
  <2>1. walker'["page"] = walker["page"] /\ walker'["cron"] = n
    BY <1>1, <1>4
  <2>2. QED
    BY <1>2, <2>1 DEF PageFits, Alike, Work
<1>8. PruneFits'
  BY <1>1, <1>4 DEF PruneFits, PruneStages, Alike
<1>9. QED
  BY <1>4, <1>5, <1>6, <1>7, <1>8 DEF IndexInv

\* What the prune steps start from.
LEMMA PruneStarts ==
  ASSUME IndexInv
  PROVE  /\ "cron" \in Walkers /\ walker \in [Walkers -> Walks]
         /\ IsFiniteSet(walker["cron"].found) /\ WalkFits(walker["cron"])
         /\ byClaim \in Seq(Jobs) /\ byTx \in Seq(Rows) /\ Keyed(byTx)
         /\ Range(byTx) \subseteq Rows /\ Range(byClaim) \subseteq Jobs
         /\ prune \in [runs : 0 .. (PruneEvery - 1), rows : SUBSET Rows]
         /\ (\A r \in Range(byTx) : Sound(r)) /\ (\A r \in prune.rows : Sound(r))
         /\ \A j \in Range(byClaim) : job[j] # "new"
         /\ PruneFits
<1>1. IndexTypeOK /\ RowsFit /\ ClaimsFit /\ PruneFits /\ \A w \in Walkers : WalkFits(walker[w])
  BY DEF IndexInv
<1>2. "cron" \in Walkers
  BY DEF Walkers
<1>3. Keyed(byTx) /\ (\A r \in Range(byTx) : Sound(r)) /\ (\A r \in prune.rows : Sound(r))
  BY <1>1 DEF RowsFit, OneRow, Keyed
<1>4. Range(byTx) \subseteq Rows /\ Range(byClaim) \subseteq Jobs
  BY <1>1 DEF IndexTypeOK, Range
<1>5. QED
  BY <1>1, <1>2, <1>3, <1>4 DEF IndexTypeOK, ClaimsFit

\* The cron at another stage, with other writes.
Moved(n, me) ==
  /\ n.queue = me.queue /\ n.left = me.left /\ n.todo = me.todo /\ n.found = me.found
  /\ n.forgotten = me.forgotten
SoundWrites(ws) == \A r \in Range(ws) : Sound(r)

LEMMA MovedFits ==
  ASSUME NEW me \in Walks, WalkFits(me), NEW n \in Walks, Moved(n, me),
         n.at \in {"mapped"} \cup PruneStages, SoundWrites(n.writes),
         n.at # "unindex" => n.writes = <<>> \/ (n.writes = me.writes /\ me.at # "unindex")
  PROVE  WalkFits(n)
<1>1. Range(<<>>) = {}
  BY DEF Range
<1>2. WritesFit(n)
  BY <1>1 DEF WalkFits, WritesFit, SoundWrites, Moved
<1>3. n.at \notin {"idle", "entries", "index", "list", "exact", "best", "end"}
  BY DEF PruneStages
<1>4. StageFits(n)
  BY <1>3 DEF StageFits
<1>5. QED
  BY <1>2, <1>4 DEF WalkFits, FoundFits, Moved

LEMMA AfterBackfillKeeps ==
  ASSUME IndexInv, AfterBackfill
  PROVE  IndexInv'
<1> DEFINE me == walker["cron"]
<1>1. /\ "cron" \in Walkers /\ walker \in [Walkers -> Walks] /\ IsFiniteSet(me.found) /\ WalkFits(me)
      /\ byClaim \in Seq(Jobs) /\ byTx \in Seq(Rows) /\ Keyed(byTx) /\ PruneFits
      /\ prune \in [runs : 0 .. (PruneEvery - 1), rows : SUBSET Rows]
  BY PruneStarts
<1>2. /\ me.at = "after" /\ NoFault
      /\ UNCHANGED <<job, claim, landed, scores, aged, tape, delivery, byClaim, byTx>>
  BY DEF AfterBackfill, InPrune, chain, tables
<1>3. prune.rows = {}
  BY <1>1, <1>2 DEF PruneFits
<1>4. OneRow'
  BY <1>1, <1>2 DEF OneRow, Keyed
<1>5. CASE CronEnds /\ prune' = [prune EXCEPT !.runs = @ + 1] /\ prune.runs + 1 < PruneEvery
  <2>1. /\ prune' \in [runs : 0 .. (PruneEvery - 1), rows : SUBSET Rows] /\ prune'.rows = {}
    <3>1. prune.runs + 1 \in 0 .. (PruneEvery - 1)
      BY <1>1, <1>5, ReplayAssumption
    <3>2. QED
      BY <1>1, <1>3, <1>5, <3>1
  <2>2. walker' = [walker EXCEPT !["cron"] = NoWalk]
    BY <1>5 DEF CronEnds
  <2>3. QED
    BY <1>1, <1>2, <1>4, <2>1, <2>2, NoWalkFits, PruneKeeps DEF PruneStages
<1>6. CASE CronGoto("mapped") /\ UNCHANGED prune
  <2> DEFINE n == [me EXCEPT !.at = "mapped", !.writes = me.writes]
  <2>1. walker' = [walker EXCEPT !["cron"] = n]
    <3>1. n = [me EXCEPT !.at = "mapped"]
      BY <1>1 DEF Walks
    <3>2. QED
      BY <1>6, <3>1 DEF CronGoto
  <2>2. me \in Walks /\ me.writes \in Seq(Rows) /\ \A r \in Range(me.writes) : Sound(r)
    BY <1>1 DEF WalkFits, WritesFit, Walks
  <2>3. /\ n \in Walks /\ IsFiniteSet(n.found) /\ WalkFits(n)
        /\ n.at = "mapped" /\ n.forgotten = me.forgotten
    <3> HIDE DEF me
    <3>1. n \in Walks /\ Moved(n, me) /\ n.at = "mapped" /\ n.writes = me.writes
      BY <2>2 DEF Walks, Stages, Moved
    <3>2. SoundWrites(n.writes) /\ me.at # "unindex"
      BY <1>2, <2>2, <3>1 DEF SoundWrites
    <3> HIDE DEF n
    <3>3. QED
      BY <1>1, <2>2, <3>1, <3>2, MovedFits DEF Moved
  <2> HIDE DEF n
  <2>4. QED
    BY <1>1, <1>2, <1>3, <1>4, <1>6, <2>1, <2>3, PruneKeeps DEF PruneStages
<1>7. QED
  BY <1>5, <1>6 DEF AfterBackfill

\* The steps that read: the mappings, the claim index, the tapes.
LEMMA PruneReadsKeep ==
  ASSUME IndexInv, GetMapped \/ GetClaims \/ HeadTapes
  PROVE  IndexInv'
<1> DEFINE me == walker["cron"]
           Pr == [runs : 0 .. (PruneEvery - 1), rows : SUBSET Rows]
<1>1. /\ "cron" \in Walkers /\ walker \in [Walkers -> Walks] /\ IsFiniteSet(me.found) /\ WalkFits(me)
      /\ byClaim \in Seq(Jobs) /\ byTx \in Seq(Rows) /\ Keyed(byTx) /\ PruneFits
      /\ prune \in Pr
      /\ Range(byTx) \subseteq Rows /\ Range(byClaim) \subseteq Jobs
      /\ (\A r \in Range(byTx) : Sound(r)) /\ (\A r \in prune.rows : Sound(r))
      /\ \A j \in Range(byClaim) : job[j] # "new"
  BY PruneStarts
<1>2. /\ me.at \in {"mapped", "claims", "heads"}
      /\ UNCHANGED <<job, claim, landed, scores, aged, tape, delivery, byClaim, byTx>>
  BY DEF GetMapped, GetClaims, HeadTapes, InPrune, chain, tables
<1>3. OneRow'
  BY <1>1, <1>2 DEF OneRow, Keyed
<1>4. \A R \in SUBSET Rows :
        [prune EXCEPT !.rows = R] \in Pr /\ [prune EXCEPT !.rows = R].rows = R
  BY <1>1
\* The reader goes on to `at` with the rows R.
<1>5. ASSUME NEW at \in {"claims", "heads", "delete"}, NEW R \in SUBSET Rows,
             CronGoto(at), prune' = [prune EXCEPT !.rows = R], Fault \/ NoFault,
             \A r \in R : Sound(r) /\ (at = "delete" => r.job \notin tape),
             \A r \in R : /\ r.job # r.tx /\ r.tx \in tape /\ Alike(r.tx) \subseteq me.forgotten
                          => r \in Range(byTx)
      PROVE  IndexInv'
  <2> DEFINE n == [me EXCEPT !.at = at, !.writes = me.writes]
  <2>1. walker' = [walker EXCEPT !["cron"] = n]
    <3>1. n = [me EXCEPT !.at = at]
      BY <1>1 DEF Walks
    <3>2. QED
      BY <1>5, <3>1 DEF CronGoto
  <2>2. me \in Walks /\ me.writes \in Seq(Rows) /\ \A r \in Range(me.writes) : Sound(r)
    BY <1>1 DEF WalkFits, WritesFit, Walks
  <2>3. /\ n \in Walks /\ IsFiniteSet(n.found) /\ WalkFits(n)
        /\ n.at = at /\ n.forgotten = me.forgotten
    <3> HIDE DEF me
    <3>1. n \in Walks /\ Moved(n, me) /\ n.at = at /\ n.writes = me.writes
      BY <2>2 DEF Walks, Stages, Moved
    <3>2. SoundWrites(n.writes) /\ me.at # "unindex" /\ at \in PruneStages
      BY <1>2, <2>2, <3>1 DEF SoundWrites, PruneStages
    <3> HIDE DEF n
    <3>3. QED
      BY <1>1, <2>2, <3>1, <3>2, MovedFits DEF Moved
  <2>4. prune' \in Pr /\ prune'.rows = R
    BY <1>4, <1>5
  <2> HIDE DEF n
  <2>5. QED
    BY <1>1, <1>2, <1>3, <1>5, <2>1, <2>3, <2>4, PruneKeeps DEF PruneStages
\* The read fails, and the cron ends.
<1>6. ASSUME CronEnds, prune' \in Pr, prune'.rows = {}, Fault \/ NoFault PROVE IndexInv'
  <2>1. walker' = [walker EXCEPT !["cron"] = NoWalk]
    BY <1>6 DEF CronEnds
  <2>2. QED
    BY <1>1, <1>2, <1>3, <1>6, <2>1, NoWalkFits, PruneKeeps DEF PruneStages
<1>7. CASE GetMapped
  <2>1. CASE prune' = [prune EXCEPT !.rows = MappedRows] /\ CronGoto("claims") /\ NoFault
    <3>1. MappedRows \subseteq Range(byTx)
      BY DEF MappedRows, FirstRows, Range
    <3>2. QED
      BY <1>1, <1>5, <2>1, <3>1
  <2>2. CASE CronEnds /\ UNCHANGED prune /\ Fault
    <3>1. prune.rows = {}
      BY <1>1, <1>7 DEF PruneFits, GetMapped
    <3>2. QED
      BY <1>1, <1>6, <2>2, <3>1
  <2>3. QED
    BY <1>7, <2>1, <2>2 DEF GetMapped
<1>8. CASE GetClaims
  <2>1. CASE prune' = [prune EXCEPT !.rows = @ \cup {Row(j, j) : j \in FirstRows(byClaim)}]
             /\ CronGoto("heads") /\ NoFault
    <3> DEFINE O == {Row(j, j) : j \in FirstRows(byClaim)}
               R == prune.rows \cup O
    <3>1. FirstRows(byClaim) \subseteq Range(byClaim)
      BY DEF FirstRows, Range
    <3>2. \A r \in O : r \in Rows /\ r.job = r.tx /\ Sound(r)
      BY <1>1, <3>1 DEF Row, Rows, Sound
    <3>3. R \in SUBSET Rows /\ \A r \in R : Sound(r)
      BY <1>1, <3>2
    <3>4. ASSUME NEW r \in R, r.job # r.tx, r.tx \in tape, Alike(r.tx) \subseteq me.forgotten
          PROVE  r \in Range(byTx)
      BY <1>1, <1>8, <3>2, <3>4 DEF PruneFits, GetClaims
    <3>5. prune' = [prune EXCEPT !.rows = R]
      BY <2>1
    <3> HIDE DEF R
    <3>6. QED
      BY <1>5, <2>1, <3>3, <3>4, <3>5
  <2>2. CASE CronEnds /\ prune' = [prune EXCEPT !.rows = {}] /\ Fault
    BY <1>4, <1>6, <2>2
  <2>3. QED
    BY <1>8, <2>1, <2>2 DEF GetClaims
<1>9. CASE HeadTapes
  <2>1. PICK unknown \in {{}} \cup {{r.job} : r \in prune.rows} :
          /\ IF unknown = {} THEN NoFault ELSE Fault
          /\ prune' = [prune EXCEPT !.rows = Stale(@, unknown)]
    BY <1>9 DEF HeadTapes
  <2> DEFINE R == Stale(prune.rows, unknown)
  <2>2. R \subseteq prune.rows /\ \A r \in R : r.job \notin tape
    BY DEF Stale
  <2>3. prune' = [prune EXCEPT !.rows = R] /\ CronGoto("delete") /\ (Fault \/ NoFault)
    BY <1>9, <2>1 DEF HeadTapes
  <2>4. ASSUME NEW r \in R, r.job # r.tx, r.tx \in tape, Alike(r.tx) \subseteq me.forgotten
        PROVE  r \in Range(byTx)
    BY <1>1, <1>9, <2>2, <2>4 DEF PruneFits, HeadTapes
  <2> HIDE DEF R
  <2>5. R \in SUBSET Rows /\ \A r \in R : Sound(r)
    BY <1>1, <2>2
  <2>6. QED
    BY <1>5, <2>2, <2>3, <2>4, <2>5
<1>10. QED
  BY <1>7, <1>8, <1>9

\* Two rows of the prune for one transaction: if one may still be needed, they are one.
LEMMA OneStaleRow ==
  ASSUME IndexInv, walker["cron"].at = "delete",
         NEW r \in prune.rows, NEW x \in prune.rows, x.tx = r.tx, x.tx \in tape, x.job # x.tx,
         Alike(x.tx) \subseteq walker["cron"].forgotten
  PROVE  x = r
<1>1. PruneFits /\ OneRow
  BY DEF IndexInv, RowsFit
<1>2. r.job \notin tape
  BY <1>1 DEF PruneFits
<1>3. x \in Range(byTx) /\ r \in Range(byTx)
  BY <1>1, <1>2 DEF PruneFits
<1>4. QED
  BY <1>1, <1>3 DEF OneRow, Range

LEMMA DeleteMappingKeeps ==
  ASSUME IndexInv, DeleteMapping
  PROVE  IndexInv'
<1> DEFINE me == walker["cron"]
           Pr == [runs : 0 .. (PruneEvery - 1), rows : SUBSET Rows]
<1>1. /\ "cron" \in Walkers /\ walker \in [Walkers -> Walks] /\ IsFiniteSet(me.found) /\ WalkFits(me)
      /\ byClaim \in Seq(Jobs) /\ byTx \in Seq(Rows) /\ Keyed(byTx) /\ PruneFits
      /\ prune \in Pr
      /\ (\A r \in prune.rows : Sound(r))
  BY PruneStarts
<1>2. /\ me.at = "delete"
      /\ UNCHANGED <<job, claim, landed, scores, aged, tape, delivery, byClaim>>
  BY DEF DeleteMapping, InPrune, chain
<1>3. PICK r \in prune.rows :
        \/ /\ DeleteProofTapeMapping(r.tx)
           /\ walker' = [walker EXCEPT !["cron"].at = "unindex", !["cron"].writes = <<r>>]
           /\ UNCHANGED prune /\ NoFault
        \/ prune' = [prune EXCEPT !.rows = @ \ {r}] /\ UNCHANGED <<byTx, walker>> /\ Fault
  BY DEF DeleteMapping
<1>4. r \in Rows /\ Sound(r) /\ r.tx \in Jobs
  BY <1>1 DEF Rows
<1>5. CASE /\ DeleteProofTapeMapping(r.tx)
           /\ walker' = [walker EXCEPT !["cron"].at = "unindex", !["cron"].writes = <<r>>]
           /\ UNCHANGED prune /\ NoFault
  <2> DEFINE n == [me EXCEPT !.at = "unindex", !.writes = <<r>>]
  <2>1. walker' = [walker EXCEPT !["cron"] = n]
    BY <1>1, <1>5
  <2>2. /\ byTx' \in Seq(Rows) /\ Keyed(byTx')
        /\ Range(byTx') = {x \in Range(byTx) : x.tx # r.tx}
    BY <1>1, <1>4, <1>5, DroppedRow DEF DeleteProofTapeMapping
  <2>3. <<r>> \in Seq(Rows) /\ Range(<<r>>) = {r} /\ Len(<<r>>) = 1 /\ <<r>>[1] = r
    BY <1>4 DEF Range
  <2>4. me \in Walks
    BY <1>1
  <2> HIDE DEF me
  <2>5. /\ n \in Walks /\ Moved(n, me) /\ n.at = "unindex" /\ n.writes = <<r>>
        /\ n.found = me.found /\ n.forgotten = me.forgotten
    BY <2>3, <2>4 DEF Walks, Stages, Moved
  <2>6. SoundWrites(n.writes)
    BY <1>4, <2>3, <2>5 DEF SoundWrites
  <2> HIDE DEF n
  <2>7. WalkFits(n)
    BY <1>1, <2>4, <2>5, <2>6, MovedFits DEF PruneStages
  <2>8. ASSUME NEW x \in prune.rows, x.job # x.tx, x.tx \in tape,
               Alike(x.tx) \subseteq me.forgotten, x # r
        PROVE  x \in Range(byTx')
    <3>1. x \in Range(byTx)
      BY <1>1, <1>2, <2>8 DEF PruneFits, me
    <3>2. x.tx # r.tx
      BY <1>2, <2>8, OneStaleRow DEF me
    <3>3. QED
      BY <2>2, <3>1, <3>2
  <2>9. /\ OneRow' /\ Range(byTx') \subseteq Range(byTx)
        /\ byClaim' \in Seq(Jobs) /\ Range(byClaim') \subseteq Range(byClaim) /\ prune' \in Pr
    BY <1>1, <1>2, <1>5, <2>2 DEF OneRow, Keyed
  <2>10. /\ \A x \in prune'.rows : Sound(x) /\ x.job \notin tape
         /\ prune' = prune
    BY <1>1, <1>2, <1>5 DEF PruneFits, me
  <2>11. Len(n.writes) = 1 /\ n.writes[1] = r /\ n.writes[1] \in prune'.rows
    BY <1>5, <2>3, <2>5
  <2>12. QED
    BY <1>1, <1>2, <1>5, <2>1, <2>2, <2>5, <2>7, <2>8, <2>9, <2>10, <2>11, PruneKeeps
       DEF PruneStages, me
<1>6. CASE prune' = [prune EXCEPT !.rows = @ \ {r}] /\ UNCHANGED <<byTx, walker>> /\ Fault
  <2>1. walker' = [walker EXCEPT !["cron"] = me] /\ me \in Walks
    BY <1>1, <1>6
  <2>2. prune' \in Pr /\ prune'.rows = prune.rows \ {r}
    BY <1>1, <1>6
  <2>3. OneRow'
    BY <1>1, <1>6 DEF OneRow, Keyed
  <2> HIDE DEF me
  <2>4. \A x \in prune'.rows :
          /\ Sound(x) /\ x.job \notin tape
          /\ x.job # x.tx /\ x.tx \in tape /\ Alike(x.tx) \subseteq me.forgotten
             => x \in Range(byTx')
    BY <1>1, <1>2, <1>6, <2>2 DEF PruneFits, me
  <2>5. QED
    BY <1>1, <1>2, <1>6, <2>1, <2>2, <2>3, <2>4, PruneKeeps DEF PruneStages, me
<1>7. QED
  BY <1>3, <1>5, <1>6

LEMMA DeleteEntryKeeps ==
  ASSUME IndexInv, DeleteEntry
  PROVE  IndexInv'
<1> DEFINE me == walker["cron"]
           r == me.writes[1]
           n == [me EXCEPT !.at = "delete", !.writes = <<>>]
           Pr == [runs : 0 .. (PruneEvery - 1), rows : SUBSET Rows]
<1>1. /\ "cron" \in Walkers /\ walker \in [Walkers -> Walks] /\ IsFiniteSet(me.found) /\ WalkFits(me)
      /\ byClaim \in Seq(Jobs) /\ byTx \in Seq(Rows) /\ Keyed(byTx) /\ PruneFits
      /\ prune \in Pr
      /\ (\A x \in prune.rows : Sound(x))
  BY PruneStarts
<1>2. /\ me.at = "unindex"
      /\ UNCHANGED <<job, claim, landed, scores, aged, tape, delivery, byTx>>
      /\ \/ DeleteProofClaimIndexEntry(r.tx, r.job) /\ NoFault
         \/ UNCHANGED byClaim /\ Fault
      /\ prune' = [prune EXCEPT !.rows = @ \ {r}]
  BY DEF DeleteEntry, InPrune, chain
<1>3. walker' = [walker EXCEPT !["cron"] = n] /\ me \in Walks
  BY <1>1 DEF DeleteEntry
<1>4. byClaim' \in Seq(Jobs) /\ Range(byClaim') \subseteq Range(byClaim) /\ (Fault \/ NoFault)
  <2>1. CASE DeleteProofClaimIndexEntry(r.tx, r.job) /\ NoFault
    <3> DEFINE d == Dropped(byClaim, {r.tx})
    <3>1. d \in Seq(Jobs) /\ Range(d) \subseteq Range(byClaim)
      BY <1>1, DroppedType
    <3> HIDE DEF d
    <3>2. Dropped(d, {r.job}) \in Seq(Jobs) /\ Range(Dropped(d, {r.job})) \subseteq Range(d)
      BY <3>1, DroppedType
    <3>3. QED
      BY <2>1, <3>1, <3>2 DEF DeleteProofClaimIndexEntry, d
  <2>2. QED
    BY <1>1, <1>2, <2>1
<1>5. prune' \in Pr /\ prune'.rows = prune.rows \ {r}
  BY <1>1, <1>2
<1>6. OneRow'
  BY <1>1, <1>2 DEF OneRow, Keyed
<1>7. \A x \in prune'.rows :
        /\ Sound(x) /\ x.job \notin tape
        /\ x.job # x.tx /\ x.tx \in tape /\ Alike(x.tx) \subseteq me.forgotten
           => x \in Range(byTx')
  BY <1>1, <1>2, <1>5 DEF PruneFits
<1> HIDE DEF me
<1>8. /\ n \in Walks /\ Moved(n, me) /\ n.at = "delete" /\ n.writes = <<>>
      /\ n.found = me.found /\ n.forgotten = me.forgotten
  <2>1. <<>> \in Seq(Rows)
    OBVIOUS
  <2>2. QED
    BY <1>3, <2>1 DEF Walks, Stages, Moved
<1>9. SoundWrites(n.writes)
  BY <1>8 DEF SoundWrites, Range
<1> HIDE DEF n, r
<1>10. WalkFits(n)
  BY <1>1, <1>3, <1>8, <1>9, MovedFits DEF PruneStages
<1>11. QED
  BY <1>1, <1>2, <1>3, <1>4, <1>5, <1>6, <1>7, <1>8, <1>10, PruneKeeps DEF PruneStages, me

LEMMA EndPruneKeeps ==
  ASSUME IndexInv, EndPrune
  PROVE  IndexInv'
<1>1. /\ "cron" \in Walkers /\ byClaim \in Seq(Jobs) /\ byTx \in Seq(Rows) /\ Keyed(byTx)
  BY PruneStarts
<1>2. /\ walker["cron"].at = "delete" /\ NoFault /\ prune' = NoPrune
      /\ UNCHANGED <<job, claim, landed, scores, aged, tape, delivery, byClaim, byTx>>
      /\ walker' = [walker EXCEPT !["cron"] = NoWalk]
  BY DEF EndPrune, InPrune, CronEnds, chain, tables
<1>3. NoPrune \in [runs : 0 .. (PruneEvery - 1), rows : SUBSET Rows] /\ NoPrune.rows = {}
  BY ReplayAssumption DEF NoPrune
<1>4. OneRow'
  BY <1>1, <1>2 DEF OneRow, Keyed
<1>5. QED
  BY <1>1, <1>2, <1>3, <1>4, NoWalkFits, PruneKeeps DEF PruneStages

LEMMA WalkerDiesKeeps ==
  ASSUME IndexInv, NEW w \in Walkers, WalkerDies(w)
  PROVE  IndexInv'
<1>1. Walkers = {"cron", "page"} /\ "page" # "cron"
  BY DEF Walkers
<1>2. /\ walker[w].at # "idle" /\ Fault /\ Set(w, NoWalk) /\ InWalk(w) /\ UNCHANGED byTx
      /\ prune' = IF w = "cron" THEN [prune EXCEPT !.rows = {}] ELSE prune
  BY DEF WalkerDies
<1>3. CASE w = "page"
  <2>1. faults' \in 0 .. MaxFaults
    BY <1>2, RunFits, FaultType
  <2>2. QED
    BY <1>1, <1>2, <1>3, <2>1, NoWalkFits, WalkerGoesOn
<1>4. CASE w = "cron"
  <2>1. /\ byClaim \in Seq(Jobs) /\ byTx \in Seq(Rows) /\ Keyed(byTx)
        /\ prune \in [runs : 0 .. (PruneEvery - 1), rows : SUBSET Rows]
    BY PruneStarts
  <2>2. prune' \in [runs : 0 .. (PruneEvery - 1), rows : SUBSET Rows] /\ prune'.rows = {}
    BY <1>2, <1>4, <2>1
  <2>3. /\ UNCHANGED <<job, claim, landed, scores, aged, tape, delivery, byClaim>>
        /\ walker' = [walker EXCEPT !["cron"] = NoWalk]
    BY <1>2, <1>4 DEF InWalk, Set, chain
  <2>4. OneRow'
    BY <1>2, <2>1 DEF OneRow, Keyed
  <2>5. QED
    BY <1>2, <1>4, <2>1, <2>2, <2>3, <2>4, NoWalkFits, PruneKeeps DEF PruneStages
<1>5. QED
  BY <1>1, <1>3, <1>4

(***************************************************************************)
(* The invariant, and what follows from it.                                *)
(***************************************************************************)
LEMMA IndexInvInit == IndexInit => IndexInv
<1> SUFFICES ASSUME IndexInit PROVE IndexInv
  OBVIOUS
<1>1. <<>> \in Seq(Jobs) /\ <<>> \in Seq(Rows) /\ <<>> \in Seq({}) /\ Range(<<>>) = {}
      /\ DOMAIN <<>> = {}
  BY DEF Range
<1>2. /\ 0 \in 0 .. (MaxAttempts - 1) /\ 0 \in 0 .. (PruneEvery - 1) /\ 0 \in 0 .. MaxFaults
  BY ReplayAssumption
<1>3. \A w \in Walkers : walker[w] = NoWalk
  BY DEF IndexInit
<1>4. IndexTypeOK
  BY <1>1, <1>2, <1>3, NoWalkFits
     DEF IndexInit, IndexTypeOK, NoPrune, NoDelivery, Open, Claims
<1>5. ClaimsFit
  BY <1>1 DEF IndexInit, ClaimsFit, JobFits, AnswerFits, Waiting, NoDelivery, Open
<1>6. RowsFit
  BY <1>1 DEF IndexInit, RowsFit, OneRow, NoPrune
<1>7. \A w \in Walkers : WalkFits(walker[w])
  BY <1>3, NoWalkFits
<1>8. TapesFit
  BY DEF IndexInit, TapesFit
<1>9. "cron" \in Walkers /\ "page" \in Walkers
  BY DEF Walkers
<1>10. PageFits
  BY <1>3, <1>9, NoWalkFits DEF PageFits
<1>11. PruneFits
  BY <1>3, <1>9, NoWalkFits DEF PruneFits, IndexInit, NoPrune
<1>12. QED
  BY <1>4, <1>5, <1>6, <1>7, <1>8, <1>10, <1>11 DEF IndexInv

LEMMA IndexInvStep == IndexInv /\ [IndexNext]_indexVars => IndexInv'
<1> SUFFICES ASSUME IndexInv, [IndexNext]_indexVars PROVE IndexInv'
  OBVIOUS
<1>1. CASE UNCHANGED indexVars
  <2>1. UNCHANGED <<job, claim, landed, scores, aged, tape, byClaim, byTx, delivery, walker,
                    prune, faults>>
    BY <1>1 DEF indexVars, chain, tables
  <2>2. /\ IndexTypeOK /\ ClaimsFit /\ RowsFit /\ TapesFit /\ PageFits /\ PruneFits
        /\ \A w \in Walkers : WalkFits(walker[w])
    BY DEF IndexInv
  <2>3. IndexTypeOK' /\ ClaimsFit'
    BY <2>1, <2>2 DEF IndexTypeOK, ClaimsFit, JobFits, AnswerFits, Waiting
  <2>4. RowsFit'
    BY <2>1, <2>2 DEF RowsFit, OneRow, Sound, Lost
  <2>5. \A w \in Walkers : WalkFits(walker[w])'
    <3> SUFFICES ASSUME NEW w \in Walkers PROVE WalkFits(walker[w])'
      OBVIOUS
    <3>1. PICK me \in Walks : me = walker[w]
      BY <2>2 DEF IndexTypeOK
    <3>2. Onwards /\ landed \subseteq Jobs
      BY <2>1, <2>2 DEF Onwards, Lost, IndexTypeOK
    <3>3. WalkFits(me)'
      BY <2>2, <3>1, <3>2, WalkStays
    <3>4. QED
      BY <2>1, <3>1, <3>3
  <2>6. TapesFit' /\ PageFits' /\ PruneFits'
    BY <2>1, <2>2 DEF TapesFit, PageFits, PruneFits, Alike, Work
  <2>7. QED
    BY <2>3, <2>4, <2>5, <2>6 DEF IndexInv
<1>2. ASSUME NEW w \in Walkers, WalkStep(w) PROVE IndexInv'
  BY <1>2, GetEntriesKeeps, TryKeeps, WriteKeeps, EndStageKeeps, ListKeeps, WalkerDiesKeeps
     DEF WalkStep
<1>3. CASE CronStep
  <2>1. "cron" \in Walkers
    BY DEF Walkers
  <2>2. QED
    BY <1>2, <1>3, <2>1, BeginningsKeep, EndPassKeeps, AfterBackfillKeeps, PruneReadsKeep,
       DeleteMappingKeeps, DeleteEntryKeeps, EndPruneKeeps DEF CronStep
<1>4. CASE PageStep
  <2>1. "page" \in Walkers
    BY DEF Walkers
  <2>2. QED
    BY <1>2, <1>4, <2>1, BeginningsKeep, EndPageKeeps DEF PageStep
<1>5. CASE ClaimStep \/ TimeStep
  <2>1. PICK j \in Jobs : ClaimSide(j)
    BY <1>5 DEF ClaimStep, TimeStep, ClaimSide
  <2>2. QED
    BY <2>1, ClaimSideKeeps
<1>6. QED
  BY <1>1, <1>3, <1>4, <1>5 DEF IndexNext

LEMMA IndexInvariant == IndexSpec => []IndexInv
BY IndexInvInit, IndexInvStep, PTL DEF IndexSpec

\* The tables, the runs, the prune and the messages keep their types: every stage of a run has
\* the sets it needs, and every row names a transaction and a job.
THEOREM IndexTypeCorrect == IndexSpec => []IndexTypeOK
<1>1. IndexInv => IndexTypeOK
  BY DEF IndexInv
<1>2. QED
  BY <1>1, IndexInvariant, PTL

\* No score shows the tape of another game, whatever jobs, page sizes, limits and failures; and
\* where the jobs are listed in one page, none is guessed when the coordinator knows its own.
THEOREM ScoresShowTheirGame == IndexSpec => []ShowsItsOwnGame
<1>1. IndexInv => ShowsItsOwnGame
  <2> SUFFICES ASSUME IndexInv, NEW r \in Range(byTx)
               PROVE  /\ Game[r.job] = Game[r.tx]
                      /\ LastJob <= PageSize =>
                           r.job = r.tx \/ job[r.tx] = "pruned" \/ claim[r.tx].tx # r.tx
    BY DEF ShowsItsOwnGame
  <2>1. Sound(r)
    BY DEF IndexInv, RowsFit
  <2>2. QED
    BY <2>1 DEF Sound, Lost
<1>2. QED
  BY <1>1, IndexInvariant, PTL

\* A score whose tape is shown and there stays mapped, whatever the prune has read in the meantime
\* and whoever writes in between.
THEOREM LiveTapesStayMapped == IndexSpec => LiveTapeStaysMapped
<1>1. IndexInv /\ [IndexNext]_indexVars
        => [\A e \in Jobs : Shown(e) /\ e \in tape => Mapped(e)']_indexVars
  <2> SUFFICES ASSUME IndexInv, IndexNext, NEW e \in Jobs, Shown(e), e \in tape
               PROVE  Mapped(e)'
    OBVIOUS
  <2>1. /\ IndexTypeOK /\ ClaimsFit /\ OneRow /\ TapesFit /\ PruneFits
        /\ (\A r \in prune.rows : Sound(r)) /\ \A w \in Walkers : WalkFits(walker[w])
    BY DEF IndexInv, RowsFit
  <2>2. PICK x \in Range(byTx) : x.tx = e /\ x.job \in tape
    BY DEF Shown, MappedTo
  <2>3. byTx \in Seq(Rows) /\ Keyed(byTx)
    BY <2>1 DEF IndexTypeOK, OneRow, Keyed
  <2>4. SUFFICES \E y \in Range(byTx') : y.tx = e
    <3>1. PICK y \in Range(byTx') : y.tx = e
      BY <2>4
    <3>2. y.job \in MappedTo(e)'
      BY <3>1 DEF MappedTo
    <3>3. QED
      BY <3>2 DEF Mapped
  <2>5. CASE byTx' = byTx
    BY <2>2, <2>5
  \* A mapping that is written is of another transaction, or of this one.
  <2>6. ASSUME NEW f \in Jobs, NEW j \in Jobs, WriteProofTapeMapping(f, j)
        PROVE  \E y \in Range(byTx') : y.tx = e
    <3>1. Range(byTx') = {r \in Range(byTx) : r.tx # f} \cup {Row(f, j)}
      BY <2>3, <2>6, WrittenRow DEF WriteProofTapeMapping
    <3>2. Row(f, j).tx = f
      BY DEF Row
    <3>3. QED
      BY <2>2, <3>1, <3>2
  \* A mapping that is deleted was read with a tape that is gone: e has another one, or the row
  \* would be the one of e, and its tape gone.
  <2>7. CASE DeleteMapping
    <3>1. PICK r \in prune.rows : DeleteProofTapeMapping(r.tx) \/ byTx' = byTx
      BY <2>7 DEF DeleteMapping
    <3>2. walker["cron"].at = "delete" /\ r.job \notin tape
      BY <2>1, <2>7 DEF DeleteMapping, PruneFits
    <3>3. r \in Rows /\ r.tx \in Jobs /\ r.job \in Jobs /\ Sound(r)
      BY <2>1 DEF IndexTypeOK, Rows
    <3>4. r.tx # e
      <4> SUFFICES ASSUME r.tx = e PROVE FALSE
        OBVIOUS
      <4>1. r.job # e
        BY <3>2
      <4>2. \A i \in Alike(e) : i \in walker["cron"].forgotten
        <5>1. job[r.job] # "new" /\ Game[r.job] = Game[e]
          BY <3>3 DEF Sound
        <5>2. Alike(r.job) = Alike(e)
          BY <5>1 DEF Alike
        <5>3. "cron" \in Walkers
          BY DEF Walkers
        <5>4. QED
          BY <2>1, <3>2, <3>3, <5>1, <5>2, <5>3 DEF TapesFit
      <4>3. r \in Range(byTx)
        BY <2>1, <3>2, <4>1, <4>2 DEF PruneFits
      <4>4. r = x
        BY <2>1, <2>2, <4>3 DEF OneRow, Range
      <4>5. QED
        BY <2>2, <3>2, <4>4
    <3>5. CASE DeleteProofTapeMapping(r.tx)
      <4>1. Range(byTx') = {y \in Range(byTx) : y.tx # r.tx}
        BY <2>3, <3>3, <3>5, DroppedRow DEF DeleteProofTapeMapping
      <4>2. QED
        BY <2>2, <3>4, <4>1
    <3>6. QED
      BY <2>5, <3>1, <3>5
  <2>8. ASSUME NEW w \in Walkers, WalkStep(w) PROVE \E y \in Range(byTx') : y.tx = e
    <3>1. CASE Write(w)
      <4>1. walker[w].writes \in Seq(Rows) /\ walker[w].writes # <<>>
        BY <2>1, <3>1 DEF Write, IndexTypeOK, Walks
      <4>2. Head(walker[w].writes) \in Rows
        BY <4>1
      <4>3. QED
        BY <2>5, <2>6, <3>1, <4>2 DEF Write, Rows
    <3>2. CASE ~Write(w)
      BY <2>5, <2>8, <3>2 DEF WalkStep, GetEntries, Try, EndStage, ListJobsForClaimant, WalkerDies
    <3>3. QED
      BY <3>1, <3>2
  <2>9. CASE CronStep
    <3>1. "cron" \in Walkers
      BY DEF Walkers
    <3>2. CASE ~WalkStep("cron") /\ ~DeleteMapping
      BY <2>5, <2>9, <3>2 DEF CronStep, CronBegins, EndPass, AfterBackfill, GetMapped, GetClaims,
         HeadTapes, DeleteEntry, EndPrune, tables
    <3>3. QED
      BY <2>7, <2>8, <3>1, <3>2
  <2>10. CASE PageStep
    <3>1. "page" \in Walkers
      BY DEF Walkers
    <3>2. CASE ~WalkStep("page")
      BY <2>5, <2>10, <3>2 DEF PageStep, PageBegins, EndPage
    <3>3. QED
      BY <2>8, <3>1, <3>2
  <2>11. CASE ClaimStep \/ TimeStep
    <3>1. PICK j \in Jobs : ClaimSide(j)
      BY <2>11 DEF ClaimStep, TimeStep, ClaimSide
    <3>2. CASE PersistMapping(j)
      BY <2>6, <3>2 DEF PersistMapping
    <3>3. CASE ~PersistMapping(j)
      BY <2>5, <3>1, <3>3 DEF ClaimSide, CreateJob, Relay, MarkClaimSucceeded, MarkWithoutHash,
         Redeliver, PersistFails, HandlerDies, PersistEntry, Ingest, PruneJob, EventAges,
         TapeExpires, tables
    <3>4. QED
      BY <3>2, <3>3
  <2>12. QED
    BY <2>9, <2>10, <2>11 DEF IndexNext
<1>2. QED
  BY <1>1, IndexInvariant, PTL DEF IndexSpec, LiveTapeStaysMapped
=============================================================================
