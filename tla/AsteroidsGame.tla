--------------------------- MODULE AsteroidsGame ---------------------------
(***************************************************************************)
(* The game in the browser, and the verifier's judgement of its recording. *)
(*                                                                         *)
(* An animation frame runs up to MaxSubsteps steps of the simulation; each *)
(* reads the input, records it on the tape, and goes through the phases of *)
(* updateSimulation() in their order.  Between two animation frames the    *)
(* player, the page's visibility, the seed and a replay may change the     *)
(* mode.  The verifier replays the tape step by step, and refuses it when  *)
(* one step breaks a rule.                                                 *)
(*                                                                         *)
(* Positions, angles, speeds and random numbers are left out: what hits    *)
(* what, and when a saucer comes, leaves or fires, is left open.           *)
(***************************************************************************)
EXTENDS Naturals, FiniteSets, Sequences

CONSTANTS
  StartingLives,
  ExtraLifeStep,    \* EXTRA_LIFE_SCORE_STEP
  Points,           \* what each size of asteroid and kind of saucer scores
  RespawnFrames,    \* SHIP_RESPAWN_FRAMES
  NeverFrames,      \* the timer of a ship that does not come back
  SafeFrames,       \* SHIP_SPAWN_INVULNERABLE_FRAMES
  CooldownFrames,   \* SHIP_BULLET_COOLDOWN_FRAMES
  BulletLife,       \* SHIP_BULLET_LIFETIME_FRAMES, SAUCER_BULLET_LIFETIME_FRAMES
  BulletLimit,      \* SHIP_BULLET_LIMIT
  ShotLimit,        \* SAUCER_BULLET_LIMIT
  AsteroidCap,      \* ASTEROID_CAP
  WaveAsteroids,    \* how many asteroids each wave has; the last number is for all later waves
  WaveSaucers,      \* how many saucers there may be in each wave, likewise
  MaxFrames,        \* MAX_GAME_FRAMES, MAX_FRAMES_DEFAULT
  MaxSubsteps       \* MAX_SUBSTEPS

Sizes == {"large", "medium", "small"}
Kinds == {"large saucer", "small saucer"}

ASSUME GameAssumption ==
  /\ {StartingLives, ExtraLifeStep, RespawnFrames, SafeFrames, CooldownFrames, BulletLife,
      BulletLimit, ShotLimit, AsteroidCap, MaxFrames, MaxSubsteps} \subseteq Nat \ {0}
  /\ NeverFrames \in Nat /\ NeverFrames > MaxFrames /\ NeverFrames >= RespawnFrames
  /\ Points \in [Sizes \cup Kinds -> Nat \ {0}]
  /\ \A s \in Sizes \cup Kinds : Points[s] < ExtraLifeStep
  /\ WaveAsteroids \in Seq(1 .. AsteroidCap) /\ WaveSaucers \in Seq(Nat)
  /\ Len(WaveAsteroids) > 0 /\ Len(WaveSaucers) > 0

VARIABLES
  mode,     \* GameMode
  hidden,   \* pauseFromHidden
  offered,  \* is there a seed to play? (pendingSeed)
  waiting,  \* waitingForSeed
  pending,  \* replayPending
  shown,    \* the tape that is shown: <<how many of its frames are left>>, or <<>>
  steps,    \* how many steps the animation frame still runs
  phase,    \* which collisions the step looks for, 0 between two steps
  game,     \* the game
  before,   \* what the verifier keeps of the game when the step began, and its input
  frames,   \* frameCount
  tape,     \* how many inputs the recorder holds
  refused   \* the rules for which the verifier refuses the tape

gameVars == <<mode, hidden, offered, waiting, pending, shown, steps, phase, game, before, frames,
          tape, refused>>
setting == <<hidden, offered, waiting, pending>>
recording == <<frames, tape, refused>>

\* How many there are, of things that are counted by what they are.
Each(count) == UNION {{x} \X (1 .. count[x]) : x \in DOMAIN count}
Total(count) == Cardinality(Each(count))
Smaller(a, b) == IF a <= b THEN a ELSE b
Less(a, b) == IF a >= b THEN a - b ELSE 0
NoneOf(S) == [x \in S |-> 0]
OfWave(counts, wave) == counts[Smaller(wave, Len(counts))]

\* Bullets are counted by the frames they have left.
GameRecord ==
  [score : Nat, lives : Nat, wave : Nat, next : Nat, over : BOOLEAN,
   control : BOOLEAN, respawn : Nat, safe : 0 .. SafeFrames, cooldown : 0 .. CooldownFrames,
   latch : BOOLEAN,
   asteroids : [Sizes -> 0 .. AsteroidCap], saucers : [Kinds -> Nat],
   bullets : [1 .. BulletLife -> 0 .. BulletLimit], shots : [1 .. BulletLife -> 0 .. ShotLimit]]

\* A new ship, and no wave yet.
FreshGame ==
  [score |-> 0, lives |-> StartingLives, wave |-> 0, next |-> ExtraLifeStep, over |-> FALSE,
   control |-> TRUE, respawn |-> 0, safe |-> SafeFrames, cooldown |-> 0, latch |-> FALSE,
   asteroids |-> NoneOf(Sizes), saucers |-> NoneOf(Kinds),
   bullets |-> NoneOf(1 .. BulletLife), shots |-> NoneOf(1 .. BulletLife)]

\* TransitionState and the step's input
Snapshot(g, fire) ==
  [score |-> g.score, wave |-> g.wave, control |-> g.control, cooldown |-> g.cooldown,
   latch |-> g.latch, bullets |-> Total(g.bullets), fire |-> fire]
Between == Snapshot(FreshGame, FALSE)
-----------------------------------------------------------------------------
(* The rules of the game. *)

RespawnShip(g) == [g EXCEPT !.control = TRUE, !.safe = SafeFrames]

\* queueShipRespawn()
QueueRespawn(g, delay) ==
  [g EXCEPT !.control = FALSE, !.respawn = delay, !.cooldown = 0, !.safe = 0, !.latch = FALSE]

SpawnWave(g) ==
  RespawnShip(QueueRespawn([g EXCEPT !.wave = @ + 1,
                                     !.asteroids["large"] =
                                       @ + OfWave(WaveAsteroids, g.wave + 1)], 0))

AddScore(g, points) ==
  LET score == g.score + points
      extra == IF score >= g.next THEN 1 ELSE 0
  IN [g EXCEPT !.score = score, !.lives = @ + extra, !.next = @ + extra * ExtraLifeStep]

DestroyAsteroid(g, size, award) ==
  LET gone  == [g.asteroids EXCEPT ![size] = @ - 1]
      child == IF size = "large" THEN "medium" ELSE "small"
      split == Smaller(2, Less(AsteroidCap, Total(gone)))
      rest  == IF size = "small" THEN gone ELSE [gone EXCEPT ![child] = @ + split]
  IN [(IF award THEN AddScore(g, Points[size]) ELSE g) EXCEPT !.asteroids = rest]

DestroyShip(g) ==
  LET lost == QueueRespawn([g EXCEPT !.lives = Less(@, 1)], RespawnFrames)
  IN IF lost.lives > 0 THEN lost ELSE [lost EXCEPT !.over = TRUE, !.respawn = NeverFrames]

\* A ship fires when the key was not down in the step before.
Fires(g, fire) == fire /\ ~g.latch /\ g.cooldown <= 1 /\ Total(g.bullets) < BulletLimit

\* Mutant: a key that is held down goes on firing.
UpdateShipWithoutLatch(g, fire) ==
  LET cooled == [g EXCEPT !.cooldown = Less(@, 1), !.latch = fire]
      timed  == [cooled EXCEPT !.respawn = Less(@, 1)]
      flies  == [cooled EXCEPT !.safe = Less(@, 1)]
  IN IF ~g.control THEN IF timed.respawn = 0 THEN RespawnShip(timed) ELSE timed
     ELSE IF fire /\ g.cooldown <= 1 /\ Total(g.bullets) < BulletLimit
            THEN [flies EXCEPT !.bullets[BulletLife] = @ + 1, !.cooldown = CooldownFrames]
     ELSE flies

UpdateShip(g, fire) ==
  LET cooled == [g EXCEPT !.cooldown = Less(@, 1), !.latch = fire]
      timed  == [cooled EXCEPT !.respawn = Less(@, 1)]
      flies  == [cooled EXCEPT !.safe = Less(@, 1)]
  IN IF ~g.control THEN IF timed.respawn = 0 THEN RespawnShip(timed) ELSE timed
     ELSE IF Fires(g, fire)
            THEN [flies EXCEPT !.bullets[BulletLife] = @ + 1, !.cooldown = CooldownFrames]
     ELSE flies

\* A frame later: a bullet with one frame left is gone.
Aged(bullets) == [n \in DOMAIN bullets |-> IF n = BulletLife THEN 0 ELSE bullets[n + 1]]

\* updateSaucers(): a saucer may come, any may leave, and the others may fire.
SaucersMove(g) ==
  LET kinds == IF Total(g.saucers) < OfWave(WaveSaucers, g.wave) THEN Kinds ELSE {}
      came  == {g.saucers} \cup {[g.saucers EXCEPT ![k] = @ + 1] : k \in kinds}
      stay  == {s \in [Kinds -> 0 .. Total(g.saucers) + 1] :
                  \E c \in came : \A k \in Kinds : s[k] <= c[k]}
      shots == 0 .. Less(ShotLimit, Total(g.shots))
  IN UNION {{[g EXCEPT !.saucers = s, !.shots[BulletLife] = @ + n] :
               n \in {m \in shots : m <= Total(s)}} : s \in stay}

\* One collision of a kind: the games after it.
With(count) == {x \in DOMAIN count : count[x] > 0}
AsteroidShot(g) ==
  UNION {{DestroyAsteroid([g EXCEPT !.bullets[n] = @ - 1], s, TRUE) : s \in With(g.asteroids)} :
           n \in With(g.bullets)}
AsteroidHit(g) ==
  UNION {{DestroyAsteroid([g EXCEPT !.shots[n] = @ - 1], s, FALSE) : s \in With(g.asteroids)} :
           n \in With(g.shots)}
SaucerShot(g) ==
  UNION {{AddScore([g EXCEPT !.bullets[n] = @ - 1, !.saucers[k] = @ - 1], Points[k]) :
            k \in With(g.saucers)} : n \in With(g.bullets)}
SaucerCrash(g) ==
  IF Total(g.asteroids) = 0 THEN {}
  ELSE {[g EXCEPT !.saucers[k] = @ - 1] : k \in With(g.saucers)}
ShipHit(g) ==
  IF ~g.control \/ g.safe > 0 THEN {}
  ELSE {DestroyShip(h) :
          h \in (IF Total(g.asteroids) = 0 THEN {} ELSE {g})
                \cup {[g EXCEPT !.shots[n] = @ - 1] : n \in With(g.shots)}
                \cup {[g EXCEPT !.saucers[k] = @ - 1] : k \in With(g.saucers)}}

\* handleCollisions() looks for one kind of collision after the other.
Kind(p, g) ==
  CASE p = 1 -> AsteroidShot(g)
    [] p = 2 -> AsteroidHit(g)
    [] p = 3 -> SaucerShot(g)
    [] p = 4 -> SaucerCrash(g)
    [] p = 5 -> ShipHit(g)
-----------------------------------------------------------------------------
(* The rules of the verifier. *)

\* What up to BulletLimit hits may score in one frame.
LegalScoreDeltas ==
  {Total(f) : f \in [1 .. BulletLimit -> {0} \cup {Points[x] : x \in Sizes \cup Kinds}]}

\* prev is the snapshot before the step, g the game after it.
Died(prev, g) == prev.control /\ ~g.control /\ g.respawn >= RespawnFrames

ExpectedCooldown(prev, g) ==
  LET decremented == Less(prev.cooldown, 1)
  IN IF g.wave = prev.wave + 1 \/ Died(prev, g) THEN 0
     ELSE IF ~prev.control THEN IF g.control THEN 0 ELSE decremented
     ELSE IF prev.fire /\ ~prev.latch /\ decremented = 0 /\ prev.bullets < BulletLimit
            THEN CooldownFrames
     ELSE decremented

ExpectedLatch(prev, g) == prev.fire /\ g.wave # prev.wave + 1 /\ ~Died(prev, g)

StepRules == {"ProgressionScoreDelta", "ProgressionWaveAdvance", "PlayerBulletCooldownBypass"}
GameRules == {"GlobalWaveNonZero", "GlobalModeLivesConsistency", "GlobalNextExtraLifeScore",
              "PlayerBulletLimit", "SaucerBulletLimit", "SaucerCap"}

\* What validate_transition() finds broken by a step.
BrokenByTheStep(prev, g) ==
  {rule \in StepRules :
     \/ rule = "ProgressionScoreDelta" /\ g.score - prev.score \notin LegalScoreDeltas
     \/ /\ rule = "ProgressionWaveAdvance"
        /\ IF g.wave = prev.wave + 1
             THEN \/ Total(g.asteroids) # OfWave(WaveAsteroids, g.wave)
                  \/ Total(g.saucers) # 0
             ELSE g.wave # prev.wave
     \/ /\ rule = "PlayerBulletCooldownBypass"
        /\ g.cooldown # ExpectedCooldown(prev, g) \/ g.latch # ExpectedLatch(prev, g)}

\* What validate_invariants() finds broken in a game.
BrokenInTheGame(g) ==
  {rule \in GameRules :
     \/ rule = "GlobalWaveNonZero" /\ g.wave < 1
     \/ rule = "GlobalModeLivesConsistency" /\ g.over # (g.lives = 0)
     \/ /\ rule = "GlobalNextExtraLifeScore"
        /\ g.next <= g.score \/ g.next < ExtraLifeStep
     \/ rule = "PlayerBulletLimit" /\ Total(g.bullets) > BulletLimit
     \/ rule = "SaucerBulletLimit" /\ Total(g.shots) > ShotLimit
     \/ rule = "SaucerCap" /\ Total(g.saucers) > OfWave(WaveSaucers, g.wave)}

\* parse_tape(): a length the verifier takes.
LengthFits(n) == n \in 1 .. MaxFrames

\* verify_tape_with_replay()
Accepted == LengthFits(tape) /\ refused = {}
-----------------------------------------------------------------------------
(* The player and the page, between two animation frames. *)

Idle == steps = 0 /\ phase = 0

\* canStartLiveRun()
CanStart == ~pending /\ shown = <<>>

\* startNewGame() with a seed: a live run, or the tape that is shown.
NewGame(film) ==
  /\ mode' = (IF film = <<>> THEN "playing" ELSE "replay")
  /\ waiting' = FALSE /\ pending' = FALSE /\ shown' = film
  /\ game' = SpawnWave(FreshGame)
  /\ frames' = 0 /\ tape' = 0 /\ refused' = {}

\* startNewGame(): without a seed, the player waits for one in the menu.
StartNewGame ==
  IF offered THEN NewGame(<<>>)
  ELSE /\ mode' = "menu" /\ waiting' = TRUE
       /\ UNCHANGED <<pending, shown, game, recording>>

\* Enter or a tap in the menu and after a game, R at any other time.
PlayerStarts ==
  /\ Idle /\ CanStart
  /\ StartNewGame
  /\ UNCHANGED <<hidden, offered, steps, phase, before>>

\* setCurrentSeed(): the page has got a seed, or has none.
SetCurrentSeed(seed) ==
  /\ Idle /\ seed # offered
  /\ offered' = seed
  /\ IF seed /\ waiting THEN NewGame(<<>>)
     ELSE UNCHANGED <<mode, waiting, pending, shown, game, recording>>
  /\ UNCHANGED <<hidden, steps, phase, before>>

\* P pauses, and the page when it is hidden.
Pause(byHiding) ==
  /\ Idle /\ mode = "playing"
  /\ mode' = "paused" /\ hidden' = byHiding
  /\ UNCHANGED <<offered, waiting, pending, shown, steps, phase, game, before, recording>>

\* P and a tap go on, Enter and the page that is shown again go on and forget it was hidden.
Resume(byPorTap) ==
  /\ Idle /\ mode = "paused"
  /\ byPorTap => ~hidden
  /\ mode' = "playing" /\ hidden' = FALSE
  /\ UNCHANGED <<offered, waiting, pending, shown, steps, phase, game, before, recording>>

\* setReplayPending()
SetReplayPending ==
  /\ Idle
  /\ pending' = ~pending
  /\ UNCHANGED <<hidden, offered, waiting, mode, shown, steps, phase, game, before, recording>>

\* deserializeTape(): a tape that can be shown. The game puts no limit to its length, the bound
\* is ours.
Films == {<<n>> : n \in 1 .. MaxFrames}

\* loadReplay(), restartReplay()
LoadReplay(film) ==
  /\ Idle
  /\ NewGame(film)
  /\ UNCHANGED <<hidden, offered, steps, phase, before>>

\* Escape, and exitReplay(): the score and the recording stay.
ResetToMenu ==
  /\ Idle /\ (mode # "menu" \/ pending \/ shown # <<>>)
  /\ mode' = "menu" /\ waiting' = FALSE /\ pending' = FALSE /\ shown' = <<>>
  /\ game' = [FreshGame EXCEPT !.score = game.score, !.lives = game.lives, !.wave = game.wave,
                               !.next = game.next, !.over = game.over]
  /\ UNCHANGED <<hidden, offered, steps, phase, before, recording>>
-----------------------------------------------------------------------------
(* The steps of an animation frame. *)

\* replayTapeSource.isComplete()
Complete == shown = <<0>>
Live == shown = <<>>

\* updateFrame(): the time that has passed is worth n steps.
AnimationFrame(n) ==
  /\ Idle /\ mode \in {"playing", "replay"} /\ ~Complete
  /\ steps' = n
  /\ UNCHANGED <<setting, mode, shown, phase, game, before, recording>>

\* Mutant: the cap is looked at before the frame is counted.
LastFrameLate == frames > MaxFrames

\* The frame that is one too many ends the run.
LastFrame == frames >= MaxFrames
FrameCap ==
  /\ steps > 0 /\ phase = 0
  /\ LastFrame /\ mode # "replay"
  /\ mode' = "game-over"
  /\ game' = [game EXCEPT !.control = FALSE, !.respawn = NeverFrames]
  /\ frames' = frames + 1 /\ steps' = steps - 1
  /\ UNCHANGED <<setting, shown, phase, before, tape, refused>>

\* updateSimulation() as far as the collisions: the input is read and recorded, all moves.
Step(fire) ==
  /\ steps > 0 /\ phase = 0
  /\ ~(LastFrame /\ mode # "replay")
  /\ ~Complete
  /\ LET ship == UpdateShip(game, fire)
     IN \E g \in SaucersMove([ship EXCEPT !.bullets = Aged(@)]) :
          game' = [g EXCEPT !.shots = Aged(@)]
  /\ before' = Snapshot(game, fire)
  /\ frames' = frames + 1 /\ tape' = (IF Live THEN tape + 1 ELSE tape)
  /\ phase' = 1
  /\ UNCHANGED <<setting, mode, shown, steps, refused>>

\* Something hits something; the game is over when the last ship is lost.
Collide(p) ==
  /\ phase \in 1 .. p
  /\ game' \in Kind(p, game)
  /\ mode' = IF p = 5 /\ game'.over /\ mode # "replay" THEN "game-over" ELSE mode
  /\ phase' = p
  /\ UNCHANGED <<setting, shown, steps, before, recording>>

\* The rest of updateSimulation(), and the verifier's judgement of the step.
EndStep ==
  /\ phase > 0
  /\ LET clear == Total(game.asteroids) = 0 /\ Total(game.saucers) = 0
         goes  == mode = "playing" \/ (mode = "replay" /\ game.lives > 0)
         g     == IF clear /\ goes THEN SpawnWave(game) ELSE game
     IN /\ game' = g
        /\ refused' = IF Live THEN refused \cup BrokenByTheStep(before, g) \cup BrokenInTheGame(g)
                      ELSE refused
  /\ shown' = (IF Live THEN shown ELSE <<shown[1] - 1>>)
  /\ phase' = 0 /\ steps' = steps - 1 /\ before' = Between
  /\ UNCHANGED <<setting, mode, frames, tape>>

\* The tape that is shown has ended.
ReplayEnds ==
  /\ phase = 0 /\ mode = "replay" /\ Complete
  /\ mode' = "game-over" /\ steps' = 0
  /\ UNCHANGED <<setting, shown, phase, game, before, recording>>

GameInit ==
  /\ mode = "menu" /\ pending = FALSE /\ shown = <<>> /\ steps = 0 /\ phase = 0
  /\ hidden = FALSE /\ waiting = FALSE /\ offered \in BOOLEAN
  /\ game = FreshGame /\ before = Between
  /\ frames = 0 /\ tape = 0 /\ refused = {}

GameNext ==
  \/ PlayerStarts \/ SetReplayPending \/ ResetToMenu
  \/ \E b \in BOOLEAN : SetCurrentSeed(b) \/ Pause(b) \/ Resume(b)
  \/ \E film \in Films : LoadReplay(film)
  \/ \E n \in 1 .. MaxSubsteps : AnimationFrame(n)
  \/ FrameCap \/ ReplayEnds \/ EndStep
  \/ \E b \in BOOLEAN : Step(b)
  \/ \E p \in 1 .. 5 : Collide(p)

GameSpec == GameInit /\ [][GameNext]_gameVars
-----------------------------------------------------------------------------
\* The caps hold whatever hits whatever: no more asteroids, bullets and shots than there is
\* room for.
GameTypeOK ==
  /\ mode \in {"menu", "playing", "paused", "game-over", "replay"}
  /\ {hidden, offered, waiting, pending} \subseteq BOOLEAN
  /\ shown = <<>> \/ \E n \in 0 .. MaxFrames : shown = <<n>>
  /\ steps \in 0 .. MaxSubsteps /\ phase \in 0 .. 5
  /\ game \in GameRecord /\ Total(game.asteroids) <= AsteroidCap
  /\ before \in [score : Nat, wave : Nat, control : BOOLEAN, cooldown : 0 .. CooldownFrames,
                 latch : BOOLEAN, bullets : 0 .. BulletLimit, fire : BOOLEAN]
  /\ frames \in 0 .. (MaxFrames + MaxSubsteps) /\ tape \in 0 .. MaxFrames

\* The verifier accepts what the game records, but for one case: the game is over, a bullet
\* that was in flight scores in a step the same animation frame still runs, and that brings a
\* life to a game that is over.
RefusedOnlyForALateLife ==
  mode = "game-over" /\ Live /\ ~Accepted =>
    /\ refused = {"GlobalModeLivesConsistency"}
    /\ game.over /\ game.lives > 0

\* The tape holds the input of every frame the game has run, up to the cap.
TapeHoldsTheRun == Live /\ mode # "menu" => tape = Smaller(frames, MaxFrames)

\* The verifier accepts every game that is over: by its own invariants such a game has no life
\* left.
RunIsAccepted == mode = "game-over" /\ Live /\ Idle => Accepted
=============================================================================
