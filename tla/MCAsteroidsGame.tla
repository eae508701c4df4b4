---------------------------- MODULE MCAsteroidsGame ----------------------------
EXTENDS AsteroidsGame, TLC

MCWaveAsteroids == <<1, 2>>
MCWaveSaucers == <<1>>
MCPoints == [large |-> 1, medium |-> 1, small |-> 2] @@
            ("large saucer" :> 2 @@ "small saucer" :> 2)
================================================================================
