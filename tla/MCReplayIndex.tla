--------------------------- MODULE MCReplayIndex ---------------------------
(* Small instances of ReplayIndex for TLC. *)
EXTENDS ReplayIndex, TLC

\* Two jobs of one game, and one of another player with the same score.
MCGame == <<[claimant |-> "p", score |-> 1], [claimant |-> "p", score |-> 1],
            [claimant |-> "q", score |-> 1]>>
=============================================================================
