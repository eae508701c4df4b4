------------------------ MODULE MCProofCoordinator ------------------------
(***************************************************************************)
(* Small instances of ProofCoordinator for TLC: one job, two jobs that     *)
(* compete for a replay, or two jobs with a replay each.                   *)
(***************************************************************************)
EXTENDS ProofCoordinator, TLC

CONSTANTS j1, j2, r1, r2

OneJob == j1 :> r1
SameReplay == j1 :> r1 @@ j2 :> r1
OwnReplays == j1 :> r1 @@ j2 :> r2

SymmetricJobs == Permutations({j1, j2})
=============================================================================
