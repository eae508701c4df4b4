-------------------------- MODULE MCClaimPipeline --------------------------
(***************************************************************************)
(* Small instances of ClaimPipeline for TLC: two proofs of one claimant    *)
(* for one seed, the second one with the higher score.                     *)
(***************************************************************************)
EXTENDS ClaimPipeline, TLC

CONSTANTS j1, j2

LowAndHigh == j1 :> 1 @@ j2 :> 2
OneProof == j1 :> 1
=============================================================================
