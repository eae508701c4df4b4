------------------------- MODULE MCLeaderboardSync -------------------------
(* Ledger 3 has two scores, of which little can be read; ledger 4 an event of another name *)
(* before a score.                                                                          *)
EXTENDS LeaderboardSync, TLC

MCForms ==
  (<<3, 1>> :> "damaged") @@ (<<3, 2>> :> "cut") @@ (<<4, 1>> :> "other") @@ (<<4, 2>> :> "whole")
=============================================================================
