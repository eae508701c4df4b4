-------------------------- MODULE MCAsteroidsScore --------------------------
(***************************************************************************)
(* Small instances of AsteroidsScore for TLC: seeds that die of their age  *)
(* in windows when ledgers close slowly, or of their time to live when     *)
(* ledgers close fast.                                                     *)
(***************************************************************************)
EXTENDS AsteroidsScore, TLC

CONSTANTS s1, s2

SymmetricSeeds == Permutations(Seeds)
=============================================================================
