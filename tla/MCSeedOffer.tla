---------------------------- MODULE MCSeedOffer ----------------------------
(* Small instances of SeedOffer for TLC. *)
EXTENDS SeedOffer, TLC
=============================================================================
