--------------------------- MODULE MCProofServer ---------------------------
(***************************************************************************)
(* ProofServer for TLC: its constants are numbers, given in Server.cfg.    *)
(***************************************************************************)
EXTENDS ProofServer
=============================================================================
