------------------------- MODULE MCBoundlessRequest -------------------------
(* Small instances of BoundlessRequest for TLC. *)
EXTENDS BoundlessRequest, TLC
CONSTANTS c1, c2, j1, j2

Symmetry == Permutations({c1, c2}) \cup Permutations({j1, j2})
=============================================================================
