--------------------------- MODULE MCRouterSession ---------------------------
(* RouterSession for TLC: the peers are interchangeable model values.      *)
EXTENDS RouterSession, TLC

CONSTANTS p1, p2

Symmetry == Permutations({p1, p2})
=============================================================================
