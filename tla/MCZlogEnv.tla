------------------------------ MODULE MCZlogEnv ------------------------------
(* ZlogEnv for TLC: threads and categories are interchangeable.            *)
EXTENDS ZlogEnv, TLC

CONSTANTS t1, t2, c1, c2

Symmetry == Permutations({t1, t2}) \union Permutations({c1, c2})
=============================================================================
