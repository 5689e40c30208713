--------------------------- MODULE MCQuerySession ---------------------------
(* QuerySession on small instances; the cfg files set the bounds.           *)
EXTENDS QuerySession, TLC

CallerSymmetry == Permutations(Callers)
=============================================================================
