---------------------------- MODULE MCCacheLock ----------------------------
(***************************************************************************)
(* Model-checking instances of CacheLock.                                  *)
(***************************************************************************)
EXTENDS CacheLock, TLC

CONSTANTS p1, p2, p3

TwoPids == {p1, p2}
ThreePids == {p1, p2, p3}
Symmetry2 == Permutations(TwoPids)
Symmetry3 == Permutations(ThreePids)

=============================================================================
