---------------------------- MODULE MCRunLeases ----------------------------
(* Three uses of slot() by replicas whose clocks differ by up to a tick,    *)
(* over a ceiling of two.                                                  *)
EXTENDS RunLeases, TLC

CONSTANTS r1, r2, r3

MCRuns == {r1, r2, r3}
Symmetry == Permutations(MCRuns)
=============================================================================
