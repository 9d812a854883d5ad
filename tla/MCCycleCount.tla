--------------------------- MODULE MCCycleCount ----------------------------
(* Small instances of CycleCount.                                          *)
EXTENDS CycleCount, TLC

CONSTANTS i1, i2, u1, u2, w1, w2

OneItem == {i1}
TwoItems == {i1, i2}
OneUser == <<u1>>
TwoUsers == <<u1, u2>>
OneGap == {1}
NoGap == {0}
TwoWorkers == {w1, w2}

Symmetry == Permutations(TwoWorkers)
============================================================================
