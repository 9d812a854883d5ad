------------------------------ MODULE MCStorePO ----------------------------
(***************************************************************************)
(* Lists and workers are interchangeable.                                  *)
(***************************************************************************)
EXTENDS StorePO, TLC
CONSTANTS x, y, w1, w2, w3
Symmetry == Permutations(Lists) \cup Permutations(Workers)
=============================================================================
