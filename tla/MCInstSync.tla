----------------------------- MODULE MCInstSync ----------------------------
EXTENDS InstSync, TLC
CONSTANTS a, b, f, g
Symmetry == Permutations(Stores) \cup Permutations(Fields)
=============================================================================
