----------------------------- MODULE MCDelivery ----------------------------
(* Small instances of Delivery. *)
EXTENDS Delivery, TLC

CONSTANTS n1, n2, s1, s2, w1, w2

MCAllRecords == [n \in Nums |-> Scs]
Symmetry == Permutations({w1, w2}) \union Permutations({n1, n2})
============================================================================
