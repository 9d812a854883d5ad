----------------------------- MODULE MCSchedule ----------------------------
(* Small instances of Schedule. *)
EXTENDS Schedule, TLC

CONSTANTS so1, rc1, g1, h1, h2, w1, w2

\* A single line, of which one or two were sold.
MCItemLists == {[g \in {g1} |-> 1], [g \in {g1} |-> 2]}
MCPicks == {[g \in {g1} |-> 1], [g \in {g1} |-> 2]}
MCOneList == {[g \in {g1} |-> 1]}
MCOnePick == MCOneList
Symmetry == Permutations({w1, w2})

MoveOps == {"new", "edit", "delrec", "accept", "confirm", "del"}
============================================================================
