------------------------------ MODULE Replica ------------------------------
(***************************************************************************)
(* What the mirror tables promise, without saying how they are kept: every *)
(* document of the point-of-sale database has a row, the mirror holds a    *)
(* version of it, and the documents whose mirror row may be behind are     *)
(* owed a refresh.  The mirror only ever moves forward, towards the row,   *)
(* and a document stops being owed only when its mirror row is the row.    *)
(***************************************************************************)
EXTENDS Naturals

CONSTANT Docs

VARIABLES
    row,      \* row[d]    : version of d in the point-of-sale database
    mirror,   \* mirror[d] : version of d the mirror table was written from
    owed      \* the documents with a refresh outstanding

vars == <<row, mirror, owed>>

Init ==
    /\ row \in [Docs -> Nat]
    /\ mirror = row
    /\ owed = {}

\* The store edits the documents of D: each of them is owed from now on.
Change(D) ==
    /\ row' = [d \in Docs |-> IF d \in D THEN row[d] + 1 ELSE row[d]]
    /\ owed' = owed \union D
    /\ UNCHANGED mirror

\* Some mirror rows move forward, no further than the rows they copy.
Refresh ==
    /\ mirror' \in [Docs -> Nat]
    /\ \A d \in Docs : mirror[d] <= mirror'[d] /\ mirror'[d] <= row[d]
    /\ UNCHANGED <<row, owed>>

\* A document is announced again although nothing changed: a retry.
Reannounce(D) ==
    /\ owed' = owed \union D
    /\ UNCHANGED <<row, mirror>>

\* Documents are ticked off, and only those the mirror shows as they are.
Settle(D) ==
    /\ \A d \in D : mirror[d] = row[d]
    /\ owed' = owed \ D
    /\ UNCHANGED <<row, mirror>>

Next ==
    \/ Refresh
    \/ \E D \in SUBSET Docs : Change(D) \/ Reannounce(D) \/ Settle(D)

Spec == Init /\ [][Next]_vars
============================================================================
