--------------------------- MODULE MCJournalSync ---------------------------
(* Small instances of JournalSync. *)
EXTENDS JournalSync, TLC

CONSTANTS c1, p1

\* One customer, mirrored by the first callback, and one purchase order.
MCDocs == {c1, p1}
MCCustomers == {c1}
MCCbOf == c1 :> 1 @@ p1 :> 2
MCMaxVer == c1 :> 2 @@ p1 :> 1
============================================================================
