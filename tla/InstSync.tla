------------------------------ MODULE InstSync -----------------------------
(***************************************************************************)
(* service_inst_sync.py with create_snapshots of sync_customers.py: two    *)
(* stores that pass on to each other what changes in a customer.           *)
(*                                                                         *)
(* Each store runs two services over its own QuickBooks POS and MySQL.     *)
(* The sync service compares the customer of POS with a snapshot and       *)
(* writes what differs, stamped with the time of the customer's last edit, *)
(* to sync_customer_chg.  The exchange service reads the change rows of    *)
(* the other store and updates snapshot and POS, field by field, unless    *)
(* its own store has a change of the field that is as late.  Statements    *)
(* of MySQL are steps of their own (the connections commit each one); the  *)
(* statements to POS take effect together, by the commit.                  *)
(*                                                                         *)
(* One customer, which may exist in one store only at first; it is never   *)
(* deleted.  The clocks of the stores agree.  All change rows that are new *)
(* fit into one answer (limit 100).                                        *)
(***************************************************************************)
EXTENDS Integers, Sequences, FiniteSetsExt, Functions

CONSTANTS
    Stores,
    Fields,     \* SNAPSHOT_CFNS
    None,
    MaxEdits,   \* bound: edits by users
    MaxFails    \* bound: failures of either service

ASSUME InstSyncAssumption ==
    /\ \E s, t \in Stores : s # t /\ Stores = {s, t}
    /\ MaxEdits \in Nat /\ MaxFails \in Nat
    /\ None \notin [Fields -> Nat]

Other(s) == CHOOSE t \in Stores : t # s

\* What a field holds: the number of the edit it comes from.
Values == 0..MaxEdits
Rows == [Fields -> Values]

VARIABLES
    pos, lastedit,  \* the customer in POS, or None, and its column lastedit
    journal,        \* whether the journal of POS names it above the stored id
    snap,           \* sync_customer_snapshots, or None
    chg,            \* sync_customer_chg: rows by id
    last,           \* id of the last row of the other store that was handled
    sync,           \* what the sync service is doing
    inst,           \* what the exchange service is doing
    now, edits, fails,
    astray          \* history: fields of which a change may have been lost

posVars == <<pos, lastedit, journal>>
myVars == <<snap, chg, last>>
boundVars == <<now, edits, fails>>
vars == <<posVars, myVars, sync, inst, boundVars, astray>>

Change(ts, d) == [ts |-> ts, d |-> d]
SyncIdle == [pc |-> "idle"]
InstIdle == [pc |-> "idle"]

Quiet == \A s \in Stores :
    /\ ~journal[s] /\ sync[s] = SyncIdle /\ inst[s] = InstIdle
    /\ last[s] = Len(chg[Other(s)])

Init ==
    \E here \in (SUBSET Stores) \ {{}} :
        /\ pos = [s \in Stores |-> IF s \in here THEN [f \in Fields |-> 0] ELSE None]
        /\ snap = pos
        /\ chg = [s \in Stores |-> IF here = {s} THEN <<Change(0, <<>>)>> ELSE <<>>]
        /\ lastedit = [s \in Stores |-> 0]
        /\ journal = [s \in Stores |-> FALSE]
        /\ last = [s \in Stores |-> 0]
        /\ sync = [s \in Stores |-> SyncIdle]
        /\ inst = [s \in Stores |-> InstIdle]
        /\ now = 0 /\ edits = 0 /\ fails = 0
        /\ astray = {}

(***************************************************************************)
(* A user changes a field of the customer in POS, to a value it never had. *)
(* Lost if the store has no snapshot yet: the first one already shows it.  *)
(***************************************************************************)
Edit(s, f) ==
    /\ edits < MaxEdits /\ pos[s] # None
    /\ \E tick \in {0, 1} :
        /\ now' = now + tick
        /\ lastedit' = [lastedit EXCEPT ![s] = now + tick]
    /\ pos' = [pos EXCEPT ![s][f] = edits + 1]
    /\ journal' = [journal EXCEPT ![s] = TRUE]
    /\ edits' = edits + 1
    /\ astray' = astray \cup (IF snap[s] = None THEN {f} ELSE {})
    /\ UNCHANGED <<myVars, sync, inst, fails>>

(***************************************************************************)
(* The sync service: sync_customers in a round of the service.             *)
(***************************************************************************)
SyncRead(s) ==
    /\ sync[s] = SyncIdle /\ journal[s]
    /\ journal' = [journal EXCEPT ![s] = FALSE]
    /\ sync' = [sync EXCEPT ![s] = [pc |-> "compare", row |-> pos[s], lts |-> lastedit[s]]]
    /\ UNCHANGED <<pos, lastedit, myVars, inst, boundVars, astray>>

Diff(o, n) ==
    IF o = None THEN <<>>
    ELSE Restrict(n, {f \in Fields : o[f] # n[f]})

SyncCompare(s) ==
    /\ sync[s].pc = "compare"
    /\ LET dif == Diff(snap[s], sync[s].row) IN
       sync' = [sync EXCEPT ![s] =
            IF snap[s] # None /\ DOMAIN dif = {} THEN SyncIdle
            ELSE [pc |-> "replace", row |-> @.row, lts |-> @.lts, dif |-> dif]]
    /\ UNCHANGED <<posVars, myVars, inst, boundVars, astray>>

SyncReplace(s) ==
    /\ sync[s].pc = "replace"
    /\ snap' = [snap EXCEPT ![s] = sync[s].row]
    /\ sync' = [sync EXCEPT ![s].pc = "insert"]
    /\ UNCHANGED <<posVars, chg, last, inst, boundVars, astray>>

SyncInsert(s) ==
    /\ sync[s].pc = "insert"
    /\ chg' = [chg EXCEPT ![s] = Append(@, Change(sync[s].lts, sync[s].dif))]
    /\ sync' = [sync EXCEPT ![s] = SyncIdle]
    /\ UNCHANGED <<posVars, snap, last, inst, boundVars, astray>>

\* An exception ends the round; the id of the journal is not stored, so the
\* round is repeated.  Lost if the snapshot shows the change already.
SyncFail(s) ==
    /\ sync[s] # SyncIdle /\ fails < MaxFails
    /\ fails' = fails + 1
    /\ sync' = [sync EXCEPT ![s] = SyncIdle]
    /\ journal' = [journal EXCEPT ![s] = TRUE]
    /\ astray' = astray \cup (IF sync[s].pc = "insert" THEN DOMAIN sync[s].dif ELSE {})
    /\ UNCHANGED <<pos, lastedit, myVars, inst, now, edits>>

(***************************************************************************)
(* The exchange service: inst_sync_customer.                               *)
(***************************************************************************)
\* fn_get_cust_chg at the other store: of each field the newest row.
Newest(rows, f) == Max({k \in DOMAIN rows : f \in DOMAIN rows[k].d})

Merged(rows) ==
    [f \in UNION {DOMAIN rows[k].d : k \in DOMAIN rows} |->
        LET row == rows[Newest(rows, f)] IN [ts |-> row.ts, v |-> row.d[f]]]

Earliest(rows) ==
    LET m == Merged(rows)
    IN Min({rows[Len(rows)].ts} \cup {m[f].ts : f \in DOMAIN m})

Fetch(s) ==
    LET there == chg[Other(s)]
        rows == SubSeq(there, last[s] + 1, Len(there))
    IN  /\ inst[s] = InstIdle /\ rows # <<>>
        /\ inst' = [inst EXCEPT ![s] =
               [pc |-> "own", new |-> Merged(rows), lts |-> Earliest(rows), id |-> Len(there)]]
        /\ UNCHANGED <<posVars, myVars, sync, boundVars, astray>>

\* d_last_chg: when this store last changed a field, as far back as lts.
OwnTime(s, lts, f) ==
    LET own == {k \in DOMAIN chg[s] : chg[s][k].ts >= lts /\ f \in DOMAIN chg[s][k].d}
    IN IF own = {} THEN -1 ELSE chg[s][Max(own)].ts

LookOwn(s) ==
    /\ inst[s].pc = "own"
    /\ inst' = [inst EXCEPT ![s] =
           [pc |-> "snap", new |-> @.new, id |-> @.id,
            own |-> [f \in Fields |-> OwnTime(s, @.lts, f)], seen |-> Len(chg[s])]]
    /\ UNCHANGED <<posVars, myVars, sync, boundVars, astray>>

\* Changes of this store that were recorded since LookOwn, or whose
\* snapshot is stored and whose row is not.
Missed(s) ==
    (UNION {DOMAIN chg[s][k].d : k \in inst[s].seen + 1 .. Len(chg[s])})
    \cup IF sync[s].pc = "insert" THEN DOMAIN sync[s].dif ELSE {}

\* Faulty variant: whatever differs is taken.
AcceptsAny(c, own, new, f) == c[f] # new[f].v

Accepts(c, own, new, f) == ~(c[f] = new[f].v \/ own[f] >= new[f].ts)

\* The customer is here: choose the fields to take.  Without a snapshot
\* the customer is passed over.  Lost if it is, if both stores changed the
\* field at the same time, or if LookOwn came too early for a change.
LookSnap(s) ==
    LET new == inst[s].new
        own == inst[s].own
        c == snap[s]
        take == IF c = None THEN {} ELSE {f \in DOMAIN new : Accepts(c, own, new, f)}
    IN  /\ inst[s].pc = "snap" /\ pos[s] # None
        /\ inst' = [inst EXCEPT ![s] =
               IF take = {} THEN [pc |-> "last", id |-> @.id]
               ELSE [pc |-> "update", id |-> @.id, c |-> c, take |-> [f \in take |-> new[f].v]]]
        /\ astray' = astray \cup {f \in DOMAIN new :
               \/ c = None \/ f \in Missed(s)
               \/ c[f] # new[f].v /\ own[f] = new[f].ts}
        /\ UNCHANGED <<posVars, myVars, sync, boundVars>>

\* Faulty variant: the changes alone.
PutOnly(d, c) == d

\* The row c with the changes d.
Put(d, c) == [f \in Fields |-> IF f \in DOMAIN d THEN d[f] ELSE c[f]]

\* Lost: what the sync service put into the snapshot since LookSnap read c.
UpdateSnap(s) ==
    /\ inst[s].pc = "update"
    /\ snap' = [snap EXCEPT ![s] = Put(inst[s].take, inst[s].c)]
    /\ inst' = [inst EXCEPT ![s].pc = "commit"]
    /\ astray' = astray \cup {f \in Fields : snap[s][f] # inst[s].c[f]}
    /\ UNCHANGED <<posVars, chg, last, sync, boundVars>>

\* Lost: an edit in POS that the snapshot did not show; and a row of POS from
\* before the commit that the sync service has in hand, or has replaced the
\* snapshot by, makes the old value look like an edit.
Commit(s) ==
    /\ inst[s].pc = "commit"
    /\ pos' = [pos EXCEPT ![s] = Put(inst[s].take, @)]
    /\ journal' = [journal EXCEPT ![s] = TRUE]
    /\ inst' = [inst EXCEPT ![s] = [pc |-> "last", id |-> @.id]]
    /\ astray' = astray \cup {f \in DOMAIN inst[s].take :
           \/ pos[s][f] # inst[s].c[f]
           \/ snap[s][f] # inst[s].take[f] \/ sync[s] # SyncIdle}
    /\ UNCHANGED <<lastedit, myVars, sync, boundVars>>

\* The customer is not here: get_remote_customer, then the insert.  Lost: an
\* edit that the other store has not recorded.
CopyRow(s) ==
    /\ inst[s].pc = "snap" /\ pos[s] = None
    /\ inst' = [inst EXCEPT ![s] = [pc |-> "insert", id |-> @.id,
           row |-> pos[Other(s)], lts |-> lastedit[Other(s)]]]
    /\ astray' = astray \cup {f \in Fields : pos[Other(s)][f] # snap[Other(s)][f]}
    /\ UNCHANGED <<posVars, myVars, sync, boundVars>>

InsertRow(s) ==
    /\ inst[s].pc = "insert"
    /\ pos' = [pos EXCEPT ![s] = inst[s].row]
    /\ lastedit' = [lastedit EXCEPT ![s] = inst[s].lts]
    /\ journal' = [journal EXCEPT ![s] = TRUE]
    /\ inst' = [inst EXCEPT ![s] = [pc |-> "last", id |-> @.id]]
    /\ UNCHANGED <<myVars, sync, boundVars, astray>>

SetLast(s) ==
    /\ inst[s].pc = "last"
    /\ last' = [last EXCEPT ![s] = inst[s].id]
    /\ inst' = [inst EXCEPT ![s] = InstIdle]
    /\ UNCHANGED <<posVars, snap, chg, sync, boundVars, astray>>

\* An exception: POS is rolled back, the snapshot stays.  Lost: what it shows.
InstFail(s) ==
    /\ inst[s] # InstIdle /\ fails < MaxFails
    /\ fails' = fails + 1
    /\ inst' = [inst EXCEPT ![s] = InstIdle]
    /\ astray' = astray \cup (IF inst[s].pc = "commit" THEN DOMAIN inst[s].take ELSE {})
    /\ UNCHANGED <<posVars, myVars, sync, now, edits>>

Sync(s) == SyncRead(s) \/ SyncCompare(s) \/ SyncReplace(s) \/ SyncInsert(s)

Inst(s) ==
    \/ Fetch(s) \/ LookOwn(s) \/ LookSnap(s) \/ UpdateSnap(s) \/ Commit(s)
    \/ CopyRow(s) \/ InsertRow(s) \/ SetLast(s)

Next ==
    \E s \in Stores :
        \/ \E f \in Fields : Edit(s, f)
        \/ Sync(s) \/ SyncFail(s)
        \/ Inst(s) \/ InstFail(s)

Spec == Init /\ [][Next]_vars

-----------------------------------------------------------------------------
Parts == UNION {[F -> Values] : F \in SUBSET Fields}
Times == 0..MaxEdits
Changes == [ts : Times, d : Parts]

SyncStates ==
    {SyncIdle} \cup [pc : {"compare"}, row : Rows, lts : Times]
    \cup [pc : {"replace", "insert"}, row : Rows, lts : Times, dif : Parts]

Remote == UNION {[F -> [ts : Times, v : Values]] : F \in SUBSET Fields}

InstStates ==
    {InstIdle}
    \cup [pc : {"own"}, new : Remote, lts : Times, id : Nat]
    \cup [pc : {"snap"}, new : Remote, id : Nat, own : [Fields -> Times \cup {-1}], seen : Nat]
    \cup [pc : {"update", "commit"}, id : Nat, c : Rows, take : Parts]
    \cup [pc : {"last"}, id : Nat]
    \cup [pc : {"insert"}, id : Nat, row : Rows, lts : Times]

(***************************************************************************)
(* The type invariant.  The exchange service never has a row of a customer *)
(* without a snapshot in hand, and never a part of a row instead of a row. *)
(***************************************************************************)
TypeOK ==
    /\ pos \in [Stores -> Rows \cup {None}]
    /\ snap \in [Stores -> Rows \cup {None}]
    /\ chg \in [Stores -> Seq(Changes)]
    /\ lastedit \in [Stores -> Times] /\ last \in [Stores -> Nat]
    /\ journal \in [Stores -> BOOLEAN]
    /\ sync \in [Stores -> SyncStates] /\ inst \in [Stores -> InstStates]
    /\ astray \subseteq Fields
    /\ edits \in 0..MaxEdits /\ now \in 0..edits /\ fails \in 0..MaxFails

(***************************************************************************)
(* When nobody has anything to do, both stores have the customer and agree *)
(* on every field, except those of which a change was lost in one of the   *)
(* ways that are marked "Lost" above; and what they agree on is the change *)
(* with the latest stamp, whichever store it comes from.  So retries,      *)
(* repeated rounds, stale snapshots and changes that cross each other do   *)
(* no harm by themselves.                                                  *)
(***************************************************************************)
IsLatest(f, v) ==
    \A s \in Stores : \A k \in DOMAIN chg[s] : f \in DOMAIN chg[s][k].d =>
        \E t \in Stores : \E n \in DOMAIN chg[t] :
            /\ chg[t][n].ts >= chg[s][k].ts
            /\ f \in DOMAIN chg[t][n].d /\ chg[t][n].d[f] = v

Converged ==
    Quiet => \A s \in Stores :
        /\ pos[s] # None
        /\ \A f \in Fields \ astray :
               pos[s][f] = pos[Other(s)][f] /\ IsLatest(f, pos[s][f])
=============================================================================
