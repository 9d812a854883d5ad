----------------------------- MODULE CycleCount ----------------------------
(***************************************************************************)
(* request/cycle_count.py and insert_qty_adj of service_qbpos.py: counting *)
(* the stock.                                                              *)
(*                                                                         *)
(* A manager keeps a list of items to count.  The users of the list walk   *)
(* through the store; each count is stored with the quantity that the      *)
(* mirror of QuickBooks POS shows at that time.  A user may count an item  *)
(* in parts, one row each, and remove rows again.  The manager sends the   *)
(* counts: a row of the outbox carries what each user's rows of an item    *)
(* add up to, with the mirror's quantity of the last one, to the service,  *)
(* which moves the quantity of POS by what the two differ.  Sales go on    *)
(* all the time.  Statements are not grouped; what the manager looks at    *)
(* takes four of them.                                                     *)
(*                                                                         *)
(* One list (r_mode 1), whose users stay the same.  Left out: units of     *)
(* measure, locations and names, and a list that is saved without items,   *)
(* which keeps the items it had.                                           *)
(***************************************************************************)
EXTENDS Integers, FiniteSets, SequencesExt

CONSTANTS
    Items,
    UserSeq,    \* the users of the list by u_uid
    Workers,    \* workers of the web server
    Stock,      \* quantities in the store at the start
    Gaps,       \* by how much POS is wrong at the start
    None,
    Counted,    \* bound: items that are counted and sold; each list has one
    MaxRow,     \* bound: rows of the outbox
    MaxRev,     \* bound: revisions of the list
    MaxCounts,  \* bound: counts that are stored or under way
    MaxEvents   \* bound: sales and lost answers of POS

ASSUME CycleCountAssumption ==
    /\ Stock \subseteq Nat /\ Gaps \subseteq Int
    /\ MaxRow \in Nat /\ MaxRev \in Nat \ {0}
    /\ MaxCounts \in Nat /\ MaxEvents \in Nat

Users == {UserSeq[k] : k \in DOMAIN UserSeq}
Rows == 1..MaxRow

VARIABLES
    rec,      \* phycount_record: the list, or None
    items,    \* phycount_item
    hist,     \* phycount_user_hist: hist[u][i], by h_id
    q,        \* qbpos: q[id]
    pc, job,  \* workers of the web server
    svc,      \* the service: the row it works on
    inv,      \* quantities in POS
    mirror,   \* quantities in sync_items, behind those of POS
    stock,    \* quantities in the store
    events,   \* sales and lost answers so far
    posted    \* history: how often POS took quantities, and whether a sale slipped in

webVars == <<pc, job>>
docVars == <<rec, items, hist>>
posVars == <<inv, mirror, stock>>
svcVars == <<svc, events, posted>>
vars == <<docVars, q, webVars, posVars, svcVars>>

\* No row of a user and an item; sum is what the rows add up to.
NoCounts == [rows |-> <<>>, sum |-> 0]

NoHist == [u \in Users |-> [i \in Items |-> NoCounts]]

Records == [enable : BOOLEAN, rev : 1 .. MaxRev + 1, qid : 0..MaxRow, list : SUBSET Items]

\* at and fresh are history: what was in the store when it was counted, and
\* whether cur is what POS should have had for it less its error.
Counts == [qty : Int, cur : Int, at : Nat, fresh : BOOLEAN]

\* What the rows of a user and an item come to.  true and torn are history:
\* whether they came to what was in the store at the last of them, against an
\* up to date mirror; whether the item table was not the list of the record.
Entries == [qty : Int, cur : Int, true : BOOLEAN]
Looks == [rev : 1 .. MaxRev + 1, qid : 0..MaxRow, items : SUBSET Items,
          hist : [Users -> [Items -> Entries \union {None}]],
          idx : DOMAIN UserSeq, torn : BOOLEAN]
Orders == [state : {1, 2}, errno : {0, -1, -2, -99}, js : Looks \union {None}]

\* What a worker has at hand, by the statement it runs next.
Jobs ==
    [l : SUBSET Items]
    \union [u : Users, i : Items, qty : Int, at : Nat]
    \union [u : Users, i : Items, qty : Int, at : Nat, cur : Int]
    \union [rev : 1 .. MaxRev + 1, qid : 0..MaxRow]
    \union [rev : 1 .. MaxRev + 1, qid : 0..MaxRow, items : SUBSET Items, torn : BOOLEAN]
    \union Looks
    \union [look : Looks, id : Rows]

ASSUME NoneAssumption == None \notin Records \union Orders \union Jobs

\* A row that is sent has a count of the chosen user for each of its items: the
\* service adds to it.
TypeOK ==
    /\ rec = None \/ rec \in Records
    /\ items \subseteq Items
    /\ \A u \in Users, i \in Items : hist[u][i] \in [rows : Seq(Counts), sum : Int]
    /\ \A id \in Rows : q[id] = None \/ q[id] \in Orders
    /\ \A id \in Rows : q[id] # None /\ q[id].state = 1 =>
        \A i \in q[id].js.items : q[id].js.hist[UserSeq[q[id].js.idx]][i] # None
    /\ \A w \in Workers : pc[w] = "idle" <=> job[w] = None

Init ==
    /\ \E l \in (SUBSET Items) \ {{}} :
        /\ l \intersect Counted # {}
        /\ rec = [enable |-> TRUE, rev |-> 1, qid |-> 0, list |-> l]
        /\ items = l
    /\ hist = NoHist
    /\ q = [id \in Rows |-> None]
    /\ pc = [w \in Workers |-> "idle"] /\ job = [w \in Workers |-> None]
    /\ svc = None
    /\ stock \in [Items -> Stock]
    /\ \E e \in [Items -> Gaps] : inv = [i \in Items |-> stock[i] - e[i]]
    /\ mirror = inv
    /\ events = 0
    /\ posted = [times |-> 0, slipped |-> FALSE]

----------------------------------------------------------------------------
(* The web server.                                                         *)

Finish(w) ==
    /\ pc' = [pc EXCEPT ![w] = "idle"]
    /\ job' = [job EXCEPT ![w] = None]

GoTo(w, step, j) ==
    /\ pc' = [pc EXCEPT ![w] = step]
    /\ job' = [job EXCEPT ![w] = j]

\* fn_save_record: the record, then the items off the list, then the new ones.
SaveRecord(w, l, enable) ==
    /\ pc[w] = "idle" /\ l # {} /\ l \intersect Counted # {}
    /\ rec # None /\ rec.qid = 0 /\ rec.rev < MaxRev
    /\ rec' = [rec EXCEPT !.rev = @ + 1, !.enable = enable, !.list = l]
    /\ GoTo(w, "dropItems", [l |-> l])
    /\ UNCHANGED <<items, hist, q, posVars, svcVars>>

DropItems(w) ==
    /\ pc[w] = "dropItems"
    /\ items' = items \intersect job[w].l
    /\ GoTo(w, "addItems", job[w])
    /\ UNCHANGED <<rec, hist, q, posVars, svcVars>>

AddItems(w) ==
    /\ pc[w] = "addItems"
    /\ items' = items \union job[w].l
    /\ Finish(w)
    /\ UNCHANGED <<rec, hist, q, posVars, svcVars>>

\* fn_del_record leaves phycount_item alone.
DelRecord(w) ==
    /\ pc[w] = "idle"
    /\ rec # None /\ rec.qid = 0
    /\ rec' = None
    /\ GoTo(w, "dropHist", [l |-> {}])
    /\ UNCHANGED <<items, hist, q, posVars, svcVars>>

DropHist(w) ==
    /\ pc[w] = "dropHist"
    /\ hist' = NoHist
    /\ Finish(w)
    /\ UNCHANGED <<rec, items, q, posVars, svcVars>>

\* How many counts there are.
Made == {t \in Users \X Items \X (1..MaxCounts) : t[3] <= Len(hist[t[1]][t[2]].rows)}
Making == {w \in Workers : pc[w] \in {"counted", "item", "store"}}

\* A user counts an item or a part of it, then fn_save_qty asks for the record,
\* reads the item and stores the count in a row of its own.
Count(w, u, i, n) ==
    /\ pc[w] = "idle" /\ i \in Counted
    /\ Cardinality(Made) + Cardinality(Making) < MaxCounts
    /\ rec # None /\ rec.enable /\ rec.qid = 0 /\ i \in rec.list
    /\ GoTo(w, "counted", [u |-> u, i |-> i, qty |-> n, at |-> stock[i]])
    /\ UNCHANGED <<docVars, q, posVars, svcVars>>

CheckRecord(w) ==
    /\ pc[w] = "counted"
    /\ IF rec # None /\ rec.enable /\ rec.qid = 0 THEN GoTo(w, "item", job[w]) ELSE Finish(w)
    /\ UNCHANGED <<docVars, q, posVars, svcVars>>

ReadItem(w) ==
    LET j == job[w]
    IN  /\ pc[w] = "item"
        /\ IF j.i \in items
           THEN GoTo(w, "store", [u |-> j.u, i |-> j.i, qty |-> j.qty, at |-> j.at,
                                  cur |-> mirror[j.i]])
           ELSE Finish(w)
        /\ UNCHANGED <<docVars, q, posVars, svcVars>>

StoreCount(w) ==
    LET j == job[w]
        fresh == j.at - j.cur = stock[j.i] - inv[j.i]
        row == [qty |-> j.qty, cur |-> j.cur, at |-> j.at, fresh |-> fresh]
    IN  /\ pc[w] = "store"
        /\ hist' = [hist EXCEPT ![j.u][j.i] =
                       [rows |-> Append(@.rows, row), sum |-> @.sum + j.qty]]
        /\ Finish(w)
        /\ UNCHANGED <<rec, items, q, posVars, svcVars>>

\* fn_del_hist is one statement.
DelHist(u, i, k) ==
    /\ rec # None /\ rec.enable /\ rec.qid = 0
    /\ hist' = [hist EXCEPT ![u][i] =
                   [rows |-> RemoveAt(@.rows, k), sum |-> @.sum - @.rows[k].qty]]
    /\ UNCHANGED <<rec, items, q, webVars, posVars, svcVars>>

----------------------------------------------------------------------------
(* Sending.                                                                *)

\* count_cmp: the record, the items of the list, the counts.
LookRecord(w) ==
    /\ pc[w] = "idle" /\ rec # None
    /\ GoTo(w, "lookItems", [rev |-> rec.rev, qid |-> rec.qid])
    /\ UNCHANGED <<docVars, q, posVars, svcVars>>

LookItems(w) ==
    LET j == job[w]
    IN  /\ pc[w] = "lookItems"
        /\ GoTo(w, "lookHist", [rev |-> j.rev, qid |-> j.qid, items |-> items,
                                torn |-> rec # None /\ items # rec.list])
        /\ UNCHANGED <<docVars, q, posVars, svcVars>>

\* The quantities of all rows are added up, the mirror's is that of the last.
Tally(c) ==
    LET last == c.rows[Len(c.rows)]
    IN  IF c.rows = <<>> THEN None
        ELSE [qty |-> c.sum, cur |-> last.cur, true |-> last.fresh /\ c.sum = last.at]

\* All users counted the item and found the same, at the same quantity of POS.
Agree(h, i) ==
    \A k \in DOMAIN UserSeq : /\ h[UserSeq[k]][i] # None
                              /\ h[UserSeq[k]][i].qty = h[UserSeq[1]][i].qty
                              /\ h[UserSeq[k]][i].cur = h[UserSeq[1]][i].cur

\* Faulty variant: one count is enough.
CompleteSome(h, l, k) == \E i \in l : h[UserSeq[k]][i] # None

\* The chosen user counted every item.
Complete(h, l, k) == \A i \in l : h[UserSeq[k]][i] # None

\* fn_send without a user, or with the one whose counts count.
LookHist(w, k) ==
    LET j == job[w]
        tallies == [u \in Users |->
            [i \in Items |-> IF i \in j.items THEN Tally(hist[u][i]) ELSE None]]
        look == [rev |-> j.rev, qid |-> j.qid, items |-> j.items, hist |-> tallies,
                 idx |-> k, torn |-> j.torn]
    IN  /\ pc[w] = "lookHist"
        /\ IF /\ j.items # {}
              /\ \/ \A i \in j.items : Agree(tallies, i) /\ k = 1
                 \/ (\E i \in j.items : ~Agree(tallies, i)) /\ Complete(tallies, j.items, k)
           THEN GoTo(w, IF j.qid = 0 THEN "insert" ELSE "put", look)
           ELSE Finish(w)
        /\ UNCHANGED <<docVars, q, posVars, svcVars>>

\* A row that nobody can send yet.
InsertRow(w) ==
    /\ pc[w] = "insert"
    /\ \E id \in Rows :
        /\ q[id] = None /\ \A n \in 1 .. id - 1 : q[n] # None
        /\ q' = [q EXCEPT ![id] = [state |-> 2, errno |-> -99, js |-> None]]
        /\ GoTo(w, "link", [look |-> job[w], id |-> id])
    /\ UNCHANGED <<docVars, posVars, svcVars>>

\* Faulty variant: the revision is not asked for.
MayLinkAny(look) == rec # None /\ rec.qid = 0

\* Faulty variant: the record may have a row already.
MayLinkAgain(look) == rec # None

\* "where r_id=%s and r_rev=%s and qbpos_id=0"
MayLink(look) == rec # None /\ rec.rev = look.rev /\ rec.qid = 0

LinkRow(w) ==
    LET j == job[w]
    IN  /\ pc[w] = "link"
        /\ IF MayLink(j.look)
           THEN /\ rec' = [rec EXCEPT !.rev = @ + 1, !.qid = j.id]
                /\ GoTo(w, "put", [j.look EXCEPT !.qid = j.id])
           ELSE /\ Finish(w)
                /\ UNCHANGED rec
        /\ UNCHANGED <<items, hist, q, posVars, svcVars>>

\* "where id=%s and state=2 and errno!=0": new ones and those that failed.
PutCounts(w) ==
    LET j == job[w]
    IN  /\ pc[w] = "put"
        /\ q' = IF q[j.qid].state = 2 /\ q[j.qid].errno # 0
                THEN [q EXCEPT ![j.qid] = [state |-> 1, errno |-> 0, js |-> j]]
                ELSE q
        /\ Finish(w)
        /\ UNCHANGED <<docVars, posVars, svcVars>>

\* A worker stops, or the connection to MySQL does.
Crash(w) ==
    /\ pc[w] # "idle"
    /\ Finish(w)
    /\ UNCHANGED <<docVars, q, posVars, svcVars>>

----------------------------------------------------------------------------
(* The service and the store.                                              *)

\* Faulty variant: the quantity becomes what was counted.
AdjustedToCount(e, now) == e.qty

\* Sales since the count moved POS and the store alike.
Adjusted(e, now) == e.qty + (now - e.cur)

Answer(id, errno) ==
    q' = IF q[id].state = 1 THEN [q EXCEPT ![id].state = 2, ![id].errno = errno] ELSE q

\* The items whose quantity has to change; none is an error.
ReadInventory(id) ==
    LET js == q[id].js
        new == [i \in js.items |-> Adjusted(js.hist[UserSeq[js.idx]][i], inv[i])]
        wrong == {i \in js.items : new[i] # inv[i]}
    IN  /\ svc = None /\ q[id] # None /\ q[id].state = 1
        /\ IF wrong = {}
           THEN Answer(id, -1) /\ UNCHANGED svc
           ELSE /\ svc' = [id |-> id, new |-> [i \in wrong |-> new[i]], was |-> inv,
                           done |-> FALSE]
                /\ UNCHANGED q
        /\ UNCHANGED <<docVars, webVars, posVars, events, posted>>

\* InventoryQtyAdjustmentAddRq sets new quantities.
PosAdjusts ==
    /\ svc # None /\ ~svc.done
    /\ inv' = [i \in Items |-> IF i \in DOMAIN svc.new THEN svc.new[i] ELSE inv[i]]
    /\ svc' = [svc EXCEPT !.done = TRUE]
    /\ posted' = [times |-> IF posted.times < 2 THEN posted.times + 1 ELSE 2,
                  slipped |-> posted.slipped \/ inv # svc.was]
    /\ UNCHANGED <<docVars, q, webVars, mirror, stock, events>>

PosRefuses ==
    /\ svc # None /\ ~svc.done
    /\ Answer(svc.id, -2)
    /\ svc' = None
    /\ UNCHANGED <<docVars, webVars, posVars, events, posted>>

RecordAnswer ==
    /\ svc # None /\ svc.done
    /\ Answer(svc.id, 0)
    /\ svc' = None
    /\ UNCHANGED <<docVars, webVars, posVars, events, posted>>

\* The service ends or gets no answer: the row stays pending.
LoseAnswer ==
    /\ svc # None /\ events < MaxEvents
    /\ svc' = None
    /\ events' = events + 1
    /\ UNCHANGED <<docVars, q, webVars, posVars, posted>>

Sell(i) ==
    /\ i \in Counted /\ events < MaxEvents /\ stock[i] > 0
    /\ stock' = [stock EXCEPT ![i] = @ - 1]
    /\ inv' = [inv EXCEPT ![i] = @ - 1]
    /\ events' = events + 1
    /\ UNCHANGED <<docVars, q, webVars, mirror, svc, posted>>

\* sync_items
Synchronise(i) ==
    /\ mirror[i] # inv[i]
    /\ mirror' = [mirror EXCEPT ![i] = inv[i]]
    /\ UNCHANGED <<docVars, q, webVars, inv, stock, svcVars>>

Manage(w) ==
    \/ \E l \in SUBSET Items, enable \in BOOLEAN : SaveRecord(w, l, enable)
    \/ DropItems(w) \/ AddItems(w) \/ DelRecord(w) \/ DropHist(w)

CountOne(w) ==
    \/ \E u \in Users, i \in Items : \E n \in 0..stock[i] : Count(w, u, i, n)
    \/ CheckRecord(w) \/ ReadItem(w) \/ StoreCount(w)

Send(w) ==
    \/ LookRecord(w) \/ LookItems(w) \/ (\E k \in DOMAIN UserSeq : LookHist(w, k))
    \/ InsertRow(w) \/ LinkRow(w) \/ PutCounts(w)

Service ==
    \/ \E id \in Rows : ReadInventory(id)
    \/ PosAdjusts \/ PosRefuses \/ RecordAnswer \/ LoseAnswer

Store == \E i \in Items : Sell(i) \/ Synchronise(i)

Next ==
    \/ \E w \in Workers : Manage(w) \/ CountOne(w) \/ Send(w) \/ Crash(w)
    \/ \E u \in Users, i \in Items : \E k \in DOMAIN hist[u][i].rows : DelHist(u, i, k)
    \/ Service \/ Store

Spec == Init /\ [][Next]_vars

----------------------------------------------------------------------------
(* Properties.                                                             *)

Done(id) == q[id] # None /\ q[id].state = 2 /\ q[id].errno = 0

Used(id, i) == q[id].js.hist[UserSeq[q[id].js.idx]][i]

\* After an adjustment POS says what is in the store, item by item, whatever was
\* sold and synchronised between count, look, send and answer and whatever parts
\* the item was counted in: if the chosen user's rows came to what was in the
\* store when the last of them was counted, against an up to date mirror, POS
\* took the adjustment once, and nothing was sold between the service's read of
\* the quantity and its change.  A sale between two part counts may leave them
\* at something else; no statement can tell.
Corrected ==
    \A id \in Rows :
        Done(id) /\ posted.times = 1 /\ ~posted.slipped
        => \A i \in q[id].js.items : Used(id, i).true => inv[i] = stock[i]

\* Only the row that is linked to the record is ever sent: two managers who
\* send at the same time do not change the stock twice.
LiveRowsLinked ==
    \A id \in Rows :
        q[id] # None /\ (q[id].state = 1 \/ q[id].errno # -99) =>
            rec # None /\ rec.qid = id

\* The items of a row that is sent are those of the list as it stands; only a
\* look that met a save half-way has others.
ListSent ==
    \A id \in Rows :
        q[id] # None /\ q[id].js # None /\ ~q[id].js.torn =>
            rec # None /\ q[id].js.items = rec.list
============================================================================
