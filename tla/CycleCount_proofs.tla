------------------------- MODULE CycleCount_proofs --------------------------
(***************************************************************************)
(* The proofs about CycleCount: that only the linked row of a list is ever *)
(* sent, that it has the items of the list, and that an adjustment brings  *)
(* POS to what is in the store - for any number of items, users, workers,  *)
(* rows, sales and lost answers.                                           *)
(***************************************************************************)
EXTENDS CycleCount, SequenceTheorems, TLAPS

----------------------------------------------------------------------------
(* The inductive invariant.                                                *)

Steps == {"idle", "dropItems", "addItems", "dropHist", "counted", "item", "store",
          "lookItems", "lookHist", "insert", "link", "put"}

Typed ==
    /\ rec \in Records \union {None}
    /\ items \subseteq Items
    /\ hist \in [Users -> [Items -> [rows : Seq(Counts), sum : Int]]]
    /\ q \in [Rows -> Orders \union {None}]
    /\ pc \in [Workers -> Steps]
    /\ job \in [Workers -> Jobs \union {None}]
    /\ inv \in [Items -> Int] /\ mirror \in [Items -> Int] /\ stock \in [Items -> Nat]
    /\ posted \in [times : 0..2, slipped : BOOLEAN]

\* The record can still be linked once within its bound.
RecOk == rec # None /\ rec.qid = 0 => rec.rev <= MaxRev

\* As long as POS has taken nothing, a row that was stored with an up to date
\* quantity of the mirror still says by how much POS is wrong.
FreshRows(h, store, now, times) ==
    times = 0 =>
        \A u \in Users, i \in Items : \A n \in DOMAIN h[u][i].rows :
            h[u][i].rows[n].fresh =>
                h[u][i].rows[n].at - h[u][i].rows[n].cur = store[i] - now[i]

\* So does what rows come to, if they come to what was in the store.
TrueCounts(h, store, now, times) ==
    times = 0 =>
        \A u \in Users, i \in Items :
            h[u][i] # None /\ h[u][i].true => h[u][i].qty - h[u][i].cur = store[i] - now[i]

\* A record that is linked to a row stays so.
Linked(id, r) == r # None /\ r.qid = id

\* A look at a list is no newer than the list.
NoNewer(look, r) == r # None => look.rev <= r.rev

\* The items at hand are those of the list, unless the list was saved since or
\* the look was torn.
FromList(look, r) ==
    ~look.torn /\ r # None /\ (look.qid # 0 \/ look.rev = r.rev) => look.items = r.list

\* The chosen user has counted every item.
Covers(look) == \A i \in look.items : look.hist[UserSeq[look.idx]][i] # None

\* What a worker at statement p has at hand.
JobTyped(p, j) ==
    /\ p = "idle" <=> j = None
    /\ p \in {"dropItems", "addItems", "dropHist"} => j \in [l : SUBSET Items]
    /\ p \in {"counted", "item"} => j \in [u : Users, i : Items, qty : Int, at : Nat]
    /\ p = "store" => j \in [u : Users, i : Items, qty : Int, at : Nat, cur : Int]
    /\ p = "lookItems" => j \in [rev : 1 .. MaxRev + 1, qid : 0..MaxRow]
    /\ p = "lookHist" =>
          j \in [rev : 1 .. MaxRev + 1, qid : 0..MaxRow, items : SUBSET Items, torn : BOOLEAN]
    /\ p \in {"insert", "put"} => j \in Looks
    /\ p = "link" => j \in [look : Looks, id : Rows]

JobOk(p, j, r, store, now, times) ==
    /\ p \in {"lookItems", "lookHist"} => NoNewer(j, r) /\ (j.qid # 0 => Linked(j.qid, r))
    /\ p = "lookHist" => FromList(j, r)
    /\ p = "insert" => /\ j.qid = 0 /\ NoNewer(j, r) /\ FromList(j, r)
                       /\ Covers(j) /\ TrueCounts(j.hist, store, now, times)
    /\ p = "link" => /\ j.look.qid = 0 /\ NoNewer(j.look, r) /\ FromList(j.look, r)
                     /\ Covers(j.look) /\ TrueCounts(j.look.hist, store, now, times)
    /\ p = "put" => /\ j.qid # 0 /\ Linked(j.qid, r) /\ FromList(j, r)
                    /\ Covers(j) /\ TrueCounts(j.hist, store, now, times)

JobsOk ==
    \A w \in Workers :
        JobTyped(pc[w], job[w]) /\ JobOk(pc[w], job[w], rec, stock, inv, posted.times)

\* A row that carries counts is linked; one that is pending carries counts.
RowsOk ==
    \A id \in Rows : q[id] # None =>
        /\ q[id].state = 1 => q[id].js # None
        /\ q[id].js # None => /\ q[id].state = 1 \/ q[id].errno # -99
                              /\ Covers(q[id].js) /\ TrueCounts(q[id].js.hist, stock, inv, posted.times)
        /\ q[id].state = 2 /\ q[id].errno = 0 => q[id].js # None

\* The row the service works on is pending, and what it will tell POS comes
\* from the counts of that row.
EntryOf(id, i) == q[id].js.hist[UserSeq[q[id].js.idx]][i]

SvcOk ==
    svc # None =>
        /\ svc \in [id : Rows, new : UNION {[F -> Int] : F \in SUBSET Items},
                    was : [Items -> Int], done : BOOLEAN]
        /\ q[svc.id] # None /\ q[svc.id].state = 1
        /\ DOMAIN svc.new \subseteq q[svc.id].js.items
        /\ \A i \in q[svc.id].js.items :
              Adjusted(EntryOf(svc.id, i), svc.was[i])
                  = IF i \in DOMAIN svc.new THEN svc.new[i] ELSE svc.was[i]

\* POS has taken the quantities of the row.
Settled(id) == Done(id) \/ (svc # None /\ svc.done /\ svc.id = id)

Right(id) ==
    posted.times = 1 /\ ~posted.slipped
        => \A i \in q[id].js.items : Used(id, i).true => inv[i] = stock[i]

SettledOk == \A id \in Rows : Settled(id) => posted.times # 0 /\ Right(id)

IInv ==
    /\ Typed /\ RecOk /\ FreshRows(hist, stock, inv, posted.times) /\ JobsOk
    /\ RowsOk /\ LiveRowsLinked /\ ListSent /\ SvcOk /\ SettledOk

----------------------------------------------------------------------------
(* Types.                                                                  *)

\* None is none of the records.
LEMMA Nones ==
    /\ None \notin Records /\ None \notin Orders /\ None \notin Looks
    /\ \A p \in Steps : \A j : JobTyped(p, j) => j \in Jobs \union {None}
    /\ None \notin [l : SUBSET Items]
    /\ None \notin [u : Users, i : Items, qty : Int, at : Nat]
    /\ None \notin [u : Users, i : Items, qty : Int, at : Nat, cur : Int]
    /\ None \notin [rev : 1 .. MaxRev + 1, qid : 0..MaxRow]
    /\ None \notin [rev : 1 .. MaxRev + 1, qid : 0..MaxRow, items : SUBSET Items, torn : BOOLEAN]
    /\ None \notin [look : Looks, id : Rows]
  BY NoneAssumption DEF Jobs, JobTyped, Steps

\* The bounds are numbers.
LEMMA Bounds == MaxRow \in Nat /\ MaxRev \in Nat \ {0} /\ Stock \subseteq Nat /\ Gaps \subseteq Int
  BY CycleCountAssumption

\* The parts of a record.
LEMMA RecordParts ==
    ASSUME Typed, rec # None
    PROVE  /\ rec \in Records
           /\ rec.rev \in 1 .. MaxRev + 1 /\ rec.qid \in 0..MaxRow /\ rec.list \subseteq Items
           /\ rec.rev \in Int
  BY Bounds DEF Typed, Records

\* The invariant holds what the type invariant says.
LEMMA IInvTypes == IInv => TypeOK
<1>. SUFFICES ASSUME IInv PROVE TypeOK
  OBVIOUS
<1>1. rec = None \/ rec \in Records
  BY DEF IInv, Typed
<1>2. items \subseteq Items
  BY DEF IInv, Typed
<1>3. \A u \in Users, i \in Items : hist[u][i] \in [rows : Seq(Counts), sum : Int]
  BY DEF IInv, Typed
<1>4. \A id \in Rows : q[id] = None \/ q[id] \in Orders
  BY DEF IInv, Typed
<1>5. \A id \in Rows : q[id] # None /\ q[id].state = 1 =>
        \A i \in q[id].js.items : q[id].js.hist[UserSeq[q[id].js.idx]][i] # None
  BY DEF IInv, RowsOk, Covers
<1>6. \A w \in Workers : pc[w] = "idle" <=> job[w] = None
  BY DEF IInv, JobsOk, JobTyped
<1>. QED
  BY <1>1, <1>2, <1>3, <1>4, <1>5, <1>6 DEF TypeOK

----------------------------------------------------------------------------
(* Steps of the web server.                                                *)

\* One worker moves on.
LEMMA WorkerMoves ==
    ASSUME NEW w \in Workers, NEW p \in Steps, NEW j,
           JobTyped(p, j), JobOk(p, j, rec', stock', inv', posted.times'),
           Typed, JobsOk,
           \A v \in Workers \ {w} : JobOk(pc[v], job[v], rec', stock', inv', posted.times'),
           pc' = [pc EXCEPT ![w] = p], job' = [job EXCEPT ![w] = j]
    PROVE  /\ pc' \in [Workers -> Steps] /\ job' \in [Workers -> Jobs \union {None}]
           /\ JobsOk'
<1>1. j \in Jobs \union {None}
  BY Nones
<1>2. pc' \in [Workers -> Steps] /\ job' \in [Workers -> Jobs \union {None}]
  BY <1>1 DEF Typed
<1>3. ASSUME NEW v \in Workers
      PROVE  /\ JobTyped(pc'[v], job'[v])
             /\ JobOk(pc'[v], job'[v], rec', stock', inv', posted.times')
  <2>1. CASE v = w
    <3>1. pc'[v] = p /\ job'[v] = j
      BY <2>1 DEF Typed
    <3>. QED
      BY <3>1
  <2>2. CASE v # w
    <3>1. pc'[v] = pc[v] /\ job'[v] = job[v]
      BY <2>2 DEF Typed
    <3>. QED
      BY <2>2, <3>1 DEF JobsOk
  <2>. QED
    BY <2>1, <2>2
<1>. QED
  BY <1>2, <1>3 DEF JobsOk

\* What is settled stays so while rows, service and quantities do.
LEMMA SettledStays ==
    ASSUME IInv, UNCHANGED <<q, svc, posted, inv, stock>>
    PROVE  SettledOk'
<1>1. \A n \in Rows : (Settled(n)' <=> Settled(n)) /\ (Right(n)' <=> Right(n))
  BY DEF Settled, Done, Right, Used
<1>. QED
  BY <1>1 DEF IInv, SettledOk

\* Nothing but what a worker has at hand changes, and the table of items.
LEMMA LocalStep ==
    ASSUME IInv, NEW w \in Workers, NEW p \in Steps, NEW j,
           JobTyped(p, j), JobOk(p, j, rec, stock, inv, posted.times),
           pc' = [pc EXCEPT ![w] = p], job' = [job EXCEPT ![w] = j],
           items' \subseteq Items,
           UNCHANGED <<rec, hist, q, posVars, svcVars>>
    PROVE  IInv'
<1>. USE DEF posVars, svcVars
<1>1. \A v \in Workers : JobOk(pc[v], job[v], rec', stock', inv', posted.times')
  BY DEF IInv, JobsOk
<1>2. JobOk(p, j, rec', stock', inv', posted.times')
  OBVIOUS
<1>3. /\ pc' \in [Workers -> Steps] /\ job' \in [Workers -> Jobs \union {None}]
      /\ JobsOk'
  BY <1>1, <1>2, WorkerMoves DEF IInv
<1>4. Typed'
  BY <1>3 DEF IInv, Typed
<1>5. RecOk' /\ FreshRows(hist', stock', inv', posted.times') /\ RowsOk'
  BY DEF IInv, RecOk, RowsOk
<1>6. LiveRowsLinked' /\ ListSent'
  BY DEF IInv, LiveRowsLinked, ListSent
<1>7. SvcOk'
  BY DEF IInv, SvcOk, EntryOf
<1>8. SettledOk'
  BY SettledStays
<1>. QED
  BY <1>3, <1>4, <1>5, <1>6, <1>7, <1>8 DEF IInv

\* A worker that ends its request has nothing at hand.
LEMMA IdleOk ==
    ASSUME NEW r, NEW store, NEW now, NEW times
    PROVE  JobTyped("idle", None) /\ JobOk("idle", None, r, store, now, times) /\ "idle" \in Steps
  BY DEF JobTyped, JobOk, Steps

\* A request that ends has nothing at hand.
LEMMA FinishKeeps ==
    ASSUME IInv, NEW w \in Workers, Finish(w), items' \subseteq Items,
           UNCHANGED <<rec, hist, q, posVars, svcVars>>
    PROVE  IInv'
  BY LocalStep, IdleOk DEF Finish

\* A request that goes on has at hand what its statement needs.
LEMMA GoToKeeps ==
    ASSUME IInv, NEW w \in Workers, NEW p \in Steps, NEW j, GoTo(w, p, j),
           JobTyped(p, j), JobOk(p, j, rec, stock, inv, posted.times), items' \subseteq Items,
           UNCHANGED <<rec, hist, q, posVars, svcVars>>
    PROVE  IInv'
  BY LocalStep DEF GoTo

\* The steps of a save behind the record, and those of a count before the last.
LEMMA ManageKeeps ==
    ASSUME IInv, NEW w \in Workers, DropItems(w) \/ AddItems(w) PROVE IInv'
<1>1. items \subseteq Items /\ (pc[w] \in {"dropItems", "addItems"} => job[w] \in [l : SUBSET Items])
  BY DEF IInv, Typed, JobsOk, JobTyped
<1>2. CASE DropItems(w)
  <2>1. job[w] \in [l : SUBSET Items] /\ items' \subseteq Items /\ GoTo(w, "addItems", job[w])
        /\ UNCHANGED <<rec, hist, q, posVars, svcVars>>
    BY <1>1, <1>2 DEF DropItems
  <2>2. JobTyped("addItems", job[w]) /\ "addItems" \in Steps
    BY <2>1, Nones DEF JobTyped, Steps
  <2>3. JobOk("addItems", job[w], rec, stock, inv, posted.times)
    BY DEF JobOk
  <2>. QED
    BY <2>1, <2>2, <2>3, GoToKeeps
<1>3. CASE AddItems(w)
  <2>1. items' \subseteq Items /\ Finish(w) /\ UNCHANGED <<rec, hist, q, posVars, svcVars>>
    BY <1>1, <1>3 DEF AddItems
  <2>. QED
    BY <2>1, FinishKeeps
<1>. QED
  BY <1>2, <1>3

\* A user counts what is in the store.
LEMMA CountKeeps ==
    ASSUME IInv, NEW w \in Workers,
           (\E u \in Users, i \in Items : \E n \in 0..stock[i] : Count(w, u, i, n)) \/ CheckRecord(w) \/ ReadItem(w)
    PROVE  IInv'
<1>1. /\ items \subseteq Items /\ stock \in [Items -> Nat] /\ mirror \in [Items -> Int]
      /\ pc[w] \in {"counted", "item"} => job[w] \in [u : Users, i : Items, qty : Int, at : Nat]
  BY DEF IInv, Typed, JobsOk, JobTyped
<1>2. \A p \in {"counted", "item", "store"} :
          p \in Steps /\ \A j : JobOk(p, j, rec, stock, inv, posted.times)
  BY DEF JobOk, Steps
<1>3. ASSUME NEW u \in Users, NEW i \in Items, NEW n \in 0..stock[i], Count(w, u, i, n)
      PROVE  IInv'
  <2>. DEFINE j == [u |-> u, i |-> i, qty |-> n, at |-> stock[i]]
  <2>1. GoTo(w, "counted", j) /\ items' \subseteq Items
        /\ UNCHANGED <<rec, hist, q, posVars, svcVars>>
    BY <1>1, <1>3 DEF Count, docVars
  <2>2. j \in [u : Users, i : Items, qty : Int, at : Nat]
    BY <1>1
  <2>. HIDE DEF j
  <2>3. JobTyped("counted", j)
    BY <2>2, Nones DEF JobTyped
  <2>. QED
    BY <1>2, <2>1, <2>3, GoToKeeps
<1>4. CASE CheckRecord(w)
  <2>1. /\ job[w] \in [u : Users, i : Items, qty : Int, at : Nat] /\ items' \subseteq Items
        /\ GoTo(w, "item", job[w]) \/ Finish(w)
        /\ UNCHANGED <<rec, hist, q, posVars, svcVars>>
    BY <1>1, <1>4 DEF CheckRecord, docVars
  <2>2. JobTyped("item", job[w])
    BY <2>1, Nones DEF JobTyped
  <2>. QED
    BY <1>2, <2>1, <2>2, GoToKeeps, FinishKeeps
<1>5. CASE ReadItem(w)
  <2>. DEFINE j == job[w]
              k == [u |-> j.u, i |-> j.i, qty |-> j.qty, at |-> j.at, cur |-> mirror[j.i]]
  <2>1. /\ j \in [u : Users, i : Items, qty : Int, at : Nat] /\ items' \subseteq Items
        /\ GoTo(w, "store", k) \/ Finish(w)
        /\ UNCHANGED <<rec, hist, q, posVars, svcVars>>
    BY <1>1, <1>5 DEF ReadItem, docVars
  <2>2. k \in [u : Users, i : Items, qty : Int, at : Nat, cur : Int]
    BY <1>1, <2>1
  <2>. HIDE DEF k
  <2>3. JobTyped("store", k)
    BY <2>2, Nones DEF JobTyped
  <2>. QED
    BY <1>2, <2>1, <2>3, GoToKeeps, FinishKeeps
<1>. QED
  BY <1>3, <1>4, <1>5

\* count_cmp.
LEMMA LookRecordKeeps == ASSUME IInv, NEW w \in Workers, LookRecord(w) PROVE IInv'
<1>. DEFINE j == [rev |-> rec.rev, qid |-> rec.qid]
<1>1. rec # None /\ items' \subseteq Items /\ GoTo(w, "lookItems", j)
      /\ UNCHANGED <<rec, hist, q, posVars, svcVars>>
  BY DEF LookRecord, docVars, IInv, Typed
<1>2. rec.rev \in 1 .. MaxRev + 1 /\ rec.qid \in 0..MaxRow /\ rec.rev \in Int
  BY <1>1, RecordParts DEF IInv
<1>3. j \in [rev : 1 .. MaxRev + 1, qid : 0..MaxRow] /\ j.rev = rec.rev /\ j.qid = rec.qid
  BY <1>2
<1>. HIDE DEF j
<1>4. JobTyped("lookItems", j) /\ "lookItems" \in Steps
  BY <1>3, Nones DEF JobTyped, Steps
<1>5. JobOk("lookItems", j, rec, stock, inv, posted.times)
  BY <1>1, <1>2, <1>3 DEF JobOk, NoNewer, Linked
<1>. QED
  BY <1>1, <1>4, <1>5, GoToKeeps

\* The items that are read are those of the list, or the look is torn.
LEMMA LookItemsKeeps == ASSUME IInv, NEW w \in Workers, LookItems(w) PROVE IInv'
<1>. DEFINE j == job[w]
            k == [rev |-> j.rev, qid |-> j.qid, items |-> items,
                  torn |-> rec # None /\ items # rec.list]
<1>1. /\ pc[w] = "lookItems" /\ items \subseteq Items
      /\ items' \subseteq Items /\ GoTo(w, "lookHist", k)
      /\ UNCHANGED <<rec, hist, q, posVars, svcVars>>
  BY DEF LookItems, docVars, IInv, Typed
<1>2. /\ j \in [rev : 1 .. MaxRev + 1, qid : 0..MaxRow]
      /\ NoNewer(j, rec) /\ (j.qid # 0 => Linked(j.qid, rec))
  BY <1>1 DEF IInv, JobsOk, JobTyped, JobOk
<1>3. /\ k \in [rev : 1 .. MaxRev + 1, qid : 0..MaxRow, items : SUBSET Items, torn : BOOLEAN]
      /\ k.rev = j.rev /\ k.qid = j.qid /\ k.items = items
      /\ k.torn = (rec # None /\ items # rec.list)
  BY <1>1, <1>2
<1>. HIDE DEF k
<1>4. JobTyped("lookHist", k) /\ "lookHist" \in Steps
  BY <1>3, Nones DEF JobTyped, Steps
<1>5. NoNewer(k, rec) /\ (k.qid # 0 => Linked(k.qid, rec)) /\ FromList(k, rec)
  BY <1>2, <1>3 DEF NoNewer, FromList
<1>6. JobOk("lookHist", k, rec, stock, inv, posted.times)
  BY <1>5 DEF JobOk
<1>. QED
  BY <1>1, <1>4, <1>6, GoToKeeps

\* What the rows of a user and an item come to is an entry; while POS has taken
\* nothing, a true one says by how much POS is wrong.
LEMMA TallyEntry ==
    ASSUME IInv, NEW u \in Users, NEW i \in Items
    PROVE  /\ Tally(hist[u][i]) \in Entries \union {None}
           /\ posted.times = 0 /\ Tally(hist[u][i]) # None /\ Tally(hist[u][i]).true
                  => Tally(hist[u][i]).qty - Tally(hist[u][i]).cur = stock[i] - inv[i]
<1>. DEFINE c == hist[u][i]
            last == c.rows[Len(c.rows)]
            e == [qty |-> c.sum, cur |-> last.cur, true |-> last.fresh /\ c.sum = last.at]
<1>1. c \in [rows : Seq(Counts), sum : Int]
  BY DEF IInv, Typed
<1>2. CASE c.rows = <<>>
  BY <1>2 DEF Tally
<1>3. CASE c.rows # <<>>
  <2>1. Tally(c) = e
    BY <1>3 DEF Tally
  <2>2. Len(c.rows) \in DOMAIN c.rows /\ last \in Counts
    BY <1>1, <1>3
  <2>3. /\ e \in Entries /\ e.qty = c.sum /\ e.cur = last.cur
        /\ e.true => last.fresh /\ c.sum = last.at
    BY <1>1, <2>2 DEF Entries, Counts
  <2>4. posted.times = 0 /\ last.fresh => last.at - last.cur = stock[i] - inv[i]
    BY <2>2 DEF IInv, FreshRows
  <2>. HIDE DEF e, last, c
  <2>5. posted.times = 0 /\ e.true => e.qty - e.cur = stock[i] - inv[i]
    BY <2>3, <2>4
  <2>. QED
    BY <2>1, <2>3, <2>5 DEF c
<1>. QED
  BY <1>2, <1>3

\* Only a user who has counted every item is chosen.
LEMMA LookHistKeeps ==
    ASSUME IInv, NEW w \in Workers, NEW k \in DOMAIN UserSeq, LookHist(w, k) PROVE IInv'
<1>. DEFINE j == job[w]
            h == [u \in Users |->
                     [i \in Items |-> IF i \in j.items THEN Tally(hist[u][i]) ELSE None]]
            look == [rev |-> j.rev, qid |-> j.qid, items |-> j.items, hist |-> h,
                     idx |-> k, torn |-> j.torn]
            step == IF j.qid = 0 THEN "insert" ELSE "put"
<1>1. /\ pc[w] = "lookHist" /\ items' \subseteq Items
      /\ UNCHANGED <<rec, hist, q, posVars, svcVars>>
  BY DEF LookHist, docVars, IInv, Typed
<1>2. CASE Finish(w)
  BY <1>1, <1>2, FinishKeeps
<1>3. CASE ~Finish(w)
  <2>1. /\ GoTo(w, step, look)
        /\ \/ \A i \in j.items : Agree(h, i) /\ k = 1
           \/ Complete(h, j.items, k)
    BY <1>3 DEF LookHist
  <2>2. /\ j \in [rev : 1 .. MaxRev + 1, qid : 0..MaxRow, items : SUBSET Items, torn : BOOLEAN]
        /\ NoNewer(j, rec) /\ (j.qid # 0 => Linked(j.qid, rec)) /\ FromList(j, rec)
    BY <1>1 DEF IInv, JobsOk, JobTyped, JobOk
  <2>3. h \in [Users -> [Items -> Entries \union {None}]]
    BY TallyEntry
  <2>4. TrueCounts(h, stock, inv, posted.times)
    BY TallyEntry DEF TrueCounts
  <2>. HIDE DEF h
  <2>5. /\ look \in Looks
        /\ look.rev = j.rev /\ look.qid = j.qid /\ look.items = j.items
        /\ look.hist = h /\ look.idx = k /\ look.torn = j.torn
    BY <2>2, <2>3 DEF Looks
  <2>6. \A i \in j.items : h[UserSeq[k]][i] # None
    BY <2>1 DEF Agree, Complete
  <2>. HIDE DEF look
  <2>7. Covers(look)
    BY <2>5, <2>6 DEF Covers
  <2>8. NoNewer(look, rec) /\ (look.qid # 0 => Linked(look.qid, rec)) /\ FromList(look, rec)
    BY <2>2, <2>5 DEF NoNewer, FromList
  <2>9. TrueCounts(look.hist, stock, inv, posted.times)
    BY <2>4, <2>5
  <2>10. JobTyped(step, look) /\ step \in Steps
    BY <2>5, Nones DEF JobTyped, Steps
  <2>11. JobOk(step, look, rec, stock, inv, posted.times)
    BY <2>5, <2>7, <2>8, <2>9 DEF JobOk
  <2>. QED
    BY <1>1, <2>1, <2>10, <2>11, GoToKeeps
<1>. QED
  BY <1>2, <1>3

\* The new row is nobody's and cannot be sent.
LEMMA InsertRowKeeps == ASSUME IInv, NEW w \in Workers, InsertRow(w) PROVE IInv'
<1>. DEFINE new == [state |-> 2, errno |-> -99, js |-> None]
<1>1. PICK id \in Rows :
        /\ q[id] = None
        /\ q' = [q EXCEPT ![id] = new]
        /\ GoTo(w, "link", [look |-> job[w], id |-> id])
  BY DEF InsertRow
<1>2. /\ pc[w] = "insert" /\ UNCHANGED <<rec, items, hist, posVars, svcVars>>
  BY DEF InsertRow, docVars
<1>3. /\ new \in Orders /\ new # None /\ new.state = 2 /\ new.errno = -99 /\ new.js = None
  <2>1. new \in Orders
    BY DEF Orders
  <2>. QED
    BY <2>1, Nones
<1>. HIDE DEF new
<1>4. /\ q' \in [Rows -> Orders \union {None}] /\ q'[id] = new
      /\ \A n \in Rows : n # id => q'[n] = q[n]
  BY <1>1, <1>3 DEF IInv, Typed
<1>5. JobsOk' /\ pc' \in [Workers -> Steps] /\ job' \in [Workers -> Jobs \union {None}]
  <2>. DEFINE k == [look |-> job[w], id |-> id]
  <2>1. JobTyped("insert", job[w]) /\ JobOk("insert", job[w], rec, stock, inv, posted.times)
    BY <1>2 DEF IInv, JobsOk
  <2>2. k \in [look : Looks, id : Rows] /\ k.look = job[w] /\ k.id = id
    BY <2>1 DEF JobTyped
  <2>. HIDE DEF k
  <2>3. JobTyped("link", k) /\ "link" \in Steps
    BY <2>2, Nones DEF JobTyped, Steps
  <2>4. JobOk("link", k, rec', stock', inv', posted'.times)
    BY <1>2, <2>1, <2>2 DEF JobOk, posVars, svcVars
  <2>5. \A v \in Workers : JobOk(pc[v], job[v], rec', stock', inv', posted'.times)
    BY <1>2 DEF IInv, JobsOk, posVars, svcVars
  <2>6. pc' = [pc EXCEPT ![w] = "link"] /\ job' = [job EXCEPT ![w] = k]
    BY <1>1 DEF GoTo, k
  <2>. QED
    BY <2>3, <2>4, <2>5, <2>6, WorkerMoves DEF IInv
<1>6. Typed'
  BY <1>2, <1>4, <1>5 DEF IInv, Typed, posVars, svcVars
<1>7. RecOk' /\ FreshRows(hist', stock', inv', posted'.times)
  BY <1>2 DEF IInv, RecOk, posVars, svcVars
<1>8. RowsOk'
  BY <1>2, <1>3, <1>4 DEF IInv, RowsOk, posVars, svcVars
<1>9. LiveRowsLinked' /\ ListSent'
  BY <1>2, <1>3, <1>4 DEF IInv, LiveRowsLinked, ListSent
<1>10. SvcOk'
  BY <1>1, <1>2, <1>4 DEF IInv, SvcOk, EntryOf, svcVars
<1>11. SettledOk'
  <2>1. ASSUME NEW n \in Rows, Settled(n)' PROVE posted'.times # 0 /\ Right(n)'
    <3>1. n # id
      BY <1>1, <1>2, <1>3, <1>4, <2>1 DEF IInv, SvcOk, Settled, Done, svcVars
    <3>2. q'[n] = q[n]
      BY <1>4, <3>1
    <3>3. Settled(n)
      BY <1>2, <2>1, <3>2 DEF Settled, Done, svcVars
    <3>4. posted.times # 0 /\ Right(n)
      BY <3>3 DEF IInv, SettledOk
    <3>. QED
      BY <1>2, <3>2, <3>4 DEF Right, Used, svcVars, posVars
  <2>. QED
    BY <2>1 DEF SettledOk
<1>. QED
  BY <1>5, <1>6, <1>7, <1>8, <1>9, <1>10, <1>11 DEF IInv

\* A record that is not linked has no rows that were ever sent.
LEMMA NothingSent ==
    ASSUME Typed, RowsOk, LiveRowsLinked, rec = None \/ rec.qid = 0
    PROVE  \A id \in Rows : q[id] # None => q[id].state # 1 /\ q[id].errno = -99 /\ q[id].js = None
<1>1. \A id \in Rows : id # 0
  BY Bounds DEF Rows
<1>. QED
  BY <1>1 DEF RowsOk, LiveRowsLinked

\* The record goes on to another revision, and perhaps to a row.
LEMMA JobAfterNewRevision ==
    ASSUME Typed, rec # None, rec.qid = 0, NEW r, r # None => r.rev = rec.rev + 1,
           NEW p, NEW j, JobTyped(p, j), JobOk(p, j, rec, stock, inv, posted.times)
    PROVE  JobOk(p, j, r, stock, inv, posted.times)
<1>1. rec.rev \in Int
  BY RecordParts
<1>2. ASSUME NEW look, look.rev \in 1 .. MaxRev + 1, NoNewer(look, rec)
      PROVE  NoNewer(look, r) /\ (look.qid = 0 => FromList(look, r))
  <2>1. look.rev \in Int /\ look.rev <= rec.rev
    BY <1>2, Bounds DEF NoNewer
  <2>. QED
    BY <1>1, <2>1 DEF NoNewer, FromList
<1>3. \A id : id # 0 => ~Linked(id, rec)
  BY DEF Linked
<1>4. CASE p \in {"lookItems", "lookHist"}
  <2>1. j.rev \in 1 .. MaxRev + 1 /\ NoNewer(j, rec) /\ j.qid = 0
    BY <1>3, <1>4 DEF JobTyped, JobOk
  <2>. QED
    BY <1>2, <1>4, <2>1 DEF JobOk
<1>5. CASE p = "insert"
  <2>1. j.rev \in 1 .. MaxRev + 1 /\ NoNewer(j, rec) /\ j.qid = 0
    BY <1>5 DEF JobTyped, JobOk, Looks
  <2>. QED
    BY <1>2, <1>5, <2>1 DEF JobOk
<1>6. CASE p = "link"
  <2>1. j.look.rev \in 1 .. MaxRev + 1 /\ NoNewer(j.look, rec) /\ j.look.qid = 0
    BY <1>6 DEF JobTyped, JobOk, Looks
  <2>. QED
    BY <1>2, <1>6, <2>1 DEF JobOk
<1>7. CASE p = "put"
  BY <1>3, <1>7 DEF JobOk
<1>8. CASE p \notin {"lookItems", "lookHist", "insert", "link", "put"}
  BY <1>8 DEF JobOk
<1>. QED
  BY <1>4, <1>5, <1>6, <1>7, <1>8

\* What is about rows and counts stays while the record changes that is not
\* linked to a row.
LEMMA RecordStep ==
    ASSUME IInv, rec # None, rec.qid = 0, rec' \in Records \union {None}, RecOk', JobsOk',
           pc' \in [Workers -> Steps], job' \in [Workers -> Jobs \union {None}],
           UNCHANGED <<items, hist, q, posVars, svcVars>>
    PROVE  IInv'
<1>. USE DEF posVars, svcVars
<1>1. Typed'
  BY DEF IInv, Typed
<1>2. FreshRows(hist', stock', inv', posted'.times) /\ RowsOk'
  BY DEF IInv, RowsOk
<1>3. \A id \in Rows : q[id] # None => q[id].state # 1 /\ q[id].errno = -99 /\ q[id].js = None
  BY NothingSent DEF IInv
<1>4. LiveRowsLinked' /\ ListSent'
  BY <1>3 DEF LiveRowsLinked, ListSent
<1>5. SvcOk'
  BY DEF IInv, SvcOk, EntryOf
<1>6. SettledOk'
  BY SettledStays
<1>. QED
  BY <1>1, <1>2, <1>4, <1>5, <1>6 DEF IInv

\* A save of the list makes every earlier look an old one.
LEMMA SaveRecordKeeps ==
    ASSUME IInv, NEW w \in Workers, NEW l \in SUBSET Items, NEW enable \in BOOLEAN,
           SaveRecord(w, l, enable)
    PROVE  IInv'
<1>1. /\ rec # None /\ rec.qid = 0 /\ rec.rev < MaxRev
      /\ rec' = [rec EXCEPT !.rev = rec.rev + 1, !.enable = enable, !.list = l]
      /\ GoTo(w, "dropItems", [l |-> l])
      /\ UNCHANGED <<items, hist, q, posVars, svcVars>>
  BY DEF SaveRecord
<1>2. rec \in Records /\ rec.rev \in 1 .. MaxRev + 1 /\ rec.rev \in Int
  BY <1>1, RecordParts DEF IInv
<1>3. rec.rev + 1 \in 1 .. MaxRev + 1 /\ rec.rev + 1 <= MaxRev
  BY <1>1, <1>2, Bounds
<1>4. rec' \in Records /\ rec'.rev = rec.rev + 1 /\ rec'.qid = 0
  BY <1>1, <1>2, <1>3 DEF Records
<1>5. RecOk'
  BY <1>3, <1>4 DEF RecOk
<1>6. JobTyped("dropItems", [l |-> l]) /\ "dropItems" \in Steps
  BY Nones DEF JobTyped, Steps
<1>7. JobOk("dropItems", [l |-> l], rec', stock', inv', posted'.times)
  BY DEF JobOk
<1>8. \A v \in Workers : JobOk(pc[v], job[v], rec', stock, inv, posted.times)
  BY <1>1, <1>4, JobAfterNewRevision DEF IInv, JobsOk
<1>9. \A v \in Workers : JobOk(pc[v], job[v], rec', stock', inv', posted'.times)
  BY <1>1, <1>8 DEF posVars, svcVars
<1>10. JobsOk' /\ pc' \in [Workers -> Steps] /\ job' \in [Workers -> Jobs \union {None}]
  BY <1>1, <1>6, <1>7, <1>9, WorkerMoves DEF IInv, GoTo
<1>. QED
  BY <1>1, <1>4, <1>5, <1>10, RecordStep

\* A deleted list cannot be linked any more.
LEMMA DelRecordKeeps == ASSUME IInv, NEW w \in Workers, DelRecord(w) PROVE IInv'
<1>1. /\ rec # None /\ rec.qid = 0 /\ rec' = None
      /\ GoTo(w, "dropHist", [l |-> {}])
      /\ UNCHANGED <<items, hist, q, posVars, svcVars>>
  BY DEF DelRecord
<1>2. RecOk'
  BY <1>1 DEF RecOk
<1>3. JobTyped("dropHist", [l |-> {}]) /\ "dropHist" \in Steps
  BY Nones DEF JobTyped, Steps
<1>4. JobOk("dropHist", [l |-> {}], rec', stock', inv', posted'.times)
  BY DEF JobOk
<1>5. \A v \in Workers : JobOk(pc[v], job[v], rec', stock, inv, posted.times)
  BY <1>1, JobAfterNewRevision DEF IInv, JobsOk
<1>6. \A v \in Workers : JobOk(pc[v], job[v], rec', stock', inv', posted'.times)
  BY <1>1, <1>5 DEF posVars, svcVars
<1>7. JobsOk' /\ pc' \in [Workers -> Steps] /\ job' \in [Workers -> Jobs \union {None}]
  BY <1>1, <1>3, <1>4, <1>6, WorkerMoves DEF IInv, GoTo
<1>. QED
  BY <1>1, <1>2, <1>7, RecordStep

\* Only the first of two managers gets the record.
LEMMA LinkRowKeeps == ASSUME IInv, NEW w \in Workers, LinkRow(w) PROVE IInv'
<1>. DEFINE j == job[w]
            look == j.look
            k == [look EXCEPT !.qid = j.id]
<1>1. pc[w] = "link" /\ UNCHANGED <<items, hist, q, posVars, svcVars>>
  BY DEF LinkRow
<1>2. CASE ~MayLink(look)
  <2>1. Finish(w) /\ rec' = rec /\ items' \subseteq Items
    BY <1>2, <1>1 DEF LinkRow, IInv, Typed
  <2>. QED
    BY <1>1, <2>1, FinishKeeps
<1>3. CASE MayLink(look)
  <2>1. /\ rec # None /\ rec.rev = look.rev /\ rec.qid = 0
        /\ rec' = [rec EXCEPT !.rev = rec.rev + 1, !.qid = j.id]
        /\ GoTo(w, "put", k)
    BY <1>3 DEF LinkRow, MayLink
  <2>2. /\ look \in Looks /\ j.id \in Rows /\ look.qid = 0
        /\ FromList(look, rec) /\ Covers(look)
        /\ TrueCounts(look.hist, stock, inv, posted.times)
    BY <1>1 DEF IInv, JobsOk, JobTyped, JobOk
  <2>3. rec \in Records /\ rec.rev \in Int /\ rec.rev \in 1 .. MaxRev + 1
    BY <2>1, RecordParts DEF IInv
  <2>4. rec.rev + 1 \in 1 .. MaxRev + 1
    BY <2>1, <2>3, Bounds DEF IInv, RecOk
  <2>5. j.id \in 0..MaxRow /\ j.id # 0
    BY <2>2, Bounds DEF Rows
  <2>6. /\ rec' \in Records /\ rec'.rev = rec.rev + 1 /\ rec'.qid = j.id /\ rec'.list = rec.list
        /\ rec' # None
    <3>1. /\ rec' \in Records /\ rec'.rev = rec.rev + 1 /\ rec'.qid = j.id
          /\ rec'.list = rec.list
      BY <2>1, <2>3, <2>4, <2>5 DEF Records
    <3>. QED
      BY <3>1, Nones
  <2>7. RecOk'
    BY <2>5, <2>6 DEF RecOk
  <2>8. /\ k \in Looks /\ k.qid = j.id /\ k.items = look.items /\ k.hist = look.hist
        /\ k.idx = look.idx /\ k.torn = look.torn
    BY <2>2, <2>5 DEF Looks
  <2>. HIDE DEF k
  <2>9. JobTyped("put", k) /\ "put" \in Steps
    BY <2>8, Nones DEF JobTyped, Steps
  <2>10. FromList(k, rec') /\ Covers(k) /\ Linked(k.qid, rec') /\ k.qid # 0
    BY <2>1, <2>2, <2>5, <2>6, <2>8 DEF FromList, Covers, Linked
  <2>11. TrueCounts(k.hist, stock', inv', posted'.times)
    BY <1>1, <2>2, <2>8 DEF posVars, svcVars
  <2>12. JobOk("put", k, rec', stock', inv', posted'.times)
    BY <2>10, <2>11 DEF JobOk
  <2>13. \A v \in Workers : JobOk(pc[v], job[v], rec', stock, inv, posted.times)
    BY <2>1, <2>6, JobAfterNewRevision DEF IInv, JobsOk
  <2>14. \A v \in Workers : JobOk(pc[v], job[v], rec', stock', inv', posted'.times)
    BY <1>1, <2>13 DEF posVars, svcVars
  <2>15. JobsOk' /\ pc' \in [Workers -> Steps] /\ job' \in [Workers -> Jobs \union {None}]
    BY <2>1, <2>9, <2>12, <2>14, WorkerMoves DEF IInv, GoTo
  <2>. QED
    BY <1>1, <2>1, <2>6, <2>7, <2>15, RecordStep
<1>. QED
  BY <1>2, <1>3

\* The counts go into the row that is linked, unless it is pending or done.
LEMMA PutCountsKeeps == ASSUME IInv, NEW w \in Workers, PutCounts(w) PROVE IInv'
<1>. DEFINE j == job[w]
            id == j.qid
            new == [state |-> 1, errno |-> 0, js |-> j]
<1>1. pc[w] = "put" /\ Finish(w) /\ UNCHANGED <<rec, items, hist, posVars, svcVars>>
  BY DEF PutCounts, docVars
<1>2. /\ j \in Looks /\ id # 0 /\ Linked(id, rec) /\ FromList(j, rec)
      /\ Covers(j) /\ TrueCounts(j.hist, stock, inv, posted.times)
  BY <1>1 DEF IInv, JobsOk, JobTyped, JobOk
<1>3. CASE ~(q[id].state = 2 /\ q[id].errno # 0)
  <2>1. q' = q /\ items' \subseteq Items
    BY <1>1, <1>3 DEF PutCounts, IInv, Typed
  <2>. QED
    BY <1>1, <2>1, FinishKeeps
<1>4. CASE q[id].state = 2 /\ q[id].errno # 0
  <2>1. q' = [q EXCEPT ![id] = new]
    BY <1>4 DEF PutCounts
  <2>2. id \in Rows
    BY <1>2, Bounds DEF Looks, Rows
  <2>3. new \in Orders /\ new # None /\ new.state = 1 /\ new.errno = 0 /\ new.js = j /\ j # None
    <3>1. new \in Orders
      BY <1>2 DEF Orders
    <3>. QED
      BY <1>2, <3>1, Nones
  <2>. HIDE DEF new
  <2>4. /\ q' \in [Rows -> Orders \union {None}] /\ q'[id] = new
        /\ \A n \in Rows : n # id => q'[n] = q[n]
    BY <2>1, <2>2, <2>3 DEF IInv, Typed
  <2>5. \A v \in Workers : JobOk(pc[v], job[v], rec', stock', inv', posted'.times)
    BY <1>1 DEF IInv, JobsOk, posVars, svcVars
  <2>6. JobsOk' /\ pc' \in [Workers -> Steps] /\ job' \in [Workers -> Jobs \union {None}]
    <3>1. /\ JobTyped("idle", None) /\ "idle" \in Steps
          /\ JobOk("idle", None, rec', stock', inv', posted'.times)
      BY IdleOk
    <3>2. pc' = [pc EXCEPT ![w] = "idle"] /\ job' = [job EXCEPT ![w] = None]
      BY <1>1 DEF Finish
    <3>. QED
      BY <2>5, <3>1, <3>2, WorkerMoves DEF IInv
  <2>7. Typed'
    BY <1>1, <2>4, <2>6 DEF IInv, Typed, posVars, svcVars
  <2>8. RecOk' /\ FreshRows(hist', stock', inv', posted'.times)
    BY <1>1 DEF IInv, RecOk, posVars, svcVars
  <2>9. RowsOk'
    BY <1>1, <1>2, <2>3, <2>4 DEF IInv, RowsOk, posVars, svcVars
  <2>10. LiveRowsLinked'
    BY <1>1, <1>2, <2>4 DEF IInv, LiveRowsLinked, Linked
  <2>11. ListSent'
    BY <1>1, <1>2, <2>3, <2>4 DEF IInv, ListSent, FromList, Linked
  <2>12. svc # None => svc.id # id
    BY <1>4 DEF IInv, SvcOk
  <2>13. SvcOk'
    BY <1>1, <2>4, <2>12 DEF IInv, SvcOk, EntryOf, svcVars
  <2>14. SettledOk'
    <3>1. ASSUME NEW n \in Rows, Settled(n)' PROVE posted'.times # 0 /\ Right(n)'
      <4>1. n # id
        BY <1>1, <2>3, <2>4, <2>12, <3>1 DEF Settled, Done, svcVars
      <4>2. q'[n] = q[n]
        BY <2>4, <4>1
      <4>3. Settled(n)
        BY <1>1, <3>1, <4>2 DEF Settled, Done, svcVars
      <4>4. posted.times # 0 /\ Right(n)
        BY <4>3 DEF IInv, SettledOk
      <4>. QED
        BY <1>1, <4>2, <4>4 DEF Right, Used, svcVars, posVars
    <3>. QED
      BY <3>1 DEF SettledOk
  <2>. QED
    BY <2>6, <2>7, <2>8, <2>9, <2>10, <2>11, <2>13, <2>14 DEF IInv
<1>. QED
  BY <1>3, <1>4

\* Counts are stored or removed.
LEMMA HistStep ==
    ASSUME IInv, hist' \in [Users -> [Items -> [rows : Seq(Counts), sum : Int]]],
           FreshRows(hist', stock, inv, posted.times), JobsOk',
           pc' \in [Workers -> Steps], job' \in [Workers -> Jobs \union {None}],
           UNCHANGED <<rec, items, q, posVars, svcVars>>
    PROVE  IInv'
<1>. USE DEF posVars, svcVars
<1>1. Typed'
  BY DEF IInv, Typed
<1>2. RecOk' /\ FreshRows(hist', stock', inv', posted'.times) /\ RowsOk'
  BY DEF IInv, RecOk, RowsOk
<1>3. LiveRowsLinked' /\ ListSent'
  BY DEF IInv, LiveRowsLinked, ListSent
<1>4. SvcOk'
  BY DEF IInv, SvcOk, EntryOf
<1>5. SettledOk'
  BY SettledStays
<1>. QED
  BY <1>1, <1>2, <1>3, <1>4, <1>5 DEF IInv

\* What workers have at hand when one of them ends its request and neither the
\* record nor quantities change.
LEMMA OneFinishes ==
    ASSUME IInv, NEW w \in Workers, Finish(w), UNCHANGED <<rec, posVars, svcVars>>
    PROVE  JobsOk' /\ pc' \in [Workers -> Steps] /\ job' \in [Workers -> Jobs \union {None}]
<1>1. /\ JobTyped("idle", None) /\ "idle" \in Steps
      /\ JobOk("idle", None, rec', stock', inv', posted'.times)
  BY IdleOk
<1>2. \A v \in Workers : JobOk(pc[v], job[v], rec', stock', inv', posted'.times)
  BY DEF IInv, JobsOk, posVars, svcVars
<1>3. pc' = [pc EXCEPT ![w] = "idle"] /\ job' = [job EXCEPT ![w] = None]
  BY DEF Finish
<1>. QED
  BY <1>1, <1>2, <1>3, WorkerMoves DEF IInv

\* What workers have at hand when none of them does anything, and neither the
\* record nor quantities change.
LEMMA NoneMoves ==
    ASSUME IInv, UNCHANGED <<rec, webVars, posVars, posted>>
    PROVE  JobsOk' /\ pc' \in [Workers -> Steps] /\ job' \in [Workers -> Jobs \union {None}]
  BY DEF IInv, Typed, JobsOk, webVars, posVars

\* Removing counts harms none.
LEMMA DropHistKeeps == ASSUME IInv, NEW w \in Workers, DropHist(w) PROVE IInv'
<1>1. hist' = NoHist /\ Finish(w) /\ UNCHANGED <<rec, items, q, posVars, svcVars>>
  BY DEF DropHist
<1>2. <<>> \in Seq(Counts)
  OBVIOUS
<1>3. hist' \in [Users -> [Items -> [rows : Seq(Counts), sum : Int]]]
  BY <1>1, <1>2 DEF NoHist, NoCounts
<1>4. FreshRows(hist', stock, inv, posted.times)
  BY <1>1 DEF NoHist, NoCounts, FreshRows
<1>. QED
  BY <1>1, <1>3, <1>4, OneFinishes, HistStep

\* The rows of one user and item change to others that are as fresh.
LEMMA RowsStep ==
    ASSUME IInv, NEW u \in Users, NEW i \in Items, NEW rows \in Seq(Counts), NEW sum \in Int,
           hist' = [hist EXCEPT ![u][i] = [rows |-> rows, sum |-> sum]],
           \A n \in DOMAIN rows :
               posted.times = 0 /\ rows[n].fresh => rows[n].at - rows[n].cur = stock[i] - inv[i]
    PROVE  /\ hist' \in [Users -> [Items -> [rows : Seq(Counts), sum : Int]]]
           /\ FreshRows(hist', stock, inv, posted.times)
<1>1. /\ hist \in [Users -> [Items -> [rows : Seq(Counts), sum : Int]]]
      /\ FreshRows(hist, stock, inv, posted.times)
  BY DEF IInv, Typed
<1>. DEFINE c == [rows |-> rows, sum |-> sum]
<1>2. c \in [rows : Seq(Counts), sum : Int] /\ c.rows = rows
  OBVIOUS
<1>. HIDE DEF c
<1>3. hist' = [hist EXCEPT ![u][i] = c]
  BY DEF c
<1>4. hist' \in [Users -> [Items -> [rows : Seq(Counts), sum : Int]]]
  BY <1>1, <1>2, <1>3
<1>5. \A v \in Users, n \in Items :
          hist'[v][n] = IF v = u /\ n = i THEN c ELSE hist[v][n]
  BY <1>1, <1>3
<1>6. FreshRows(hist', stock, inv, posted.times)
  BY <1>1, <1>2, <1>5 DEF FreshRows
<1>. QED
  BY <1>4, <1>6

\* A count is stored with what the mirror said at its look.
LEMMA StoreCountKeeps == ASSUME IInv, NEW w \in Workers, StoreCount(w) PROVE IInv'
<1>. DEFINE j == job[w]
            c == hist[j.u][j.i]
            fresh == j.at - j.cur = stock[j.i] - inv[j.i]
            row == [qty |-> j.qty, cur |-> j.cur, at |-> j.at, fresh |-> fresh]
            rows == Append(c.rows, row)
<1>1. /\ pc[w] = "store"
      /\ Finish(w) /\ UNCHANGED <<rec, items, q, posVars, svcVars>>
  BY DEF StoreCount
<1>2. /\ j \in [u : Users, i : Items, qty : Int, at : Nat, cur : Int]
      /\ hist \in [Users -> [Items -> [rows : Seq(Counts), sum : Int]]]
      /\ FreshRows(hist, stock, inv, posted.times)
  BY <1>1 DEF IInv, Typed, JobsOk, JobTyped
<1>3. hist' = [hist EXCEPT ![j.u][j.i] = [rows |-> rows, sum |-> c.sum + j.qty]]
  BY <1>2 DEF StoreCount
<1>4. /\ j.u \in Users /\ j.i \in Items /\ c.rows \in Seq(Counts) /\ c.sum + j.qty \in Int
      /\ \A n \in DOMAIN c.rows : posted.times = 0 /\ c.rows[n].fresh =>
             c.rows[n].at - c.rows[n].cur = stock[j.i] - inv[j.i]
  BY <1>2 DEF FreshRows
<1>5. /\ row \in Counts
      /\ row.fresh => row.at - row.cur = stock[j.i] - inv[j.i]
  <2>1. fresh \in BOOLEAN
    OBVIOUS
  <2>. HIDE DEF fresh
  <2>2. row \in Counts /\ row.fresh = fresh /\ row.at = j.at /\ row.cur = j.cur
    BY <1>2, <2>1 DEF Counts
  <2>. QED
    BY <2>2 DEF fresh
<1>. HIDE DEF row, c, j
<1>6. /\ rows \in Seq(Counts)
      /\ \A n \in DOMAIN rows : (n \in DOMAIN c.rows /\ rows[n] = c.rows[n]) \/ rows[n] = row
  BY <1>4, <1>5, AppendProperties
<1>. HIDE DEF rows
<1>7. \A n \in DOMAIN rows : posted.times = 0 /\ rows[n].fresh =>
          rows[n].at - rows[n].cur = stock[j.i] - inv[j.i]
  BY <1>4, <1>5, <1>6
<1>8. /\ hist' \in [Users -> [Items -> [rows : Seq(Counts), sum : Int]]]
      /\ FreshRows(hist', stock, inv, posted.times)
  BY <1>3, <1>4, <1>6, <1>7, RowsStep
<1>. QED
  BY <1>1, <1>8, OneFinishes, HistStep

\* Without one of its elements a sequence has the others.
LEMMA RemoveAtProperties ==
    ASSUME NEW S, NEW s \in Seq(S), NEW k \in DOMAIN s
    PROVE  /\ RemoveAt(s, k) \in Seq(S)
           /\ \A n \in DOMAIN RemoveAt(s, k) : \E m \in DOMAIN s : RemoveAt(s, k)[n] = s[m]
<1>. DEFINE a == SubSeq(s, 1, k - 1)
            b == SubSeq(s, k + 1, Len(s))
<1>1. k \in 1..Len(s) /\ Len(s) \in Nat /\ DOMAIN s = 1..Len(s)
  OBVIOUS
<1>2. /\ a \in Seq(S) /\ Len(a) = k - 1
      /\ \A n \in 1 .. Len(a) : a[n] = s[n]
  <2>1. \A i \in 1 .. k - 1 : s[i] \in S
    BY <1>1
  <2>. QED
    BY <1>1, <2>1, SubSeqProperties
<1>3. /\ b \in Seq(S) /\ Len(b) = Len(s) - k
      /\ \A n \in 1 .. Len(b) : b[n] = s[n + k]
  <2>1. \A i \in k + 1 .. Len(s) : s[i] \in S
    BY <1>1
  <2>2. /\ b \in Seq(S)
        /\ Len(b) = IF k + 1 <= Len(s) THEN Len(s) - (k + 1) + 1 ELSE 0
        /\ \A n \in 1 .. Len(s) - (k + 1) + 1 : b[n] = s[k + 1 + n - 1]
    BY <1>1, <2>1, SubSeqProperties
  <2>3. Len(b) = Len(s) - k
    BY <1>1, <2>2
  <2>4. ASSUME NEW n \in 1 .. Len(b) PROVE b[n] = s[n + k]
    <3>1. n \in 1 .. Len(s) - (k + 1) + 1 /\ k + 1 + n - 1 = n + k
      <4>1. k \in Int /\ Len(s) \in Int /\ n \in Int /\ 1 <= n /\ n <= Len(s) - k
        BY <1>1, <2>3
      <4>. HIDE DEF b
      <4>. QED
        BY <4>1
    <3>. QED
      BY <2>2, <3>1
  <2>. QED
    BY <2>2, <2>3, <2>4
<1>. HIDE DEF a, b
<1>4. RemoveAt(s, k) = a \o b
  BY DEF RemoveAt, a, b
<1>5. /\ a \o b \in Seq(S) /\ Len(a \o b) = Len(a) + Len(b)
      /\ \A n \in 1 .. Len(a) + Len(b) :
             (a \o b)[n] = IF n <= Len(a) THEN a[n] ELSE b[n - Len(a)]
  BY <1>2, <1>3, ConcatProperties
<1>6. ASSUME NEW n \in DOMAIN (a \o b) PROVE \E m \in DOMAIN s : (a \o b)[n] = s[m]
  <2>1. n \in 1 .. Len(a) + Len(b)
    BY <1>5
  <2>2. CASE n <= Len(a)
    <3>1. (a \o b)[n] = s[n] /\ n \in DOMAIN s
      BY <1>1, <1>2, <1>3, <1>5, <2>1, <2>2
    <3>. QED
      BY <3>1
  <2>3. CASE ~(n <= Len(a))
    <3>1. n - Len(a) \in 1 .. Len(b) /\ n - Len(a) + k \in DOMAIN s
      BY <1>1, <1>2, <1>3, <2>1, <2>3
    <3>2. (a \o b)[n] = s[n - Len(a) + k]
      BY <1>3, <1>5, <2>1, <2>3, <3>1
    <3>. QED
      BY <3>1, <3>2
  <2>. QED
    BY <2>2, <2>3
<1>. QED
  BY <1>4, <1>5, <1>6

\* A user removes a row of his own.
LEMMA DelHistKeeps ==
    ASSUME IInv, NEW u \in Users, NEW i \in Items, NEW k \in DOMAIN hist[u][i].rows,
           DelHist(u, i, k)
    PROVE  IInv'
<1>. DEFINE c == hist[u][i]
            rows == RemoveAt(c.rows, k)
            sum == c.sum - c.rows[k].qty
<1>1. /\ hist \in [Users -> [Items -> [rows : Seq(Counts), sum : Int]]]
      /\ FreshRows(hist, stock, inv, posted.times)
  BY DEF IInv, Typed
<1>2. /\ hist' = [hist EXCEPT ![u][i] = [rows |-> rows, sum |-> sum]]
      /\ UNCHANGED <<rec, items, q, webVars, posVars, svcVars>>
  BY <1>1 DEF DelHist
<1>3. /\ c.rows \in Seq(Counts) /\ c.sum \in Int /\ k \in DOMAIN c.rows
      /\ \A n \in DOMAIN c.rows : posted.times = 0 /\ c.rows[n].fresh =>
             c.rows[n].at - c.rows[n].cur = stock[i] - inv[i]
  BY <1>1 DEF FreshRows
<1>. HIDE DEF c
<1>4. sum \in Int
  <2>1. c.rows[k] \in Counts
    BY <1>3
  <2>. QED
    BY <1>3, <2>1 DEF Counts
<1>5. /\ rows \in Seq(Counts)
      /\ \A n \in DOMAIN rows : \E m \in DOMAIN c.rows : rows[n] = c.rows[m]
  BY <1>3, RemoveAtProperties
<1>. HIDE DEF rows, sum
<1>6. \A n \in DOMAIN rows : posted.times = 0 /\ rows[n].fresh =>
          rows[n].at - rows[n].cur = stock[i] - inv[i]
  BY <1>3, <1>5
<1>7. /\ hist' \in [Users -> [Items -> [rows : Seq(Counts), sum : Int]]]
      /\ FreshRows(hist', stock, inv, posted.times)
  BY <1>2, <1>4, <1>5, <1>6, RowsStep
<1>8. JobsOk' /\ pc' \in [Workers -> Steps] /\ job' \in [Workers -> Jobs \union {None}]
  BY <1>2, NoneMoves DEF svcVars
<1>. QED
  BY <1>2, <1>7, <1>8, HistStep

\* A worker that ends leaves the tables as they are.
LEMMA CrashKeeps == ASSUME IInv, NEW w \in Workers, Crash(w) PROVE IInv'
<1>1. Finish(w) /\ items' \subseteq Items /\ UNCHANGED <<rec, hist, q, posVars, svcVars>>
  BY DEF Crash, docVars, IInv, Typed
<1>. QED
  BY <1>1, FinishKeeps

----------------------------------------------------------------------------
(* Steps of the service.                                                   *)

\* The row the service works on.
LEMMA PendingRow ==
    ASSUME IInv, NEW id \in Rows, q[id] # None, q[id].state = 1
    PROVE  /\ q[id] \in Orders /\ q[id].js \in Looks
           /\ Linked(id, rec) /\ Covers(q[id].js)
           /\ TrueCounts(q[id].js.hist, stock, inv, posted.times)
           /\ \A i \in q[id].js.items :
                  i \in Items /\ EntryOf(id, i) \in Entries
           /\ \A i \in q[id].js.items :
                  posted.times = 0 /\ EntryOf(id, i).true =>
                      EntryOf(id, i).qty - EntryOf(id, i).cur = stock[i] - inv[i]
<1>1. q[id] \in Orders /\ q[id].js # None /\ Linked(id, rec)
  BY DEF IInv, Typed, RowsOk, LiveRowsLinked, Linked
<1>2. q[id].js \in Looks
  BY <1>1 DEF Orders
<1>3. Covers(q[id].js) /\ TrueCounts(q[id].js.hist, stock, inv, posted.times)
  BY <1>1 DEF IInv, RowsOk
<1>. DEFINE u == UserSeq[q[id].js.idx]
            h == q[id].js.hist
<1>4. /\ h \in [Users -> [Items -> Entries \union {None}]]
      /\ u \in Users /\ q[id].js.items \subseteq Items
  BY <1>2 DEF Looks, Users
<1>5. \A i \in q[id].js.items : EntryOf(id, i) = h[u][i] /\ h[u][i] # None
  BY <1>3 DEF Covers, EntryOf
<1>. HIDE DEF u, h
<1>6. \A i \in q[id].js.items : i \in Items /\ EntryOf(id, i) \in Entries
  BY <1>4, <1>5
<1>7. \A i \in q[id].js.items :
          posted.times = 0 /\ h[u][i].true => h[u][i].qty - h[u][i].cur = stock[i] - inv[i]
  BY <1>3, <1>4, <1>5 DEF TrueCounts, h
<1>. QED
  BY <1>1, <1>2, <1>3, <1>5, <1>6, <1>7

\* The service answers a pending row: -1 and -2 are errors, 0 says that POS took
\* the quantities.
LEMMA AnswerKeeps ==
    ASSUME IInv, NEW id \in Rows, q[id] # None, q[id].state = 1,
           NEW errno \in {0, -1, -2}, Answer(id, errno),
           errno = 0 => svc # None /\ svc.done /\ svc.id = id,
           svc' = None,
           UNCHANGED <<docVars, webVars, posVars, events, posted>>
    PROVE  IInv'
<1>. USE DEF docVars, webVars, posVars
<1>. DEFINE row == q[id]
            new == [row EXCEPT !.state = 2, !.errno = errno]
<1>1. row \in Orders /\ row.js \in Looks /\ row.js # None
  BY PendingRow, Nones
<1>2. q' = [q EXCEPT ![id] = new]
  BY DEF Answer
<1>3. /\ new \in Orders /\ new # None
      /\ new.state = 2 /\ new.errno = errno /\ new.js = row.js
  <2>1. /\ new \in Orders
        /\ new.state = 2 /\ new.errno = errno /\ new.js = row.js
    BY <1>1 DEF Orders
  <2>. QED
    BY <2>1, Nones
<1>. HIDE DEF new
<1>4. /\ q' \in [Rows -> Orders \union {None}] /\ q'[id] = new
      /\ \A n \in Rows : n # id => q'[n] = q[n]
  BY <1>2, <1>3 DEF IInv, Typed
<1>5. JobsOk' /\ pc' \in [Workers -> Steps] /\ job' \in [Workers -> Jobs \union {None}]
  BY NoneMoves
<1>6. Typed'
  BY <1>4 DEF IInv, Typed
<1>7. RecOk' /\ FreshRows(hist', stock', inv', posted'.times)
  BY DEF IInv, RecOk
<1>8. RowsOk'
  <2>1. ASSUME NEW n \in Rows, q'[n] # None
        PROVE  /\ q'[n].state = 1 => q'[n].js # None
               /\ q'[n].js # None =>
                      /\ q'[n].state = 1 \/ q'[n].errno # -99
                      /\ Covers(q'[n].js) /\ TrueCounts(q'[n].js.hist, stock, inv, posted.times)
               /\ q'[n].state = 2 /\ q'[n].errno = 0 => q'[n].js # None
    <3>1. CASE n = id
      BY <1>1, <1>3, <1>4, <3>1, PendingRow
    <3>2. CASE n # id
      BY <1>4, <2>1, <3>2 DEF IInv, RowsOk
    <3>. QED
      BY <3>1, <3>2
  <2>. QED
    BY <2>1 DEF RowsOk
<1>9. LiveRowsLinked'
  BY <1>4 DEF IInv, LiveRowsLinked
<1>10. ListSent'
  BY <1>3, <1>4 DEF IInv, ListSent
<1>11. SvcOk'
  BY DEF SvcOk
<1>12. SettledOk'
  <2>1. ASSUME NEW n \in Rows, Settled(n)' PROVE posted'.times # 0 /\ Right(n)'
    <3>1. q'[n].js = q[n].js
      BY <1>3, <1>4
    <3>2. Settled(n)
      BY <1>3, <1>4, <2>1 DEF Settled, Done
    <3>3. posted.times # 0 /\ Right(n)
      BY <3>2 DEF IInv, SettledOk
    <3>. QED
      BY <3>1, <3>3 DEF Right, Used
  <2>. QED
    BY <2>1 DEF SettledOk
<1>. QED
  BY <1>5, <1>6, <1>7, <1>8, <1>9, <1>10, <1>11, <1>12 DEF IInv

\* What only the service changes.
LEMMA SvcStep ==
    ASSUME IInv, SvcOk', SettledOk', UNCHANGED <<docVars, q, webVars, posVars, posted>>
    PROVE  IInv'
<1>. USE DEF docVars, webVars, posVars
<1>1. JobsOk' /\ Typed'
  BY NoneMoves DEF IInv, Typed
<1>2. RecOk' /\ FreshRows(hist', stock', inv', posted'.times) /\ RowsOk'
  BY DEF IInv, RecOk, RowsOk
<1>3. LiveRowsLinked' /\ ListSent'
  BY DEF IInv, LiveRowsLinked, ListSent
<1>. QED
  BY <1>1, <1>2, <1>3 DEF IInv

\* The service reads the inventory of POS.
LEMMA ReadInventoryKeeps == ASSUME IInv, NEW id \in Rows, ReadInventory(id) PROVE IInv'
<1>. DEFINE js == q[id].js
            new == [i \in js.items |-> Adjusted(js.hist[UserSeq[js.idx]][i], inv[i])]
            wrong == {i \in js.items : new[i] # inv[i]}
<1>1. /\ svc = None /\ q[id] # None /\ q[id].state = 1
      /\ UNCHANGED <<docVars, webVars, posVars, events, posted>>
  BY DEF ReadInventory
<1>2. CASE wrong = {}
  <2>1. Answer(id, -1) /\ svc' = svc
    BY <1>2 DEF ReadInventory
  <2>. QED
    BY <1>1, <2>1, AnswerKeeps
<1>3. CASE wrong # {}
  <2>. DEFINE s == [id |-> id, new |-> [i \in wrong |-> new[i]], was |-> inv, done |-> FALSE]
  <2>1. svc' = s /\ q' = q
    BY <1>3 DEF ReadInventory
  <2>2. /\ s.id = id /\ s.was = inv /\ s.done = FALSE /\ DOMAIN s.new = wrong
        /\ \A i \in wrong : s.new[i] = new[i]
    OBVIOUS
  <2>3. inv \in [Items -> Int]
    BY DEF IInv, Typed
  <2>4. \A i \in js.items : Adjusted(EntryOf(id, i), inv[i])
                                = IF i \in wrong THEN new[i] ELSE inv[i]
    BY DEF EntryOf
  <2>5. wrong \subseteq js.items
    OBVIOUS
  <2>8. \A i \in wrong : new[i] \in Int
    <3>1. \A i \in js.items : i \in Items /\ EntryOf(id, i) \in Entries
      BY <1>1, PendingRow
    <3>2. \A i \in js.items : Adjusted(EntryOf(id, i), inv[i]) \in Int
      BY <2>3, <3>1 DEF Entries, Adjusted
    <3>. QED
      BY <3>2 DEF EntryOf
  <2>9. js.items \subseteq Items
    BY <1>1, PendingRow
  <2>10. s \in [id : Rows, new : UNION {[F -> Int] : F \in SUBSET Items},
                was : [Items -> Int], done : BOOLEAN]
    <3>. HIDE DEF new, wrong
    <3>1. [i \in wrong |-> new[i]] \in [wrong -> Int] /\ wrong \in SUBSET Items
      BY <2>5, <2>8, <2>9
    <3>. QED
      BY <2>3, <3>1
  <2>. HIDE DEF s, new, wrong
  <2>6. SvcOk'
    BY <1>1, <2>1, <2>2, <2>4, <2>5, <2>10 DEF SvcOk, EntryOf
  <2>7. SettledOk'
    <3>1. ASSUME NEW n \in Rows, Settled(n)' PROVE posted'.times # 0 /\ Right(n)'
      <4>1. Settled(n)
        BY <2>1, <2>2, <3>1 DEF Settled, Done
      <4>2. posted.times # 0 /\ Right(n)
        BY <4>1 DEF IInv, SettledOk
      <4>. QED
        BY <1>1, <2>1, <4>2 DEF Right, Used, posVars
    <3>. QED
      BY <3>1 DEF SettledOk
  <2>. QED
    BY <1>1, <2>1, <2>6, <2>7, SvcStep
<1>. QED
  BY <1>2, <1>3

\* A lost answer leaves the row as it was.
LEMMA LoseAnswerKeeps == ASSUME IInv, LoseAnswer PROVE IInv'
<1>1. svc' = None /\ UNCHANGED <<docVars, q, webVars, posVars, posted>>
  BY DEF LoseAnswer
<1>2. SvcOk'
  BY <1>1 DEF SvcOk
<1>3. SettledOk'
  <2>1. ASSUME NEW n \in Rows, Settled(n)' PROVE posted'.times # 0 /\ Right(n)'
    <3>1. Settled(n)
      BY <1>1, <2>1 DEF Settled, Done
    <3>2. posted.times # 0 /\ Right(n)
      BY <3>1 DEF IInv, SettledOk
    <3>. QED
      BY <1>1, <3>2 DEF Right, Used, posVars
  <2>. QED
    BY <2>1 DEF SettledOk
<1>. QED
  BY <1>1, <1>2, <1>3, SvcStep

\* A refusal leaves POS as it was.
LEMMA PosRefusesKeeps == ASSUME IInv, PosRefuses PROVE IInv'
<1>1. svc.id \in Rows /\ q[svc.id] # None /\ q[svc.id].state = 1
  BY DEF IInv, SvcOk, PosRefuses
<1>2. Answer(svc.id, -2) /\ svc' = None /\ UNCHANGED <<docVars, webVars, posVars, events, posted>>
  BY DEF PosRefuses
<1>. QED
  BY <1>1, <1>2, AnswerKeeps

\* The answer closes the row.
LEMMA RecordAnswerKeeps == ASSUME IInv, RecordAnswer PROVE IInv'
<1>1. svc.id \in Rows /\ q[svc.id] # None /\ q[svc.id].state = 1
  BY DEF IInv, SvcOk, RecordAnswer
<1>2. /\ svc # None /\ svc.done /\ Answer(svc.id, 0) /\ svc' = None
      /\ UNCHANGED <<docVars, webVars, posVars, events, posted>>
  BY DEF RecordAnswer
<1>. QED
  BY <1>1, <1>2, AnswerKeeps

\* What workers have at hand, and the rows, when quantities change.
LEMMA TrueCountsKept ==
    ASSUME IInv, UNCHANGED <<docVars, q, webVars>>,
           \A h : TrueCounts(h, stock, inv, posted.times)
                      => TrueCounts(h, stock', inv', posted'.times),
           \A h : FreshRows(h, stock, inv, posted.times)
                      => FreshRows(h, stock', inv', posted'.times)
    PROVE  JobsOk' /\ RowsOk' /\ FreshRows(hist', stock', inv', posted'.times)
<1>. USE DEF docVars, webVars
<1>1. \A w \in Workers : JobOk(pc[w], job[w], rec, stock', inv', posted'.times)
  BY DEF IInv, JobsOk, JobOk
<1>2. JobsOk'
  BY <1>1 DEF IInv, JobsOk
<1>3. RowsOk'
  BY DEF IInv, RowsOk
<1>. QED
  BY <1>2, <1>3 DEF IInv

\* POS takes the quantities of the row the service works on.
LEMMA PosAdjustsKeeps == ASSUME IInv, PosAdjusts PROVE IInv'
<1>. USE DEF docVars, webVars
<1>. DEFINE id == svc.id
<1>1. /\ svc # None
      /\ inv' = [i \in Items |-> IF i \in DOMAIN svc.new THEN svc.new[i] ELSE inv[i]]
      /\ svc' = [svc EXCEPT !.done = TRUE]
      /\ posted' = [times |-> IF posted.times < 2 THEN posted.times + 1 ELSE 2,
                    slipped |-> posted.slipped \/ inv # svc.was]
      /\ UNCHANGED <<docVars, q, webVars, mirror, stock, events>>
  BY DEF PosAdjusts
<1>2. /\ posted \in [times : 0..2, slipped : BOOLEAN]
      /\ inv \in [Items -> Int] /\ stock \in [Items -> Nat]
  BY DEF IInv, Typed
<1>3. /\ svc \in [id : Rows, new : UNION {[F -> Int] : F \in SUBSET Items},
                  was : [Items -> Int], done : BOOLEAN]
      /\ id \in Rows /\ q[id] # None /\ q[id].state = 1
      /\ DOMAIN svc.new \subseteq q[id].js.items
      /\ \A i \in q[id].js.items :
            Adjusted(EntryOf(id, i), svc.was[i])
                = IF i \in DOMAIN svc.new THEN svc.new[i] ELSE svc.was[i]
  BY <1>1 DEF IInv, SvcOk
<1>4. /\ posted' \in [times : 0..2, slipped : BOOLEAN]
      /\ posted'.times # 0
      /\ posted'.times = 1 => posted.times = 0
      /\ ~posted'.slipped => inv = svc.was
  <2>1. posted.times \in 0..2 /\ posted.slipped \in BOOLEAN
    BY <1>2
  <2>2. posted'.times = IF posted.times < 2 THEN posted.times + 1 ELSE 2
    BY <1>1
  <2>3. posted'.slipped = (posted.slipped \/ inv # svc.was)
    BY <1>1
  <2>4. (posted.slipped \/ inv # svc.was) \in BOOLEAN
    OBVIOUS
  <2>5. posted'.times \in 0..2 /\ posted'.times # 0 /\ (posted'.times = 1 => posted.times = 0)
    BY <2>1, <2>2
  <2>6. posted' = [times |-> posted'.times, slipped |-> posted'.slipped]
    BY <1>1
  <2>7. posted' \in [times : 0..2, slipped : BOOLEAN]
    BY <2>3, <2>4, <2>5, <2>6
  <2>8. ~posted'.slipped => inv = svc.was
    BY <2>3
  <2>. QED
    BY <2>5, <2>7, <2>8
<1>5. inv' \in [Items -> Int]
  <2>1. PICK F \in SUBSET Items : svc.new \in [F -> Int]
    BY <1>3
  <2>. QED
    BY <1>1, <1>2, <2>1
<1>6. JobsOk' /\ RowsOk' /\ FreshRows(hist', stock', inv', posted'.times)
  BY <1>1, <1>4, TrueCountsKept DEF TrueCounts, FreshRows
<1>7. Typed' /\ RecOk'
  <2>1. RecOk'
    BY <1>1 DEF IInv, RecOk
  <2>2. Typed
    BY DEF IInv
  <2>. QED
    BY <1>1, <1>4, <1>5, <2>1, <2>2 DEF Typed
<1>8. LiveRowsLinked' /\ ListSent'
  BY <1>1 DEF IInv, LiveRowsLinked, ListSent
<1>9. /\ svc' \in [id : Rows, new : UNION {[F -> Int] : F \in SUBSET Items},
                   was : [Items -> Int], done : BOOLEAN]
      /\ svc'.id = id /\ svc'.new = svc.new /\ svc'.was = svc.was
  BY <1>1, <1>3
<1>10. SvcOk'
  BY <1>1, <1>3, <1>9 DEF SvcOk, EntryOf
<1>11. SettledOk'
  <2>1. ASSUME NEW n \in Rows, Settled(n)' PROVE posted'.times # 0 /\ Right(n)'
    <3>1. CASE Done(n)
      <4>1. posted.times # 0
        BY <3>1 DEF IInv, SettledOk, Settled
      <4>. QED
        BY <1>4, <4>1 DEF Right
    <3>2. CASE ~Done(n)
      <4>1. n = id
        BY <1>1, <1>9, <2>1, <3>2 DEF Settled, Done
      <4>2. ASSUME posted'.times = 1, ~posted'.slipped,
                   NEW i \in q[id].js.items, Used(id, i).true
            PROVE  inv'[i] = stock[i]
        <5>1. posted.times = 0 /\ svc.was = inv
          BY <1>4, <4>2
        <5>2. EntryOf(id, i).true
          BY <4>2 DEF Used, EntryOf
        <5>3. /\ i \in Items /\ EntryOf(id, i) \in Entries
              /\ EntryOf(id, i).qty - EntryOf(id, i).cur = stock[i] - inv[i]
          BY <1>3, <5>1, <5>2, PendingRow
        <5>4. Adjusted(EntryOf(id, i), inv[i]) = stock[i]
          <6>1. EntryOf(id, i).qty \in Int /\ EntryOf(id, i).cur \in Int
            BY <5>3 DEF Entries
          <6>2. stock[i] \in Int /\ inv[i] \in Int
            BY <1>2, <5>3
          <6>. QED
            BY <5>3, <6>1, <6>2 DEF Adjusted
        <5>5. inv'[i] = IF i \in DOMAIN svc.new THEN svc.new[i] ELSE inv[i]
          BY <1>1, <5>3
        <5>. QED
          BY <1>3, <5>1, <5>4, <5>5
      <4>3. ASSUME posted'.times = 1, ~posted'.slipped
            PROVE  \A i \in q[n].js.items : Used(n, i).true => inv'[i] = stock[i]
        BY <4>1, <4>2, <4>3
      <4>4. Right(n)'
        <5>1. \A i \in q[n].js.items : Used(n, i)' = Used(n, i)
          BY <1>1 DEF Used
        <5>2. q' = q /\ stock' = stock
          BY <1>1
        <5>. HIDE DEF id
        <5>. QED
          BY <4>3, <5>1, <5>2 DEF Right
      <4>. QED
        BY <1>4, <4>4
    <3>. QED
      BY <3>1, <3>2
  <2>. QED
    BY <2>1 DEF SettledOk
<1>. QED
  BY <1>6, <1>7, <1>8, <1>10, <1>11 DEF IInv

----------------------------------------------------------------------------
(* Steps of the store.                                                     *)

\* A settled row has counts.
LEMMA SettledRow ==
    ASSUME IInv, NEW n \in Rows, Settled(n) PROVE q[n].js.items \subseteq Items
<1>1. q[n] # None /\ q[n].js # None
  BY DEF IInv, Settled, Done, RowsOk, SvcOk
<1>2. q[n].js \in Looks
  BY <1>1 DEF IInv, Typed, Orders
<1>. QED
  BY <1>2 DEF Looks

\* A sale takes the same from the store and from POS.
LEMMA SellKeeps == ASSUME IInv, NEW i \in Items, Sell(i) PROVE IInv'
<1>. USE DEF docVars, webVars
<1>1. /\ stock[i] > 0
      /\ stock' = [stock EXCEPT ![i] = stock[i] - 1]
      /\ inv' = [inv EXCEPT ![i] = inv[i] - 1]
      /\ UNCHANGED <<docVars, q, webVars, mirror, svc, posted>>
  BY DEF Sell
<1>2. inv \in [Items -> Int] /\ stock \in [Items -> Nat]
  BY DEF IInv, Typed
<1>3. inv' \in [Items -> Int] /\ stock' \in [Items -> Nat]
  BY <1>1, <1>2
<1>4. \A n \in Items : stock'[n] - inv'[n] = stock[n] - inv[n]
  BY <1>1, <1>2
<1>5. JobsOk' /\ RowsOk' /\ FreshRows(hist', stock', inv', posted'.times)
  <2>1. \A h : TrueCounts(h, stock, inv, posted.times)
                   => TrueCounts(h, stock', inv', posted'.times)
    BY <1>1, <1>4 DEF TrueCounts
  <2>2. \A h : FreshRows(h, stock, inv, posted.times)
                   => FreshRows(h, stock', inv', posted'.times)
    BY <1>1, <1>4 DEF FreshRows
  <2>. QED
    BY <1>1, <2>1, <2>2, TrueCountsKept
<1>6. Typed' /\ RecOk'
  BY <1>1, <1>3 DEF IInv, Typed, RecOk
<1>7. LiveRowsLinked' /\ ListSent'
  BY <1>1 DEF IInv, LiveRowsLinked, ListSent
<1>8. SvcOk'
  BY <1>1 DEF IInv, SvcOk, EntryOf
<1>9. SettledOk'
  <2>1. ASSUME NEW n \in Rows, Settled(n)' PROVE posted'.times # 0 /\ Right(n)'
    <3>1. Settled(n)
      BY <1>1, <2>1 DEF Settled, Done
    <3>2. posted.times # 0 /\ Right(n) /\ q[n].js.items \subseteq Items
      BY <3>1, SettledRow DEF IInv, SettledOk
    <3>3. \A k \in Items : inv[k] = stock[k] => inv'[k] = stock'[k]
      BY <1>1, <1>2
    <3>. QED
      BY <1>1, <3>2, <3>3 DEF Right, Used
  <2>. QED
    BY <2>1 DEF SettledOk
<1>. QED
  BY <1>5, <1>6, <1>7, <1>8, <1>9 DEF IInv

\* The mirror catches up with POS.
LEMMA SynchroniseKeeps == ASSUME IInv, NEW i \in Items, Synchronise(i) PROVE IInv'
<1>. USE DEF docVars, webVars, svcVars
<1>1. /\ mirror' = [mirror EXCEPT ![i] = inv[i]]
      /\ UNCHANGED <<docVars, q, webVars, inv, stock, svcVars>>
  BY DEF Synchronise
<1>2. JobsOk' /\ RowsOk' /\ FreshRows(hist', stock', inv', posted'.times)
  BY <1>1, TrueCountsKept
<1>3. Typed' /\ RecOk'
  BY <1>1 DEF IInv, Typed, RecOk
<1>4. LiveRowsLinked' /\ ListSent'
  BY <1>1 DEF IInv, LiveRowsLinked, ListSent
<1>5. SvcOk'
  BY <1>1 DEF IInv, SvcOk, EntryOf
<1>6. SettledOk'
  BY <1>1, SettledStays
<1>. QED
  BY <1>2, <1>3, <1>4, <1>5, <1>6 DEF IInv

----------------------------------------------------------------------------
(* The theorems.                                                           *)

\* An instance that nobody has used yet satisfies the invariant.
LEMMA InitIInv == Init => IInv
<1>. SUFFICES ASSUME Init PROVE IInv
  OBVIOUS
<1>1. PICK l \in (SUBSET Items) \ {{}} :
        rec = [enable |-> TRUE, rev |-> 1, qid |-> 0, list |-> l] /\ items = l
  BY DEF Init
<1>2. PICK e \in [Items -> Gaps] : inv = [i \in Items |-> stock[i] - e[i]]
  BY DEF Init
<1>3. /\ rec \in Records /\ rec.rev = 1
  BY <1>1, Bounds DEF Records
<1>4. /\ hist = NoHist /\ q = [id \in Rows |-> None] /\ svc = None
      /\ pc = [w \in Workers |-> "idle"] /\ job = [w \in Workers |-> None]
      /\ stock \in [Items -> Stock] /\ mirror = inv
      /\ posted = [times |-> 0, slipped |-> FALSE]
  BY DEF Init
<1>5. stock \in [Items -> Nat] /\ inv \in [Items -> Int]
  <2>1. \A i \in Items : stock[i] \in Nat /\ e[i] \in Int
    BY <1>4, Bounds
  <2>2. \A i \in Items : stock[i] - e[i] \in Int
    BY <2>1
  <2>3. stock = [i \in Items |-> stock[i]]
    BY <1>4
  <2>. QED
    BY <1>2, <2>1, <2>2, <2>3
<1>6. Typed
  <2>1. <<>> \in Seq(Counts)
    OBVIOUS
  <2>. QED
    BY <1>1, <1>3, <1>4, <1>5, <2>1 DEF Typed, NoHist, NoCounts, Steps
<1>7. RecOk
  BY <1>3, Bounds DEF RecOk
<1>8. FreshRows(hist, stock, inv, posted.times)
  BY <1>4 DEF FreshRows, NoHist, NoCounts
<1>9. JobsOk
  BY <1>4, IdleOk DEF JobsOk
<1>10. \A id \in Rows : q[id] = None
  BY <1>4
<1>11. RowsOk /\ LiveRowsLinked /\ ListSent /\ SvcOk /\ SettledOk
  BY <1>4, <1>10 DEF RowsOk, LiveRowsLinked, ListSent, SvcOk, SettledOk, Settled, Done
<1>. QED
  BY <1>6, <1>7, <1>8, <1>9, <1>11 DEF IInv

\* Nothing happens.
LEMMA StutterKeeps == ASSUME IInv, UNCHANGED vars PROVE IInv'
<1>. USE DEF vars, docVars, webVars, posVars, svcVars
<1>1. JobsOk' /\ RowsOk' /\ FreshRows(hist', stock', inv', posted'.times)
  BY TrueCountsKept
<1>2. Typed' /\ RecOk'
  BY DEF IInv, Typed, RecOk
<1>3. LiveRowsLinked' /\ ListSent'
  BY DEF IInv, LiveRowsLinked, ListSent
<1>4. SvcOk'
  BY DEF IInv, SvcOk, EntryOf
<1>5. SettledOk'
  BY SettledStays
<1>. QED
  BY <1>1, <1>2, <1>3, <1>4, <1>5 DEF IInv

\* Every step preserves the invariant.
LEMMA NextIInv == IInv /\ [Next]_vars => IInv'
<1>. SUFFICES ASSUME IInv, [Next]_vars PROVE IInv'
  OBVIOUS
<1>1. ASSUME NEW w \in Workers, Manage(w) PROVE IInv'
  BY <1>1, SaveRecordKeeps, ManageKeeps, DelRecordKeeps, DropHistKeeps DEF Manage
<1>2. ASSUME NEW w \in Workers, CountOne(w) PROVE IInv'
  BY <1>2, CountKeeps, StoreCountKeeps DEF CountOne
<1>3. ASSUME NEW w \in Workers, Send(w) PROVE IInv'
  BY <1>3, LookRecordKeeps, LookItemsKeeps, LookHistKeeps, InsertRowKeeps, LinkRowKeeps,
     PutCountsKeeps DEF Send
<1>4. ASSUME NEW w \in Workers, Crash(w) PROVE IInv'
  BY <1>4, CrashKeeps
<1>5. ASSUME NEW u \in Users, NEW i \in Items, NEW k \in DOMAIN hist[u][i].rows,
             DelHist(u, i, k)
      PROVE  IInv'
  BY <1>5, DelHistKeeps
<1>6. CASE Service
  BY <1>6, ReadInventoryKeeps, PosAdjustsKeeps, PosRefusesKeeps, RecordAnswerKeeps,
     LoseAnswerKeeps DEF Service
<1>7. CASE Store
  BY <1>7, SellKeeps, SynchroniseKeeps DEF Store
<1>8. CASE UNCHANGED vars
  BY <1>8, StutterKeeps
<1>. QED
  BY <1>1, <1>2, <1>3, <1>4, <1>5, <1>6, <1>7, <1>8 DEF Next

\* In every state that can be reached, what workers and the service have at hand
\* fits the record, the rows and the quantities.
THEOREM Invariant == Spec => []IInv
  BY InitIInv, NextIInv, PTL DEF Spec

\* The tables have their types, and a pending row has a count of the chosen user
\* for each of its items.
THEOREM TypesOK == Spec => []TypeOK
  BY Invariant, IInvTypes, PTL

\* Only the row that is linked to the list is ever sent, however many managers
\* send at the same time and wherever they stop.
THEOREM OnlyLinked == Spec => []LiveRowsLinked
<1>1. IInv => LiveRowsLinked
  BY DEF IInv
<1>. QED
  BY <1>1, Invariant, PTL

\* The items of a row are those of the list as it stands.
THEOREM SentAsListed == Spec => []ListSent
<1>1. IInv => ListSent
  BY DEF IInv
<1>. QED
  BY <1>1, Invariant, PTL

\* After one adjustment with true counts, POS says what is in the store.
THEOREM Adjusts == Spec => []Corrected
<1>1. IInv => Corrected
  <2>1. ASSUME IInv, NEW id \in Rows, Done(id) PROVE Right(id)
    BY <2>1 DEF IInv, SettledOk, Settled
  <2>. QED
    BY <2>1 DEF Corrected, Right
<1>. QED
  BY <1>1, Invariant, PTL
=============================================================================
