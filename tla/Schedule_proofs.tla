-------------------------- MODULE Schedule_proofs ---------------------------
(***************************************************************************)
(* The proofs about Schedule: that records stay coherent, that what a      *)
(* worker has read is what is there as long as the revision is, that no    *)
(* change gets past the delivery manager, and that the handlers implement  *)
(* Booking - for any number of documents, records, workers and requests,   *)
(* and requests over any number of records.                                *)
(***************************************************************************)
EXTENDS Schedule, TLAPS

----------------------------------------------------------------------------
(* The inductive invariant.                                                *)

\* Ids are given out in order and never again.
FreshIds ==
    \A i \in Ids : i > lastId =>
        sched[i] = None /\ \A w \in Workers : got[w][i] = None

\* What the manager saw of an accepted record that is not marked: the lines
\* picked, the items of the document that its checksum stands for, or, as the
\* checksum of a receipt leaves them out, the items that never change.
SeenRow(r) ==
    ("ACCEPTED" \in r.flag /\ "CHANGED" \notin r.flag) =>
        IF "PARTIAL" \in r.flag THEN r.ijs.pick = r.cur
        ELSE IF r.doc \in Receipts THEN r.cur = doc[r.doc].items ELSE r.cur = r.crc.items
AllSeen == \A i \in Ids : Exists(i) => SeenRow(sched[i])

Batch == {"accept", "confirm", "clear", "del"}

\* What a worker has at hand, by the statement it is at.
JobOk(w) ==
    /\ pc[w] = "read" => op[w] \in {"edit", "delrec"} /\ at[w] \in Ids
    /\ pc[w] = "docs" => op[w] \in Batch
    /\ pc[w] # "idle" /\ op[w] \in {"new", "edit"} => ver[w] # None /\ req[w] # None
    /\ pc[w] \in {"check", "write"} /\ op[w] \in {"edit", "delrec"} =>
           /\ at[w] \in Ids /\ got[w][at[w]] # None
           /\ "CANCELLING" \notin got[w][at[w]].flag
    /\ op[w] \in Batch => \A i \in todo[w] : got[w][i] # None
    /\ pc[w] \in {"check", "write"} /\ op[w] \in Batch => ver[w] # None
    /\ pc[w] = "write" /\ op[w] = "confirm" => at[w] \in todo[w]
JobsOk == \A w \in Workers : JobOk(w)

\* The items of a receipt are the ones every worker has read.
ReceiptsStay ==
    \A w \in Workers : ver[w] # None =>
        \A d \in Receipts : ver[w][d].items = doc[d].items

IInv ==
    /\ TypeOK /\ FreshIds /\ RecordsCoherent /\ AllSeen
    /\ JobsOk /\ ReadsValid /\ ReceiptsStay

----------------------------------------------------------------------------
(* Rows.                                                                   *)

\* None is not a value of the columns.
LEMMA NotNone ==
    /\ None \notin Rows /\ None \notin Requests /\ None \notin Picks
    /\ None \notin Lists /\ None \notin [Docs -> Contents]
  BY NoneAssumption

LEMMA DayFacts == Days \subseteq Nat /\ 0 \notin Days /\ ItemLists \subseteq Lists
  BY ScheduleAssumption DEF Lists

\* A packing list is there for partial deliveries, and holds what was picked.
LEMMA PackingListFacts ==
    ASSUME NEW q \in Requests, NEW v \in Contents
    PROVE  /\ PackingList(q, v) \in Picks \union {None}
           /\ q.mode => /\ PackingList(q, v) # None
                        /\ PackingList(q, v).items = v.items /\ PackingList(q, v).pick = q.pick
           /\ ~q.mode => PackingList(q, v) = None
<1>1. q.mode \in BOOLEAN /\ q.pick \in Lists /\ v.items \in ItemLists
  BY DEF Requests, Contents
<1>2. [items |-> v.items, pick |-> q.pick] \in Picks
  BY <1>1 DEF Picks
<1>. QED
  BY <1>1, <1>2, NotNone DEF PackingList

LEMMA CrcFacts ==
    ASSUME NEW d \in Docs, NEW v \in Contents
    PROVE  /\ Crc(d, v) \in Crcs
           /\ d \notin Receipts => Crc(d, v).items = v.items
  BY DEF Crc, Crcs, Contents

\* The flags an edit leaves.
LEMMA EditedFlagFacts ==
    ASSUME NEW o \in Rows, NEW q \in Requests, NEW v \in Contents
    PROVE  /\ EditedFlag(o, q, v) \in FlagSet
           /\ "PARTIAL" \in EditedFlag(o, q, v) <=> q.mode
           /\ "ACCEPTED" \in EditedFlag(o, q, v) <=> "ACCEPTED" \in o.flag
           /\ "CANCELLING" \in EditedFlag(o, q, v) <=> "CANCELLING" \in o.flag
           /\ "RESCHEDULED" \in EditedFlag(o, q, v) <=>
                  "RESCHEDULED" \in o.flag \/ ("ACCEPTED" \in o.flag /\ Moved(o, q))
           /\ "CHANGED" \in EditedFlag(o, q, v) <=>
                  \/ "CHANGED" \in o.flag
                  \/ /\ "ACCEPTED" \in o.flag
                     /\ Switched(o, q) \/ Repacked(o, q, v) \/ o.note # q.note
           /\ o.flag \subseteq {"PARTIAL"} => EditedFlag(o, q, v) \subseteq {"PARTIAL"}
<1>. DEFINE p == q.mode  a == Moved(o, q)
            b == Switched(o, q) \/ Repacked(o, q, v) \/ o.note # q.note
<1>1. o.flag \in FlagSet
  BY DEF Rows
<1>2. EditedFlag(o, q, v) =
        (o.flag \ {"PARTIAL"}) \union (IF p THEN {"PARTIAL"} ELSE {})
            \union (IF "ACCEPTED" \in o.flag /\ b THEN {"CHANGED"} ELSE {})
            \union (IF "ACCEPTED" \in o.flag /\ a THEN {"RESCHEDULED"} ELSE {})
  BY DEF EditedFlag
<1>. HIDE DEF p, a, b
<1>3. \A x : x \in EditedFlag(o, q, v) <=>
        \/ x \in o.flag /\ x # "PARTIAL"
        \/ p /\ x = "PARTIAL"
        \/ "ACCEPTED" \in o.flag /\ b /\ x = "CHANGED"
        \/ "ACCEPTED" \in o.flag /\ a /\ x = "RESCHEDULED"
  BY <1>2
<1>4. EditedFlag(o, q, v) \in FlagSet
  BY <1>1, <1>3 DEF FlagSet
<1>5. /\ "PARTIAL" \in EditedFlag(o, q, v) <=> p
      /\ "ACCEPTED" \in EditedFlag(o, q, v) <=> "ACCEPTED" \in o.flag
      /\ "CANCELLING" \in EditedFlag(o, q, v) <=> "CANCELLING" \in o.flag
      /\ "RESCHEDULED" \in EditedFlag(o, q, v) <=>
             "RESCHEDULED" \in o.flag \/ ("ACCEPTED" \in o.flag /\ a)
      /\ "CHANGED" \in EditedFlag(o, q, v) <=>
             "CHANGED" \in o.flag \/ ("ACCEPTED" \in o.flag /\ b)
  BY <1>3
<1>6. o.flag \subseteq {"PARTIAL"} => EditedFlag(o, q, v) \subseteq {"PARTIAL"}
  BY <1>3
<1>. QED
  BY <1>4, <1>5, <1>6 DEF p, a, b

\* The columns an edit writes.
LEMMA EditedFacts ==
    ASSUME NEW r \in Rows, NEW o \in Rows, NEW q \in Requests, NEW v \in Contents, NEW e,
           e = Edited(r, o, q, v)
    PROVE  /\ e \in Rows /\ e.doc = r.doc /\ e.rev = r.rev + 1 /\ e.flag = EditedFlag(o, q, v)
           /\ e.note = q.note /\ e.cur = r.cur /\ e.ijs = PackingList(q, v)
           /\ "ACCEPTED" \in o.flag =>
                  /\ e.date = r.date /\ e.newdate = (IF Moved(o, q) THEN q.date ELSE o.newdate)
                  /\ e.crc = r.crc /\ e.ijscrc = (IF q.mode THEN v.items ELSE r.ijscrc)
           /\ "ACCEPTED" \notin o.flag =>
                  /\ e.date = q.date /\ e.newdate = 0 /\ e.ijscrc = v.items
<1>. DEFINE n == r.rev + 1  f == EditedFlag(o, q, v)  p == PackingList(q, v)
            c == Crc(r.doc, v)  m == IF Moved(o, q) THEN q.date ELSE o.newdate
            x == IF q.mode THEN v.items ELSE r.ijscrc
<1>1. /\ r.rev \in Nat /\ r.doc \in Docs /\ r.ijscrc \in ItemLists /\ v.items \in ItemLists
      /\ q.date \in Days /\ o.newdate \in Days \union {0} /\ q.note \in Notes
  BY DEF Rows, Requests, Contents
<1>2. /\ n \in Nat /\ f \in FlagSet /\ p \in Picks \union {None} /\ c \in Crcs
      /\ m \in Days \union {0} /\ x \in ItemLists
  BY <1>1, EditedFlagFacts, PackingListFacts, CrcFacts
<1>3. CASE "ACCEPTED" \in o.flag
  <2>1. e = [r EXCEPT !.rev = n, !.flag = f, !.note = q.note, !.newdate = m, !.ijs = p, !.ijscrc = x]
    BY <1>3 DEF Edited
  <2>. HIDE DEF n, f, p, c, m, x
  <2>2. /\ e \in Rows /\ e.doc = r.doc /\ e.rev = n /\ e.flag = f /\ e.note = q.note
        /\ e.cur = r.cur /\ e.ijs = p /\ e.date = r.date /\ e.newdate = m /\ e.crc = r.crc
        /\ e.ijscrc = x
    BY <1>1, <1>2, <2>1 DEF Rows
  <2>. QED
    BY <1>3, <2>2 DEF n, f, p, m, x
<1>4. CASE "ACCEPTED" \notin o.flag
  <2>1. e = [r EXCEPT !.rev = n, !.flag = f, !.note = q.note, !.newdate = 0, !.date = q.date,
                      !.crc = c, !.ijscrc = v.items, !.ijs = p]
    BY <1>4 DEF Edited
  <2>. HIDE DEF n, f, p, c, m, x
  <2>2. /\ e \in Rows /\ e.doc = r.doc /\ e.rev = n /\ e.flag = f /\ e.note = q.note
        /\ e.cur = r.cur /\ e.ijs = p /\ e.date = q.date /\ e.newdate = 0 /\ e.ijscrc = v.items
    BY <1>1, <1>2, <2>1 DEF Rows
  <2>. QED
    BY <1>4, <2>2 DEF n, f, p, m, x
<1>. QED
  BY <1>3, <1>4

\* A row is created with the columns that go together.
LEMMA CreatedFacts ==
    ASSUME NEW q \in Requests, NEW v \in Contents, NEW e, e = Created(q, v)
    PROVE  /\ e \in Rows /\ Coherent(e) /\ SeenRow(e)
           /\ e.newdate = 0 /\ e.flag \subseteq {"PARTIAL"} /\ e.date = q.date
<1>. DEFINE f == IF q.mode THEN {"PARTIAL"} ELSE {}  p == PackingList(q, v)  c == Crc(q.doc, v)
<1>1. /\ q.doc \in Docs /\ q.date \in Days /\ q.note \in Notes /\ q.mode \in BOOLEAN
      /\ v.items \in ItemLists
  BY DEF Requests, Contents
<1>2. /\ p \in Picks \union {None} /\ c \in Crcs
      /\ q.mode => p # None /\ p.items = v.items
      /\ ~q.mode => p = None
  BY <1>1, PackingListFacts, CrcFacts
<1>3. /\ f \in FlagSet /\ f \subseteq {"PARTIAL"}
      /\ "PARTIAL" \in f <=> q.mode
  BY <1>1 DEF FlagSet
<1>4. e = [doc |-> q.doc, date |-> q.date, newdate |-> 0, rev |-> 1, flag |-> f, note |-> q.note,
           crc |-> c, ijscrc |-> v.items, ijs |-> p, cur |-> None]
  BY DEF Created
<1>. HIDE DEF f, p, c
<1>5. e \in Rows
  BY <1>1, <1>2, <1>3, <1>4 DEF Rows
<1>6. /\ e.newdate = 0 /\ e.flag = f /\ e.date = q.date /\ e.ijs = p /\ e.ijscrc = v.items
      /\ e.cur = None
  BY <1>4
<1>7. Coherent(e)
  BY <1>1, <1>2, <1>3, <1>6, DayFacts DEF Coherent
<1>8. SeenRow(e)
  BY <1>3, <1>6 DEF SeenRow
<1>. QED
  BY <1>3, <1>5, <1>6, <1>7, <1>8

\* Packing lists with the same lines packed pick the same.
LEMMA SamePicks ==
    ASSUME NEW a \in Picks, NEW b \in Picks, Packed(a) = Packed(b)
    PROVE  a.pick = b.pick
<1>1. a.pick \in [Goods -> Nat] /\ b.pick \in [Goods -> Nat]
  BY DEF Picks, Lists
<1>2. ASSUME NEW g \in Goods PROVE a.pick[g] = b.pick[g]
  <2>1. ASSUME NEW l \in Picks, NEW m \in Picks, Packed(l) = Packed(m), l.pick[g] # 0
        PROVE  l.pick[g] = m.pick[g]
    <3>1. <<g, l.items[g], l.pick[g]>> \in Packed(l)
      BY <2>1 DEF Packed
    <3>2. PICK h \in Goods : <<g, l.items[g], l.pick[g]>> = <<h, m.items[h], m.pick[h]>>
      BY <2>1, <3>1 DEF Packed
    <3>. QED
      BY <3>2
  <2>2. CASE a.pick[g] # 0
    BY <2>1, <2>2
  <2>3. CASE b.pick[g] # 0
    BY <2>1, <2>3
  <2>. QED
    BY <2>2, <2>3
<1>. QED
  BY <1>1, <1>2

\* An edit of the row as it is keeps the columns together, and marks what the
\* manager has not seen.
LEMMA EditedGood ==
    ASSUME NEW o \in Rows, Coherent(o), SeenRow(o), NEW q \in Requests, NEW v \in Contents, NEW e,
           e = Edited(o, o, q, v)
    PROVE  Coherent(e) /\ SeenRow(e)
<1>. DEFINE f == EditedFlag(o, q, v)  p == PackingList(q, v)
<1>1. /\ e.doc = o.doc /\ e.flag = f /\ e.cur = o.cur /\ e.ijs = p
      /\ "ACCEPTED" \in o.flag =>
             /\ e.date = o.date /\ e.newdate = (IF Moved(o, q) THEN q.date ELSE o.newdate)
             /\ e.crc = o.crc /\ e.ijscrc = (IF q.mode THEN v.items ELSE o.ijscrc)
      /\ "ACCEPTED" \notin o.flag =>
             /\ e.date = q.date /\ e.newdate = 0 /\ e.ijscrc = v.items
  BY EditedFacts
<1>2. /\ "PARTIAL" \in f <=> q.mode
      /\ "ACCEPTED" \in f <=> "ACCEPTED" \in o.flag
      /\ "RESCHEDULED" \in f <=>
             "RESCHEDULED" \in o.flag \/ ("ACCEPTED" \in o.flag /\ Moved(o, q))
      /\ "CHANGED" \in f <=>
             \/ "CHANGED" \in o.flag
             \/ /\ "ACCEPTED" \in o.flag
                /\ Switched(o, q) \/ Repacked(o, q, v) \/ o.note # q.note
      /\ o.flag \subseteq {"PARTIAL"} => f \subseteq {"PARTIAL"}
  BY EditedFlagFacts
<1>3. /\ q.mode => p # None /\ p.items = v.items /\ p \in Picks
      /\ ~q.mode => p = None
      /\ q.date \in Days /\ q.date # 0 /\ q.mode \in BOOLEAN
  BY PackingListFacts, DayFacts DEF Requests
<1>. HIDE DEF f, p
<1>4. /\ "PARTIAL" \in o.flag <=> o.ijs # None
      /\ "RESCHEDULED" \in o.flag <=> o.newdate # 0
      /\ o.newdate # o.date /\ ("ACCEPTED" \in o.flag <=> o.cur # None)
      /\ "ACCEPTED" \notin o.flag => o.flag \subseteq {"PARTIAL"}
      /\ o.ijs \in Picks \union {None}
  BY DEF Coherent, Rows
<1>5. Coherent(e)
  <2>1. CASE "ACCEPTED" \in o.flag
    <3>1. /\ "RESCHEDULED" \in f <=> e.newdate # 0
          /\ e.newdate # e.date
      BY <1>1, <1>2, <1>3, <1>4, <2>1 DEF Moved
    <3>2. /\ "PARTIAL" \in f <=> e.ijs # None
          /\ "PARTIAL" \in f => e.ijscrc = e.ijs.items
          /\ "ACCEPTED" \in f /\ e.cur # None
      BY <1>1, <1>2, <1>3, <1>4, <2>1
    <3>. QED
      BY <1>1, <3>1, <3>2 DEF Coherent
  <2>2. CASE "ACCEPTED" \notin o.flag
    BY <1>1, <1>2, <1>3, <1>4, <2>2 DEF Coherent
  <2>. QED
    BY <2>1, <2>2
<1>6. SeenRow(e)
  <2>. SUFFICES ASSUME "ACCEPTED" \in f, "CHANGED" \notin f
                PROVE  IF "PARTIAL" \in f THEN p.pick = o.cur
                       ELSE IF o.doc \in Receipts THEN o.cur = doc[o.doc].items
                       ELSE o.cur = o.crc.items
    BY <1>1, <1>2 DEF SeenRow
  <2>1. /\ "ACCEPTED" \in o.flag /\ "CHANGED" \notin o.flag
        /\ ~Switched(o, q) /\ ~Repacked(o, q, v)
    BY <1>2
  <2>2. IF "PARTIAL" \in o.flag THEN o.ijs.pick = o.cur
        ELSE IF o.doc \in Receipts THEN o.cur = doc[o.doc].items ELSE o.cur = o.crc.items
    BY <2>1 DEF SeenRow
  <2>3. "PARTIAL" \in o.flag <=> q.mode
    BY <1>3, <2>1 DEF Switched
  <2>4. CASE q.mode
    <3>1. Packed(o.ijs) = Packed(p)
      BY <2>1, <2>3, <2>4 DEF Repacked, KeepsPartial, p
    <3>2. o.ijs \in Picks
      BY <1>4, <2>3, <2>4
    <3>3. o.ijs.pick = p.pick
      BY <1>3, <2>4, <3>1, <3>2, SamePicks
    <3>. QED
      BY <1>2, <2>2, <2>3, <2>4, <3>3
  <2>5. CASE ~q.mode
    BY <1>2, <2>2, <2>3, <2>5
  <2>. QED
    BY <2>4, <2>5
<1>. QED
  BY <1>5, <1>6

\* The row the manager leaves of one she was shown.
SeenAs(o, v, f) == [Seen(o, o, v) EXCEPT !.flag = f]

\* What the manager accepts or clears is what she was shown.
LEMMA SeenFacts ==
    ASSUME NEW o \in Rows, Coherent(o), NEW v \in Contents,
           o.doc \in Receipts => v.items = doc[o.doc].items,
           NEW f \in FlagSet, NEW e, e = SeenAs(o, v, f),
           "PARTIAL" \in f <=> "PARTIAL" \in o.flag, "ACCEPTED" \in f,
           "RESCHEDULED" \in f <=> "RESCHEDULED" \in o.flag
    PROVE  /\ e \in Rows /\ Coherent(e) /\ SeenRow(e)
           /\ e.doc = o.doc /\ e.rev = o.rev + 1 /\ e.flag = f
           /\ e.date = o.date /\ e.newdate = o.newdate
<1>. DEFINE n == o.rev + 1  c == Crc(o.doc, v)  d == Delivers(o, v)
            x == IF "PARTIAL" \in o.flag THEN o.ijscrc ELSE v.items
<1>1. /\ o.rev \in Nat /\ o.doc \in Docs /\ o.ijscrc \in ItemLists /\ v.items \in ItemLists
      /\ o.ijs \in Picks \union {None} /\ o.flag \in FlagSet
  BY DEF Rows, Contents
<1>2. /\ "PARTIAL" \in o.flag <=> o.ijs # None
      /\ "PARTIAL" \in o.flag => o.ijscrc = o.ijs.items
      /\ "RESCHEDULED" \in o.flag <=> o.newdate # 0
      /\ o.newdate # o.date
  BY DEF Coherent
<1>3. /\ n \in Nat /\ c \in Crcs /\ x \in ItemLists
      /\ o.doc \notin Receipts => c.items = v.items
  BY <1>1, CrcFacts
<1>4. d \in Lists /\ d # None
  BY <1>1, <1>2, DayFacts, NotNone DEF Delivers, Picks
<1>5. e = [o EXCEPT !.rev = n, !.crc = c, !.cur = d, !.ijscrc = x, !.flag = f]
  BY DEF SeenAs, Seen
<1>6. "PARTIAL" \in o.flag => d = o.ijs.pick
  BY DEF Delivers
<1>7. "PARTIAL" \notin o.flag => d = v.items
  BY DEF Delivers
<1>8. "PARTIAL" \in o.flag => x = o.ijscrc
  OBVIOUS
<1>. HIDE DEF n, c, d, x
<1>9. /\ e \in Rows /\ e.doc = o.doc /\ e.rev = n /\ e.flag = f /\ e.date = o.date
      /\ e.newdate = o.newdate /\ e.crc = c /\ e.cur = d /\ e.ijscrc = x /\ e.ijs = o.ijs
  BY <1>1, <1>3, <1>4, <1>5 DEF Rows
<1>10. Coherent(e)
  BY <1>2, <1>4, <1>8, <1>9 DEF Coherent
<1>11. SeenRow(e)
  BY <1>3, <1>6, <1>7, <1>9 DEF SeenRow
<1>. QED
  BY <1>9, <1>10, <1>11 DEF n

\* A rescheduling that is confirmed.
LEMMA ConfirmedFacts ==
    ASSUME NEW o \in Rows, Coherent(o), SeenRow(o), "RESCHEDULED" \in o.flag, NEW e,
           e = [o EXCEPT !.rev = @ + 1, !.flag = @ \ {"RESCHEDULED"}, !.date = o.newdate,
                         !.newdate = 0]
    PROVE  /\ e \in Rows /\ Coherent(e) /\ SeenRow(e) /\ e.rev = o.rev + 1
           /\ e.flag = o.flag \ {"RESCHEDULED"} /\ e.date = o.newdate /\ e.newdate = 0
<1>. DEFINE n == o.rev + 1  f == o.flag \ {"RESCHEDULED"}
<1>1. /\ n \in Nat /\ o.flag \in FlagSet /\ o.newdate \in Days \union {0} /\ o.newdate # 0
  BY DEF Rows, Coherent
<1>2. f \in FlagSet
  BY <1>1 DEF FlagSet
<1>3. e = [o EXCEPT !.rev = n, !.flag = f, !.date = o.newdate, !.newdate = 0]
  BY DEF Rows
<1>4. /\ "PARTIAL" \in f <=> "PARTIAL" \in o.flag
      /\ "ACCEPTED" \in f <=> "ACCEPTED" \in o.flag
      /\ "CHANGED" \in f <=> "CHANGED" \in o.flag
      /\ "RESCHEDULED" \notin f /\ f \subseteq o.flag
  OBVIOUS
<1>. HIDE DEF n, f
<1>5. /\ e \in Rows /\ e.doc = o.doc /\ e.rev = n /\ e.flag = f /\ e.date = o.newdate
      /\ e.newdate = 0 /\ e.crc = o.crc /\ e.cur = o.cur /\ e.ijscrc = o.ijscrc /\ e.ijs = o.ijs
  BY <1>1, <1>2, <1>3 DEF Rows
<1>6. Coherent(e) /\ SeenRow(e)
  BY <1>1, <1>4, <1>5 DEF Coherent, SeenRow
<1>. QED
  BY <1>5, <1>6 DEF n, f

\* A deletion that is asked for.
LEMMA CancelledFacts ==
    ASSUME NEW o \in Rows, Coherent(o), SeenRow(o), "ACCEPTED" \in o.flag, NEW e,
           e = [o EXCEPT !.rev = @ + 1, !.flag = @ \union {"CANCELLING"}]
    PROVE  /\ e \in Rows /\ Coherent(e) /\ SeenRow(e) /\ e.rev = o.rev + 1
           /\ e.flag = o.flag \union {"CANCELLING"} /\ e.date = o.date /\ e.newdate = o.newdate
<1>. DEFINE n == o.rev + 1  f == o.flag \union {"CANCELLING"}
<1>1. n \in Nat /\ o.flag \in FlagSet
  BY DEF Rows
<1>2. f \in FlagSet
  BY <1>1 DEF FlagSet
<1>3. e = [o EXCEPT !.rev = n, !.flag = f]
  BY DEF Rows
<1>4. /\ "PARTIAL" \in f <=> "PARTIAL" \in o.flag
      /\ "CHANGED" \in f <=> "CHANGED" \in o.flag
      /\ "RESCHEDULED" \in f <=> "RESCHEDULED" \in o.flag
      /\ "ACCEPTED" \in f
  OBVIOUS
<1>. HIDE DEF n, f
<1>5. /\ e \in Rows /\ e.doc = o.doc /\ e.rev = n /\ e.flag = f /\ e.date = o.date
      /\ e.newdate = o.newdate /\ e.crc = o.crc /\ e.cur = o.cur /\ e.ijscrc = o.ijscrc
      /\ e.ijs = o.ijs
  BY <1>1, <1>2, <1>3 DEF Rows
<1>6. Coherent(e) /\ SeenRow(e)
  BY <1>4, <1>5 DEF Coherent, SeenRow
<1>. QED
  BY <1>5, <1>6 DEF n, f

----------------------------------------------------------------------------
(* What a step does to the jobs of the workers.                            *)

JobTypes ==
    /\ pc \in [Workers -> {"idle", "read", "docs", "check", "write"}]
    /\ op \in [Workers -> Ops \union {None}]
    /\ at \in [Workers -> Ids \union {0}]
    /\ got \in [Workers -> [Ids -> Rows \union {None}]]
    /\ ver \in [Workers -> [Docs -> Contents] \union {None}]
    /\ req \in [Workers -> Requests \union {None}]
    /\ todo \in [Workers -> SUBSET Ids]

\* Records and documents come from the tables as they are, or were read before.
ReadsNow ==
    /\ \A v \in Workers : \A i \in Ids :
          \/ got'[v][i] = None \/ got'[v][i] = got[v][i]
          \/ got'[v][i] = sched[i] /\ sched' = sched
    /\ \A v \in Workers :
          \/ ver'[v] = None \/ ver'[v] = ver[v]
          \/ ver'[v] = doc /\ doc' = doc

JobsGo == JobTypes' /\ JobsOk' /\ ReadsNow

\* The other workers' jobs stay, so those of worker w decide.
LEMMA OneJob ==
    ASSUME JobsOk, NEW w \in Workers, JobTypes', JobOk(w)',
           \A v \in Workers \ {w} :
               /\ pc'[v] = pc[v] /\ op'[v] = op[v] /\ at'[v] = at[v] /\ got'[v] = got[v]
               /\ ver'[v] = ver[v] /\ req'[v] = req[v] /\ todo'[v] = todo[v],
           \A i \in Ids :
               \/ got'[w][i] = None \/ got'[w][i] = got[w][i]
               \/ got'[w][i] = sched[i] /\ sched' = sched,
           \/ ver'[w] = None \/ ver'[w] = ver[w]
           \/ ver'[w] = doc /\ doc' = doc
    PROVE  JobsGo
<1>1. ASSUME NEW v \in Workers, v # w PROVE JobOk(v)'
  <2>1. JobOk(v)
    BY DEF JobsOk
  <2>. QED
    BY <1>1, <2>1 DEF JobOk
<1>2. JobsOk'
  BY <1>1 DEF JobsOk
<1>3. ReadsNow
  BY DEF ReadsNow
<1>. QED
  BY <1>2, <1>3 DEF JobsGo

LEMMA FinishGo ==
    ASSUME TypeOK, JobsOk, NEW w \in Workers, Finish(w)
    PROVE  JobsGo
<1>1. NoRows \in [Ids -> Rows \union {None}] /\ \A i \in Ids : NoRows[i] = None
  BY DEF NoRows
<1>2. JobTypes'
  BY <1>1 DEF TypeOK, Finish, JobTypes
<1>3. /\ pc'[w] = "idle" /\ todo'[w] = {} /\ got'[w] = NoRows /\ ver'[w] = None /\ op'[w] = None
  BY DEF TypeOK, Finish
<1>4. JobOk(w)'
  BY <1>3 DEF JobOk
<1>5. \A v \in Workers \ {w} :
          /\ pc'[v] = pc[v] /\ op'[v] = op[v] /\ at'[v] = at[v] /\ got'[v] = got[v]
          /\ ver'[v] = ver[v] /\ req'[v] = req[v] /\ todo'[v] = todo[v]
  BY DEF TypeOK, Finish
<1>. QED
  BY <1>1, <1>2, <1>3, <1>4, <1>5, OneJob

LEMMA DoneGo ==
    ASSUME TypeOK, JobsOk, NEW w \in Workers, NEW i \in Ids, Done(w, i),
           op[w] \in Batch, pc[w] \in {"check", "write"}
    PROVE  JobsGo
<1>1. CASE todo[w] \ {i} = {}
  BY <1>1, FinishGo DEF Done
<1>2. CASE todo[w] \ {i} # {}
  <2>. DEFINE s == IF op[w] = "confirm" THEN "check" ELSE "write"
  <2>1. /\ todo' = [todo EXCEPT ![w] = todo[w] \ {i}] /\ at' = [at EXCEPT ![w] = 0]
        /\ pc' = [pc EXCEPT ![w] = s] /\ UNCHANGED <<op, got, ver, req>>
    BY <1>2 DEF Done, GoTo
  <2>2. /\ s \in {"idle", "read", "docs", "check", "write"}
        /\ s \in {"check", "write"} /\ (s = "write" => op[w] # "confirm")
    OBVIOUS
  <2>. HIDE DEF s
  <2>3. todo[w] \ {i} \in SUBSET Ids /\ JobOk(w)
    BY DEF TypeOK, JobsOk
  <2>4. JobTypes'
    BY <2>1, <2>2, <2>3 DEF TypeOK, JobTypes
  <2>5. pc'[w] = s /\ todo'[w] = todo[w] \ {i}
    BY <2>1 DEF TypeOK
  <2>6. JobOk(w)'
    BY <2>1, <2>2, <2>3, <2>5 DEF JobOk, Batch
  <2>7. \A v \in Workers \ {w} :
            /\ pc'[v] = pc[v] /\ op'[v] = op[v] /\ at'[v] = at[v] /\ got'[v] = got[v]
            /\ ver'[v] = ver[v] /\ req'[v] = req[v] /\ todo'[v] = todo[v]
    BY <2>1 DEF TypeOK
  <2>. QED
    BY <2>1, <2>4, <2>6, <2>7, OneJob
<1>. QED
  BY <1>1, <1>2

\* The requests start.
LEMMA StartNewGo ==
    ASSUME TypeOK, JobsOk, NEW w \in Workers, NEW q \in Requests, StartNew(w, q)
    PROVE  JobsGo
<1>1. /\ op' = [op EXCEPT ![w] = "new"] /\ pc' = [pc EXCEPT ![w] = "check"]
      /\ ver' = [ver EXCEPT ![w] = doc] /\ req' = [req EXCEPT ![w] = q] /\ "new" \in Ops
      /\ UNCHANGED <<doc, used, sched, lastId, at, got, todo>>
  BY DEF StartNew, Takes, docVars
<1>2. JobTypes'
  BY <1>1 DEF TypeOK, JobTypes
<1>3. /\ pc'[w] = "check" /\ op'[w] = "new" /\ ver'[w] = doc /\ req'[w] = q
      /\ doc # None /\ q # None
  BY <1>1, NotNone DEF TypeOK
<1>4. JobOk(w)'
  BY <1>3 DEF JobOk, Batch
<1>5. \A v \in Workers \ {w} :
          /\ pc'[v] = pc[v] /\ op'[v] = op[v] /\ at'[v] = at[v] /\ got'[v] = got[v]
          /\ ver'[v] = ver[v] /\ req'[v] = req[v] /\ todo'[v] = todo[v]
  BY <1>1 DEF TypeOK
<1>. QED
  BY <1>1, <1>2, <1>3, <1>4, <1>5, OneJob

LEMMA StartEditGo ==
    ASSUME TypeOK, JobsOk, NEW w \in Workers, NEW i \in Ids, NEW q \in Requests,
           StartEdit(w, i, q)
    PROVE  JobsGo
<1>1. /\ op' = [op EXCEPT ![w] = "edit"] /\ pc' = [pc EXCEPT ![w] = "read"]
      /\ at' = [at EXCEPT ![w] = i] /\ ver' = [ver EXCEPT ![w] = doc]
      /\ req' = [req EXCEPT ![w] = q] /\ "edit" \in Ops
      /\ UNCHANGED <<doc, used, sched, lastId, got, todo>>
  BY DEF StartEdit, Takes, docVars
<1>2. JobTypes'
  BY <1>1 DEF TypeOK, JobTypes
<1>3. /\ pc'[w] = "read" /\ op'[w] = "edit" /\ ver'[w] = doc /\ req'[w] = q /\ at'[w] = i
      /\ doc # None /\ q # None
  BY <1>1, NotNone DEF TypeOK
<1>4. JobOk(w)'
  BY <1>3 DEF JobOk, Batch
<1>5. \A v \in Workers \ {w} :
          /\ pc'[v] = pc[v] /\ op'[v] = op[v] /\ at'[v] = at[v] /\ got'[v] = got[v]
          /\ ver'[v] = ver[v] /\ req'[v] = req[v] /\ todo'[v] = todo[v]
  BY <1>1 DEF TypeOK
<1>. QED
  BY <1>1, <1>2, <1>3, <1>4, <1>5, OneJob

LEMMA StartDelRecGo ==
    ASSUME TypeOK, JobsOk, NEW w \in Workers, NEW i \in Ids, StartDelRec(w, i)
    PROVE  JobsGo
<1>1. /\ op' = [op EXCEPT ![w] = "delrec"] /\ pc' = [pc EXCEPT ![w] = "read"]
      /\ at' = [at EXCEPT ![w] = i] /\ "delrec" \in Ops
      /\ UNCHANGED <<doc, used, sched, lastId, got, ver, req, todo>>
  BY DEF StartDelRec, Takes, docVars
<1>2. JobTypes'
  BY <1>1 DEF TypeOK, JobTypes
<1>3. pc'[w] = "read" /\ op'[w] = "delrec" /\ at'[w] = i
  BY <1>1 DEF TypeOK
<1>4. JobOk(w)'
  BY <1>3 DEF JobOk, Batch
<1>5. \A v \in Workers \ {w} :
          /\ pc'[v] = pc[v] /\ op'[v] = op[v] /\ at'[v] = at[v] /\ got'[v] = got[v]
          /\ ver'[v] = ver[v] /\ req'[v] = req[v] /\ todo'[v] = todo[v]
  BY <1>1 DEF TypeOK
<1>. QED
  BY <1>1, <1>2, <1>4, <1>5, OneJob

LEMMA StartBatchGo ==
    ASSUME TypeOK, JobsOk, NEW w \in Workers, NEW o \in Ops, NEW I \in SUBSET Ids,
           StartBatch(w, o, I)
    PROVE  JobsGo
<1>. DEFINE g == [i \in Ids |-> IF i \in I THEN sched[i] ELSE None]
<1>1. /\ op' = [op EXCEPT ![w] = o] /\ pc' = [pc EXCEPT ![w] = "docs"]
      /\ got' = [got EXCEPT ![w] = g] /\ todo' = [todo EXCEPT ![w] = I]
      /\ o \in Batch /\ \A i \in I : sched[i] # None
      /\ UNCHANGED <<doc, used, sched, lastId, at, ver, req>>
  BY DEF StartBatch, Takes, docVars, Batch, Exists
<1>2. g \in [Ids -> Rows \union {None}]
  BY DEF TypeOK
<1>3. \A i \in Ids : g[i] = (IF i \in I THEN sched[i] ELSE None)
  OBVIOUS
<1>. HIDE DEF g
<1>4. JobTypes'
  BY <1>1, <1>2 DEF TypeOK, JobTypes
<1>5. pc'[w] = "docs" /\ op'[w] = o /\ got'[w] = g /\ todo'[w] = I /\ ver'[w] = ver[w]
  BY <1>1 DEF TypeOK
<1>6. JobOk(w)'
  BY <1>1, <1>3, <1>5 DEF JobOk, Batch
<1>7. \A v \in Workers \ {w} :
          /\ pc'[v] = pc[v] /\ op'[v] = op[v] /\ at'[v] = at[v] /\ got'[v] = got[v]
          /\ ver'[v] = ver[v] /\ req'[v] = req[v] /\ todo'[v] = todo[v]
  BY <1>1 DEF TypeOK
<1>. QED
  BY <1>1, <1>3, <1>4, <1>5, <1>6, <1>7, OneJob

\* The statements that read and check.
LEMMA ReadDocsGo ==
    ASSUME TypeOK, JobsOk, NEW w \in Workers, ReadDocs(w)
    PROVE  JobsGo
<1>. DEFINE s == IF op[w] = "confirm" THEN "check" ELSE "write"
<1>1. /\ pc[w] = "docs" /\ pc' = [pc EXCEPT ![w] = s] /\ ver' = [ver EXCEPT ![w] = doc]
      /\ UNCHANGED <<doc, used, sched, lastId, op, at, got, req, todo>>
  BY DEF ReadDocs, GoTo, docVars
<1>2. s \in {"check", "write"} /\ (s = "write" => op[w] # "confirm")
  OBVIOUS
<1>. HIDE DEF s
<1>3. JobTypes'
  BY <1>1, <1>2 DEF TypeOK, JobTypes
<1>4. pc'[w] = s /\ ver'[w] = doc /\ doc # None
  BY <1>1, NotNone DEF TypeOK
<1>5. JobOk(w) /\ op[w] \in Batch
  BY <1>1 DEF JobsOk, JobOk
<1>6. JobOk(w)'
  BY <1>1, <1>2, <1>4, <1>5 DEF JobOk, Batch
<1>7. \A v \in Workers \ {w} :
          /\ pc'[v] = pc[v] /\ op'[v] = op[v] /\ at'[v] = at[v] /\ got'[v] = got[v]
          /\ ver'[v] = ver[v] /\ req'[v] = req[v] /\ todo'[v] = todo[v]
  BY <1>1 DEF TypeOK
<1>. QED
  BY <1>1, <1>3, <1>4, <1>6, <1>7, OneJob

\* Worker w has read record at[w], which is not being cancelled.
LEMMA ReadGo ==
    ASSUME TypeOK, JobsOk, NEW w \in Workers, NEW s \in {"check", "write"},
           op[w] \in {"edit", "delrec"}, pc[w] = "read",
           Exists(at[w]), "CANCELLING" \notin sched[at[w]].flag,
           got' = [got EXCEPT ![w][at[w]] = sched[at[w]]],
           pc' = [pc EXCEPT ![w] = s],
           op' = op, at' = at, ver' = ver, req' = req, todo' = todo, sched' = sched
    PROVE  JobsGo
<1>. DEFINE i == at[w]  g == [got[w] EXCEPT ![i] = sched[i]]
<1>1. JobOk(w) /\ i \in Ids /\ sched[i] \in Rows \union {None} /\ sched[i] # None
  BY DEF JobsOk, JobOk, TypeOK, Exists
<1>2. g \in [Ids -> Rows \union {None}] /\ got' = [got EXCEPT ![w] = g]
  BY <1>1 DEF TypeOK
<1>3. /\ g[i] = sched[i] /\ \A j \in Ids : j # i => g[j] = got[w][j]
      /\ "CANCELLING" \notin sched[i].flag
  BY <1>1 DEF TypeOK
<1>. HIDE DEF g, i
<1>4. JobTypes'
  <2>1. got' \in [Workers -> [Ids -> Rows \union {None}]]
    BY <1>2 DEF TypeOK
  <2>2. pc' \in [Workers -> {"idle", "read", "docs", "check", "write"}]
    BY DEF TypeOK
  <2>. QED
    BY <2>1, <2>2 DEF TypeOK, JobTypes
<1>5. pc'[w] = s /\ got'[w] = g
  BY <1>2 DEF TypeOK
<1>6. JobOk(w)'
  BY <1>1, <1>3, <1>5 DEF JobOk, Batch, i
<1>7. \A v \in Workers \ {w} :
          /\ pc'[v] = pc[v] /\ op'[v] = op[v] /\ at'[v] = at[v] /\ got'[v] = got[v]
          /\ ver'[v] = ver[v] /\ req'[v] = req[v] /\ todo'[v] = todo[v]
  BY <1>2 DEF TypeOK
<1>8. \A j \in Ids : got'[w][j] = got[w][j] \/ (got'[w][j] = sched[j] /\ sched' = sched)
  BY <1>3, <1>5
<1>. QED
  BY <1>4, <1>6, <1>7, <1>8, OneJob

LEMMA ReadForEditGo ==
    ASSUME TypeOK, JobsOk, NEW w \in Workers, ReadForEdit(w)
    PROVE  JobsGo
<1>. DEFINE i == at[w]  q == req[w]
            fit == Exists(i) /\ "CANCELLING" \notin sched[i].flag
                       /\ Changes(sched[i], q, ver[w][q.doc])
            s == IF Moved(sched[i], q) \/ Switched(sched[i], q) THEN "check" ELSE "write"
<1>1. op[w] = "edit" /\ pc[w] = "read" /\ UNCHANGED <<docVars, sched, lastId>>
  BY DEF ReadForEdit, Serves
<1>2. CASE fit
  <2>1. /\ got' = [got EXCEPT ![w][i] = sched[i]] /\ GoTo(w, s)
        /\ UNCHANGED <<at, ver, req, todo>>
    BY <1>2 DEF ReadForEdit
  <2>2. s \in {"check", "write"}
    OBVIOUS
  <2>. HIDE DEF s
  <2>3. pc' = [pc EXCEPT ![w] = s] /\ op' = op
    BY <2>1 DEF GoTo
  <2>4. Exists(at[w]) /\ "CANCELLING" \notin sched[at[w]].flag
    BY <1>2
  <2>. HIDE DEF fit, q
  <2>. QED
    BY <1>1, <2>1, <2>2, <2>3, <2>4, ReadGo
<1>3. CASE ~fit
  <2>1. Finish(w)
    BY <1>3 DEF ReadForEdit
  <2>. QED
    BY <2>1, FinishGo
<1>. QED
  BY <1>2, <1>3

LEMMA ReadForDelRecGo ==
    ASSUME TypeOK, JobsOk, NEW w \in Workers, ReadForDelRec(w)
    PROVE  JobsGo
<1>. DEFINE i == at[w]  fit == Exists(i) /\ "CANCELLING" \notin sched[i].flag
<1>1. op[w] = "delrec" /\ pc[w] = "read" /\ UNCHANGED <<docVars, sched, lastId>>
  BY DEF ReadForDelRec, Serves
<1>2. CASE fit
  <2>1. /\ got' = [got EXCEPT ![w][i] = sched[i]] /\ GoTo(w, "write")
        /\ UNCHANGED <<at, ver, req, todo>>
    BY <1>2 DEF ReadForDelRec
  <2>2. pc' = [pc EXCEPT ![w] = "write"] /\ op' = op
    BY <2>1 DEF GoTo
  <2>. QED
    BY <1>1, <1>2, <2>1, <2>2, ReadGo
<1>3. CASE ~fit
  <2>1. Finish(w)
    BY <1>3 DEF ReadForDelRec
  <2>. QED
    BY <2>1, FinishGo
<1>. QED
  BY <1>2, <1>3

LEMMA CheckSiblingsGo ==
    ASSUME TypeOK, JobsOk, NEW w \in Workers, CheckSiblings(w)
    PROVE  JobsGo
<1>1. /\ op[w] \in {"new", "edit"} /\ pc[w] = "check"
      /\ UNCHANGED <<docVars, sched, lastId>>
  BY DEF CheckSiblings, Serves
<1>2. CASE SiblingsAllow(req[w].doc, req[w].date, at[w], req[w].mode)
  <2>1. pc' = [pc EXCEPT ![w] = "write"] /\ UNCHANGED <<op, at, got, ver, req, todo>>
    BY <1>2 DEF CheckSiblings, GoTo, Unanswered
  <2>2. JobTypes'
    BY <2>1 DEF TypeOK, JobTypes
  <2>3. pc'[w] = "write" /\ JobOk(w)
    BY <2>1 DEF TypeOK, JobsOk
  <2>4. JobOk(w)'
    BY <1>1, <2>1, <2>3 DEF JobOk, Batch
  <2>5. \A v \in Workers \ {w} :
            /\ pc'[v] = pc[v] /\ op'[v] = op[v] /\ at'[v] = at[v] /\ got'[v] = got[v]
            /\ ver'[v] = ver[v] /\ req'[v] = req[v] /\ todo'[v] = todo[v]
    BY <2>1 DEF TypeOK
  <2>. QED
    BY <2>1, <2>2, <2>4, <2>5, OneJob
<1>3. CASE ~SiblingsAllow(req[w].doc, req[w].date, at[w], req[w].mode)
  <2>1. Finish(w)
    BY <1>3 DEF CheckSiblings
  <2>. QED
    BY <2>1, FinishGo
<1>. QED
  BY <1>2, <1>3

LEMMA CheckConfirmGo ==
    ASSUME TypeOK, JobsOk, NEW w \in Workers, NEW i \in Ids, CheckConfirm(w, i)
    PROVE  JobsGo
<1>. DEFINE o == got[w][i]  fit == SiblingsAllow(o.doc, o.newdate, i, "PARTIAL" \in o.flag)
<1>1. /\ op[w] = "confirm" /\ pc[w] = "check" /\ i \in todo[w]
      /\ UNCHANGED <<docVars, sched, lastId>>
  BY DEF CheckConfirm, Serves
<1>2. CASE fit
  <2>1. /\ at' = [at EXCEPT ![w] = i] /\ pc' = [pc EXCEPT ![w] = "write"]
        /\ UNCHANGED <<op, got, ver, req, todo>>
    BY <1>2 DEF CheckConfirm, GoTo
  <2>. HIDE DEF o
  <2>2. JobTypes'
    BY <2>1 DEF TypeOK, JobTypes
  <2>3. pc'[w] = "write" /\ at'[w] = i /\ JobOk(w)
    BY <2>1 DEF TypeOK, JobsOk
  <2>4. JobOk(w)'
    BY <1>1, <2>1, <2>3 DEF JobOk, Batch
  <2>5. \A v \in Workers \ {w} :
            /\ pc'[v] = pc[v] /\ op'[v] = op[v] /\ at'[v] = at[v] /\ got'[v] = got[v]
            /\ ver'[v] = ver[v] /\ req'[v] = req[v] /\ todo'[v] = todo[v]
    BY <2>1 DEF TypeOK
  <2>. QED
    BY <2>1, <2>2, <2>4, <2>5, OneJob
<1>3. CASE ~fit
  <2>1. Done(w, i)
    BY <1>3 DEF CheckConfirm
  <2>. QED
    BY <1>1, <2>1, DoneGo DEF Batch
<1>. QED
  BY <1>2, <1>3

----------------------------------------------------------------------------
(* What a step does to the table.                                          *)

Accepted(r) == "ACCEPTED" \in r.flag
Cancelling(r) == "CANCELLING" \in r.flag
Partial(r) == "PARTIAL" \in r.flag

\* From row o to row e, in terms of the booking.
Progress(i, o, e) ==
    \/ \* it moves while it is pending
       ~Accepted(o) /\ ~Accepted(e) /\ e.newdate = 0
    \/ \* it is accepted
       /\ ~Accepted(o) /\ Accepted(e) /\ ~Cancelling(e)
       /\ e.date = o.date /\ e.newdate = o.newdate /\ (Partial(e) <=> Partial(o))
    \/ \* another day is wished for, or all or a part
       /\ Accepted(o) /\ Accepted(e) /\ ~Cancelling(o) /\ ~Cancelling(e)
       /\ e.date = o.date
       /\ e.newdate # 0 \/ e.newdate = o.newdate
    \/ \* the day wished for is confirmed
       /\ Accepted(o) /\ Accepted(e) /\ ~Cancelling(o) /\ ~Cancelling(e)
       /\ o.newdate # 0 /\ e.date = o.newdate /\ e.newdate = 0 /\ (Partial(e) <=> Partial(o))
    \/ \* it is to be cancelled
       /\ Accepted(o) /\ Accepted(e) /\ ~Cancelling(o) /\ Cancelling(e) /\ i \notin used
       /\ e.date = o.date /\ e.newdate = o.newdate /\ (Partial(e) <=> Partial(o))
    \/ \* the manager has seen it
       /\ Accepted(o) /\ Accepted(e) /\ (Cancelling(o) <=> Cancelling(e))
       /\ e.date = o.date /\ e.newdate = o.newdate /\ (Partial(e) <=> Partial(o))

Rewritten(i) ==
    /\ Exists(i)
    /\ \E e \in Rows :
          /\ Coherent(e) /\ SeenRow(e) /\ e.rev = sched[i].rev + 1
          /\ Progress(i, sched[i], e)
          /\ sched' = [sched EXCEPT ![i] = e]

Gone(i) ==
    /\ Exists(i) /\ i \notin used
    /\ ~Accepted(sched[i]) \/ Cancelling(sched[i])
    /\ sched' = [sched EXCEPT ![i] = None]

Opened ==
    /\ lastId < MaxId
    /\ lastId' = lastId + 1
    /\ \E e \in Rows :
          /\ Coherent(e) /\ SeenRow(e) /\ ~Accepted(e) /\ e.newdate = 0
          /\ sched' = [sched EXCEPT ![lastId + 1] = e]

TableGo ==
    \/ UNCHANGED <<sched, lastId>>
    \/ lastId' = lastId /\ \E i \in Ids : Rewritten(i) \/ Gone(i)
    \/ Opened

\* What SameRev says: the record is the one that was read.
LEMMA SameRow ==
    ASSUME IInv, NEW w \in Workers, NEW i \in Ids, SameRev(w, i), got[w][i] # None
    PROVE  /\ Exists(i) /\ sched[i] = got[w][i] /\ sched[i] \in Rows
           /\ Coherent(sched[i]) /\ SeenRow(sched[i])
  BY DEF IInv, TypeOK, SameRev, Exists, ReadsValid, RecordsCoherent, AllSeen

\* A record that was rewritten.
LEMMA RewrittenGo ==
    ASSUME NEW i \in Ids, Exists(i), NEW e \in Rows, Coherent(e), SeenRow(e),
           e.rev = sched[i].rev + 1, Progress(i, sched[i], e),
           sched' = [sched EXCEPT ![i] = e], lastId' = lastId
    PROVE  TableGo
  BY DEF TableGo, Rewritten

LEMMA InsertGo ==
    ASSUME IInv, NEW w \in Workers, Insert(w)
    PROVE  JobsGo /\ TableGo
<1>. DEFINE q == req[w]  v == ver[w][q.doc]  e == Created(q, v)
<1>1. op[w] = "new" /\ pc[w] = "write" /\ Finish(w)
  BY DEF Insert, Serves
<1>2. TypeOK /\ JobsOk /\ JobOk(w)
  BY DEF IInv, JobsOk
<1>3. JobsGo
  BY <1>1, <1>2, FinishGo
<1>4. CASE lastId < MaxId
  <2>1. ver[w] # None /\ q # None
    BY <1>1, <1>2 DEF JobOk
  <2>2. q \in Requests /\ ver[w] \in [Docs -> Contents]
    BY <1>2, <2>1 DEF TypeOK
  <2>3. v \in Contents
    BY <2>2 DEF Requests
  <2>4. lastId' = lastId + 1 /\ sched' = [sched EXCEPT ![lastId + 1] = e]
    BY <1>4 DEF Insert
  <2>. HIDE DEF q, v
  <2>5. /\ e \in Rows /\ Coherent(e) /\ SeenRow(e)
        /\ e.newdate = 0 /\ e.flag \subseteq {"PARTIAL"}
    BY <2>2, <2>3, CreatedFacts
  <2>. HIDE DEF e
  <2>6. ~Accepted(e)
    BY <2>5 DEF Accepted
  <2>. QED
    BY <1>3, <1>4, <2>4, <2>5, <2>6 DEF TableGo, Opened
<1>5. CASE ~(lastId < MaxId)
  <2>1. UNCHANGED <<sched, lastId>>
    BY <1>5 DEF Insert
  <2>. QED
    BY <1>3, <2>1 DEF TableGo
<1>. QED
  BY <1>4, <1>5

LEMMA UpdateEditGo ==
    ASSUME IInv, NEW w \in Workers, UpdateEdit(w)
    PROVE  JobsGo /\ TableGo
<1>. DEFINE i == at[w]  o == got[w][i]  q == req[w]  v == ver[w][q.doc]  e == Edited(o, o, q, v)
<1>1. op[w] = "edit" /\ pc[w] = "write" /\ Finish(w) /\ lastId' = lastId
  BY DEF UpdateEdit, Serves
<1>2. TypeOK /\ JobsOk /\ JobOk(w)
  BY DEF IInv, JobsOk
<1>3. JobsGo
  BY <1>1, <1>2, FinishGo
<1>4. /\ i \in Ids /\ o # None /\ "CANCELLING" \notin o.flag
      /\ ver[w] # None /\ q # None
  BY <1>1, <1>2 DEF JobOk
<1>5. CASE SameRev(w, i)
  <2>1. /\ Exists(i) /\ sched[i] = o /\ o \in Rows /\ Coherent(o) /\ SeenRow(o)
    BY <1>4, <1>5, SameRow
  <2>2. q \in Requests /\ ver[w] \in [Docs -> Contents]
    BY <1>2, <1>4 DEF TypeOK
  <2>3. v \in Contents
    BY <2>2 DEF Requests
  <2>4. sched' = [sched EXCEPT ![i] = Edited(sched[i], got[w][i], req[w], ver[w][req[w].doc])]
    BY <1>5 DEF UpdateEdit
  <2>5. sched' = [sched EXCEPT ![i] = e]
    BY <2>1, <2>4
  <2>. HIDE DEF o, q, v, i
  <2>6. /\ e \in Rows /\ e.rev = o.rev + 1 /\ e.flag = EditedFlag(o, q, v)
        /\ "ACCEPTED" \in o.flag =>
               e.date = o.date /\ e.newdate = (IF Moved(o, q) THEN q.date ELSE o.newdate)
        /\ "ACCEPTED" \notin o.flag => e.newdate = 0
    BY <2>1, <2>2, <2>3, EditedFacts
  <2>7. /\ "ACCEPTED" \in EditedFlag(o, q, v) <=> "ACCEPTED" \in o.flag
        /\ "CANCELLING" \in EditedFlag(o, q, v) <=> "CANCELLING" \in o.flag
    BY <2>1, <2>2, <2>3, EditedFlagFacts
  <2>8. Coherent(e) /\ SeenRow(e)
    BY <2>1, <2>2, <2>3, EditedGood
  <2>9. q.date # 0
    BY <2>2, DayFacts DEF Requests
  <2>. HIDE DEF e
  <2>10. Progress(i, o, e)
    BY <1>4, <2>6, <2>7, <2>9 DEF Progress, Accepted, Cancelling, Partial
  <2>. QED
    BY <1>1, <1>3, <1>4, <2>1, <2>5, <2>6, <2>8, <2>10, RewrittenGo
<1>6. CASE ~SameRev(w, i)
  BY <1>1, <1>3, <1>6 DEF UpdateEdit, TableGo
<1>. QED
  BY <1>5, <1>6

LEMMA UpdateDelRecGo ==
    ASSUME IInv, NEW w \in Workers, UpdateDelRec(w)
    PROVE  JobsGo /\ TableGo
<1>. DEFINE i == at[w]  o == got[w][i]
            missed == \/ ~SameRev(w, i) \/ i \in used
                      \/ ("ACCEPTED" \in sched[i].flag) # ("ACCEPTED" \in got[w][i].flag)
            e == [o EXCEPT !.rev = @ + 1, !.flag = @ \union {"CANCELLING"}]
<1>1. op[w] = "delrec" /\ pc[w] = "write" /\ Finish(w) /\ lastId' = lastId
  BY DEF UpdateDelRec, Serves
<1>2. TypeOK /\ JobsOk /\ JobOk(w)
  BY DEF IInv, JobsOk
<1>3. JobsGo
  BY <1>1, <1>2, FinishGo
<1>4. i \in Ids /\ o # None /\ "CANCELLING" \notin o.flag
  BY <1>1, <1>2 DEF JobOk
<1>5. CASE missed
  <2>1. sched' = sched
    BY <1>5 DEF UpdateDelRec
  <2>. QED
    BY <1>1, <1>3, <2>1 DEF TableGo
<1>6. CASE ~missed
  <2>1. /\ Exists(i) /\ sched[i] = o /\ o \in Rows /\ Coherent(o) /\ SeenRow(o)
        /\ i \notin used
    BY <1>4, <1>6, SameRow
  <2>2. CASE "ACCEPTED" \in o.flag
    <3>1. sched' = [sched EXCEPT ![i].rev = @ + 1, ![i].flag = @ \union {"CANCELLING"}]
      BY <1>6, <2>2 DEF UpdateDelRec
    <3>2. sched' = [sched EXCEPT ![i] = e]
      BY <1>2, <1>4, <2>1, <3>1 DEF TypeOK
    <3>. HIDE DEF o, i
    <3>3. /\ e \in Rows /\ Coherent(e) /\ SeenRow(e) /\ e.rev = o.rev + 1
          /\ e.flag = o.flag \union {"CANCELLING"} /\ e.date = o.date /\ e.newdate = o.newdate
      BY <2>1, <2>2, CancelledFacts
    <3>. HIDE DEF e
    <3>4. Progress(i, o, e)
      BY <1>4, <2>1, <2>2, <3>3 DEF Progress, Accepted, Cancelling, Partial
    <3>. QED
      BY <1>1, <1>3, <1>4, <2>1, <3>2, <3>3, <3>4, RewrittenGo
  <2>3. CASE "ACCEPTED" \notin o.flag
    <3>1. sched' = [sched EXCEPT ![i] = None]
      BY <1>6, <2>3 DEF UpdateDelRec
    <3>2. Gone(i)
      BY <2>1, <2>3, <3>1 DEF Gone, Accepted
    <3>. QED
      BY <1>1, <1>3, <1>4, <3>2 DEF TableGo
  <2>. QED
    BY <2>2, <2>3
<1>. QED
  BY <1>5, <1>6

LEMMA AcceptOneGo ==
    ASSUME IInv, NEW w \in Workers, NEW i \in Ids, AcceptOne(w, i)
    PROVE  JobsGo /\ TableGo
<1>. DEFINE o == got[w][i]  v == ver[w][o.doc]  f == o.flag \union {"ACCEPTED"}
            hit == /\ Current(o, v) /\ SameRev(w, i)
                   /\ sched[i].flag \intersect {"ACCEPTED", "CANCELLING"} = {}
            e == SeenAs(o, v, f)
<1>1. /\ op[w] = "accept" /\ pc[w] = "write" /\ i \in todo[w] /\ Done(w, i)
      /\ lastId' = lastId
  BY DEF AcceptOne, Serves
<1>2. TypeOK /\ JobsOk /\ JobOk(w) /\ ReceiptsStay
  BY DEF IInv, JobsOk
<1>3. JobsGo
  BY <1>1, <1>2, DoneGo DEF Batch
<1>4. o # None /\ ver[w] # None
  BY <1>1, <1>2 DEF JobOk, Batch
<1>5. CASE hit
  <2>1. /\ Exists(i) /\ sched[i] = o /\ o \in Rows /\ Coherent(o) /\ SeenRow(o)
    BY <1>4, <1>5, SameRow
  <2>2. ver[w] \in [Docs -> Contents] /\ o.doc \in Docs /\ o.flag \in FlagSet
    BY <1>2, <1>4, <2>1 DEF TypeOK, Rows
  <2>3. /\ v \in Contents
        /\ o.doc \in Receipts => v.items = doc[o.doc].items
    BY <1>2, <1>4, <2>2 DEF ReceiptsStay
  <2>4. sched' = [sched EXCEPT ![i] = [Seen(sched[i], o, v) EXCEPT !.flag = @ \union {"ACCEPTED"}]]
    BY <1>5 DEF AcceptOne
  <2>5. Seen(o, o, v).flag = o.flag
    BY <2>1 DEF Seen, Rows
  <2>6. sched' = [sched EXCEPT ![i] = e]
    BY <2>1, <2>4, <2>5 DEF SeenAs
  <2>7. /\ f \in FlagSet /\ "ACCEPTED" \in f
        /\ "PARTIAL" \in f <=> "PARTIAL" \in o.flag
        /\ "RESCHEDULED" \in f <=> "RESCHEDULED" \in o.flag
        /\ "CANCELLING" \in f <=> "CANCELLING" \in o.flag
    BY <1>5, <2>1, <2>2 DEF FlagSet
  <2>8. "ACCEPTED" \notin o.flag /\ "CANCELLING" \notin o.flag
    BY <1>5, <2>1
  <2>9. e = SeenAs(o, v, f)
    OBVIOUS
  <2>. HIDE DEF o, v, f, e
  <2>10. /\ e \in Rows /\ Coherent(e) /\ SeenRow(e) /\ e.rev = o.rev + 1 /\ e.flag = f
         /\ e.date = o.date /\ e.newdate = o.newdate
    BY <2>1, <2>3, <2>7, <2>9, SeenFacts
  <2>11. Progress(i, o, e)
    BY <2>7, <2>8, <2>10 DEF Progress, Accepted, Cancelling, Partial
  <2>. QED
    BY <1>1, <1>3, <2>1, <2>6, <2>10, <2>11, RewrittenGo
<1>6. CASE ~hit
  <2>1. sched' = sched
    BY <1>6 DEF AcceptOne
  <2>. QED
    BY <1>1, <1>3, <2>1 DEF TableGo
<1>. QED
  BY <1>5, <1>6

LEMMA ClearOneGo ==
    ASSUME IInv, NEW w \in Workers, NEW i \in Ids, ClearOne(w, i)
    PROVE  JobsGo /\ TableGo
<1>. DEFINE o == got[w][i]  v == ver[w][o.doc]  f == o.flag \ {"CHANGED"}
            hit == Current(o, v) /\ SameRev(w, i) /\ "ACCEPTED" \in sched[i].flag
            e == SeenAs(o, v, f)
<1>1. /\ op[w] = "clear" /\ pc[w] = "write" /\ i \in todo[w] /\ Done(w, i)
      /\ lastId' = lastId
  BY DEF ClearOne, Serves
<1>2. TypeOK /\ JobsOk /\ JobOk(w) /\ ReceiptsStay
  BY DEF IInv, JobsOk
<1>3. JobsGo
  BY <1>1, <1>2, DoneGo DEF Batch
<1>4. o # None /\ ver[w] # None
  BY <1>1, <1>2 DEF JobOk, Batch
<1>5. CASE hit
  <2>1. /\ Exists(i) /\ sched[i] = o /\ o \in Rows /\ Coherent(o) /\ SeenRow(o)
    BY <1>4, <1>5, SameRow
  <2>2. ver[w] \in [Docs -> Contents] /\ o.doc \in Docs /\ o.flag \in FlagSet
    BY <1>2, <1>4, <2>1 DEF TypeOK, Rows
  <2>3. /\ v \in Contents
        /\ o.doc \in Receipts => v.items = doc[o.doc].items
    BY <1>2, <1>4, <2>2 DEF ReceiptsStay
  <2>4. sched' = [sched EXCEPT ![i] = [Seen(sched[i], o, v) EXCEPT !.flag = @ \ {"CHANGED"}]]
    BY <1>5 DEF ClearOne
  <2>5. Seen(o, o, v).flag = o.flag
    BY <2>1 DEF Seen, Rows
  <2>6. sched' = [sched EXCEPT ![i] = e]
    BY <2>1, <2>4, <2>5 DEF SeenAs
  <2>7. /\ f \in FlagSet /\ "ACCEPTED" \in f
        /\ "PARTIAL" \in f <=> "PARTIAL" \in o.flag
        /\ "RESCHEDULED" \in f <=> "RESCHEDULED" \in o.flag
        /\ "CANCELLING" \in f <=> "CANCELLING" \in o.flag
    BY <1>5, <2>1, <2>2 DEF FlagSet
  <2>8. "ACCEPTED" \in o.flag
    BY <1>5, <2>1
  <2>9. e = SeenAs(o, v, f)
    OBVIOUS
  <2>. HIDE DEF o, v, f, e
  <2>10. /\ e \in Rows /\ Coherent(e) /\ SeenRow(e) /\ e.rev = o.rev + 1 /\ e.flag = f
         /\ e.date = o.date /\ e.newdate = o.newdate
    BY <2>1, <2>3, <2>7, <2>9, SeenFacts
  <2>11. Progress(i, o, e)
    BY <2>7, <2>8, <2>10 DEF Progress, Accepted, Cancelling, Partial
  <2>. QED
    BY <1>1, <1>3, <2>1, <2>6, <2>10, <2>11, RewrittenGo
<1>6. CASE ~hit
  <2>1. sched' = sched
    BY <1>6 DEF ClearOne
  <2>. QED
    BY <1>1, <1>3, <2>1 DEF TableGo
<1>. QED
  BY <1>5, <1>6

LEMMA ConfirmOneGo ==
    ASSUME IInv, NEW w \in Workers, ConfirmOne(w)
    PROVE  JobsGo /\ TableGo
<1>. DEFINE i == at[w]  o == got[w][i]
            hit == /\ SameRev(w, i)
                   /\ sched[i].flag \intersect {"RESCHEDULED", "CANCELLING"} = {"RESCHEDULED"}
            e == [o EXCEPT !.rev = @ + 1, !.flag = @ \ {"RESCHEDULED"}, !.date = o.newdate,
                           !.newdate = 0]
<1>1. op[w] = "confirm" /\ pc[w] = "write" /\ Done(w, i) /\ lastId' = lastId
  BY DEF ConfirmOne, Serves
<1>2. TypeOK /\ JobsOk /\ JobOk(w)
  BY DEF IInv, JobsOk
<1>3. i \in todo[w] /\ i \in Ids /\ o # None
  BY <1>1, <1>2 DEF JobOk, Batch, TypeOK
<1>4. JobsGo
  BY <1>1, <1>2, <1>3, DoneGo DEF Batch
<1>5. CASE hit
  <2>1. /\ Exists(i) /\ sched[i] = o /\ o \in Rows /\ Coherent(o) /\ SeenRow(o)
    BY <1>3, <1>5, SameRow
  <2>2. "RESCHEDULED" \in o.flag /\ "CANCELLING" \notin o.flag
    BY <1>5, <2>1
  <2>3. sched' = [sched EXCEPT ![i].rev = @ + 1, ![i].flag = @ \ {"RESCHEDULED"},
                               ![i].date = got[w][i].newdate, ![i].newdate = 0]
    BY <1>5 DEF ConfirmOne
  <2>4. sched' = [sched EXCEPT ![i] = e]
    BY <1>2, <1>3, <2>1, <2>3 DEF TypeOK
  <2>. HIDE DEF o, i
  <2>5. /\ e \in Rows /\ Coherent(e) /\ SeenRow(e) /\ e.rev = o.rev + 1
        /\ e.flag = o.flag \ {"RESCHEDULED"} /\ e.date = o.newdate /\ e.newdate = 0
    BY <2>1, <2>2, ConfirmedFacts
  <2>6. "ACCEPTED" \in o.flag /\ o.newdate # 0
    BY <2>1, <2>2 DEF Coherent
  <2>. HIDE DEF e
  <2>7. Progress(i, o, e)
    BY <2>2, <2>5, <2>6 DEF Progress, Accepted, Cancelling, Partial
  <2>. QED
    BY <1>1, <1>3, <1>4, <2>1, <2>4, <2>5, <2>7, RewrittenGo
<1>6. CASE ~hit
  <2>1. sched' = sched
    BY <1>6 DEF ConfirmOne
  <2>. QED
    BY <1>1, <1>4, <2>1 DEF TableGo
<1>. QED
  BY <1>5, <1>6

LEMMA DelOneGo ==
    ASSUME IInv, NEW w \in Workers, NEW i \in Ids, DelOne(w, i)
    PROVE  JobsGo /\ TableGo
<1>1. op[w] = "del" /\ pc[w] = "write" /\ Done(w, i) /\ lastId' = lastId
  BY DEF DelOne, Serves
<1>2. JobsGo
  BY <1>1, DoneGo DEF Batch, IInv
<1>3. TableGo
  BY <1>1 DEF DelOne, TableGo, Gone, Cancelling
<1>. QED
  BY <1>2, <1>3

\* Every step of a worker.
LEMMA StepGo ==
    ASSUME IInv, NEW w \in Workers, Starts(w) \/ Step(w)
    PROVE  JobsGo /\ TableGo /\ UNCHANGED docVars
<1>. USE DEF IInv
<1>1. ASSUME NEW q \in Requests, StartNew(w, q) \/ \E i \in Ids : StartEdit(w, i, q)
      PROVE  JobsGo /\ TableGo /\ UNCHANGED docVars
  <2>1. UNCHANGED <<docVars, sched, lastId>>
    BY <1>1 DEF StartNew, StartEdit
  <2>. QED
    BY <1>1, <2>1, StartNewGo, StartEditGo DEF TableGo
<1>2. ASSUME NEW i \in Ids, StartDelRec(w, i)
      PROVE  JobsGo /\ TableGo /\ UNCHANGED docVars
  BY <1>2, StartDelRecGo DEF TableGo, StartDelRec
<1>3. ASSUME NEW o \in Ops, NEW I \in SUBSET Ids, StartBatch(w, o, I)
      PROVE  JobsGo /\ TableGo /\ UNCHANGED docVars
  BY <1>3, StartBatchGo DEF TableGo, StartBatch
<1>4. CASE ReadDocs(w)
  BY <1>4, ReadDocsGo DEF TableGo, ReadDocs
<1>5. CASE ReadForEdit(w)
  BY <1>5, ReadForEditGo DEF TableGo, ReadForEdit
<1>6. CASE RefuseEdit(w)
  BY <1>6, FinishGo DEF TableGo, RefuseEdit
<1>7. CASE ReadForDelRec(w)
  BY <1>7, ReadForDelRecGo DEF TableGo, ReadForDelRec
<1>8. CASE CheckSiblings(w)
  BY <1>8, CheckSiblingsGo DEF TableGo, CheckSiblings
<1>. USE DEF docVars
<1>9. CASE Insert(w)
  <2>1. UNCHANGED docVars
    BY <1>9 DEF Insert
  <2>. QED
    BY <1>9, <2>1, InsertGo
<1>10. CASE UpdateEdit(w)
  <2>1. UNCHANGED docVars
    BY <1>10 DEF UpdateEdit
  <2>. QED
    BY <1>10, <2>1, UpdateEditGo
<1>11. CASE UpdateDelRec(w)
  <2>1. UNCHANGED docVars
    BY <1>11 DEF UpdateDelRec
  <2>. QED
    BY <1>11, <2>1, UpdateDelRecGo
<1>12. CASE ConfirmOne(w)
  <2>1. UNCHANGED docVars
    BY <1>12 DEF ConfirmOne
  <2>. QED
    BY <1>12, <2>1, ConfirmOneGo
<1>13. ASSUME NEW i \in Ids, AcceptOne(w, i) \/ ClearOne(w, i) \/ DelOne(w, i)
       PROVE  JobsGo /\ TableGo /\ UNCHANGED docVars
  <2>1. UNCHANGED docVars
    BY <1>13 DEF AcceptOne, ClearOne, DelOne
  <2>. QED
    BY <1>13, <2>1, AcceptOneGo, ClearOneGo, DelOneGo
<1>14. ASSUME NEW i \in Ids, CheckConfirm(w, i)
       PROVE  JobsGo /\ TableGo /\ UNCHANGED docVars
  BY <1>14, CheckConfirmGo DEF TableGo, CheckConfirm
<1>15. CASE Starts(w)
  <2>1. [doc : Docs, date : Days, mode : BOOLEAN, note : Notes, pick : PickSet] \subseteq Requests
    BY ScheduleAssumption DEF Requests, Lists
  <2>. QED
    BY <1>1, <1>2, <1>3, <1>15, <2>1 DEF Starts
<1>16. CASE Step(w)
  BY <1>4, <1>5, <1>6, <1>7, <1>8, <1>9, <1>10, <1>11, <1>12, <1>13, <1>14, <1>16 DEF Step
<1>. QED
  BY <1>15, <1>16

----------------------------------------------------------------------------
(* The invariant is kept.                                                  *)

\* What may have become of each record.
LEMMA TableFacts ==
    ASSUME IInv, TableGo
    PROVE  /\ sched' \in [Ids -> Rows \union {None}]
           /\ lastId' \in 0..MaxId /\ lastId <= lastId'
           /\ \A i \in Ids :
                 \/ sched'[i] = sched[i]
                 \/ sched'[i] = None
                 \/ /\ sched'[i] \in Rows /\ Coherent(sched'[i]) /\ SeenRow(sched'[i])
                    /\ \/ Exists(i) /\ sched'[i].rev = sched[i].rev + 1
                       \/ i > lastId /\ i <= lastId'
<1>1. /\ sched \in [Ids -> Rows \union {None}] /\ lastId \in 0..MaxId /\ MaxId \in Nat
      /\ lastId \in Nat
  BY ScheduleAssumption DEF IInv, TypeOK
<1>2. CASE UNCHANGED <<sched, lastId>>
  BY <1>1, <1>2
<1>3. ASSUME NEW i \in Ids, Rewritten(i), lastId' = lastId
      PROVE  /\ sched' \in [Ids -> Rows \union {None}]
             /\ lastId' \in 0..MaxId /\ lastId <= lastId'
             /\ \A j \in Ids :
                   \/ sched'[j] = sched[j]
                   \/ /\ sched'[j] \in Rows /\ Coherent(sched'[j]) /\ SeenRow(sched'[j])
                      /\ Exists(j) /\ sched'[j].rev = sched[j].rev + 1
  <2>1. PICK e \in Rows : /\ Coherent(e) /\ SeenRow(e) /\ e.rev = sched[i].rev + 1
                          /\ sched' = [sched EXCEPT ![i] = e]
    BY <1>3 DEF Rewritten
  <2>2. Exists(i)
    BY <1>3 DEF Rewritten
  <2>. QED
    BY <1>1, <1>3, <2>1, <2>2
<1>4. ASSUME NEW i \in Ids, Gone(i), lastId' = lastId
      PROVE  /\ sched' \in [Ids -> Rows \union {None}]
             /\ lastId' \in 0..MaxId /\ lastId <= lastId'
             /\ \A j \in Ids : sched'[j] = sched[j] \/ sched'[j] = None
  BY <1>1, <1>4 DEF Gone
<1>5. CASE Opened
  <2>1. PICK e \in Rows : Coherent(e) /\ SeenRow(e) /\ sched' = [sched EXCEPT ![lastId + 1] = e]
    BY <1>5 DEF Opened
  <2>2. lastId < MaxId /\ lastId' = lastId + 1
    BY <1>5 DEF Opened
  <2>. QED
    BY <1>1, <2>1, <2>2 DEF Ids
<1>. QED
  BY <1>2, <1>3, <1>4, <1>5 DEF TableGo

LEMMA StepKeeps ==
    ASSUME IInv, JobsGo, TableGo, UNCHANGED docVars
    PROVE  IInv'
<1>. USE DEF docVars
<1>1. /\ TypeOK /\ FreshIds /\ RecordsCoherent /\ AllSeen /\ JobsOk /\ ReadsValid /\ ReceiptsStay
      /\ JobTypes' /\ JobsOk' /\ ReadsNow
  BY DEF IInv, JobsGo
<1>2. /\ sched' \in [Ids -> Rows \union {None}]
      /\ lastId' \in 0..MaxId /\ lastId <= lastId'
      /\ \A i \in Ids :
            \/ sched'[i] = sched[i]
            \/ sched'[i] = None
            \/ /\ sched'[i] \in Rows /\ Coherent(sched'[i]) /\ SeenRow(sched'[i])
               /\ \/ Exists(i) /\ sched'[i].rev = sched[i].rev + 1
                  \/ i > lastId /\ i <= lastId'
  BY TableFacts
<1>3. TypeOK'
  BY <1>1, <1>2 DEF TypeOK, JobTypes
<1>4. lastId \in Nat /\ lastId' \in Nat /\ Ids \subseteq Nat
  BY <1>1, <1>2, ScheduleAssumption DEF TypeOK, Ids
<1>5. FreshIds'
  <2>1. ASSUME NEW i \in Ids, i > lastId' PROVE sched'[i] = None
    <3>1. i > lastId /\ ~Exists(i)
      BY <1>1, <1>2, <1>4, <2>1 DEF FreshIds, Exists
    <3>. QED
      BY <1>2, <1>4, <2>1, <3>1 DEF Exists
  <2>2. ASSUME NEW i \in Ids, i > lastId', NEW v \in Workers PROVE got'[v][i] = None
    <3>1. i > lastId
      BY <1>2, <1>4, <2>2
    <3>2. sched[i] = None /\ got[v][i] = None
      BY <1>1, <3>1 DEF FreshIds
    <3>. QED
      BY <1>1, <3>2 DEF ReadsNow
  <2>. QED
    BY <2>1, <2>2 DEF FreshIds
<1>6. RecordsCoherent'
  BY <1>1, <1>2 DEF RecordsCoherent, Exists
<1>7. AllSeen'
  <2>1. ASSUME NEW i \in Ids, sched'[i] # None PROVE SeenRow(sched'[i])
    BY <1>1, <1>2, <2>1 DEF AllSeen, Exists
  <2>. QED
    BY <2>1 DEF AllSeen, Exists, SeenRow
<1>8. ReadsValid'
  <2>1. ASSUME NEW v \in Workers, NEW i \in Ids, got'[v][i] # None, sched'[i] # None
        PROVE  /\ got'[v][i].rev <= sched'[i].rev
               /\ got'[v][i].rev = sched'[i].rev => got'[v][i] = sched'[i]
    <3>1. CASE got'[v][i] = sched[i] /\ sched' = sched
      <4>1. sched[i] \in Rows
        BY <1>1, <2>1, <3>1 DEF TypeOK
      <4>. QED
        BY <3>1, <4>1 DEF Rows
    <3>2. CASE got'[v][i] = got[v][i]
      <4>1. got[v][i] \in Rows /\ sched[i] \in Rows \union {None}
        BY <1>1, <2>1, <3>2 DEF TypeOK
      <4>2. got[v][i].rev \in Nat /\ ~(i > lastId)
        BY <1>1, <2>1, <3>2, <4>1 DEF FreshIds, Rows
      <4>3. CASE sched'[i] = sched[i]
        BY <1>1, <2>1, <3>2, <4>3 DEF ReadsValid, Exists
      <4>4. CASE Exists(i) /\ sched'[i].rev = sched[i].rev + 1
        <5>1. sched[i].rev \in Nat /\ got[v][i].rev <= sched[i].rev
          BY <1>1, <2>1, <3>2, <4>1, <4>4 DEF ReadsValid, Exists, Rows
        <5>. QED
          BY <3>2, <4>2, <4>4, <5>1
      <4>. QED
        BY <1>2, <2>1, <4>2, <4>3, <4>4
    <3>. QED
      BY <1>1, <2>1, <3>1, <3>2 DEF ReadsNow
  <2>. QED
    BY <2>1 DEF ReadsValid, Exists
<1>9. ReceiptsStay'
  BY <1>1 DEF ReceiptsStay, ReadsNow
<1>. QED
  BY <1>1, <1>3, <1>5, <1>6, <1>7, <1>8, <1>9 DEF IInv

LEMMA DocKeeps ==
    ASSUME IInv, NEW d \in Docs, NEW v \in Contents, DocChanges(d, v)
    PROVE  IInv'
<1>1. /\ TypeOK /\ FreshIds /\ RecordsCoherent /\ AllSeen /\ JobsOk /\ ReadsValid /\ ReceiptsStay
  BY DEF IInv
<1>2. /\ doc' = [doc EXCEPT ![d] = v] /\ (d \in Receipts => v.items = doc[d].items)
      /\ UNCHANGED <<used, sched, lastId, pc, op, at, got, ver, req, todo>>
  BY DEF DocChanges, jobVars
<1>3. doc' \in [Docs -> Contents] /\ Receipts \subseteq Docs
  BY <1>1, <1>2, ScheduleAssumption DEF TypeOK
<1>4. \A c \in Receipts : doc'[c].items = doc[c].items
  BY <1>1, <1>2, <1>3 DEF TypeOK
<1>5. TypeOK'
  BY <1>1, <1>2, <1>3 DEF TypeOK
<1>6. FreshIds' /\ RecordsCoherent'
  BY <1>1, <1>2 DEF FreshIds, RecordsCoherent, Exists, Coherent
<1>7. JobsOk' /\ ReadsValid'
  BY <1>1, <1>2 DEF JobsOk, JobOk, ReadsValid, Exists
<1>8. AllSeen'
  BY <1>1, <1>2, <1>4 DEF AllSeen, Exists, SeenRow
<1>9. ReceiptsStay'
  BY <1>1, <1>2, <1>4 DEF ReceiptsStay
<1>. QED
  BY <1>5, <1>6, <1>7, <1>8, <1>9 DEF IInv

LEMMA InitKeeps == Init => IInv
<1>. SUFFICES ASSUME Init PROVE IInv
  OBVIOUS
<1>1. \A i \in Ids : NoRows[i] = None
  BY DEF NoRows
<1>2. NoRows \in [Ids -> Rows \union {None}]
  BY DEF NoRows
<1>3. TypeOK
  BY <1>2, ScheduleAssumption DEF Init, TypeOK
<1>4. FreshIds /\ RecordsCoherent /\ AllSeen /\ ReadsValid
  BY <1>1 DEF Init, FreshIds, RecordsCoherent, AllSeen, ReadsValid, Exists
<1>5. JobsOk /\ ReceiptsStay
  BY <1>1 DEF Init, JobsOk, JobOk, ReceiptsStay
<1>. QED
  BY <1>3, <1>4, <1>5 DEF IInv

\* The other variables stay when the replication or a delivery does its part.
LEMMA UsedKeeps ==
    ASSUME IInv, NEW i \in Ids, Attach(i) \/ Detach(i)
    PROVE  IInv'
<1>1. used' \subseteq Ids /\ UNCHANGED <<doc, sched, lastId, pc, op, at, got, ver, req, todo>>
  BY DEF Attach, Detach, IInv, TypeOK, jobVars
<1>2. TypeOK' /\ FreshIds' /\ RecordsCoherent'
  BY <1>1 DEF IInv, TypeOK, FreshIds, RecordsCoherent, Exists, Coherent
<1>3. AllSeen' /\ JobsOk' /\ ReadsValid' /\ ReceiptsStay'
  BY <1>1 DEF IInv, AllSeen, SeenRow, JobsOk, JobOk, ReadsValid, ReceiptsStay, Exists
<1>. QED
  BY <1>2, <1>3 DEF IInv

LEMMA StutterKeeps ==
    ASSUME IInv, UNCHANGED vars
    PROVE  IInv'
<1>1. UNCHANGED <<used, doc, sched, lastId, pc, op, at, got, ver, req, todo>>
  BY DEF vars, docVars, jobVars
<1>2. TypeOK' /\ FreshIds' /\ RecordsCoherent'
  BY <1>1 DEF IInv, TypeOK, FreshIds, RecordsCoherent, Exists, Coherent
<1>3. AllSeen' /\ JobsOk' /\ ReadsValid' /\ ReceiptsStay'
  BY <1>1 DEF IInv, AllSeen, SeenRow, JobsOk, JobOk, ReadsValid, ReceiptsStay, Exists
<1>. QED
  BY <1>2, <1>3 DEF IInv

LEMMA NextKeeps == IInv /\ [Next]_vars => IInv'
<1>. SUFFICES ASSUME IInv, [Next]_vars PROVE IInv'
  OBVIOUS
<1>1. CASE Elsewhere
  BY <1>1, DocKeeps, UsedKeeps DEF Elsewhere
<1>2. ASSUME NEW w \in Workers, Starts(w) \/ Step(w) PROVE IInv'
  BY <1>2, StepGo, StepKeeps
<1>3. CASE UNCHANGED vars
  BY <1>3, StutterKeeps
<1>. QED
  BY <1>1, <1>2, <1>3 DEF Next

(***************************************************************************)
(* The inductive invariant holds: types, coherent rows, rows marked when   *)
(* the manager has not seen them, jobs with what they need, valid reads.   *)
(***************************************************************************)
THEOREM Invariant == Spec => []IInv
  BY InitKeeps, NextKeeps, PTL DEF Spec

(***************************************************************************)
(* Every variable keeps its type.                                          *)
(***************************************************************************)
THEOREM TypesOK == Spec => []TypeOK
<1>1. IInv => TypeOK
  BY DEF IInv
<1>. QED
  BY <1>1, Invariant, PTL

(***************************************************************************)
(* The columns of every record fit together.                               *)
(***************************************************************************)
THEOREM Coherence == Spec => []RecordsCoherent
<1>1. IInv => RecordsCoherent
  BY DEF IInv
<1>. QED
  BY <1>1, Invariant, PTL

(***************************************************************************)
(* What a worker has read is what is there, as long as the revision is.    *)
(***************************************************************************)
THEOREM Revisions == Spec => []ReadsValid
<1>1. IInv => ReadsValid
  BY DEF IInv
<1>. QED
  BY <1>1, Invariant, PTL

(***************************************************************************)
(* No change to what an accepted record delivers gets past the manager.    *)
(***************************************************************************)
THEOREM Shown == Spec => []ChangeShown
<1>1. IInv => ChangeShown
  <2>. SUFFICES ASSUME IInv, NEW i \in Ids, Exists(i), "ACCEPTED" \in sched[i].flag,
                       ~ShowsChange(sched[i])
                PROVE  Delivers(sched[i], doc[sched[i].doc]) = sched[i].cur
    BY DEF ChangeShown
  <2>. DEFINE r == sched[i]
  <2>1. r \in Rows /\ SeenRow(r)
    BY DEF IInv, TypeOK, AllSeen, Exists
  <2>2. r.doc \in Docs /\ doc[r.doc] \in Contents
    BY <2>1 DEF IInv, TypeOK, Rows
  <2>3. "CHANGED" \notin r.flag /\ r.crc = Crc(r.doc, doc[r.doc])
    BY DEF ShowsChange
  <2>. HIDE DEF r
  <2>4. r.doc \notin Receipts => r.crc.items = doc[r.doc].items
    BY <2>2, <2>3, CrcFacts
  <2>5. Delivers(r, doc[r.doc]) = r.cur
    BY <2>1, <2>3, <2>4 DEF SeenRow, Delivers, r
  <2>. QED
    BY <2>5 DEF r
<1>. QED
  BY <1>1, Invariant, PTL

----------------------------------------------------------------------------
(* The handlers implement Booking.                                         *)

DayOf(i) == IF Exists(i) THEN sched[i].date ELSE 0
WishOf(i) == IF Exists(i) THEN sched[i].newdate ELSE 0
PartOf(i) == Exists(i) /\ "PARTIAL" \in sched[i].flag
StageMap == [i \in Ids |-> Stage(i)]
DayMap == [i \in Ids |-> DayOf(i)]
WishMap == [i \in Ids |-> WishOf(i)]
PartMap == [i \in Ids |-> PartOf(i)]

\* What a booking says of the record that is there.
LEMMA RowMaps ==
    ASSUME IInv, NEW i \in Ids, Exists(i)
    PROVE  /\ sched[i] \in Rows /\ Coherent(sched[i])
           /\ Stage(i) = (IF Cancelling(sched[i]) THEN "cancelling"
                          ELSE IF Accepted(sched[i]) THEN "accepted" ELSE "pending")
           /\ DayOf(i) = sched[i].date /\ WishOf(i) = sched[i].newdate
           /\ PartOf(i) = Partial(sched[i])
           /\ Accepted(sched[i]) \/ (~Cancelling(sched[i]) /\ sched[i].newdate = 0)
           /\ sched[i].newdate # sched[i].date
<1>1. sched[i] \in Rows /\ Coherent(sched[i]) /\ ~(i > lastId)
  BY DEF IInv, TypeOK, Exists, RecordsCoherent, FreshIds
<1>2. Stage(i) = (IF Cancelling(sched[i]) THEN "cancelling"
                  ELSE IF Accepted(sched[i]) THEN "accepted" ELSE "pending")
  BY <1>1 DEF Stage, Cancelling, Accepted
<1>. QED
  BY <1>1, <1>2 DEF DayOf, WishOf, PartOf, Partial, Coherent, Accepted, Cancelling

\* One booking changes, the others stay.
LEMMA MapsChange ==
    ASSUME NEW i \in Ids,
           \A j \in Ids : j # i =>
               /\ Stage(j)' = Stage(j) /\ DayOf(j)' = DayOf(j)
               /\ WishOf(j)' = WishOf(j) /\ PartOf(j)' = PartOf(j)
    PROVE  /\ StageMap' = [StageMap EXCEPT ![i] = Stage(i)']
           /\ DayMap' = [DayMap EXCEPT ![i] = DayOf(i)']
           /\ WishMap' = [WishMap EXCEPT ![i] = WishOf(i)']
           /\ PartMap' = [PartMap EXCEPT ![i] = PartOf(i)']
           /\ Stage(i)' = Stage(i) => StageMap' = StageMap
           /\ DayOf(i)' = DayOf(i) => DayMap' = DayMap
           /\ WishOf(i)' = WishOf(i) => WishMap' = WishMap
           /\ PartOf(i)' = PartOf(i) => PartMap' = PartMap
  BY DEF StageMap, DayMap, WishMap, PartMap

\* A record whose row stays.
LEMMA RowStays ==
    ASSUME NEW j \in Ids, sched'[j] = sched[j], (j > lastId') <=> (j > lastId)
    PROVE  /\ Stage(j)' = Stage(j) /\ DayOf(j)' = DayOf(j)
           /\ WishOf(j)' = WishOf(j) /\ PartOf(j)' = PartOf(j)
  BY DEF Stage, DayOf, WishOf, PartOf, Exists

Same == UNCHANGED <<StageMap, DayMap, WishMap, PartMap, used>>

\* The steps of Booking on the mapped variables.
LEMMA BookingSteps ==
    ASSUME NEW i \in Ids
    PROVE  /\ \A d \in Days, m \in BOOLEAN :
                 StageMap[i] = "none" /\ StageMap' = [StageMap EXCEPT ![i] = "pending"]
                 /\ DayMap' = [DayMap EXCEPT ![i] = d] /\ PartMap' = [PartMap EXCEPT ![i] = m]
                 /\ UNCHANGED <<WishMap, used>>
                   => Bookings!Next
           /\ \A d \in Days, m \in BOOLEAN :
                 StageMap[i] = "pending" /\ DayMap' = [DayMap EXCEPT ![i] = d]
                 /\ PartMap' = [PartMap EXCEPT ![i] = m]
                 /\ UNCHANGED <<StageMap, WishMap, used>>
                   => Bookings!Next
           /\ StageMap[i] = "pending" /\ StageMap' = [StageMap EXCEPT ![i] = "accepted"]
                 /\ UNCHANGED <<DayMap, WishMap, PartMap, used>>
                   => Bookings!Next
           /\ \A d \in Days, m \in BOOLEAN :
                 StageMap[i] = "accepted" /\ d # DayMap[i]
                 /\ WishMap' = [WishMap EXCEPT ![i] = d]
                 /\ PartMap' = [PartMap EXCEPT ![i] = m] /\ UNCHANGED <<StageMap, DayMap, used>>
                   => Bookings!Next
           /\ \A m \in BOOLEAN :
                 StageMap[i] = "accepted" /\ PartMap' = [PartMap EXCEPT ![i] = m]
                 /\ UNCHANGED <<StageMap, DayMap, WishMap, used>>
                   => Bookings!Next
           /\ StageMap[i] = "accepted" /\ WishMap[i] # 0
                 /\ DayMap' = [DayMap EXCEPT ![i] = WishMap[i]]
                 /\ WishMap' = [WishMap EXCEPT ![i] = 0]
                 /\ UNCHANGED <<StageMap, PartMap, used>>
                   => Bookings!Next
           /\ StageMap[i] = "accepted" /\ i \notin used
                 /\ StageMap' = [StageMap EXCEPT ![i] = "cancelling"]
                 /\ UNCHANGED <<DayMap, WishMap, PartMap, used>>
                   => Bookings!Next
           /\ StageMap[i] \in {"pending", "cancelling"} /\ i \notin used
                 /\ StageMap' = [StageMap EXCEPT ![i] = "gone"]
                 /\ DayMap' = [DayMap EXCEPT ![i] = 0]
                 /\ WishMap' = [WishMap EXCEPT ![i] = 0]
                 /\ PartMap' = [PartMap EXCEPT ![i] = FALSE] /\ UNCHANGED used
                   => Bookings!Next
           /\ StageMap[i] # "none" /\ used' = used \union {i}
                 /\ UNCHANGED <<StageMap, DayMap, WishMap, PartMap>>
                   => Bookings!Next
           /\ used' = used \ {i} /\ UNCHANGED <<StageMap, DayMap, WishMap, PartMap>>
                   => Bookings!Next
<1>1. \A d \in Days, m \in BOOLEAN :
      StageMap[i] = "none" /\ StageMap' = [StageMap EXCEPT ![i] = "pending"]
      /\ DayMap' = [DayMap EXCEPT ![i] = d] /\ PartMap' = [PartMap EXCEPT ![i] = m]
      /\ UNCHANGED <<WishMap, used>>
        => Bookings!Next
  BY DEF StageMap, DayMap, WishMap, PartMap, DayOf, WishOf, PartOf, Bookings!Next, Bookings!Edit, Bookings!Book
<1>2. \A d \in Days, m \in BOOLEAN :
      StageMap[i] = "pending" /\ DayMap' = [DayMap EXCEPT ![i] = d]
      /\ PartMap' = [PartMap EXCEPT ![i] = m]
      /\ UNCHANGED <<StageMap, WishMap, used>>
        => Bookings!Next
  BY DEF StageMap, DayMap, WishMap, PartMap, DayOf, WishOf, PartOf, Bookings!Next, Bookings!Edit, Bookings!Move
<1>3. StageMap[i] = "pending" /\ StageMap' = [StageMap EXCEPT ![i] = "accepted"]
      /\ UNCHANGED <<DayMap, WishMap, PartMap, used>>
        => Bookings!Next
  BY DEF StageMap, DayMap, WishMap, PartMap, DayOf, WishOf, PartOf, Bookings!Next, Bookings!Accept
<1>4. \A d \in Days, m \in BOOLEAN :
      StageMap[i] = "accepted" /\ d # DayMap[i]
      /\ WishMap' = [WishMap EXCEPT ![i] = d]
      /\ PartMap' = [PartMap EXCEPT ![i] = m] /\ UNCHANGED <<StageMap, DayMap, used>>
        => Bookings!Next
  BY DEF StageMap, DayMap, WishMap, PartMap, DayOf, WishOf, PartOf, Bookings!Next, Bookings!Edit, Bookings!Wish
<1>5. \A m \in BOOLEAN :
      StageMap[i] = "accepted" /\ PartMap' = [PartMap EXCEPT ![i] = m]
      /\ UNCHANGED <<StageMap, DayMap, WishMap, used>>
        => Bookings!Next
  BY DEF StageMap, DayMap, WishMap, PartMap, DayOf, WishOf, PartOf, Bookings!Next, Bookings!Edit, Bookings!Switch
<1>6. StageMap[i] = "accepted" /\ WishMap[i] # 0
      /\ DayMap' = [DayMap EXCEPT ![i] = WishMap[i]]
      /\ WishMap' = [WishMap EXCEPT ![i] = 0]
      /\ UNCHANGED <<StageMap, PartMap, used>>
        => Bookings!Next
  BY DEF StageMap, DayMap, WishMap, PartMap, DayOf, WishOf, PartOf, Bookings!Next, Bookings!Confirm
<1>7. StageMap[i] = "accepted" /\ i \notin used
      /\ StageMap' = [StageMap EXCEPT ![i] = "cancelling"]
      /\ UNCHANGED <<DayMap, WishMap, PartMap, used>>
        => Bookings!Next
  BY DEF StageMap, DayMap, WishMap, PartMap, DayOf, WishOf, PartOf, Bookings!Next, Bookings!Cancel
<1>8. StageMap[i] \in {"pending", "cancelling"} /\ i \notin used
      /\ StageMap' = [StageMap EXCEPT ![i] = "gone"]
      /\ DayMap' = [DayMap EXCEPT ![i] = 0]
      /\ WishMap' = [WishMap EXCEPT ![i] = 0]
      /\ PartMap' = [PartMap EXCEPT ![i] = FALSE] /\ UNCHANGED used
        => Bookings!Next
  BY DEF StageMap, DayMap, WishMap, PartMap, DayOf, WishOf, PartOf, Bookings!Next, Bookings!Remove
<1>9. StageMap[i] # "none" /\ used' = used \union {i}
      /\ UNCHANGED <<StageMap, DayMap, WishMap, PartMap>>
        => Bookings!Next
  BY DEF StageMap, DayMap, WishMap, PartMap, DayOf, WishOf, PartOf, Bookings!Next, Bookings!Use
<1>10. used' = used \ {i} /\ UNCHANGED <<StageMap, DayMap, WishMap, PartMap>>
        => Bookings!Next
  BY DEF StageMap, DayMap, WishMap, PartMap, DayOf, WishOf, PartOf, Bookings!Next, Bookings!Release
<1>. QED
  BY <1>1, <1>2, <1>3, <1>4, <1>5, <1>6, <1>7, <1>8, <1>9, <1>10

LEMMA RewrittenMaps ==
    ASSUME IInv, IInv', NEW i \in Ids, Rewritten(i), lastId' = lastId, used' = used
    PROVE  Bookings!Next \/ Same
<1>. DEFINE o == sched[i]
<1>1. PICK e \in Rows : Progress(i, o, e) /\ sched' = [sched EXCEPT ![i] = e]
  BY DEF Rewritten
<1>2. Exists(i) /\ sched'[i] = e /\ e # None /\ \A j \in Ids : j # i => sched'[j] = sched[j]
  BY <1>1, NotNone DEF Rewritten, IInv, TypeOK
<1>3. Exists(i)'
  BY <1>2 DEF Exists
<1>4. /\ o \in Rows
      /\ Stage(i) = (IF Cancelling(o) THEN "cancelling"
                     ELSE IF Accepted(o) THEN "accepted" ELSE "pending")
      /\ DayOf(i) = o.date /\ WishOf(i) = o.newdate /\ PartOf(i) = Partial(o)
      /\ Accepted(o) \/ (~Cancelling(o) /\ o.newdate = 0)
  BY <1>2, RowMaps
<1>5. /\ Stage(i)' = (IF Cancelling(e) THEN "cancelling"
                      ELSE IF Accepted(e) THEN "accepted" ELSE "pending")
      /\ DayOf(i)' = e.date /\ WishOf(i)' = e.newdate /\ PartOf(i)' = Partial(e)
      /\ Accepted(e) \/ (~Cancelling(e) /\ e.newdate = 0)
      /\ e.newdate # e.date
  <2>1. sched'[i] \in Rows /\ Coherent(sched'[i]) /\ ~(i > lastId')
    BY <1>3 DEF IInv, TypeOK, Exists, RecordsCoherent, FreshIds, Coherent
  <2>2. Stage(i)' = (IF Cancelling(e) THEN "cancelling"
                     ELSE IF Accepted(e) THEN "accepted" ELSE "pending")
    BY <1>2, <1>3, <2>1 DEF Stage, Cancelling, Accepted, Exists
  <2>. QED
    BY <1>2, <1>3, <2>1, <2>2 DEF DayOf, WishOf, PartOf, Partial, Coherent, Accepted,
                                  Cancelling, Exists
<1>6. /\ StageMap' = [StageMap EXCEPT ![i] = Stage(i)']
      /\ DayMap' = [DayMap EXCEPT ![i] = DayOf(i)']
      /\ WishMap' = [WishMap EXCEPT ![i] = WishOf(i)']
      /\ PartMap' = [PartMap EXCEPT ![i] = PartOf(i)']
      /\ Stage(i)' = Stage(i) => StageMap' = StageMap
      /\ DayOf(i)' = DayOf(i) => DayMap' = DayMap
      /\ WishOf(i)' = WishOf(i) => WishMap' = WishMap
      /\ PartOf(i)' = PartOf(i) => PartMap' = PartMap
  BY <1>2, RowStays, MapsChange
<1>7. StageMap[i] = Stage(i) /\ DayMap[i] = DayOf(i) /\ WishMap[i] = WishOf(i)
  BY DEF StageMap, DayMap, WishMap
<1>8. /\ e.date \in Days /\ e.newdate \in Days \union {0}
      /\ Partial(e) \in BOOLEAN /\ Partial(o) \in BOOLEAN
  BY DEF Rows, Partial
<1>. HIDE DEF o
<1>9. CASE ~Accepted(o) /\ ~Accepted(e) /\ e.newdate = 0
  BY <1>4, <1>5, <1>6, <1>7, <1>8, <1>9, BookingSteps
<1>10. CASE /\ ~Accepted(o) /\ Accepted(e) /\ ~Cancelling(e)
            /\ e.date = o.date /\ e.newdate = o.newdate /\ (Partial(e) <=> Partial(o))
  BY <1>4, <1>5, <1>6, <1>7, <1>8, <1>10, BookingSteps
<1>11. CASE /\ Accepted(o) /\ Accepted(e) /\ ~Cancelling(o) /\ ~Cancelling(e)
            /\ e.date = o.date
            /\ e.newdate # 0 \/ e.newdate = o.newdate
  <2>1. CASE e.newdate = o.newdate
    BY <1>4, <1>5, <1>6, <1>7, <1>8, <1>11, <2>1, BookingSteps
  <2>2. CASE e.newdate # 0
    BY <1>4, <1>5, <1>6, <1>7, <1>8, <1>11, <2>2, BookingSteps
  <2>. QED
    BY <1>11, <2>1, <2>2
<1>12. CASE /\ Accepted(o) /\ Accepted(e) /\ ~Cancelling(o) /\ ~Cancelling(e)
            /\ o.newdate # 0 /\ e.date = o.newdate /\ e.newdate = 0
            /\ (Partial(e) <=> Partial(o))
  <2>1. Stage(i) = "accepted" /\ Stage(i)' = Stage(i)
    BY <1>4, <1>5, <1>12
  <2>2. WishOf(i) # 0 /\ DayOf(i)' = WishMap[i] /\ WishOf(i)' = 0
    BY <1>4, <1>5, <1>7, <1>12
  <2>3. /\ DayMap' = [DayMap EXCEPT ![i] = WishMap[i]]
        /\ WishMap' = [WishMap EXCEPT ![i] = 0] /\ StageMap' = StageMap
        /\ PartMap' = PartMap
    BY <1>4, <1>5, <1>6, <1>8, <1>12, <2>1, <2>2
  <2>. QED
    BY <1>7, <2>1, <2>2, <2>3, BookingSteps
<1>13. CASE /\ Accepted(o) /\ Accepted(e) /\ ~Cancelling(o) /\ Cancelling(e) /\ i \notin used
            /\ e.date = o.date /\ e.newdate = o.newdate /\ (Partial(e) <=> Partial(o))
  BY <1>4, <1>5, <1>6, <1>7, <1>8, <1>13, BookingSteps
<1>14. CASE /\ Accepted(o) /\ Accepted(e) /\ (Cancelling(o) <=> Cancelling(e))
            /\ e.date = o.date /\ e.newdate = o.newdate /\ (Partial(e) <=> Partial(o))
  BY <1>4, <1>5, <1>6, <1>8, <1>14 DEF Same
<1>. QED
  BY <1>1, <1>9, <1>10, <1>11, <1>12, <1>13, <1>14 DEF Progress

LEMMA GoneMaps ==
    ASSUME IInv, NEW i \in Ids, Gone(i), lastId' = lastId, used' = used
    PROVE  Bookings!Next
<1>1. /\ Exists(i) /\ i \notin used /\ sched'[i] = None /\ ~(i > lastId')
      /\ ~Accepted(sched[i]) \/ Cancelling(sched[i])
      /\ \A j \in Ids : j # i => sched'[j] = sched[j]
  BY DEF Gone, IInv, TypeOK, FreshIds, Exists
<1>2. Stage(i) \in {"pending", "cancelling"}
  BY <1>1, RowMaps
<1>3. Stage(i)' = "gone" /\ DayOf(i)' = 0 /\ WishOf(i)' = 0 /\ PartOf(i)' = FALSE
  BY <1>1 DEF Stage, DayOf, WishOf, PartOf, Exists
<1>4. /\ StageMap' = [StageMap EXCEPT ![i] = Stage(i)']
      /\ DayMap' = [DayMap EXCEPT ![i] = DayOf(i)']
      /\ WishMap' = [WishMap EXCEPT ![i] = WishOf(i)']
      /\ PartMap' = [PartMap EXCEPT ![i] = PartOf(i)']
  BY <1>1, RowStays, MapsChange
<1>5. StageMap[i] = Stage(i)
  BY DEF StageMap
<1>. QED
  BY <1>1, <1>2, <1>3, <1>4, <1>5, BookingSteps

LEMMA OpenedMaps ==
    ASSUME IInv, IInv', Opened, used' = used
    PROVE  Bookings!Next
<1>. PICK i \in Ids : i = lastId + 1
  BY ScheduleAssumption DEF Opened, IInv, TypeOK, Ids
<1>1. PICK e \in Rows : Coherent(e) /\ ~Accepted(e) /\ e.newdate = 0
                        /\ sched' = [sched EXCEPT ![i] = e]
  BY DEF Opened
<1>2. /\ lastId \in Nat /\ lastId < MaxId /\ lastId' = i /\ MaxId \in Nat
      /\ i \in Ids /\ i > lastId /\ ~(i > lastId')
      /\ \A j \in Ids : j # i => ((j > lastId') <=> (j > lastId))
  BY ScheduleAssumption DEF Opened, IInv, TypeOK, Ids
<1>3. sched[i] = None /\ sched'[i] = e /\ e # None /\ \A j \in Ids : j # i => sched'[j] = sched[j]
  BY <1>1, <1>2, NotNone DEF IInv, TypeOK, FreshIds
<1>4. Stage(i) = "none" /\ WishOf(i) = 0
  BY <1>2, <1>3 DEF Stage, WishOf, Exists
<1>5. ~Cancelling(e)
  BY <1>1 DEF Coherent, Accepted, Cancelling
<1>6. /\ Stage(i)' = "pending" /\ DayOf(i)' = e.date /\ WishOf(i)' = 0
      /\ PartOf(i)' \in BOOLEAN
  BY <1>1, <1>2, <1>3, <1>5 DEF Stage, DayOf, WishOf, PartOf, Exists, Accepted, Cancelling
<1>7. /\ StageMap' = [StageMap EXCEPT ![i] = Stage(i)']
      /\ DayMap' = [DayMap EXCEPT ![i] = DayOf(i)']
      /\ PartMap' = [PartMap EXCEPT ![i] = PartOf(i)']
      /\ WishOf(i)' = WishOf(i) => WishMap' = WishMap
  BY <1>2, <1>3, RowStays, MapsChange
<1>8. StageMap[i] = Stage(i) /\ e.date \in Days
  BY <1>2 DEF StageMap, Rows
<1>. QED
  BY <1>2, <1>4, <1>6, <1>7, <1>8, BookingSteps

LEMMA BookingInit == Init => Bookings!Init
<1>. SUFFICES ASSUME Init PROVE Bookings!Init
  OBVIOUS
<1>1. \A i \in Ids : ~Exists(i) /\ i > lastId
  BY DEF Init, NoRows, Exists, Ids
<1>. QED
  BY <1>1 DEF Init, Stage, Bookings!Init

LEMMA BookingNext == IInv /\ IInv' /\ [Next]_vars => [Bookings!Next]_Bookings!vars
<1>. SUFFICES ASSUME IInv, IInv', [Next]_vars PROVE Bookings!Next \/ Same
  BY DEF Same, Bookings!vars, StageMap, DayMap, WishMap, PartMap, DayOf, WishOf, PartOf
<1>1. ASSUME UNCHANGED <<sched, lastId>> PROVE UNCHANGED <<StageMap, DayMap, WishMap, PartMap>>
  BY <1>1 DEF StageMap, DayMap, WishMap, PartMap, DayOf, WishOf, PartOf, Stage, Exists
<1>2. CASE UNCHANGED vars
  BY <1>1, <1>2 DEF vars, docVars, Same
<1>3. ASSUME NEW w \in Workers, Starts(w) \/ Step(w) PROVE Bookings!Next \/ Same
  <2>1. TableGo /\ used' = used
    BY <1>3, StepGo DEF docVars
  <2>. QED
    BY <1>1, <2>1, RewrittenMaps, GoneMaps, OpenedMaps DEF TableGo, Same
<1>4. ASSUME NEW d \in Docs, NEW v \in Contents, DocChanges(d, v) PROVE Bookings!Next \/ Same
  BY <1>1, <1>4 DEF DocChanges, Same
<1>5. ASSUME NEW i \in Ids, Attach(i) PROVE Bookings!Next
  <2>1. StageMap[i] # "none"
    BY <1>5, ScheduleAssumption DEF Attach, StageMap, Stage, IInv, TypeOK, Ids
  <2>. QED
    BY <1>1, <1>5, <2>1, BookingSteps DEF Attach
<1>6. ASSUME NEW i \in Ids, Detach(i) PROVE Bookings!Next
  BY <1>1, <1>6, BookingSteps DEF Detach
<1>. QED
  BY <1>2, <1>3, <1>4, <1>5, <1>6 DEF Next, Elsewhere

(***************************************************************************)
(* Every step of the handlers is a step of Booking, or one that no booking *)
(* notices.                                                                *)
(***************************************************************************)
THEOREM Implementation == Spec => ImplementsBooking
<1>1. IInv /\ IInv' /\ [Next]_vars => [Bookings!Next]_Bookings!vars
  BY BookingNext
<1>. QED
  BY <1>1, BookingInit, Invariant, PTL DEF Spec, ImplementsBooking, Bookings!Spec
=============================================================================
