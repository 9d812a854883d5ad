------------------------------ MODULE Delivery -----------------------------
(***************************************************************************)
(* request/delivery.py: the delivery log.                                  *)
(*                                                                         *)
(* A delivery is a header in deliveryv2, whose column js lists its         *)
(* receipts, and one row in deliveryv2_receipt for each of them.  A page   *)
(* loads both, a user edits the list, fn_save_delivery_record checks and   *)
(* writes it in many statements: the header under its revision, then the   *)
(* rows without any; fn_delete removes both.  No two statements are        *)
(* grouped and a worker may stop after any of them.                        *)
(*                                                                         *)
(* The schedule records that the rows refer to are those of Booking, which *)
(* Schedule implements; here they take its steps.                          *)
(*                                                                         *)
(* Left out: entries of customers without a receipt (type 1), which have   *)
(* no row; drivers, payments, notes and names, which no statement tests,   *)
(* except that an entry whose row is missing has no driver and is refused  *)
(* until the user assigns one.  A receipt belongs to the same records for  *)
(* good.                                                                   *)
(***************************************************************************)
EXTENDS Naturals, FiniteSets

CONSTANTS
    Nums,      \* receipt numbers
    Scs,       \* schedule records
    ScsOf,     \* ScsOf[n]: the records of n's receipt or of its sales order
    Troubled,  \* the receipts that problems are reported of
    Days,      \* dates, 0 is none
    Workers,   \* workers of the web server, each with the page it serves
    None,      \* SQL's null, and no record
    MaxDel,    \* bound: deliveries created
    MaxRev,    \* bound: revisions of a delivery
    Revised,   \* bound: deliveries that are saved again
    MaxCrash,  \* bound: requests that stop half-way
    Fickle     \* bound: records that are edited or removed once made

ASSUME DeliveryAssumption ==
    /\ ScsOf \in [Nums -> SUBSET Scs]
    /\ Fickle \subseteq Scs /\ Troubled \subseteq Nums
    /\ Days \subseteq Nat \ {0}
    /\ None \notin Scs
    /\ MaxDel \in Nat /\ MaxRev \in Nat /\ MaxCrash \in Nat

Dels == 1..MaxDel

VARIABLES
    head,     \* deliveryv2: None, or revision, day and list of a delivery
    rows,     \* deliveryv2_receipt: rows[d][n]
    lastId,   \* the auto-increment counter of deliveryv2
    stage, day, wish, partial,   \* the schedule, see Booking
    pc,       \* pc[w]: the statement worker w runs next
    job,      \* job[w]: its page and the locals of its request
    crashes,  \* requests that stopped half-way
    tear,     \* history, tear[d]: how the saves of d went so far
    completed \* history: records that stopped being partial while a delivery had them

logVars == <<head, rows, lastId>>
schedVars == <<stage, day, wish, partial, completed>>
histVars == <<crashes, tear>>
vars == <<logVars, schedVars, pc, job, histVars>>

\* The records some row refers to: schedulev2.py:75, 91, 97 and 119 ask for them.
Used == {s \in Scs : \E d \in Dels, n \in Nums : rows[d][n] # None /\ rows[d][n].sc = s}

B == INSTANCE Booking WITH Ids <- Scs, NoDay <- 0, used <- Used

Lists == [Nums -> Scs \union {None}]
NoList == [n \in Nums |-> None]
NoRows == [n \in Nums |-> None]
On(l) == {n \in Nums : l[n] # None}

Headers == [rev : 0..MaxRev, day : Days, list : Lists]
Rows == [sc : Scs, marked : BOOLEAN, excluded : BOOLEAN]
Jobs == [d : 0..MaxDel, rev : 0..MaxRev, was : Lists, wasDay : Days \union {0},
         missing : SUBSET Nums, list : Lists, day : Days \union {0},
         edited : SUBSET Nums, problem : SUBSET Nums, found : [Nums -> SUBSET Scs],
         todo : SUBSET Nums, asks : SUBSET Nums, known : SUBSET Nums]

ASSUME NoneAssumption == None \notin Headers \union Rows \union Jobs

TypeOK ==
    /\ head \in [Dels -> Headers \union {None}]
    /\ rows \in [Dels -> [Nums -> Rows \union {None}]]
    /\ lastId \in 0..MaxDel
    /\ stage \in [Scs -> {"none", "pending", "accepted", "cancelling", "gone"}]
    /\ day \in [Scs -> Days \union {0}] /\ wish \in [Scs -> Days \union {0}]
    /\ partial \in [Scs -> BOOLEAN] /\ completed \subseteq Scs
    /\ pc \in [Workers -> {"idle", "open", "page", "find", "check", "known", "put",
                           "delhead"}]
    /\ job \in [Workers -> Jobs \union {None}]
    /\ \A w \in Workers : pc[w] = "idle" <=> job[w] = None
    /\ crashes \in 0..MaxCrash
    /\ tear \in [Dels -> {"whole", "torn", "mended", "mixed"}]

Init ==
    /\ head = [d \in Dels |-> None]
    /\ rows = [d \in Dels |-> NoRows]
    /\ lastId = 0
    /\ B!Init /\ completed = {}
    /\ pc = [w \in Workers |-> "idle"]
    /\ job = [w \in Workers |-> None]
    /\ crashes = 0
    /\ tear = [d \in Dels |-> "whole"]

----------------------------------------------------------------------------
(* What the statements compute.                                            *)

Exists(s) == stage[s] \in {"pending", "accepted", "cancelling"}

\* The worker is between its first and its last write to delivery d.
Writing(w, d) == pc[w] \in {"known", "put", "delhead"} /\ job[w].d = d

Shared(w, d) == \E v \in Workers \ {w} : Writing(v, d)

Moved(j) == j.d = 0 \/ j.wasDay # j.day
Relinked(j, n) == j.was[n] # j.list[n]
Checked(j, n) == Moved(j) \/ Relinked(j, n)

\* Faulty variant: receipts that were taken off the list are written too.
ToWriteOff(j) == {n \in Nums : Checked(j, n) \/ n \in j.edited}

\* Faulty variant: what the user marked as changed is not written.
ToWriteChecked(j) == {n \in On(j.list) : Checked(j, n)}

\* recs_db: the receipts whose rows are written.
ToWrite(j) == {n \in On(j.list) : Checked(j, n) \/ n \in j.edited}

\* The shipments of a receipt in other deliveries on that day or before.
Previous(j, n) ==
    {rows[d][n] : d \in {e \in Dels \ {j.d} :
        rows[e][n] # None /\ head[e] # None /\ head[e].day <= j.day}}

\* REC_FLAG_PARTIAL of the record as it is now; one that is gone is not partial.
IsPartial(s) == partial[s]

AfterPartial(j, n) == \E r \in Previous(j, n) : IsPartial(r.sc)

\* Faulty variant: the shipments with the same record are not looked at.
MayShipPartial(j, n) ==
    LET P == Previous(j, n)
    IN  (\A r \in P : IsPartial(r.sc)) \/ (\A r \in P : r.marked)

\* All of them were partial or had problems, each with the same record had.
MayShip(j, n) ==
    LET P == Previous(j, n)
    IN  /\ (\A r \in P : IsPartial(r.sc)) \/ (\A r \in P : r.marked)
        /\ \A r \in P : r.sc = j.list[n] => r.marked

\* "insert ... on duplicate key update": problems stay, d_excluded too.
Put(r, j, n) ==
    [sc |-> j.list[n],
     marked |-> n \in j.problem \/ (r # None /\ r.marked),
     excluded |-> IF r = None THEN n \in j.known ELSE r.excluded]

----------------------------------------------------------------------------
(* The requests.                                                           *)

Finish(w) ==
    /\ pc' = [pc EXCEPT ![w] = "idle"]
    /\ job' = [job EXCEPT ![w] = None]

GoTo(w, step, j) ==
    /\ pc' = [pc EXCEPT ![w] = step]
    /\ job' = [job EXCEPT ![w] = j]

NewJob == [d |-> 0, rev |-> 0, was |-> NoList, wasDay |-> 0, missing |-> {},
           list |-> NoList, day |-> 0, edited |-> {}, problem |-> {},
           found |-> [n \in Nums |-> {}], todo |-> {}, asks |-> {}, known |-> {}]

\* The page of a new delivery, or of one that exists: its header, then its rows.
OpenNew(w) ==
    /\ pc[w] = "idle"
    /\ lastId < MaxDel
    /\ GoTo(w, "page", NewJob)
    /\ UNCHANGED <<logVars, schedVars, histVars>>

Open(w, d) ==
    /\ pc[w] = "idle"
    /\ head[d] # None /\ head[d].rev < MaxRev /\ d \in Revised
    /\ GoTo(w, "open", [NewJob EXCEPT !.d = d, !.rev = head[d].rev, !.was = head[d].list,
                                      !.wasDay = head[d].day])
    /\ UNCHANGED <<logVars, schedVars, histVars>>

\* "receipt#%d not exists"
LoadRows(w) ==
    LET j == job[w]
    IN  /\ pc[w] = "open"
        /\ GoTo(w, "page", [j EXCEPT !.missing =
                                {n \in On(j.was) : rows[j.d][n] = None}])
        /\ UNCHANGED <<logVars, schedVars, histVars>>

Close(w) ==
    /\ pc[w] = "page"
    /\ Finish(w)
    /\ UNCHANGED <<logVars, schedVars, histVars>>

\* The user changed something and saves.  A new entry, one with another record
\* and one whose row was missing are marked as changed by the page.  The
\* server reads the header and refuses another revision than the page's.
Submit(w, l, t, edited, problem) ==
    LET j == [job[w] EXCEPT !.list = l, !.day = t, !.edited = edited, !.problem = problem,
                            !.missing = {}]
        missing == job[w].missing
    IN  /\ pc[w] = "page"
        /\ j.d = 0 => l # NoList
        /\ {n \in On(l) : Relinked(j, n)} \union (missing \intersect On(l)) \subseteq edited
        /\ edited \subseteq On(l) /\ problem \subseteq edited \intersect Troubled
        /\ l # j.was \/ t # j.wasDay \/ edited # {}
        /\ IF j.d = 0 \/ (head[j.d] # None /\ head[j.d].rev = j.rev)
           THEN GoTo(w, "find", j)
           ELSE Finish(w)
        /\ UNCHANGED <<logVars, schedVars, histVars>>

\* The schedule records of the receipts on the day of the delivery.
FindScs(w) ==
    LET j == job[w]
    IN  /\ pc[w] = "find"
        /\ GoTo(w, "check", [j EXCEPT
               !.found = [n \in Nums |-> {s \in ScsOf[n] : Exists(s) /\ day[s] = j.day}],
               !.todo = On(j.list)])
        /\ UNCHANGED <<logVars, schedVars, histVars>>

\* The shipments of a receipt before this one, and the modes of their records.
CheckOne(w, n) ==
    LET j == job[w]
    IN  /\ pc[w] = "check" /\ n \in j.todo /\ j.asks = {}
        /\ IF Checked(j, n) => j.list[n] \in j.found[n] /\ MayShip(j, n)
           THEN GoTo(w, "check", [j EXCEPT !.todo = @ \ {n},
                    !.asks = IF Checked(j, n) /\ AfterPartial(j, n) THEN {n} ELSE {}])
           ELSE Finish(w)
        /\ UNCHANGED <<logVars, schedVars, histVars>>

\* What follows a partial shipment has to be partial; the mode of its own
\* record is read by a statement of its own.
AskMode(w) ==
    LET j == job[w]
    IN  /\ pc[w] = "check" /\ j.asks # {}
        /\ IF \A n \in j.asks : IsPartial(j.list[n])
           THEN GoTo(w, "check", [j EXCEPT !.asks = {}])
           ELSE Finish(w)
        /\ UNCHANGED <<logVars, schedVars, histVars>>

\* Another worker that is writing to d makes a mix of both.
Begin(w, d) ==
    tear' = [tear EXCEPT ![d] = IF Shared(w, d) THEN "mixed" ELSE @]

\* Faulty variant: the revision is not asked for.
SameRevAny(j) == head[j.d] # None

\* "where d_id=%s and rev=%s"
SameRev(j) == head[j.d] # None /\ head[j.d].rev = j.rev

PutHead(w) ==
    LET j == job[w]
        Goes(d) == GoTo(w, "known", [NewJob EXCEPT !.d = d, !.was = j.was, !.wasDay = j.wasDay,
                          !.list = j.list, !.problem = j.problem, !.todo = ToWrite(j)])
    IN  /\ pc[w] = "check" /\ j.todo = {} /\ j.asks = {}
        /\ \/ /\ j.d = 0 /\ lastId < MaxDel
              /\ lastId' = lastId + 1
              /\ head' = [head EXCEPT ![lastId + 1] = [rev |-> 0, day |-> j.day, list |-> j.list]]
              /\ Goes(lastId + 1)
              /\ UNCHANGED tear
           \/ /\ j.d # 0 /\ SameRev(j)
              /\ head' = [head EXCEPT ![j.d] =
                             [rev |-> @.rev + 1, day |-> j.day, list |-> j.list]]
              /\ Begin(w, j.d)
              /\ Goes(j.d)
              /\ UNCHANGED lastId
           \/ /\ IF j.d = 0 THEN lastId = MaxDel ELSE ~SameRev(j)
              /\ Finish(w)
              /\ UNCHANGED <<head, lastId, tear>>
        /\ UNCHANGED <<rows, schedVars, crashes>>

\* Faulty variant: no delivery has the receipt yet.
ElsewhereNone(j, n) == FALSE

\* Whether other deliveries have the receipt.
Elsewhere(j, n) == \E d \in Dels \ {j.d} : rows[d][n] # None

Known(w) ==
    LET j == job[w]
    IN  /\ pc[w] = "known"
        /\ GoTo(w, "put", [j EXCEPT !.known = {n \in j.todo : Elsewhere(j, n)}])
        /\ UNCHANGED <<logVars, schedVars, histVars>>

PutOne(w, n) ==
    LET j == job[w]
    IN  /\ pc[w] = "put" /\ n \in j.todo
        /\ rows' = [rows EXCEPT ![j.d][n] = Put(@, j, n)]
        /\ GoTo(w, "put", [j EXCEPT !.todo = @ \ {n}])
        /\ UNCHANGED <<head, lastId, schedVars, histVars>>

\* Faulty variant: the rows of receipts that were taken off the list stay.
DropNone(w) ==
    /\ pc[w] = "put" /\ job[w].todo = {}
    /\ Finish(w)
    /\ UNCHANGED <<rows, tear>>
    /\ UNCHANGED <<head, lastId, schedVars, crashes>>

\* The receipts that were taken off the list, the last statement of a save.
Drop(w) ==
    LET j == job[w]
    IN  /\ pc[w] = "put" /\ j.todo = {}
        /\ rows' = [rows EXCEPT ![j.d] =
                       [n \in Nums |-> IF n \in On(j.was) \ On(j.list) THEN None ELSE @[n]]]
        /\ tear' = [tear EXCEPT ![j.d] = IF @ = "torn" THEN "mended" ELSE @]
        /\ Finish(w)
        /\ UNCHANGED <<head, lastId, schedVars, crashes>>

\* fn_delete asks for no revision.
DeleteRows(w, d) ==
    /\ pc[w] = "idle"
    /\ d <= lastId
    /\ rows' = [rows EXCEPT ![d] = NoRows]
    /\ Begin(w, d)
    /\ GoTo(w, "delhead", [NewJob EXCEPT !.d = d])
    /\ UNCHANGED <<head, lastId, schedVars, crashes>>

DeleteHead(w) ==
    /\ pc[w] = "delhead"
    /\ head' = [head EXCEPT ![job[w].d] = None]
    /\ Finish(w)
    /\ UNCHANGED <<rows, lastId, schedVars, histVars>>

\* The worker stops between two writes.  A stopped save can be mended; after a
\* stopped fn_delete, older pages take the removed rows for written.
Crash(w) ==
    /\ crashes < MaxCrash
    /\ \E d \in Dels :
        /\ Writing(w, d)
        /\ tear' = [tear EXCEPT ![d] =
                       IF pc[w] = "delhead" \/ @ = "mixed" THEN "mixed" ELSE "torn"]
    /\ crashes' = crashes + 1
    /\ Finish(w)
    /\ UNCHANGED <<logVars, schedVars>>

Save(w) ==
    \/ OpenNew(w) \/ (\E d \in Dels : Open(w, d)) \/ LoadRows(w) \/ Close(w)
    \/ \E l \in Lists, t \in Days, edited, problem \in SUBSET Nums :
            Submit(w, l, t, edited, problem)
    \/ FindScs(w) \/ AskMode(w) \/ PutHead(w) \/ Known(w) \/ Drop(w)
    \/ \E n \in Nums : CheckOne(w, n) \/ PutOne(w, n)

Delete(w) == DeleteHead(w) \/ \E d \in Dels : DeleteRows(w, d)

\* A delivery has a row with the record, or a worker is about to write one.
InHand(s) == s \in Used \/ \E w \in Workers, n \in Nums : job[w] # None /\ job[w].list[n] = s

\* The schedule goes on, without the deliveries' part in it.
ScheduleStep ==
    /\ UNCHANGED <<logVars, pc, job, histVars>>
    /\ \E s \in Scs :
        \/ B!Accept(s) \/ B!Confirm(s)
        \/ s \in Fickle /\ (B!Cancel(s) \/ B!Remove(s))
        \/ (stage[s] = "none" \/ s \in Fickle) /\ \E m \in BOOLEAN : B!Edit(s, m)
    /\ completed' = completed \union {s \in Scs : InHand(s) /\ partial[s] /\ ~partial'[s]}

Next ==
    \/ \E w \in Workers : Save(w) \/ Delete(w) \/ Crash(w)
    \/ ScheduleStep

Spec == Init /\ [][Next]_vars

----------------------------------------------------------------------------
(* Properties.                                                             *)

Quiet(d) == \A w \in Workers : ~Writing(w, d)
Settled(d) == tear[d] = "whole" /\ Quiet(d)

\* The list in the header and the rows are one and the same list: same
\* receipts, same schedule records.  Only two writers of one delivery at the
\* same time, or one that stopped half-way, can tear them apart; a revision in
\* the header alone is enough for that.  A deleted delivery leaves no rows.
RowsMatch ==
    \A d \in Dels : Settled(d) =>
        IF head[d] = None THEN rows[d] = NoRows
        ELSE \A n \in Nums :
                IF head[d].list[n] = None THEN rows[d][n] = None
                ELSE rows[d][n] # None /\ rows[d][n].sc = head[d].list[n]

\* The next save after a save that stopped half-way writes the rows that were
\* missing, because the page makes the user look at them again.
MissingRestored ==
    \A d \in Dels : tear[d] = "mended" /\ Quiet(d) /\ head[d] # None =>
        \A n \in On(head[d].list) : rows[d][n] # None

\* Nobody's change is lost: a header is replaced only by a user who had
\* exactly that header on the page.
SavedFromLatest ==
    [][\A d \in Dels : head[d] # None /\ head'[d] # None /\ head'[d] # head[d] =>
            \E w \in Workers : /\ job[w] # None /\ job[w].d = d
                               /\ job[w].was = head[d].list /\ job[w].wasDay = head[d].day]_vars

\* The reports count a receipt in the delivery with d_excluded = 0
\* (srx_101_delivery_report.py:22): there is at most one, if requests follow
\* one another.
CountedOnce ==
    \A n \in Nums : \A d, e \in Dels :
        /\ rows[d][n] # None /\ rows[e][n] # None
        /\ ~rows[d][n].excluded /\ ~rows[e][n].excluded
        => d = e

Listed(d, n) == head[d] # None /\ rows[d][n] # None /\ head[d].list[n] # None

\* The records that are partial, or were when a delivery took them.
Parts == {s \in Scs : partial[s] \/ s \in completed}

\* A receipt goes out twice on one day only if one of the two had problems, or
\* if both went out under partial records, two different ones, whatever was
\* edited in between: the check means it so, and each of the two records is
\* partial still unless an edit made it complete while a delivery or a save had
\* it, which no statement looks for.  So it is once the two deliveries are
\* saved, whatever else stopped half-way, if requests follow one another.
NoRedeliverySameDay ==
    \A n \in Nums : \A d, e \in Dels :
        /\ d # e /\ Settled(d) /\ Settled(e)
        /\ Listed(d, n) /\ Listed(e, n) /\ head[d].day = head[e].day
        =>
            \/ rows[d][n].marked \/ rows[e][n].marked
            \/ {rows[d][n].sc, rows[e][n].sc} \subseteq Parts /\ rows[d][n].sc # rows[e][n].sc

\* "No Redelivery Is Allowed. *** Except all previous shipments are marked with
\* problems!" (delivery.py:286), of receipts delivered completely.
PreviousMarked ==
    \A n \in Nums : \A d, e \in Dels :
        /\ Listed(d, n) /\ Listed(e, n) /\ head[d].day < head[e].day
        /\ rows[d][n].sc \notin Parts
        => rows[d][n].marked
============================================================================
