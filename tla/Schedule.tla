----------------------------- MODULE Schedule ------------------------------
(***************************************************************************)
(* request/schedulev2.py: the delivery schedule.                           *)
(*                                                                         *)
(* A schedule record books the delivery of a document (a sales order or a  *)
(* receipt) on a date, complete or in part.  Sales staff create, edit and  *)
(* delete records (fn_set_doc, fn_del_rec), the delivery manager accepts   *)
(* them, confirms rescheduling and deletion, and clears the mark of a      *)
(* change (fn_accept, fn_confirm_rescheduling, fn_del, fn_clear_cflag).    *)
(*                                                                         *)
(* Each request runs in a worker of the web server and is a sequence of    *)
(* SQL statements, each of them indivisible (MyISAM) and none of them      *)
(* grouped.  Between two statements of one worker the other workers run    *)
(* theirs, the replication replaces the document, and a delivery takes the *)
(* record into use.  The revision sc_rev is what the handlers rely on.     *)
(*                                                                         *)
(* Left out: sc_prio, which is treated as sc_note is, the flags DUPLICATED *)
(* and R_RESCHEDULED, which are only displayed, the notes and the update   *)
(* sequence number written after a change, and the refusal of fn_del_rec   *)
(* for past days.  Checksums are taken to tell documents apart.            *)
(***************************************************************************)
EXTENDS Naturals, FiniteSets

CONSTANTS
    Docs,       \* the documents
    Receipts,   \* those that are receipts (doc_type = 1)
    Heads,      \* what a document says besides its items
    Goods,      \* the lines of a document
    ItemLists,  \* the item lists it may have: quantities of the goods
    Days,       \* the dates, 0 is none
    Notes,      \* the notes, "" is empty
    PickSet,    \* the quantities that may be asked for
    Workers,    \* the workers of the web server
    Ops,        \* the requests they serve
    None,       \* SQL's null, and no record
    MaxId,      \* bound: records created
    MaxRev      \* bound: revisions of a record

AllOps == {"new", "edit", "delrec", "accept", "confirm", "clear", "del"}

ASSUME ScheduleAssumption ==
    /\ Receipts \subseteq Docs
    /\ ItemLists \subseteq [Goods -> Nat]
    /\ Days \subseteq Nat \ {0}
    /\ PickSet \subseteq [Goods -> Nat]
    /\ Ops \subseteq AllOps
    /\ None \notin Nat
    /\ MaxId \in Nat /\ MaxRev \in Nat

Ids == 1..MaxId

VARIABLES
    doc,    \* sync_salesorders and sync_receipts: head and items of a document
    sched,  \* the table schedule, None where there is no record
    lastId, \* its auto-increment counter
    used,   \* the sc_ids in deliveryv2_receipt
    pc,     \* pc[w]: the statement worker w runs next
    op,     \* op[w]: the request it serves
    at,     \* at[w]: the record it is at, 0 for none
    got,    \* got[w]: the schedule records it has read
    ver,    \* ver[w]: the documents it has read
    req,    \* req[w]: what a new or edited record is to be
    todo    \* todo[w]: the records of the request it has not come to

docVars == <<doc, used>>
jobVars == <<pc, op, at, got, ver, req, todo>>
vars == <<docVars, sched, lastId, jobVars>>

Contents == [head : Heads, items : ItemLists]
FlagSet == SUBSET {"ACCEPTED", "RESCHEDULED", "CANCELLING", "CHANGED", "PARTIAL"}
Lists == [Goods -> Nat]
Picks == [items : ItemLists, pick : Lists]
Requests == [doc : Docs, date : Days, mode : BOOLEAN, note : Notes, pick : Lists]
\* get_receipt_crc leaves the items out, get_salesorder_crc has them.
Crcs == Heads \union Contents

Rows == [doc : Docs, date : Days, newdate : Days \union {0}, rev : Nat, flag : FlagSet,
         note : Notes, crc : Crcs, ijscrc : ItemLists, ijs : Picks \union {None},
         cur : Lists \union {None}]

ASSUME NoneAssumption ==
    None \notin Rows \union Requests \union Picks \union Lists \union [Docs -> Contents]

TypeOK ==
    /\ doc \in [Docs -> Contents]
    /\ sched \in [Ids -> Rows \union {None}]
    /\ lastId \in 0..MaxId
    /\ used \subseteq Ids
    /\ pc \in [Workers -> {"idle", "read", "docs", "check", "write"}]
    /\ op \in [Workers -> Ops \union {None}]
    /\ at \in [Workers -> Ids \union {0}]
    /\ got \in [Workers -> [Ids -> Rows \union {None}]]
    /\ ver \in [Workers -> [Docs -> Contents] \union {None}]
    /\ req \in [Workers -> Requests \union {None}]
    /\ todo \in [Workers -> SUBSET Ids]

Exists(i) == sched[i] # None
Crc(d, v) == IF d \in Receipts THEN v.head ELSE v
NoRows == [i \in Ids |-> None]

Init ==
    /\ doc \in [Docs -> Contents]
    /\ sched = NoRows
    /\ lastId = 0
    /\ used = {}
    /\ pc = [w \in Workers |-> "idle"]
    /\ op = [w \in Workers |-> None]
    /\ at = [w \in Workers |-> 0]
    /\ got = [w \in Workers |-> NoRows]
    /\ ver = [w \in Workers |-> None]
    /\ req = [w \in Workers |-> None]
    /\ todo = [w \in Workers |-> {}]

----------------------------------------------------------------------------
(* The rest of the system.                                                 *)

\* The replication replaces a document; the items of a receipt stay.
DocChanges(d, v) ==
    /\ v # doc[d]
    /\ d \in Receipts => v.items = doc[d].items
    /\ doc' = [doc EXCEPT ![d] = v]
    /\ UNCHANGED <<used, sched, lastId, jobVars>>

\* A delivery takes a record into use, that it found some statements earlier.
Attach(i) ==
    /\ i <= lastId
    /\ used' = used \union {i}
    /\ UNCHANGED <<doc, sched, lastId, jobVars>>

Detach(i) ==
    /\ i \in used
    /\ used' = used \ {i}
    /\ UNCHANGED <<doc, sched, lastId, jobVars>>

----------------------------------------------------------------------------
(* What the statements compute.                                            *)

\* No other record of the document delivers a part of it by that day...
NoPartialBy(d, day, i) ==
    \A j \in Ids \ {i} : Exists(j) /\ sched[j].doc = d /\ sched[j].date <= day
                            => "PARTIAL" \notin sched[j].flag

\* ... and every other one from that day on does.
AllPartialFrom(d, day, i) ==
    \A j \in Ids \ {i} : Exists(j) /\ sched[j].doc = d /\ sched[j].date >= day
                            => "PARTIAL" \in sched[j].flag

SiblingsAllow(d, day, i, partial) ==
    IF partial THEN AllPartialFrom(d, day, i) ELSE NoPartialBy(d, day, i)

\* The lines of a packing list that are packed.
Packed(l) == {<<g, l.items[g], l.pick[g]>> : g \in {h \in Goods : l.pick[h] # 0}}

PackingList(q, v) == IF q.mode THEN [items |-> v.items, pick |-> q.pick] ELSE None

\* What an edit changes: the day, complete or partial, the lines, anything.
Moved(o, q) == o.date # q.date /\ o.newdate # q.date
Switched(o, q) == ("PARTIAL" \in o.flag) # q.mode
KeepsPartial(o, q) == q.mode /\ "PARTIAL" \in o.flag
Repacked(o, q, v) == KeepsPartial(o, q) /\ Packed(o.ijs) # Packed(PackingList(q, v))
Changes(o, q, v) ==
    \/ Moved(o, q) \/ Switched(o, q) \/ o.note # q.note
    \/ KeepsPartial(o, q) /\ (o.ijscrc # v.items \/ o.ijs # PackingList(q, v))

\* Faulty variant: a changed packing list goes unmarked.
EditedFlagQuiet(o, q, v) ==
    (o.flag \ {"PARTIAL"})
        \union (IF q.mode THEN {"PARTIAL"} ELSE {})
        \union (IF /\ "ACCEPTED" \in o.flag
                   /\ Switched(o, q) \/ o.note # q.note
                THEN {"CHANGED"} ELSE {})
        \union (IF "ACCEPTED" \in o.flag /\ Moved(o, q) THEN {"RESCHEDULED"} ELSE {})

\* The flag column fn_set_doc writes, from the flags it has read.
EditedFlag(o, q, v) ==
    (o.flag \ {"PARTIAL"})
        \union (IF q.mode THEN {"PARTIAL"} ELSE {})
        \union (IF /\ "ACCEPTED" \in o.flag
                   /\ Switched(o, q) \/ Repacked(o, q, v) \/ o.note # q.note
                THEN {"CHANGED"} ELSE {})
        \union (IF "ACCEPTED" \in o.flag /\ Moved(o, q) THEN {"RESCHEDULED"} ELSE {})

\* An accepted record keeps its day and asks for another; a pending one moves.
Edited(row, o, q, v) ==
    IF "ACCEPTED" \in o.flag
    THEN [row EXCEPT !.rev = @ + 1, !.flag = EditedFlag(o, q, v), !.note = q.note,
                     !.newdate = IF Moved(o, q) THEN q.date ELSE o.newdate,
                     !.ijs = PackingList(q, v),
                     !.ijscrc = IF q.mode THEN v.items ELSE @]
    ELSE [row EXCEPT !.rev = @ + 1, !.flag = EditedFlag(o, q, v), !.note = q.note,
                     !.newdate = 0, !.date = q.date, !.crc = Crc(row.doc, v),
                     !.ijscrc = v.items, !.ijs = PackingList(q, v)]

Created(q, v) ==
    [doc |-> q.doc, date |-> q.date, newdate |-> 0, rev |-> 1,
     flag |-> IF q.mode THEN {"PARTIAL"} ELSE {}, note |-> q.note,
     crc |-> Crc(q.doc, v), ijscrc |-> v.items, ijs |-> PackingList(q, v), cur |-> None]

\* What a record delivers: the lines picked, or the document as it is.
Delivers(o, v) == IF "PARTIAL" \in o.flag THEN o.ijs.pick ELSE v.items

\* Faulty variant: the revision stays.
SeenSilently(row, o, v) ==
    [row EXCEPT !.crc = Crc(row.doc, v), !.cur = Delivers(o, v),
                !.ijscrc = IF "PARTIAL" \in o.flag THEN @ ELSE v.items]

\* The manager has seen the record with that document.
Seen(row, o, v) ==
    [row EXCEPT !.rev = @ + 1, !.crc = Crc(row.doc, v), !.cur = Delivers(o, v),
                !.ijscrc = IF "PARTIAL" \in o.flag THEN @ ELSE v.items]

----------------------------------------------------------------------------
(* The requests.                                                           *)

Finish(w) ==
    /\ pc' = [pc EXCEPT ![w] = "idle"]
    /\ op' = [op EXCEPT ![w] = None]
    /\ at' = [at EXCEPT ![w] = 0]
    /\ got' = [got EXCEPT ![w] = NoRows]
    /\ ver' = [ver EXCEPT ![w] = None]
    /\ req' = [req EXCEPT ![w] = None]
    /\ todo' = [todo EXCEPT ![w] = {}]

GoTo(w, step) ==
    /\ pc' = [pc EXCEPT ![w] = step]
    /\ UNCHANGED op

Takes(w, o, step) ==
    /\ pc[w] = "idle"
    /\ o \in Ops
    /\ op' = [op EXCEPT ![w] = o]
    /\ pc' = [pc EXCEPT ![w] = step]

Serves(w, o, step) == op[w] = o /\ pc[w] = step

\* Lines are picked from the document, and a note says why not all of them.
Valid(q) ==
    q.mode => q.note # "" /\ \A g \in Goods : q.pick[g] <= doc[q.doc].items[g]

\* fn_set_doc starts with the document.
StartNew(w, q) ==
    /\ Takes(w, "new", "check")
    /\ lastId < MaxId
    /\ Valid(q)
    /\ ver' = [ver EXCEPT ![w] = doc]
    /\ req' = [req EXCEPT ![w] = q]
    /\ UNCHANGED <<docVars, sched, lastId, at, got, todo>>

StartEdit(w, i, q) ==
    /\ Takes(w, "edit", "read")
    /\ Exists(i) /\ sched[i].doc = q.doc /\ sched[i].rev < MaxRev
    /\ Valid(q)
    /\ at' = [at EXCEPT ![w] = i]
    /\ ver' = [ver EXCEPT ![w] = doc]
    /\ req' = [req EXCEPT ![w] = q]
    /\ UNCHANGED <<docVars, sched, lastId, got, todo>>

StartDelRec(w, i) ==
    /\ Takes(w, "delrec", "read")
    /\ Exists(i) /\ sched[i].rev < MaxRev
    /\ i \notin used
    /\ at' = [at EXCEPT ![w] = i]
    /\ UNCHANGED <<docVars, sched, lastId, got, ver, req, todo>>

\* _get_docs_by_sc_ids reads the records that were ticked, then the documents.
StartBatch(w, o, I) ==
    /\ o \in {"accept", "confirm", "clear", "del"}
    /\ Takes(w, o, "docs")
    /\ I # {} /\ \A i \in I : Exists(i) /\ sched[i].rev < MaxRev
    /\ got' = [got EXCEPT ![w] = [i \in Ids |-> IF i \in I THEN sched[i] ELSE None]]
    /\ todo' = [todo EXCEPT ![w] = I]
    /\ UNCHANGED <<docVars, sched, lastId, at, ver, req>>

ReadDocs(w) ==
    /\ pc[w] = "docs"
    /\ ver' = [ver EXCEPT ![w] = doc]
    /\ GoTo(w, IF op[w] = "confirm" THEN "check" ELSE "write")
    /\ UNCHANGED <<docVars, sched, lastId, at, got, req, todo>>

Unanswered(w) == UNCHANGED <<at, got, ver, req, todo>>

\* The record as it is now; an edit of the wrong record is refused.
ReadForEdit(w) ==
    LET i == at[w]
        q == req[w]
    IN  /\ Serves(w, "edit", "read")
        /\ IF /\ Exists(i)
              /\ "CANCELLING" \notin sched[i].flag
              /\ Changes(sched[i], q, ver[w][q.doc])
           THEN /\ got' = [got EXCEPT ![w][i] = sched[i]]
                /\ GoTo(w, IF Moved(sched[i], q) \/ Switched(sched[i], q)
                           THEN "check" ELSE "write")
                /\ UNCHANGED <<at, ver, req, todo>>
           ELSE Finish(w)
        /\ UNCHANGED <<docVars, sched, lastId>>

\* The page was older than the record, or the changed lines were not checked.
RefuseEdit(w) ==
    /\ Serves(w, "edit", "read")
    /\ Finish(w)
    /\ UNCHANGED <<docVars, sched, lastId>>

ReadForDelRec(w) ==
    LET i == at[w]
    IN  /\ Serves(w, "delrec", "read")
        /\ IF Exists(i) /\ "CANCELLING" \notin sched[i].flag
           THEN /\ got' = [got EXCEPT ![w][i] = sched[i]]
                /\ GoTo(w, "write")
                /\ UNCHANGED <<at, ver, req, todo>>
           ELSE Finish(w)
        /\ UNCHANGED <<docVars, sched, lastId>>

\* The query over the other records of the document; at[w] is 0 for a new one.
CheckSiblings(w) ==
    /\ Serves(w, "new", "check") \/ Serves(w, "edit", "check")
    /\ IF SiblingsAllow(req[w].doc, req[w].date, at[w], req[w].mode)
       THEN GoTo(w, "write") /\ Unanswered(w)
       ELSE Finish(w)
    /\ UNCHANGED <<docVars, sched, lastId>>

Insert(w) ==
    /\ Serves(w, "new", "write")
    /\ IF lastId < MaxId
       THEN /\ lastId' = lastId + 1
            /\ sched' = [sched EXCEPT ![lastId + 1] = Created(req[w], ver[w][req[w].doc])]
       ELSE UNCHANGED <<lastId, sched>>
    /\ Finish(w)
    /\ UNCHANGED docVars

\* Faulty variant: the revision is not asked for.
SameRevAny(w, i) == Exists(i)

\* "where sc_id=... and sc_rev=...": the record is as it was read.
SameRev(w, i) == Exists(i) /\ sched[i].rev = got[w][i].rev

UpdateEdit(w) ==
    LET i == at[w]
    IN  /\ Serves(w, "edit", "write")
        /\ sched' = IF SameRev(w, i)
                    THEN [sched EXCEPT ![i] = Edited(@, got[w][i], req[w], ver[w][req[w].doc])]
                    ELSE sched
        /\ Finish(w)
        /\ UNCHANGED <<docVars, lastId>>

\* Faulty variant: a delivery may have taken the record meanwhile.
UpdateDelRecUsed(w) ==
    LET i == at[w]
        accepted == "ACCEPTED" \in got[w][i].flag
    IN  /\ Serves(w, "delrec", "write")
        /\ sched' =
             IF ~SameRev(w, i) \/ ("ACCEPTED" \in sched[i].flag) # accepted THEN sched
             ELSE IF accepted
             THEN [sched EXCEPT ![i].rev = @ + 1, ![i].flag = @ \union {"CANCELLING"}]
             ELSE [sched EXCEPT ![i] = None]
        /\ Finish(w)
        /\ UNCHANGED <<docVars, lastId>>

\* An accepted record is marked for the manager, a pending one is deleted.
UpdateDelRec(w) ==
    LET i == at[w]
        accepted == "ACCEPTED" \in got[w][i].flag
    IN  /\ Serves(w, "delrec", "write")
        /\ sched' =
             IF \/ ~SameRev(w, i) \/ i \in used
                \/ ("ACCEPTED" \in sched[i].flag) # accepted THEN sched
             ELSE IF accepted
             THEN [sched EXCEPT ![i].rev = @ + 1, ![i].flag = @ \union {"CANCELLING"}]
             ELSE [sched EXCEPT ![i] = None]
        /\ Finish(w)
        /\ UNCHANGED <<docVars, lastId>>

\* On to the next record of the request.
Done(w, i) ==
    IF todo[w] \ {i} = {} THEN Finish(w)
    ELSE /\ todo' = [todo EXCEPT ![w] = @ \ {i}]
         /\ at' = [at EXCEPT ![w] = 0]
         /\ GoTo(w, IF op[w] = "confirm" THEN "check" ELSE "write")
         /\ UNCHANGED <<got, ver, req>>

\* A partial delivery is shown only as long as the items are the ones picked from.
Current(o, v) == "PARTIAL" \in o.flag => o.ijscrc = v.items

AcceptOne(w, i) ==
    LET o == got[w][i]
        v == ver[w][o.doc]
    IN  /\ Serves(w, "accept", "write") /\ i \in todo[w]
        /\ sched' =
             IF /\ Current(o, v) /\ SameRev(w, i)
                /\ sched[i].flag \intersect {"ACCEPTED", "CANCELLING"} = {}
             THEN [sched EXCEPT ![i] = [Seen(sched[i], o, v) EXCEPT !.flag = @ \union {"ACCEPTED"}]]
             ELSE sched
        /\ Done(w, i)
        /\ UNCHANGED <<docVars, lastId>>

ClearOne(w, i) ==
    LET o == got[w][i]
        v == ver[w][o.doc]
    IN  /\ Serves(w, "clear", "write") /\ i \in todo[w]
        /\ sched' =
             IF Current(o, v) /\ SameRev(w, i) /\ "ACCEPTED" \in sched[i].flag
             THEN [sched EXCEPT ![i] = [Seen(sched[i], o, v) EXCEPT !.flag = @ \ {"CHANGED"}]]
             ELSE sched
        /\ Done(w, i)
        /\ UNCHANGED <<docVars, lastId>>

\* fn_confirm_rescheduling looks at the other records before each update; the
\* new date of a record that is not rescheduled is 0.
CheckConfirm(w, i) ==
    LET o == got[w][i]
    IN  /\ Serves(w, "confirm", "check") /\ i \in todo[w]
        /\ IF SiblingsAllow(o.doc, o.newdate, i, "PARTIAL" \in o.flag)
           THEN /\ at' = [at EXCEPT ![w] = i]
                /\ GoTo(w, "write")
                /\ UNCHANGED <<got, ver, req, todo>>
           ELSE Done(w, i)
        /\ UNCHANGED <<docVars, sched, lastId>>

\* Faulty variant: the flags are not asked for.
ConfirmOneAny(w) ==
    LET i == at[w]
    IN  /\ Serves(w, "confirm", "write")
        /\ sched' =
             IF SameRev(w, i)
             THEN [sched EXCEPT ![i].rev = @ + 1, ![i].flag = @ \ {"RESCHEDULED"},
                                ![i].date = got[w][i].newdate, ![i].newdate = 0]
             ELSE sched
        /\ Done(w, i)
        /\ UNCHANGED <<docVars, lastId>>

ConfirmOne(w) ==
    LET i == at[w]
    IN  /\ Serves(w, "confirm", "write")
        /\ sched' =
             IF /\ SameRev(w, i)
                /\ sched[i].flag \intersect {"RESCHEDULED", "CANCELLING"} = {"RESCHEDULED"}
             THEN [sched EXCEPT ![i].rev = @ + 1, ![i].flag = @ \ {"RESCHEDULED"},
                                ![i].date = got[w][i].newdate, ![i].newdate = 0]
             ELSE sched
        /\ Done(w, i)
        /\ UNCHANGED <<docVars, lastId>>

\* The manager deletes what is cancelled; no revision is asked for.
DelOne(w, i) ==
    /\ Serves(w, "del", "write") /\ i \in todo[w]
    /\ sched' = IF Exists(i) /\ "CANCELLING" \in sched[i].flag /\ i \notin used
                THEN [sched EXCEPT ![i] = None]
                ELSE sched
    /\ Done(w, i)
    /\ UNCHANGED <<docVars, lastId>>

Elsewhere ==
    \/ \E d \in Docs : \E v \in Contents : DocChanges(d, v)
    \/ \E i \in Ids : Attach(i) \/ Detach(i)

Starts(w) ==
    \/ \E q \in [doc : Docs, date : Days, mode : BOOLEAN, note : Notes, pick : PickSet] :
          StartNew(w, q) \/ \E i \in Ids : StartEdit(w, i, q)
    \/ \E i \in Ids : StartDelRec(w, i)
    \/ \E o \in Ops : \E I \in SUBSET Ids : StartBatch(w, o, I)

Step(w) ==
    \/ ReadDocs(w) \/ ReadForEdit(w) \/ RefuseEdit(w) \/ ReadForDelRec(w)
    \/ CheckSiblings(w) \/ Insert(w) \/ UpdateEdit(w) \/ UpdateDelRec(w) \/ ConfirmOne(w)
    \/ \E i \in Ids : AcceptOne(w, i) \/ ClearOne(w, i) \/ CheckConfirm(w, i) \/ DelOne(w, i)

Next == Elsewhere \/ \E w \in Workers : Starts(w) \/ Step(w)

Spec == Init /\ [][Next]_vars

----------------------------------------------------------------------------
(***************************************************************************)
(* A record's columns fit together, whatever handlers ran between the      *)
(* statements of the one that wrote them: the flag PARTIAL and the packing *)
(* list, the flag RESCHEDULED and the new date, acceptance and the list    *)
(* the manager saw.  fn_accept and fn_clear_cflag parse doc_ijs of partial *)
(* records without a check, and the new date is confirmed by flag alone.   *)
(***************************************************************************)
Coherent(r) ==
    /\ "PARTIAL" \in r.flag <=> r.ijs # None
    /\ "PARTIAL" \in r.flag => r.ijscrc = r.ijs.items
    /\ "RESCHEDULED" \in r.flag <=> r.newdate # 0
    /\ r.newdate # r.date
    /\ "ACCEPTED" \in r.flag <=> r.cur # None
    /\ "ACCEPTED" \notin r.flag => r.flag \subseteq {"PARTIAL"}
RecordsCoherent == \A i \in Ids : Exists(i) => Coherent(sched[i])

\* The marks fn_get_docs shows with a record.
ShowsChange(r) ==
    \/ "CHANGED" \in r.flag
    \/ r.crc # Crc(r.doc, doc[r.doc])
    \/ "PARTIAL" \in r.flag /\ r.ijscrc # doc[r.doc].items

(***************************************************************************)
(* No change gets past the delivery manager: when an accepted record would *)
(* deliver something else than the list stored when she accepted it or     *)
(* cleared the mark, it is shown as changed - whoever edited it and        *)
(* whatever happened to the document between the reads and the update of   *)
(* the handlers (schedulev2.py:588-671).                                   *)
(***************************************************************************)
ChangeShown ==
    \A i \in Ids :
        Exists(i) /\ "ACCEPTED" \in sched[i].flag
          => \/ Delivers(sched[i], doc[sched[i].doc]) = sched[i].cur
             \/ ShowsChange(sched[i])

(***************************************************************************)
(* What a worker has read is what is there, as long as the revision is:    *)
(* the reason the guarded updates are safe.                                *)
(***************************************************************************)
ReadsValid ==
    \A w \in Workers : \A i \in Ids :
        got[w][i] # None /\ Exists(i)
          => /\ got[w][i].rev <= sched[i].rev
             /\ got[w][i].rev = sched[i].rev => got[w][i] = sched[i]

(***************************************************************************)
(* The error texts of fn_set_doc ("Completed Delivery Is Not Allowed!",    *)
(* "Partial Delivery Is Not Allowed!") state an order: a document's        *)
(* complete delivery comes before the days of its partial ones.            *)
(***************************************************************************)
CompleteBeforePartial ==
    \A i, j \in Ids :
        (/\ Exists(i) /\ Exists(j)
         /\ sched[i].doc = sched[j].doc
         /\ "PARTIAL" \notin sched[i].flag
         /\ "PARTIAL" \in sched[j].flag)
          => sched[i].date < sched[j].date

----------------------------------------------------------------------------
(* The handlers implement indivisible steps on bookings.                   *)
Stage(i) ==
    IF i > lastId THEN "none"
    ELSE IF ~Exists(i) THEN "gone"
    ELSE IF "CANCELLING" \in sched[i].flag THEN "cancelling"
    ELSE IF "ACCEPTED" \in sched[i].flag THEN "accepted" ELSE "pending"

Bookings == INSTANCE Booking WITH
    NoDay <- 0,
    stage <- [i \in Ids |-> Stage(i)],
    day <- [i \in Ids |-> IF Exists(i) THEN sched[i].date ELSE 0],
    wish <- [i \in Ids |-> IF Exists(i) THEN sched[i].newdate ELSE 0],
    partial <- [i \in Ids |-> Exists(i) /\ "PARTIAL" \in sched[i].flag]

(***************************************************************************)
(* Sequences of statements that read, check and write behave like steps    *)
(* that do all of it at once: an accepted record moves only to the day     *)
(* confirmed, goes away only when cancelled and unused, and a request that *)
(* lost the race changes nothing.                                          *)
(***************************************************************************)
ImplementsBooking == Bookings!Spec
============================================================================
