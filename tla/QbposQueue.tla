---------------------------- MODULE QbposQueue -----------------------------
(***************************************************************************)
(* The outbox to QuickBooks POS: request/ts_request.py, fn_adjust_po of    *)
(* request/purchasing.py and the worker of service_qbpos.py.               *)
(*                                                                         *)
(* Staff write a purchase request (inv_request) and send it: fn_send puts  *)
(* a row into qbpos, links it to the request and makes it pending.  Every  *)
(* 600 ms the service fetches some pending rows; for each it reads the     *)
(* request, has POS add the order over its XML interface and records the   *)
(* answer in the row.  A failed row can be sent again.  Web workers and    *)
(* the service interleave between any two SQL statements, and the service  *)
(* may lose its batch between the order and the answer's record: by an     *)
(* exception, by the empty answer -111 (its branch calls a function that   *)
(* does not exist, a NameError) or by a crash.                             *)
(*                                                                         *)
(* POS is external: it adds an order, refuses, or gives no answer, in      *)
(* which case the order may have been added or not.                        *)
(***************************************************************************)
EXTENDS Naturals, Sequences, FiniteSets

CONSTANTS
    HQ,        \* whether this is the first store: the others send no orders
    Lists,     \* the item lists of requests
    Empty,     \* the empty one
    Web,       \* the workers of the web server
    Limit,     \* rows fetched at a time, 10 in the code
    None,      \* no row
    MaxPid,    \* bound: requests
    MaxQid,    \* bound: rows of the outbox
    MaxRev,    \* bound: revisions of each request up to which it is edited
    MaxSends,  \* bound: rows made pending
    MaxFails   \* bound: batches lost

ASSUME QueueAssumption ==
    /\ HQ \in BOOLEAN
    /\ Empty \in Lists
    /\ None \notin [rev : Nat, sent : BOOLEAN, qid : Nat, items : Lists, adjusts : BOOLEAN]
    /\ None \notin [pid : Nat, state : Nat, err : {"unsent", "ok", "failed"}]
    /\ None \notin [pid : Nat, rev : Nat, qid : Nat]
    /\ Limit \in Nat \ {0}
    /\ {MaxPid, MaxQid, MaxSends, MaxFails} \subseteq Nat
    /\ MaxRev \in [1..MaxPid -> Nat]

Pids == 1..MaxPid
Qids == 1..MaxQid

VARIABLES
    req,      \* the table inv_request
    lastPid,  \* its auto-increment counter
    q,        \* the table qbpos
    lastQid,  \* its auto-increment counter
    made,     \* made[p]: the orders POS holds for request p, external
    pc, job,  \* what each web worker runs next, and its locals
    spc,      \* what the service runs next
    batch,    \* the rows it has fetched and not come to
    cur,      \* the row it has the answer for
    answer,   \* that answer
    sends,    \* rows made pending so far
    fails     \* batches lost so far

webVars == <<pc, job>>
srvVars == <<spc, batch, cur, answer>>
vars == <<req, lastPid, q, lastQid, made, webVars, srvVars, sends, fails>>

Requests == [rev : Nat, sent : BOOLEAN, qid : Qids \union {0}, items : Lists, adjusts : BOOLEAN]
Rows == [pid : Pids \union {0}, state : 0..2, err : {"unsent", "ok", "failed"}]
Jobs == [pid : Pids, rev : Nat, qid : Qids \union {0}]

TypeOK ==
    /\ req \in [Pids -> Requests \union {None}]
    /\ lastPid \in 0..MaxPid
    /\ q \in [Qids -> Rows \union {None}]
    /\ lastQid \in 0..MaxQid
    /\ made \in [Pids -> Seq(Lists)]
    /\ pc \in [Web -> {"idle", "insert", "link", "pend", "adj_insert", "adj_link", "adj_pend"}]
    /\ job \in [Web -> Jobs \union {None}]
    /\ spc \in {"idle", "next", "record"}
    /\ batch \subseteq Qids
    /\ cur \in Qids \union {0}
    /\ answer \in {"none", "ok", "failed"}
    /\ sends \in Nat /\ fails \in Nat

Init ==
    /\ req = [p \in Pids |-> None]
    /\ lastPid = 0
    /\ q = [i \in Qids |-> None]
    /\ lastQid = 0
    /\ made = [p \in Pids |-> <<>>]
    /\ pc = [w \in Web |-> "idle"]
    /\ job = [w \in Web |-> None]
    /\ spc = "idle" /\ batch = {} /\ cur = 0 /\ answer = "none"
    /\ sends = 0 /\ fails = 0

----------------------------------------------------------------------------
(* Requests: ts_request.py.                                                *)

NewRequest(l) ==
    /\ lastPid < MaxPid
    /\ l # Empty
    /\ lastPid' = lastPid + 1
    /\ req' = [req EXCEPT ![lastPid + 1] =
                 [rev |-> 1, sent |-> FALSE, qid |-> 0, items |-> l, adjusts |-> FALSE]]
    /\ UNCHANGED <<q, lastQid, made, webVars, srvVars, sends, fails>>

\* Faulty variant: a request that was sent can still be edited.
SaveRequestSent(p, l) ==
    /\ req[p] # None
    /\ req[p].rev < MaxRev[p]
    /\ req' = [req EXCEPT ![p].rev = @ + 1, ![p].items = l]
    /\ UNCHANGED <<lastPid, q, lastQid, made, webVars, srvVars, sends, fails>>

\* "rev=... and flg&1=0": an older page changes nothing.  An edit may leave no items.
SaveRequest(p, l) ==
    /\ req[p] # None
    /\ ~req[p].sent /\ req[p].rev < MaxRev[p]
    /\ req' = [req EXCEPT ![p].rev = @ + 1, ![p].items = l]
    /\ UNCHANGED <<lastPid, q, lastQid, made, webVars, srvVars, sends, fails>>

DeleteRequest(p) ==
    /\ req[p] # None
    /\ ~req[p].sent
    /\ req' = [req EXCEPT ![p] = None]
    /\ UNCHANGED <<lastPid, q, lastQid, made, webVars, srvVars, sends, fails>>

Goto(w, step) == pc' = [pc EXCEPT ![w] = step]
Leave(w) ==
    /\ pc' = [pc EXCEPT ![w] = "idle"]
    /\ job' = [job EXCEPT ![w] = None]

\* fn_send reads the request.
StartSend(w, p) ==
    /\ pc[w] = "idle"
    /\ req[p] # None
    /\ ~req[p].adjusts
    /\ req[p].items # Empty
    /\ job' = [job EXCEPT ![w] = [pid |-> p, rev |-> req[p].rev, qid |-> req[p].qid]]
    /\ Goto(w, IF req[p].qid = 0 THEN "insert" ELSE "pend")
    /\ UNCHANGED <<req, lastPid, q, lastQid, made, srvVars, sends, fails>>

\* A row of the outbox, not pending yet.
InsertRow(p, state) ==
    /\ lastQid < MaxQid
    /\ lastQid' = lastQid + 1
    /\ q' = [q EXCEPT ![lastQid + 1] = [pid |-> p, state |-> state, err |-> "unsent"]]

InsertSend(w) ==
    /\ pc[w] = "insert"
    /\ InsertRow(job[w].pid, 2)
    /\ job' = [job EXCEPT ![w].qid = lastQid + 1]
    /\ Goto(w, "link")
    /\ UNCHANGED <<req, lastPid, made, srvVars, sends, fails>>

\* Faulty variant: the row is linked whatever the request is by now.
LinkAny(w) ==
    LET p == job[w].pid
    IN  /\ pc[w] = "link"
        /\ IF req[p] # None
           THEN /\ req' = [req EXCEPT ![p].rev = @ + 1, ![p].sent = TRUE, ![p].qid = job[w].qid]
                /\ Goto(w, "pend")
                /\ UNCHANGED job
           ELSE Leave(w) /\ UNCHANGED req
        /\ UNCHANGED <<lastPid, q, lastQid, made, srvVars, sends, fails>>

\* "rev=... and (flg&1)=0": of two senders one leaves, its row is never used.
Link(w) ==
    LET p == job[w].pid
    IN  /\ pc[w] = "link"
        /\ IF req[p] # None /\ req[p].rev = job[w].rev /\ ~req[p].sent
           THEN /\ req' = [req EXCEPT ![p].rev = @ + 1, ![p].sent = TRUE, ![p].qid = job[w].qid]
                /\ Goto(w, "pend")
                /\ UNCHANGED job
           ELSE Leave(w) /\ UNCHANGED req
        /\ UNCHANGED <<lastPid, q, lastQid, made, srvVars, sends, fails>>

\* Faulty variant: "errno!=0" is left out.
PendAgain(w) ==
    LET i == job[w].qid
    IN  /\ pc[w] = "pend"
        /\ IF q[i].state = 2 /\ sends < MaxSends
           THEN /\ q' = [q EXCEPT ![i].state = 1, ![i].err = "ok"]
                /\ sends' = sends + 1
           ELSE UNCHANGED <<q, sends>>
        /\ Leave(w)
        /\ UNCHANGED <<req, lastPid, lastQid, made, srvVars, fails>>

\* "state=2 and errno!=0": new or failed, neither pending nor done.
Pend(w) ==
    LET i == job[w].qid
    IN  /\ pc[w] = "pend"
        /\ IF q[i].state = 2 /\ q[i].err # "ok" /\ sends < MaxSends
           THEN /\ q' = [q EXCEPT ![i].state = 1, ![i].err = "ok"]
                /\ sends' = sends + 1
           ELSE UNCHANGED <<q, sends>>
        /\ Leave(w)
        /\ UNCHANGED <<req, lastPid, lastQid, made, srvVars, fails>>

\* A web worker dies, or loses MySQL, between two statements.
WebFails(w) ==
    /\ pc[w] # "idle"
    /\ Leave(w)
    /\ UNCHANGED <<req, lastPid, q, lastQid, made, srvVars, sends, fails>>

----------------------------------------------------------------------------
(* Purchase order adjustments, and rows without a request.                 *)

\* fn_adjust_po: its request is born sent.
StartAdjust(w) ==
    /\ pc[w] = "idle"
    /\ lastPid < MaxPid
    /\ lastPid' = lastPid + 1
    /\ req' = [req EXCEPT ![lastPid + 1] =
                 [rev |-> 1, sent |-> TRUE, qid |-> 0, items |-> Empty, adjusts |-> TRUE]]
    /\ job' = [job EXCEPT ![w] = [pid |-> lastPid + 1, rev |-> 1, qid |-> 0]]
    /\ Goto(w, "adj_insert")
    /\ UNCHANGED <<q, lastQid, made, srvVars, sends, fails>>

AdjustInsert(w) ==
    /\ pc[w] = "adj_insert"
    /\ InsertRow(job[w].pid, 0)
    /\ job' = [job EXCEPT ![w].qid = lastQid + 1]
    /\ Goto(w, "adj_link")
    /\ UNCHANGED <<req, lastPid, made, srvVars, sends, fails>>

AdjustLink(w) ==
    LET p == job[w].pid
    IN  /\ pc[w] = "adj_link"
        /\ req' = [req EXCEPT ![p].rev = @ + 1, ![p].qid = job[w].qid]
        /\ Goto(w, "adj_pend")
        /\ UNCHANGED <<lastPid, q, lastQid, made, job, srvVars, sends, fails>>

AdjustPend(w) ==
    /\ pc[w] = "adj_pend"
    /\ q' = [q EXCEPT ![job[w].qid].state = 1]
    /\ Leave(w)
    /\ UNCHANGED <<req, lastPid, lastQid, made, srvVars, sends, fails>>

\* Reorder points and barcodes go straight into the outbox.
InsertDirect ==
    /\ InsertRow(0, 1)
    /\ UNCHANGED <<req, lastPid, made, webVars, srvVars, sends, fails>>

----------------------------------------------------------------------------
(* The service.                                                            *)

Pending == {i \in Qids : q[i] # None /\ q[i].state = 1}

Fetch ==
    /\ spc = "idle"
    /\ Pending # {}
    /\ batch' \in SUBSET Pending
    /\ Cardinality(batch') = IF Cardinality(Pending) < Limit THEN Cardinality(Pending) ELSE Limit
    /\ spc' = "next"
    /\ UNCHANGED <<req, lastPid, q, lastQid, made, webVars, cur, answer, sends, fails>>

\* "where pid=... and qbpos_id=...": the request, if the row is the one it sent.
Linked(i) == req[q[i].pid] # None /\ req[q[i].pid].qid = i

EndBatch ==
    /\ spc' = "idle"
    /\ batch' = {}
    /\ cur' = 0
    /\ answer' = "none"

\* insert_po's branch of the worker: POS answers to the order of row i.
Answer(i, a) ==
    /\ answer' = a
    /\ cur' = i
    /\ batch' = batch \ {i}
    /\ spc' = "record"
    /\ UNCHANGED fails

\* POS adds the order, and the answer arrives or not.
Order(i) ==
    LET p == q[i].pid
    IN  /\ made' = [made EXCEPT ![p] = Append(@, req[p].items)]
        /\ \/ Answer(i, "ok")
           \/ fails < MaxFails /\ fails' = fails + 1 /\ EndBatch

\* Nothing was ordered: refused, no answer either, or not an order at all.
NoOrder(i) ==
    /\ UNCHANGED made
    /\ \/ Answer(i, "failed")
       \/ fails < MaxFails /\ fails' = fails + 1 /\ EndBatch

Process(i) ==
    /\ spc = "next" /\ i \in batch
    /\ LET p == q[i].pid
           found == HQ /\ p # 0 /\ Linked(i)
       IN  \/ found /\ ~req[p].adjusts /\ req[p].items # Empty /\ Order(i)
           \/ NoOrder(i)
           \/ HQ /\ (p = 0 \/ (found /\ req[p].adjusts)) /\ Answer(i, "ok") /\ UNCHANGED made
    /\ UNCHANGED <<req, lastPid, q, lastQid, webVars, sends>>

NextRow ==
    IF batch = {} THEN EndBatch
    ELSE spc' = "next" /\ cur' = 0 /\ answer' = "none" /\ UNCHANGED batch

\* Faulty variant: the answer is stored after it is cleared.
RecordCleared ==
    /\ spc = "record"
    /\ q' = IF q[cur].state = 1 THEN [q EXCEPT ![cur].state = 2, ![cur].err = "none"] ELSE q
    /\ NextRow
    /\ UNCHANGED <<req, lastPid, lastQid, made, webVars, sends, fails>>

\* Faulty variant: only the rows that succeeded are recorded.
RecordDone ==
    /\ spc = "record"
    /\ q' = IF q[cur].state = 1 /\ answer = "ok"
            THEN [q EXCEPT ![cur].state = 2, ![cur].err = "ok"] ELSE q
    /\ NextRow
    /\ UNCHANGED <<req, lastPid, lastQid, made, webVars, sends, fails>>

\* Faulty variant: the answer of a failed row is recorded as done.
RecordOk ==
    /\ spc = "record"
    /\ q' = IF q[cur].state = 1 THEN [q EXCEPT ![cur].state = 2, ![cur].err = "ok"] ELSE q
    /\ NextRow
    /\ UNCHANGED <<req, lastPid, lastQid, made, webVars, sends, fails>>

\* "where id=... and state=1"
Record ==
    /\ spc = "record"
    /\ q' = IF q[cur].state = 1 THEN [q EXCEPT ![cur].state = 2, ![cur].err = answer] ELSE q
    /\ NextRow
    /\ UNCHANGED <<req, lastPid, lastQid, made, webVars, sends, fails>>

\* The service stops, or an exception ends worker(): the rows stay pending.
LoseBatch ==
    /\ spc # "idle"
    /\ fails < MaxFails
    /\ fails' = fails + 1
    /\ EndBatch
    /\ UNCHANGED <<req, lastPid, q, lastQid, made, webVars, sends>>

Staff ==
    \/ InsertDirect
    \/ \E l \in Lists : NewRequest(l) \/ \E p \in Pids : SaveRequest(p, l)
    \/ \E p \in Pids : DeleteRequest(p)
    \/ \E w \in Web :
          \/ InsertSend(w) \/ Link(w) \/ Pend(w) \/ WebFails(w)
          \/ StartAdjust(w) \/ AdjustInsert(w) \/ AdjustLink(w) \/ AdjustPend(w)
          \/ \E p \in Pids : StartSend(w, p)

Service == Fetch \/ Record \/ \E i \in Qids : Process(i)

Next == Staff \/ Service \/ LoseBatch

Spec == Init /\ [][Next]_vars

\* The loop of thread_srv goes on after every exception, and the service
\* manager restarts the process.
FairSpec == Spec /\ WF_vars(Service)

----------------------------------------------------------------------------
Orders(i) == q[i] # None /\ q[i].pid # 0

(***************************************************************************)
(* A row that was ever pending is the one its request is linked to, and    *)
(* the request is locked: a sender that lost the race leaves a row that    *)
(* nobody processes (ts_request.py:210-220, purchasing.py:505-513).        *)
(***************************************************************************)
LiveRowsLinked ==
    \A i \in Qids :
        Orders(i) /\ (q[i].state = 1 \/ q[i].err # "unsent")
          => /\ req[q[i].pid] # None
             /\ req[q[i].pid].sent /\ req[q[i].pid].qid = i

(***************************************************************************)
(* What POS ordered is what the request says, now and for ever: the        *)
(* request cannot be edited or deleted any more, and a save that came      *)
(* between the sender's two reads of it makes the sender leave.            *)
(***************************************************************************)
OrderedAsWritten ==
    \A p \in Pids : \A k \in 1..Len(made[p]) :
        req[p] # None /\ req[p].sent /\ made[p][k] = req[p].items

(***************************************************************************)
(* A request is ordered at most once, but for batches lost after POS had   *)
(* the order: each of these may order it once more.  Sending again, by     *)
(* several people at a time, never does (ts_request.py:220,                *)
(* service_qbpos.py:614-628).                                              *)
(***************************************************************************)
NoNeedlessOrder == \A p \in Pids : Len(made[p]) <= 1 + fails

(***************************************************************************)
(* A row marked done has its order in POS, and only one kind of row is     *)
(* done in another store than the first.                                   *)
(***************************************************************************)
DoneIsOrdered ==
    \A i \in Qids :
        Orders(i) /\ q[i].state = 2 /\ q[i].err = "ok" /\ ~req[q[i].pid].adjusts
          => HQ /\ made[q[i].pid] # <<>>

(***************************************************************************)
(* A row that is done stays as it is.                                      *)
(***************************************************************************)
DoneIsFinal ==
    [][\A i \in Qids : Orders(i) /\ q[i].state = 2 /\ q[i].err = "ok" => q'[i] = q[i]]_q

----------------------------------------------------------------------------
(* The inductive invariant behind these.                                   *)

ReqOk(p) ==
    req[p] # None =>
        /\ p <= lastPid
        /\ req[p].qid # 0 => req[p].sent /\ q[req[p].qid] # None /\ q[req[p].qid].pid = p
        /\ req[p].adjusts => req[p].sent

RowOk(i) == q[i] # None <=> i <= lastQid

LiveOk(i) ==
    Orders(i) /\ (q[i].state = 1 \/ q[i].err # "unsent")
      => req[q[i].pid] # None /\ req[q[i].pid].sent /\ req[q[i].pid].qid = i

\* A worker's row is there; an adjustment's request and row are its own so far.
HasRow(w) ==
    LET i == job[w].qid
    IN  i # 0 /\ q[i] # None /\ q[i].pid = job[w].pid
Adjusts(w, i) ==
    LET r == req[job[w].pid]
    IN  r # None /\ r.sent /\ r.adjusts /\ r.qid = i
JobOk(w) ==
    /\ pc[w] # "idle" => job[w] # None /\ job[w].pid <= lastPid
    /\ pc[w] = "link" => HasRow(w)
    /\ pc[w] = "pend" =>
         /\ HasRow(w)
         /\ req[job[w].pid] # None /\ req[job[w].pid].sent /\ ~req[job[w].pid].adjusts
         /\ req[job[w].pid].qid = job[w].qid
    /\ pc[w] = "adj_insert" => Adjusts(w, 0)
    /\ pc[w] = "adj_link" => Adjusts(w, 0) /\ HasRow(w) /\ q[job[w].qid].state = 0
    /\ pc[w] = "adj_pend" => Adjusts(w, job[w].qid) /\ HasRow(w) /\ q[job[w].qid].state = 0

Adjusting(w) == pc[w] \in {"adj_insert", "adj_link", "adj_pend"}
OwnJobs == \A w, x \in Web : Adjusting(w) /\ Adjusting(x) /\ w # x => job[w].pid # job[x].pid

ServiceOk ==
    /\ spc = "idle" => batch = {}
    /\ spc # "record" => cur = 0
    /\ spc = "record" => cur # 0 /\ answer # "none"
    /\ \A i \in batch : q[i] # None /\ q[i].state = 1 /\ i # cur
    /\ cur # 0 => q[cur] # None /\ q[cur].state = 1

\* The row's order went through, recorded or about to be.
Settled(i) ==
    \/ q[i].state = 2 /\ q[i].err = "ok"
    \/ cur = i /\ answer = "ok"

MadeOk(p) ==
    /\ made[p] # <<>> => req[p] # None /\ req[p].sent /\ req[p].qid # 0
    /\ \A k \in 1..Len(made[p]) : made[p][k] = req[p].items
    /\ Len(made[p]) <= 1 + fails
    /\ Len(made[p]) = 1 + fails => Settled(req[p].qid)

DoneOk(i) ==
    Orders(i) /\ Settled(i) /\ ~req[q[i].pid].adjusts => HQ /\ made[q[i].pid] # <<>>

(***************************************************************************)
(* Why an order is not repeated: a request was ordered once more than      *)
(* batches were lost only when its row is done or about to be, and such a  *)
(* row is never pending again (service_qbpos.py:614-628,                   *)
(* ts_request.py:220).                                                     *)
(***************************************************************************)
IInv ==
    /\ TypeOK
    /\ \A p \in Pids : ReqOk(p) /\ MadeOk(p)
    /\ \A i \in Qids : RowOk(i) /\ LiveOk(i) /\ DoneOk(i)
    /\ \A w \in Web : JobOk(w)
    /\ OwnJobs
    /\ ServiceOk

(***************************************************************************)
(* A pending row is answered in the end, once batches are no longer lost:  *)
(* each batch answers all its rows before the next one is fetched.         *)
(***************************************************************************)
RowsAnswered ==
    \A i \in Qids : (q[i] # None /\ q[i].state = 1) ~> (q[i] # None /\ q[i].state = 2)
============================================================================
