------------------------- MODULE QbposQueue_proofs --------------------------
(***************************************************************************)
(* The proofs about QbposQueue: that only the linked row of a request is   *)
(* processed, that orders are what the request says and are not repeated   *)
(* needlessly, and that done rows are final - for any number of requests,  *)
(* rows, web workers and lost batches.                                     *)
(***************************************************************************)
EXTENDS QbposQueue, SequenceTheorems, TLAPS

----------------------------------------------------------------------------
(* Types.                                                                  *)

\* The members of the record sets are records.
LEMMA NotNone ==
    None \notin Requests /\ None \notin Rows /\ None \notin Jobs
<1>1. Requests \subseteq [rev : Nat, sent : BOOLEAN, qid : Nat, items : Lists, adjusts : BOOLEAN]
  BY DEF Requests, Qids
<1>2. Rows \subseteq [pid : Nat, state : Nat, err : {"unsent", "ok", "failed"}]
  BY DEF Rows, Pids
<1>3. Jobs \subseteq [pid : Nat, rev : Nat, qid : Nat]
  BY DEF Jobs, Pids, Qids
<1>. QED
  BY <1>1, <1>2, <1>3, QueueAssumption

\* The edits of a request: by a save, by linking a row to it.
LEMMA RequestSaved ==
    ASSUME NEW r \in Requests, NEW l \in Lists
    PROVE  [r EXCEPT !.rev = @ + 1, !.items = l] \in Requests
<1>. DEFINE n == r.rev + 1
<1>1. n \in Nat
  BY DEF Requests
<1>. HIDE DEF n
<1>2. [r EXCEPT !.rev = n, !.items = l] \in Requests
  BY <1>1 DEF Requests
<1>. QED
  BY <1>2 DEF n

LEMMA RequestLinked ==
    ASSUME NEW r \in Requests, NEW i \in Qids \union {0}
    PROVE  /\ [r EXCEPT !.rev = @ + 1, !.sent = TRUE, !.qid = i] \in Requests
           /\ [r EXCEPT !.rev = @ + 1, !.qid = i] \in Requests
<1>. DEFINE n == r.rev + 1
<1>1. n \in Nat
  BY DEF Requests
<1>. HIDE DEF n
<1>2. [r EXCEPT !.rev = n, !.sent = TRUE, !.qid = i] \in Requests
  BY <1>1 DEF Requests
<1>3. [r EXCEPT !.rev = n, !.qid = i] \in Requests
  BY <1>1 DEF Requests
<1>. QED
  BY <1>2, <1>3 DEF n

\* The edits of a row: made pending, answered.
LEMMA RowEdits ==
    ASSUME NEW r \in Rows, NEW a \in {"ok", "failed"}
    PROVE  /\ [r EXCEPT !.state = 1] \in Rows
           /\ [r EXCEPT !.state = 1, !.err = "ok"] \in Rows
           /\ [r EXCEPT !.state = 2, !.err = a] \in Rows
<1>1. 1 \in 0..2 /\ 2 \in 0..2
  OBVIOUS
<1>. QED
  BY <1>1 DEF Rows

\* A row is inserted: it is new, the others stay.
LEMMA InsertRowFacts ==
    ASSUME TypeOK, lastQid < MaxQid, lastQid' = lastQid + 1,
           NEW p \in Pids \union {0}, NEW state \in 0..2,
           q' = [q EXCEPT ![lastQid + 1] = [pid |-> p, state |-> state, err |-> "unsent"]]
    PROVE  /\ lastQid + 1 \in Qids /\ lastQid' \in 0..MaxQid
           /\ q' \in [Qids -> Rows \union {None}]
           /\ q'[lastQid + 1] = [pid |-> p, state |-> state, err |-> "unsent"]
           /\ \A i \in Qids : i # lastQid + 1 => q'[i] = q[i]
<1>1. lastQid + 1 \in Qids /\ lastQid' \in 0..MaxQid
  BY QueueAssumption DEF TypeOK, Qids
<1>2. [pid |-> p, state |-> state, err |-> "unsent"] \in Rows
  BY DEF Rows
<1>. QED
  BY <1>1, <1>2 DEF TypeOK

LEMMA TypeStep == IInv /\ [Next]_vars => TypeOK'
<1>. SUFFICES ASSUME IInv, [Next]_vars PROVE TypeOK'
  OBVIOUS
<1>. USE QueueAssumption DEF IInv
<1>0. /\ req \in [Pids -> Requests \union {None}] /\ q \in [Qids -> Rows \union {None}]
      /\ pc \in [Web -> {"idle", "insert", "link", "pend", "adj_insert", "adj_link", "adj_pend"}]
      /\ job \in [Web -> Jobs \union {None}] /\ lastPid \in 0..MaxPid
  BY DEF TypeOK
<1>1. ASSUME NEW l \in Lists, NewRequest(l) PROVE TypeOK'
  <2>1. lastPid + 1 \in Pids /\ lastPid' \in 0..MaxPid
    BY <1>0, <1>1 DEF NewRequest, Pids
  <2>2. [rev |-> 1, sent |-> FALSE, qid |-> 0, items |-> l, adjusts |-> FALSE] \in Requests
    BY DEF Requests
  <2>3. req' \in [Pids -> Requests \union {None}]
    BY <1>0, <1>1, <2>1, <2>2 DEF NewRequest
  <2>. QED
    BY <1>1, <2>1, <2>3 DEF NewRequest, TypeOK, webVars, srvVars
<1>2. ASSUME NEW p \in Pids, NEW l \in Lists, SaveRequest(p, l) PROVE TypeOK'
  <2>1. req[p] \in Requests
    BY <1>0, <1>2 DEF SaveRequest
  <2>2. [req[p] EXCEPT !.rev = @ + 1, !.items = l] \in Requests
    BY <2>1, RequestSaved
  <2>3. req' = [req EXCEPT ![p] = [req[p] EXCEPT !.rev = @ + 1, !.items = l]]
    BY <1>0, <1>2, <2>1 DEF SaveRequest, Requests
  <2>4. req' \in [Pids -> Requests \union {None}]
    BY <1>0, <2>2, <2>3
  <2>. QED
    BY <1>2, <2>4 DEF SaveRequest, TypeOK, webVars, srvVars
<1>3. ASSUME NEW p \in Pids, DeleteRequest(p) PROVE TypeOK'
  BY <1>3 DEF DeleteRequest, TypeOK, webVars, srvVars
<1>4. ASSUME NEW w \in Web, NEW p \in Pids, StartSend(w, p) PROVE TypeOK'
  <2>1. req[p] \in Requests
    BY <1>0, <1>4 DEF StartSend
  <2>2. [pid |-> p, rev |-> req[p].rev, qid |-> req[p].qid] \in Jobs
    BY <2>1 DEF Jobs, Requests
  <2>. QED
    BY <1>4, <2>2 DEF StartSend, Goto, TypeOK, srvVars
<1>5. ASSUME NEW w \in Web, InsertSend(w) PROVE TypeOK'
  <2>1. job[w] \in Jobs
    BY <1>0, <1>5 DEF InsertSend, JobOk
  <2>2. InsertRow(job[w].pid, 2)
    BY <1>5 DEF InsertSend
  <2>3. job[w].pid \in Pids \union {0}
    BY <2>1 DEF Jobs
  <2>4. lastQid + 1 \in Qids /\ lastQid' \in 0..MaxQid /\ q' \in [Qids -> Rows \union {None}]
    BY <2>2, <2>3, 0 \in 0..2, 2 \in 0..2, InsertRowFacts DEF InsertRow
  <2>5. job' = [job EXCEPT ![w] = [job[w] EXCEPT !.qid = lastQid + 1]]
    BY <1>5 DEF InsertSend
  <2>6. [job[w] EXCEPT !.qid = lastQid + 1] \in Jobs
    BY <2>1, <2>4 DEF Jobs
  <2>7. job' \in [Web -> Jobs \union {None}]
    BY <1>0, <2>5, <2>6
  <2>. QED
    BY <1>5, <2>4, <2>7 DEF InsertSend, Goto, TypeOK, srvVars
<1>6. ASSUME NEW w \in Web, Link(w) PROVE TypeOK'
  <2>0. job[w] \in Jobs
    BY <1>0, <1>6 DEF Link, JobOk
  <2>. DEFINE p == job[w].pid
  <2>1. CASE UNCHANGED req /\ Leave(w)
    BY <1>6, <2>1 DEF Link, Leave, TypeOK, srvVars
  <2>2. CASE /\ req[p] # None
             /\ req' = [req EXCEPT ![p].rev = @ + 1, ![p].sent = TRUE, ![p].qid = job[w].qid]
             /\ Goto(w, "pend") /\ UNCHANGED job
    <3>1. p \in Pids /\ req[p] \in Requests /\ job[w].qid \in Qids \union {0}
      BY <1>0, <2>0, <2>2 DEF Jobs
    <3>2. req' = [req EXCEPT ![p] = [req[p] EXCEPT !.rev = @ + 1, !.sent = TRUE, !.qid = job[w].qid]]
      BY <1>0, <2>2, <3>1 DEF Requests
    <3>3. [req[p] EXCEPT !.rev = @ + 1, !.sent = TRUE, !.qid = job[w].qid] \in Requests
      BY <3>1, RequestLinked
    <3>4. req' \in [Pids -> Requests \union {None}]
      BY <1>0, <3>1, <3>2, <3>3
    <3>. QED
      BY <1>6, <2>2, <3>4 DEF Link, Goto, TypeOK, srvVars
  <2>. QED
    BY <1>6, <2>1, <2>2 DEF Link
<1>7. ASSUME NEW w \in Web, Pend(w) PROVE TypeOK'
  <2>1. job[w] \in Jobs /\ HasRow(w)
    BY <1>0, <1>7 DEF Pend, JobOk
  <2>. DEFINE i == job[w].qid
  <2>2. i \in Qids /\ q[i] \in Rows
    BY <1>0, <2>1 DEF HasRow, Jobs
  <2>3. q' \in [Qids -> Rows \union {None}] /\ sends' \in Nat
    <3>1. CASE UNCHANGED <<q, sends>>
      BY <3>1 DEF TypeOK
    <3>2. CASE q' = [q EXCEPT ![i].state = 1, ![i].err = "ok"] /\ sends' = sends + 1
      <4>1. q' = [q EXCEPT ![i] = [q[i] EXCEPT !.state = 1, !.err = "ok"]]
        BY <1>0, <2>2, <3>2 DEF Rows
      <4>2. [q[i] EXCEPT !.state = 1, !.err = "ok"] \in Rows
        BY <2>2, RowEdits
      <4>. QED
        BY <1>0, <2>2, <3>2, <4>1, <4>2 DEF TypeOK
    <3>. QED
      BY <1>7, <3>1, <3>2 DEF Pend
  <2>. QED
    BY <1>7, <2>3 DEF Pend, Leave, TypeOK, srvVars
<1>8. ASSUME NEW w \in Web, WebFails(w) PROVE TypeOK'
  BY <1>8 DEF WebFails, Leave, TypeOK, srvVars
<1>9. ASSUME NEW w \in Web, StartAdjust(w) PROVE TypeOK'
  <2>1. lastPid + 1 \in Pids /\ lastPid' \in 0..MaxPid
    BY <1>0, <1>9 DEF StartAdjust, Pids
  <2>2. [rev |-> 1, sent |-> TRUE, qid |-> 0, items |-> Empty, adjusts |-> TRUE] \in Requests
    BY DEF Requests
  <2>3. [pid |-> lastPid + 1, rev |-> 1, qid |-> 0] \in Jobs
    BY <2>1 DEF Jobs
  <2>4. req' \in [Pids -> Requests \union {None}] /\ job' \in [Web -> Jobs \union {None}]
    BY <1>0, <1>9, <2>1, <2>2, <2>3 DEF StartAdjust
  <2>. QED
    BY <1>9, <2>1, <2>4 DEF StartAdjust, Goto, TypeOK, srvVars
<1>10. ASSUME NEW w \in Web, AdjustInsert(w) PROVE TypeOK'
  <2>1. job[w] \in Jobs
    BY <1>0, <1>10 DEF AdjustInsert, JobOk
  <2>2. InsertRow(job[w].pid, 0)
    BY <1>10 DEF AdjustInsert
  <2>3. job[w].pid \in Pids \union {0}
    BY <2>1 DEF Jobs
  <2>4. lastQid + 1 \in Qids /\ lastQid' \in 0..MaxQid /\ q' \in [Qids -> Rows \union {None}]
    BY <2>2, <2>3, 0 \in 0..2, 2 \in 0..2, InsertRowFacts DEF InsertRow
  <2>5. job' = [job EXCEPT ![w] = [job[w] EXCEPT !.qid = lastQid + 1]]
    BY <1>10 DEF AdjustInsert
  <2>6. [job[w] EXCEPT !.qid = lastQid + 1] \in Jobs
    BY <2>1, <2>4 DEF Jobs
  <2>7. job' \in [Web -> Jobs \union {None}]
    BY <1>0, <2>5, <2>6
  <2>. QED
    BY <1>10, <2>4, <2>7 DEF AdjustInsert, Goto, TypeOK, srvVars
<1>11. ASSUME NEW w \in Web, AdjustLink(w) PROVE TypeOK'
  <2>1. job[w] \in Jobs /\ Adjusts(w, 0)
    BY <1>0, <1>11 DEF AdjustLink, JobOk
  <2>. DEFINE p == job[w].pid
  <2>2. p \in Pids /\ req[p] \in Requests /\ job[w].qid \in Qids \union {0}
    BY <1>0, <2>1 DEF Jobs, Adjusts
  <2>3. req' = [req EXCEPT ![p] = [req[p] EXCEPT !.rev = @ + 1, !.qid = job[w].qid]]
    BY <1>0, <1>11, <2>2 DEF AdjustLink, Requests
  <2>4. [req[p] EXCEPT !.rev = @ + 1, !.qid = job[w].qid] \in Requests
    BY <2>2, RequestLinked
  <2>5. req' \in [Pids -> Requests \union {None}]
    BY <1>0, <2>2, <2>3, <2>4
  <2>. QED
    BY <1>11, <2>5 DEF AdjustLink, Goto, TypeOK, srvVars
<1>12. ASSUME NEW w \in Web, AdjustPend(w) PROVE TypeOK'
  <2>1. job[w] \in Jobs /\ HasRow(w)
    BY <1>0, <1>12 DEF AdjustPend, JobOk
  <2>. DEFINE i == job[w].qid
  <2>2. i \in Qids /\ q[i] \in Rows
    BY <1>0, <2>1 DEF HasRow, Jobs
  <2>3. q' = [q EXCEPT ![i] = [q[i] EXCEPT !.state = 1]]
    BY <1>12 DEF AdjustPend
  <2>4. [q[i] EXCEPT !.state = 1] \in Rows
    BY <2>2, RowEdits
  <2>5. q' \in [Qids -> Rows \union {None}]
    BY <1>0, <2>2, <2>3, <2>4
  <2>. QED
    BY <1>12, <2>5 DEF AdjustPend, Leave, TypeOK, srvVars
<1>13. CASE InsertDirect
  <2>1. InsertRow(0, 1)
    BY <1>13 DEF InsertDirect
  <2>2. lastQid' \in 0..MaxQid /\ q' \in [Qids -> Rows \union {None}]
    BY <2>1, 1 \in 0..2, InsertRowFacts DEF InsertRow
  <2>. QED
    BY <1>13, <2>2 DEF InsertDirect, TypeOK, webVars, srvVars
<1>14. CASE Fetch
  BY <1>14 DEF Fetch, Pending, TypeOK, webVars
<1>15. ASSUME NEW i \in Qids, Process(i) PROVE TypeOK'
  <2>1. UNCHANGED <<req, lastPid, q, lastQid, pc, job, sends>>
    BY <1>15 DEF Process, webVars
  <2>2. q[i] \in Rows
    BY <1>0, <1>15 DEF Process, ServiceOk
  <2>3. /\ spc' \in {"idle", "record"} /\ batch' \subseteq Qids /\ cur' \in Qids \union {0}
        /\ answer' \in {"none", "ok", "failed"} /\ fails' \in Nat
    BY <1>15 DEF Process, Order, NoOrder, Answer, EndBatch, TypeOK
  <2>4. made' \in [Pids -> Seq(Lists)]
    <3>. DEFINE p == q[i].pid
    <3>1. CASE UNCHANGED made
      BY <3>1 DEF TypeOK
    <3>2. CASE p # 0 /\ Linked(i) /\ Order(i)
      <4>1. p \in Pids /\ req[p] \in Requests
        BY <1>0, <2>2, <3>2 DEF Linked, Rows
      <4>2. made' = [made EXCEPT ![p] = Append(made[p], req[p].items)]
        BY <3>2 DEF Order
      <4>3. made[p] \in Seq(Lists) /\ req[p].items \in Lists
        BY <4>1 DEF TypeOK, Requests
      <4>4. Append(made[p], req[p].items) \in Seq(Lists)
        BY <4>3
      <4>. QED
        BY <4>1, <4>2, <4>4 DEF TypeOK
    <3>. QED
      BY <1>15, <3>1, <3>2 DEF Process, NoOrder
  <2>. QED
    BY <2>1, <2>3, <2>4 DEF TypeOK
<1>16. CASE Record
  <2>1. cur \in Qids /\ q[cur] \in Rows /\ answer \in {"ok", "failed"}
    BY <1>0, <1>16 DEF Record, ServiceOk, TypeOK
  <2>2. [q[cur] EXCEPT !.state = 2, !.err = answer] \in Rows
    BY <2>1, RowEdits
  <2>3. q' = q \/ q' = [q EXCEPT ![cur] = [q[cur] EXCEPT !.state = 2, !.err = answer]]
    BY <1>0, <1>16, <2>1 DEF Record, Rows
  <2>4. q' \in [Qids -> Rows \union {None}]
    BY <1>0, <2>1, <2>2, <2>3
  <2>. QED
    BY <1>16, <2>4 DEF Record, NextRow, EndBatch, TypeOK, webVars
<1>17. CASE LoseBatch
  BY <1>17 DEF LoseBatch, EndBatch, TypeOK, webVars
<1>18. CASE UNCHANGED vars
  BY <1>18 DEF vars, TypeOK, webVars, srvVars
<1>. QED
  BY <1>1, <1>2, <1>3, <1>4, <1>5, <1>6, <1>7, <1>8, <1>9, <1>10, <1>11, <1>12,
     <1>13, <1>14, <1>15, <1>16, <1>17, <1>18 DEF Next, Staff, Service

----------------------------------------------------------------------------
(* What a step does to a row, and to a request.                            *)

LinkedRow(i) == req[q[i].pid] # None /\ req[q[i].pid].sent /\ req[q[i].pid].qid = i

RowKept(i) == q'[i] = q[i] /\ (i <= lastQid' <=> i <= lastQid)
RowNew(i) ==
    /\ q[i] = None /\ i <= lastQid'
    /\ q'[i] # None /\ q'[i].err = "unsent" /\ (q'[i].state = 1 => q'[i].pid = 0)
RowOld(i) == q[i] # None /\ q'[i] # None /\ q'[i].pid = q[i].pid /\ lastQid' = lastQid
RowPended(i) ==
    /\ RowOld(i) /\ q[i].state = 2 /\ q[i].err # "ok" /\ q'[i].state = 1
    /\ q[i].pid # 0 /\ LinkedRow(i)
RowAdjusts(i) ==
    /\ RowOld(i) /\ q[i].state = 0 /\ q'[i].state = 1
    /\ q[i].pid # 0 /\ LinkedRow(i) /\ req[q[i].pid].adjusts
    /\ \E w \in Web : pc[w] = "adj_pend" /\ job[w].pid = q[i].pid /\ pc'[w] = "idle"
RowAnswered(i) ==
    /\ RowOld(i) /\ q[i].state = 1 /\ q'[i].state = 2 /\ q'[i].err = answer
    /\ i = cur /\ Record
RowChanges(i) == RowKept(i) \/ RowNew(i) \/ RowPended(i) \/ RowAdjusts(i) \/ RowAnswered(i)

\* The steps of the staff do not touch the service or POS.
LEMMA StaffStep == Staff => UNCHANGED <<spc, batch, cur, answer, made, fails>>
<1>. SUFFICES ASSUME Staff PROVE UNCHANGED <<spc, batch, cur, answer, made, fails>>
  OBVIOUS
<1>. USE DEF srvVars
<1>1. ASSUME NEW l \in Lists, NewRequest(l) PROVE UNCHANGED <<spc, batch, cur, answer, made, fails>>
  BY <1>1 DEF NewRequest
<1>2. ASSUME NEW p \in Pids, NEW l \in Lists, SaveRequest(p, l)
      PROVE UNCHANGED <<spc, batch, cur, answer, made, fails>>
  BY <1>2 DEF SaveRequest
<1>3. ASSUME NEW p \in Pids, DeleteRequest(p) PROVE UNCHANGED <<spc, batch, cur, answer, made, fails>>
  BY <1>3 DEF DeleteRequest
<1>4. ASSUME NEW w \in Web, NEW p \in Pids, StartSend(w, p)
      PROVE UNCHANGED <<spc, batch, cur, answer, made, fails>>
  BY <1>4 DEF StartSend
<1>5. ASSUME NEW w \in Web, InsertSend(w) \/ Link(w) \/ Pend(w) \/ WebFails(w)
      PROVE UNCHANGED <<spc, batch, cur, answer, made, fails>>
  BY <1>5 DEF InsertSend, Link, Pend, WebFails
<1>6. ASSUME NEW w \in Web, StartAdjust(w) \/ AdjustInsert(w) \/ AdjustLink(w) \/ AdjustPend(w)
      PROVE UNCHANGED <<spc, batch, cur, answer, made, fails>>
  BY <1>6 DEF StartAdjust, AdjustInsert, AdjustLink, AdjustPend
<1>7. CASE InsertDirect
  BY <1>7 DEF InsertDirect
<1>. QED
  BY <1>1, <1>2, <1>3, <1>4, <1>5, <1>6, <1>7 DEF Staff

\* The service does not touch requests, nor the web workers, nor insert rows.
LEMMA ServiceStep ==
    Service \/ LoseBatch \/ UNCHANGED vars
      => UNCHANGED <<req, lastPid, lastQid, pc, job>>
<1>1. ASSUME NEW i \in Qids, Process(i) PROVE UNCHANGED <<req, lastPid, lastQid, pc, job>>
  BY <1>1 DEF Process, webVars
<1>. QED
  BY <1>1 DEF Service, Fetch, Record, LoseBatch, vars, webVars

LEMMA RowChange ==
    ASSUME IInv, [Next]_vars, NEW i \in Qids
    PROVE  RowChanges(i)
<1>0. /\ TypeOK /\ RowOk(i) /\ lastQid \in Nat
      /\ i \in Nat /\ (q[i] # None => q[i] \in Rows)
      /\ \A w \in Web : pc[w] # "idle" => job[w] \in Jobs /\ JobOk(w)
  BY QueueAssumption DEF IInv, TypeOK, JobOk, Qids
<1>1. ASSUME UNCHANGED <<q, lastQid>> PROVE RowChanges(i)
  BY <1>1 DEF RowChanges, RowKept
<1>2. ASSUME NEW p \in Pids \union {0}, NEW state \in 0..2, state = 1 => p = 0,
             lastQid < MaxQid, lastQid' = lastQid + 1,
             q' = [q EXCEPT ![lastQid + 1] = [pid |-> p, state |-> state, err |-> "unsent"]]
      PROVE RowChanges(i)
  <2>1. /\ lastQid + 1 \in Qids /\ q' \in [Qids -> Rows \union {None}]
        /\ q'[lastQid + 1] = [pid |-> p, state |-> state, err |-> "unsent"]
        /\ \A j \in Qids : j # lastQid + 1 => q'[j] = q[j]
    BY <1>0, <1>2, InsertRowFacts
  <2>2. CASE i # lastQid + 1
    BY <1>0, <1>2, <2>1, <2>2 DEF RowChanges, RowKept
  <2>3. CASE i = lastQid + 1
    <3>1. q[i] = None /\ i <= lastQid'
      BY <1>0, <1>2, <2>3 DEF RowOk
    <3>2. [pid |-> p, state |-> state, err |-> "unsent"] \in Rows
      BY DEF Rows
    <3>. QED
      BY <1>2, <2>1, <2>3, <3>1, <3>2, NotNone DEF RowChanges, RowNew
  <2>. QED
    BY <2>2, <2>3
<1>3. ASSUME NEW w \in Web, InsertSend(w) PROVE RowChanges(i)
  <2>. DEFINE p == job[w].pid
              state == 2
  <2>1. p \in Pids \union {0} /\ state \in 0..2 /\ state # 1
    BY <1>0, <1>3 DEF InsertSend, Jobs
  <2>2. /\ lastQid < MaxQid /\ lastQid' = lastQid + 1
        /\ q' = [q EXCEPT ![lastQid + 1] = [pid |-> p, state |-> state, err |-> "unsent"]]
    BY <1>3 DEF InsertSend, InsertRow
  <2>. HIDE DEF p, state
  <2>. QED
    BY <1>2, <2>1, <2>2
<1>4. ASSUME NEW w \in Web, AdjustInsert(w) PROVE RowChanges(i)
  <2>. DEFINE p == job[w].pid
              state == 0
  <2>1. p \in Pids \union {0} /\ state \in 0..2 /\ state # 1
    BY <1>0, <1>4 DEF AdjustInsert, Jobs
  <2>2. /\ lastQid < MaxQid /\ lastQid' = lastQid + 1
        /\ q' = [q EXCEPT ![lastQid + 1] = [pid |-> p, state |-> state, err |-> "unsent"]]
    BY <1>4 DEF AdjustInsert, InsertRow
  <2>. HIDE DEF p, state
  <2>. QED
    BY <1>2, <2>1, <2>2
<1>5. CASE InsertDirect
  BY <1>2, <1>5, 1 \in 0..2, 0 \in Pids \union {0} DEF InsertDirect, InsertRow
<1>6. ASSUME NEW w \in Web, Pend(w) PROVE RowChanges(i)
  <2>. DEFINE j == job[w].qid
  <2>1. /\ j \in Qids /\ q[j] \in Rows /\ q[j] # None /\ q[j].pid = job[w].pid
        /\ job[w].pid \in Pids
        /\ req[job[w].pid] # None /\ req[job[w].pid].sent /\ req[job[w].pid].qid = j
    BY <1>0, <1>6, NotNone DEF Pend, JobOk, HasRow, Jobs, TypeOK
  <2>2. job[w].pid # 0
    BY <2>1 DEF Pids
  <2>3. lastQid' = lastQid
    BY <1>6 DEF Pend
  <2>4. CASE UNCHANGED q
    BY <1>1, <2>3, <2>4
  <2>5. CASE q[j].state = 2 /\ q[j].err # "ok" /\ q' = [q EXCEPT ![j].state = 1, ![j].err = "ok"]
    <3>1. q' = [q EXCEPT ![j] = [q[j] EXCEPT !.state = 1, !.err = "ok"]]
      BY <1>0, <2>1, <2>5 DEF Rows, TypeOK
    <3>2. [q[j] EXCEPT !.state = 1, !.err = "ok"] \in Rows
      BY <2>1, RowEdits
    <3>3. CASE i # j
      BY <2>3, <3>1, <3>3 DEF RowChanges, RowKept
    <3>4. CASE i = j
      <4>1. q'[i] = [q[i] EXCEPT !.state = 1, !.err = "ok"]
        BY <1>0, <3>1, <3>4 DEF TypeOK
      <4>2. q'[i] # None
        BY <3>2, <3>4, <4>1, NotNone
      <4>3. q'[i].state = 1 /\ q'[i].pid = q[i].pid
        BY <2>1, <3>4, <4>1 DEF Rows
      <4>. QED
        BY <2>1, <2>2, <2>3, <2>5, <3>4, <4>2, <4>3 DEF RowChanges, RowPended, RowOld, LinkedRow
    <3>. QED
      BY <3>3, <3>4
  <2>. QED
    BY <1>6, <2>4, <2>5 DEF Pend
<1>7. ASSUME NEW w \in Web, AdjustPend(w) PROVE RowChanges(i)
  <2>. DEFINE j == job[w].qid
  <2>1. /\ j \in Qids /\ q[j] \in Rows /\ q[j] # None /\ q[j].pid = job[w].pid /\ q[j].state = 0
        /\ job[w].pid \in Pids
        /\ req[job[w].pid] # None /\ req[job[w].pid].sent /\ req[job[w].pid].qid = j
        /\ req[job[w].pid].adjusts
    BY <1>0, <1>7, NotNone DEF AdjustPend, JobOk, HasRow, Adjusts, Jobs, TypeOK
  <2>2. job[w].pid # 0
    BY <2>1 DEF Pids
  <2>3. lastQid' = lastQid /\ q' = [q EXCEPT ![j] = [q[j] EXCEPT !.state = 1]]
    BY <1>7 DEF AdjustPend
  <2>4. CASE i # j
    BY <2>3, <2>4 DEF RowChanges, RowKept
  <2>5. CASE i = j
    <3>1. q'[i] = [q[i] EXCEPT !.state = 1]
      BY <1>0, <2>3, <2>5 DEF TypeOK
    <3>2. q'[i] # None
      <4>1. [q[i] EXCEPT !.state = 1] \in Rows
        BY <2>1, <2>5, RowEdits, "ok" \in {"ok", "failed"}
      <4>. QED
        BY <3>1, <4>1, NotNone
    <3>3. q'[i].state = 1 /\ q'[i].pid = q[i].pid
      BY <2>1, <2>5, <3>1 DEF Rows
    <3>4. pc[w] = "adj_pend" /\ pc'[w] = "idle"
      BY <1>0, <1>7 DEF AdjustPend, Leave, TypeOK
    <3>. QED
      BY <2>1, <2>2, <2>3, <2>5, <3>2, <3>3, <3>4 DEF RowChanges, RowAdjusts, RowOld, LinkedRow
  <2>. QED
    BY <2>4, <2>5
<1>8. CASE Record
  <2>1. cur \in Qids /\ q[cur] \in Rows /\ q[cur] # None /\ q[cur].state = 1
        /\ answer \in {"ok", "failed"}
    BY <1>0, <1>8 DEF IInv, Record, ServiceOk, TypeOK
  <2>2. lastQid' = lastQid /\ q' = [q EXCEPT ![cur] = [q[cur] EXCEPT !.state = 2, !.err = answer]]
    BY <1>0, <1>8, <2>1 DEF Record, Rows, TypeOK
  <2>3. CASE i # cur
    BY <2>2, <2>3 DEF RowChanges, RowKept
  <2>4. CASE i = cur
    <3>1. q'[i] = [q[i] EXCEPT !.state = 2, !.err = answer]
      BY <1>0, <2>2, <2>4 DEF TypeOK
    <3>2. q'[i] # None
      BY <2>1, <2>4, <3>1, RowEdits, NotNone
    <3>3. q'[i].state = 2 /\ q'[i].err = answer /\ q'[i].pid = q[i].pid
      BY <2>1, <2>4, <3>1 DEF Rows
    <3>. QED
      BY <1>8, <2>1, <2>2, <2>4, <3>2, <3>3 DEF RowChanges, RowAnswered, RowOld
  <2>. QED
    BY <2>3, <2>4
<1>9. ASSUME NEW l \in Lists, NewRequest(l) PROVE RowChanges(i)
  BY <1>1, <1>9 DEF NewRequest
<1>10. ASSUME NEW p \in Pids, NEW l \in Lists, SaveRequest(p, l) PROVE RowChanges(i)
  BY <1>1, <1>10 DEF SaveRequest
<1>11. ASSUME NEW p \in Pids, DeleteRequest(p) PROVE RowChanges(i)
  BY <1>1, <1>11 DEF DeleteRequest
<1>12. ASSUME NEW w \in Web, NEW p \in Pids, StartSend(w, p) PROVE RowChanges(i)
  BY <1>1, <1>12 DEF StartSend
<1>13. ASSUME NEW w \in Web, Link(w) \/ WebFails(w) \/ StartAdjust(w) \/ AdjustLink(w)
       PROVE RowChanges(i)
  BY <1>1, <1>13 DEF Link, WebFails, StartAdjust, AdjustLink
<1>14. CASE Fetch
  BY <1>1, <1>14 DEF Fetch
<1>15. ASSUME NEW j \in Qids, Process(j) PROVE RowChanges(i)
  BY <1>1, <1>15 DEF Process
<1>16. CASE LoseBatch \/ UNCHANGED vars
  BY <1>1, <1>16 DEF LoseBatch, vars
<1>17. CASE Staff
  BY <1>3, <1>4, <1>5, <1>6, <1>7, <1>9, <1>10, <1>11, <1>12, <1>13, <1>17 DEF Staff
<1>18. CASE Service
  BY <1>8, <1>14, <1>15, <1>18 DEF Service
<1>. QED
  BY <1>16, <1>17, <1>18 DEF Next

ReqKept(p) == req'[p] = req[p]
ReqNew(p) ==
    /\ req[p] = None /\ p <= lastPid'
    /\ req'[p] # None /\ req'[p].qid = 0 /\ (req'[p].adjusts => req'[p].sent)
ReqEdited(p) ==
    /\ req[p] # None /\ ~req[p].sent
    /\ req'[p] # None => /\ ~req'[p].sent
                         /\ req'[p].qid = req[p].qid /\ req'[p].adjusts = req[p].adjusts
Relinked(p) ==
    /\ req[p] # None /\ req'[p] # None /\ req'[p].sent /\ req'[p].adjusts = req[p].adjusts
    /\ req'[p].items = req[p].items
    /\ req'[p].qid \in Qids /\ q[req'[p].qid] # None /\ q[req'[p].qid].pid = p
ReqLinked(p) == Relinked(p) /\ ~req[p].sent
ReqAdjusted(p) ==
    /\ Relinked(p) /\ req[p].sent /\ req[p].adjusts /\ req[p].qid = 0
    /\ \E w \in Web : pc[w] = "adj_link" /\ job[w].pid = p /\ pc'[w] = "adj_pend"
ReqChanges(p) ==
    /\ lastPid <= lastPid'
    /\ ReqKept(p) \/ ReqNew(p) \/ ReqEdited(p) \/ ReqLinked(p) \/ ReqAdjusted(p)

LEMMA ReqChange ==
    ASSUME IInv, [Next]_vars, NEW p \in Pids
    PROVE  ReqChanges(p)
<1>0. /\ req \in [Pids -> Requests \union {None}] /\ ReqOk(p)
      /\ lastPid \in Nat /\ p \in Nat
      /\ \A w \in Web : pc[w] # "idle" => job[w] \in Jobs /\ JobOk(w)
  BY QueueAssumption DEF IInv, TypeOK, JobOk, Pids
<1>1. ASSUME UNCHANGED <<req, lastPid>> PROVE ReqChanges(p)
  BY <1>0, <1>1 DEF ReqChanges, ReqKept
<1>2. ASSUME NEW r \in Requests, r.qid = 0, r.adjusts => r.sent, lastPid < MaxPid,
             lastPid' = lastPid + 1, req' = [req EXCEPT ![lastPid + 1] = r]
      PROVE ReqChanges(p)
  <2>1. CASE p # lastPid + 1
    BY <1>0, <1>2, <2>1 DEF ReqChanges, ReqKept
  <2>2. CASE p = lastPid + 1
    <3>1. req[p] = None
      BY <1>0, <2>2 DEF ReqOk
    <3>2. req'[p] = r
      BY <1>0, <1>2, <2>2
    <3>. QED
      BY <1>0, <1>2, <2>2, <3>1, <3>2, NotNone DEF ReqChanges, ReqNew
  <2>. QED
    BY <2>1, <2>2
<1>3. ASSUME NEW l \in Lists, NewRequest(l) PROVE ReqChanges(p)
  <2>. DEFINE r == [rev |-> 1, sent |-> FALSE, qid |-> 0, items |-> l, adjusts |-> FALSE]
  <2>1. r \in Requests /\ r.qid = 0 /\ (r.adjusts => r.sent)
    BY DEF Requests
  <2>2. lastPid < MaxPid /\ lastPid' = lastPid + 1 /\ req' = [req EXCEPT ![lastPid + 1] = r]
    BY <1>3 DEF NewRequest
  <2>. HIDE DEF r
  <2>. QED
    BY <1>2, <2>1, <2>2
<1>4. ASSUME NEW w \in Web, StartAdjust(w) PROVE ReqChanges(p)
  <2>. DEFINE r == [rev |-> 1, sent |-> TRUE, qid |-> 0, items |-> Empty, adjusts |-> TRUE]
  <2>1. r \in Requests /\ r.qid = 0 /\ (r.adjusts => r.sent)
    BY QueueAssumption DEF Requests
  <2>2. lastPid < MaxPid /\ lastPid' = lastPid + 1 /\ req' = [req EXCEPT ![lastPid + 1] = r]
    BY <1>4 DEF StartAdjust
  <2>. HIDE DEF r
  <2>. QED
    BY <1>2, <2>1, <2>2
<1>5. ASSUME NEW x \in Pids, NEW l \in Lists, SaveRequest(x, l) PROVE ReqChanges(p)
  <2>1. req[x] \in Requests /\ req[x] # None /\ ~req[x].sent /\ lastPid' = lastPid
    BY <1>0, <1>5 DEF SaveRequest
  <2>2. req' = [req EXCEPT ![x] = [req[x] EXCEPT !.rev = @ + 1, !.items = l]]
    BY <1>0, <1>5, <2>1 DEF SaveRequest, Requests
  <2>3. CASE p # x
    BY <1>0, <2>1, <2>2, <2>3 DEF ReqChanges, ReqKept
  <2>4. CASE p = x
    <3>1. req'[p] = [req[p] EXCEPT !.rev = @ + 1, !.items = l]
      BY <1>0, <2>2, <2>4
    <3>2. /\ req'[p].sent = req[p].sent /\ req'[p].qid = req[p].qid
          /\ req'[p].adjusts = req[p].adjusts
      BY <2>1, <2>4, <3>1 DEF Requests
    <3>. QED
      BY <1>0, <2>1, <2>4, <3>2 DEF ReqChanges, ReqEdited
  <2>. QED
    BY <2>3, <2>4
<1>6. ASSUME NEW x \in Pids, DeleteRequest(x) PROVE ReqChanges(p)
  BY <1>0, <1>6 DEF DeleteRequest, ReqChanges, ReqKept, ReqEdited
<1>7. ASSUME NEW w \in Web, Link(w) PROVE ReqChanges(p)
  <2>. DEFINE x == job[w].pid
  <2>1. CASE UNCHANGED req
    BY <1>1, <1>7, <2>1 DEF Link
  <2>2. CASE /\ req[x] # None /\ ~req[x].sent
             /\ req' = [req EXCEPT ![x].rev = @ + 1, ![x].sent = TRUE, ![x].qid = job[w].qid]
    <3>1. /\ x \in Pids /\ req[x] \in Requests /\ job[w].qid \in Qids
          /\ q[job[w].qid] # None /\ q[job[w].qid].pid = x /\ lastPid' = lastPid
      BY <1>0, <1>7, <2>2 DEF Link, JobOk, HasRow, Jobs
    <3>2. req' = [req EXCEPT ![x] = [req[x] EXCEPT !.rev = @ + 1, !.sent = TRUE, !.qid = job[w].qid]]
      BY <1>0, <2>2, <3>1 DEF Requests
    <3>3. CASE p # x
      BY <1>0, <3>1, <3>2, <3>3 DEF ReqChanges, ReqKept
    <3>4. CASE p = x
      <4>1. req'[p] = [req[p] EXCEPT !.rev = @ + 1, !.sent = TRUE, !.qid = job[w].qid]
        BY <1>0, <3>2, <3>4
      <4>2. /\ req'[p].sent /\ req'[p].qid = job[w].qid
            /\ req'[p].adjusts = req[p].adjusts /\ req'[p].items = req[p].items
        BY <3>1, <3>4, <4>1 DEF Requests
      <4>3. req'[p] # None
        <5>1. [req[p] EXCEPT !.rev = @ + 1, !.sent = TRUE, !.qid = job[w].qid] \in Requests
          BY <3>1, <3>4, RequestLinked
        <5>. QED
          BY <4>1, <5>1, NotNone
      <4>4. Relinked(p)
        BY <2>2, <3>1, <3>4, <4>2, <4>3 DEF Relinked
      <4>. QED
        BY <1>0, <2>2, <3>1, <3>4, <4>4 DEF ReqChanges, ReqLinked
    <3>. QED
      BY <3>3, <3>4
  <2>. QED
    BY <1>7, <2>1, <2>2 DEF Link
<1>8. ASSUME NEW w \in Web, AdjustLink(w) PROVE ReqChanges(p)
  <2>. DEFINE x == job[w].pid
  <2>1. /\ x \in Pids /\ req[x] \in Requests /\ job[w].qid \in Qids
        /\ q[job[w].qid] # None /\ q[job[w].qid].pid = x /\ lastPid' = lastPid
        /\ req[x] # None /\ req[x].sent /\ req[x].adjusts /\ req[x].qid = 0
    BY <1>0, <1>8 DEF AdjustLink, JobOk, HasRow, Adjusts, Jobs
  <2>2. req' = [req EXCEPT ![x] = [req[x] EXCEPT !.rev = @ + 1, !.qid = job[w].qid]]
    BY <1>0, <1>8, <2>1 DEF AdjustLink, Requests
  <2>3. CASE p # x
    BY <1>0, <2>1, <2>2, <2>3 DEF ReqChanges, ReqKept
  <2>4. CASE p = x
    <3>1. req'[p] = [req[p] EXCEPT !.rev = @ + 1, !.qid = job[w].qid]
      BY <1>0, <2>2, <2>4
    <3>2. /\ req'[p].sent /\ req'[p].qid = job[w].qid
          /\ req'[p].adjusts = req[p].adjusts /\ req'[p].items = req[p].items
      BY <2>1, <2>4, <3>1 DEF Requests
    <3>3. req'[p] # None
      <4>1. [req[p] EXCEPT !.rev = @ + 1, !.qid = job[w].qid] \in Requests
        BY <2>1, <2>4, RequestLinked
      <4>. QED
        BY <3>1, <4>1, NotNone
    <3>4. Relinked(p)
      BY <2>1, <2>4, <3>2, <3>3 DEF Relinked
    <3>5. pc[w] = "adj_link" /\ pc'[w] = "adj_pend"
      BY <1>8 DEF AdjustLink, Goto, IInv, TypeOK
    <3>. QED
      BY <1>0, <2>1, <2>4, <3>4, <3>5 DEF ReqChanges, ReqAdjusted
  <2>. QED
    BY <2>3, <2>4
<1>9. ASSUME NEW w \in Web, NEW x \in Pids, StartSend(w, x) PROVE ReqChanges(p)
  BY <1>1, <1>9 DEF StartSend
<1>10. ASSUME NEW w \in Web, InsertSend(w) \/ Pend(w) \/ WebFails(w) \/ AdjustInsert(w) \/ AdjustPend(w)
       PROVE ReqChanges(p)
  BY <1>1, <1>10 DEF InsertSend, Pend, WebFails, AdjustInsert, AdjustPend
<1>11. CASE InsertDirect
  BY <1>1, <1>11 DEF InsertDirect
<1>12. CASE Staff
  BY <1>3, <1>4, <1>5, <1>6, <1>7, <1>8, <1>9, <1>10, <1>11, <1>12 DEF Staff
<1>13. CASE Service \/ LoseBatch \/ UNCHANGED vars
  BY <1>1, <1>13, ServiceStep
<1>. QED
  BY <1>12, <1>13 DEF Next

\* Rows stay, and are about the same request.
LEMMA RowStays ==
    ASSUME IInv, [Next]_vars, NEW i \in Qids, q[i] # None
    PROVE  q'[i] # None /\ q'[i].pid = q[i].pid
BY RowChange DEF RowChanges, RowKept, RowNew, RowPended, RowAdjusts, RowAnswered, RowOld

\* A request that was sent stays as it is, and stays linked to its row.
LEMMA SentStays ==
    ASSUME IInv, [Next]_vars, NEW p \in Pids, req[p] # None, req[p].sent, req[p].qid # 0
    PROVE  /\ req'[p] # None /\ req'[p].sent /\ req'[p].adjusts = req[p].adjusts
           /\ req'[p].qid = req[p].qid /\ req'[p].items = req[p].items
BY ReqChange DEF ReqChanges, ReqKept, ReqNew, ReqEdited, ReqLinked, ReqAdjusted, Relinked

----------------------------------------------------------------------------
(* The parts of the invariant.                                             *)

LEMMA ReqStep ==
    ASSUME IInv, [Next]_vars, TypeOK', NEW p \in Pids
    PROVE  ReqOk(p)'
<1>1. ReqOk(p) /\ ReqChanges(p) /\ p \in Nat /\ lastPid \in Nat /\ lastPid' \in Nat
  BY ReqChange DEF IInv, TypeOK, Pids
<1>2. SUFFICES ASSUME req'[p] # None PROVE ReqOk(p)'
  BY DEF ReqOk
<1>3. req'[p].qid \in Qids \union {0}
  BY <1>2 DEF TypeOK, Requests
<1>4. /\ p <= lastPid' /\ (req'[p].adjusts => req'[p].sent)
      /\ req'[p].qid # 0 => req'[p].sent /\ q[req'[p].qid] # None /\ q[req'[p].qid].pid = p
  BY <1>1, <1>2 DEF ReqOk, ReqChanges, ReqKept, ReqNew, ReqEdited, ReqLinked, ReqAdjusted, Relinked
<1>5. ASSUME req'[p].qid # 0 PROVE q'[req'[p].qid] # None /\ q'[req'[p].qid].pid = p
  <2>1. PICK j \in Qids : j = req'[p].qid
    BY <1>3, <1>5
  <2>. QED
    BY <1>4, <1>5, <2>1, RowStays
<1>. QED
  BY <1>4, <1>5 DEF ReqOk

LEMMA RowStep ==
    ASSUME IInv, [Next]_vars, NEW i \in Qids
    PROVE  RowOk(i)'
<1>1. RowOk(i) /\ RowChanges(i)
  BY RowChange DEF IInv
<1>. QED
  BY <1>1 DEF RowOk, RowChanges, RowKept, RowNew, RowPended, RowAdjusts, RowAnswered, RowOld

LEMMA LiveStep ==
    ASSUME IInv, [Next]_vars, NEW i \in Qids
    PROVE  LiveOk(i)'
<1>1. LiveOk(i) /\ RowChanges(i) /\ i # 0 /\ (q[i] # None => q[i] \in Rows)
  BY RowChange DEF IInv, TypeOK, Qids
<1>2. SUFFICES ASSUME q'[i] # None, q'[i].pid # 0, q'[i].state = 1 \/ q'[i].err # "unsent"
               PROVE  LinkedRow(i)'
  BY DEF LiveOk, Orders, LinkedRow
<1>3. q[i] # None /\ q'[i].pid = q[i].pid /\ LinkedRow(i)
  BY <1>1, <1>2 DEF RowChanges, RowKept, RowNew, RowPended, RowAdjusts, RowAnswered, RowOld,
                    LiveOk, Orders, LinkedRow
<1>4. PICK p \in Pids : p = q[i].pid
  BY <1>1, <1>2, <1>3 DEF Rows
<1>. QED
  BY <1>1, <1>3, <1>4, SentStays DEF LinkedRow

\* A row that is settled is the one of its request.
LEMMA SettledLinked ==
    ASSUME IInv, NEW i \in Qids, Settled(i), q[i] # None, q[i].pid # 0
    PROVE  LinkedRow(i)
<1>1. LiveOk(i) /\ ServiceOk /\ i # 0
  BY DEF IInv, Qids
<1>. QED
  BY <1>1 DEF LiveOk, ServiceOk, Settled, Orders, LinkedRow

\* What the service's step for row i does.
Lost == fails' = fails + 1 /\ EndBatch
Ordered(i) ==
    LET p == q[i].pid
    IN  /\ HQ /\ p \in Pids /\ req[p] # None /\ req[p].sent /\ ~req[p].adjusts /\ req[p].qid = i
        /\ req[p].items \in Lists
        /\ made' = [made EXCEPT ![p] = Append(@, req[p].items)]

LEMMA ProcessFacts ==
    ASSUME IInv, NEW i \in Qids, Process(i)
    PROVE  /\ UNCHANGED <<req, lastPid, q, lastQid, pc, job>>
           /\ q[i] # None /\ q[i].state = 1 /\ i \in batch /\ cur = 0
           /\ \/ Ordered(i) /\ (Answer(i, "ok") \/ Lost)
              \/ UNCHANGED made /\ (Answer(i, "failed") \/ Lost)
              \/ /\ UNCHANGED made /\ Answer(i, "ok")
                 /\ q[i].pid = 0 \/ req[q[i].pid].adjusts
<1>1. UNCHANGED <<req, lastPid, q, lastQid, pc, job>>
  BY DEF Process, webVars
<1>2. /\ q[i] # None /\ q[i].state = 1 /\ i \in batch /\ cur = 0 /\ LiveOk(i)
      /\ q[i] \in Rows /\ req \in [Pids -> Requests \union {None}]
  BY DEF IInv, Process, ServiceOk, TypeOK
<1>. DEFINE p == q[i].pid
<1>3. CASE HQ /\ p # 0 /\ Linked(i) /\ ~req[p].adjusts /\ Order(i)
  <2>1. p \in Pids /\ req[p] # None /\ req[p].qid = i /\ req[p].sent
    BY <1>2, <1>3 DEF Linked, Rows, LiveOk, Orders
  <2>2. req[p].items \in Lists
    BY <1>2, <2>1 DEF Requests
  <2>3. Ordered(i)
    BY <1>3, <2>1, <2>2 DEF Ordered, Order
  <2>. QED
    BY <1>1, <1>2, <1>3, <2>3 DEF Order, Lost
<1>4. CASE NoOrder(i)
  BY <1>1, <1>2, <1>4 DEF NoOrder, Lost
<1>5. CASE (p = 0 \/ req[p].adjusts) /\ Answer(i, "ok") /\ UNCHANGED made
  BY <1>1, <1>2, <1>5
<1>. QED
  BY <1>3, <1>4, <1>5 DEF Process

\* Steps that are not the service's for a row leave POS alone.
LEMMA NotProcess ==
    ASSUME IInv, [Next]_vars, \A i \in Qids : ~Process(i)
    PROVE  /\ UNCHANGED made
           /\ \/ UNCHANGED <<fails, cur, answer>>
              \/ Record /\ UNCHANGED fails /\ cur' = 0
              \/ UNCHANGED <<q, req, lastQid>> /\ Lost
<1>1. CASE Staff
  BY <1>1, StaffStep
<1>2. CASE Fetch \/ UNCHANGED vars
  BY <1>2 DEF Fetch, vars, srvVars
<1>3. CASE Record
  BY <1>3 DEF Record, NextRow, EndBatch
<1>4. CASE LoseBatch
  BY <1>4 DEF LoseBatch, Lost
<1>. QED
  BY <1>1, <1>2, <1>3, <1>4 DEF Next, Service

LEMMA SettledStays ==
    ASSUME IInv, [Next]_vars, NEW i \in Qids, q[i] # None, Settled(i), fails' = fails
    PROVE  Settled(i)'
<1>1. RowChanges(i) /\ ServiceOk /\ i # 0 /\ fails \in Nat
  BY RowChange DEF IInv, TypeOK, Qids
<1>2. CASE \E j \in Qids : Process(j)
  <2>1. PICK j \in Qids : Process(j)
    BY <1>2
  <2>2. cur = 0 /\ q' = q
    BY <2>1, ProcessFacts
  <2>. QED
    BY <1>1, <2>2 DEF Settled
<1>3. CASE UNCHANGED <<fails, cur, answer>>
  BY <1>1, <1>3 DEF Settled, ServiceOk, RowChanges, RowKept, RowNew, RowPended, RowAdjusts,
                    RowAnswered, RowOld
<1>4. CASE Record
  <2>1. q[cur] # None /\ q[cur].state = 1 /\ cur \in Qids /\ answer # "none"
    BY <1>1, <1>4 DEF IInv, Record, ServiceOk, TypeOK
  <2>2. i = cur => q'[i] # q[i]
    <3>1. ASSUME i = cur PROVE RowAnswered(i) \/ q'[i].state = 2
      <4>1. q[cur] \in Rows /\ q \in [Qids -> Rows \union {None}]
        BY <2>1 DEF IInv, TypeOK
      <4>2. q' = [q EXCEPT ![cur] = [q[cur] EXCEPT !.state = 2, !.err = answer]]
        BY <1>4, <2>1, <4>1 DEF Record, Rows
      <4>3. q'[cur] = [q[cur] EXCEPT !.state = 2, !.err = answer]
        BY <2>1, <4>1, <4>2
      <4>. QED
        BY <3>1, <4>1, <4>3 DEF Rows
    <3>. QED
      BY <2>1, <3>1 DEF RowAnswered, RowOld
  <2>. QED
    BY <1>1, <2>1, <2>2 DEF Settled, RowChanges, RowKept, RowNew, RowPended, RowAdjusts,
                            RowAnswered, RowOld
<1>5. CASE Lost
  BY <1>1, <1>5 DEF Lost
<1>. QED
  BY <1>2, <1>3, <1>4, <1>5, NotProcess

LEMMA MadeStep ==
    ASSUME IInv, [Next]_vars, NEW p \in Pids
    PROVE  MadeOk(p)'
<1>0. /\ MadeOk(p) /\ ReqOk(p) /\ fails \in Nat /\ made \in [Pids -> Seq(Lists)]
      /\ Len(made[p]) \in Nat /\ (req[p] # None => req[p] \in Requests)
  BY DEF IInv, TypeOK
<1>1. fails' \in Nat /\ fails' >= fails
  <2>1. CASE \E j \in Qids : Process(j)
    BY <1>0, <2>1, ProcessFacts DEF Lost, Answer
  <2>. QED
    BY <1>0, <2>1, NotProcess DEF Lost
<1>2. CASE made'[p] = made[p]
  <2>1. CASE made[p] = <<>>
    <3>1. made'[p] = <<>> /\ Len(made'[p]) = 0
      BY <1>2, <2>1
    <3>2. PICK n \in Nat : n = fails'
      BY <1>1
    <3>3. 0 <= 1 + n /\ 0 # 1 + n
      OBVIOUS
    <3>4. 1..0 = {}
      OBVIOUS
    <3>. QED
      BY <3>1, <3>2, <3>3, <3>4 DEF MadeOk
  <2>2. CASE made[p] # <<>>
    <3>1. req[p] # None /\ req[p].sent /\ req[p].qid # 0
      BY <1>0, <2>2 DEF MadeOk
    <3>2. /\ req'[p] # None /\ req'[p].sent /\ req'[p].qid = req[p].qid
          /\ req'[p].items = req[p].items
      BY <3>1, SentStays
    <3>3. PICK j \in Qids : j = req[p].qid
      BY <1>0, <3>1 DEF Requests
    <3>4. q[j] # None
      BY <1>0, <3>1, <3>3 DEF ReqOk
    <3>0. Len(made[p]) <= 1 + fails
      BY <1>0 DEF MadeOk
    <3>5. Len(made[p]) = 1 + fails' => Settled(j)'
      <4>1. CASE fails' = fails
        BY <1>0, <3>1, <3>3, <3>4, <4>1, SettledStays DEF MadeOk
      <4>2. CASE fails' # fails
        <5>1. fails' > fails /\ fails \in Nat /\ fails' \in Nat /\ Len(made[p]) \in Nat
          BY <1>0, <1>1, <4>2
        <5>2. Len(made[p]) # 1 + fails'
          BY <3>0, <5>1
        <5>. QED
          BY <5>2
      <4>. QED
        BY <4>1, <4>2
    <3>6. Len(made[p]) = 1 + fails' => Settled(req[p].qid)'
      BY <3>2, <3>3, <3>5 DEF Settled
    <3>7. Len(made[p]) <= 1 + fails'
      BY <1>0, <1>1, <3>0
    <3>. QED
      BY <1>0, <1>2, <3>1, <3>2, <3>6, <3>7 DEF MadeOk, Settled
  <2>. QED
    BY <2>1, <2>2
<1>3. CASE made'[p] # made[p]
  <2>1. PICK i \in Qids : Process(i)
    BY <1>3, NotProcess
  <2>2. /\ Ordered(i) /\ (Answer(i, "ok") \/ Lost) /\ cur = 0 /\ q' = q /\ req' = req
        /\ q[i].state = 1 /\ i # 0
    BY <1>3, <2>1, ProcessFacts DEF Qids
  <2>3. p = q[i].pid /\ made' = [made EXCEPT ![p] = Append(made[p], req[p].items)]
    BY <1>0, <1>3, <2>2 DEF Ordered
  <2>4. made'[p] = Append(made[p], req[p].items) /\ made[p] \in Seq(Lists)
    BY <1>0, <2>3
  <2>5. req[p] # None /\ req[p].sent /\ req[p].qid = i /\ req[p].items \in Lists
    BY <2>2, <2>3 DEF Ordered
  <2>6. Len(made[p]) <= fails
    <3>1. ~Settled(i)
      BY <2>2 DEF Settled
    <3>2. Len(made[p]) <= 1 + fails /\ Len(made[p]) # 1 + fails
      BY <1>0, <2>5, <3>1 DEF MadeOk
    <3>. QED
      BY <1>0, <3>2
  <2>7. Len(made'[p]) = Len(made[p]) + 1 /\ made'[p] # <<>>
    BY <2>4, <2>5
  <2>8. \A k \in 1..Len(made'[p]) : made'[p][k] = req[p].items
    <3>. SUFFICES ASSUME NEW k \in 1..Len(made'[p]) PROVE made'[p][k] = req[p].items
      OBVIOUS
    <3>1. CASE k = Len(made[p]) + 1
      BY <2>4, <2>5, <3>1
    <3>2. CASE k # Len(made[p]) + 1
      <4>1. k \in 1..Len(made[p])
        BY <1>0, <2>7, <3>2
      <4>2. made'[p][k] = made[p][k]
        BY <2>4, <2>5, <4>1
      <4>. QED
        BY <1>0, <4>1, <4>2 DEF MadeOk
    <3>. QED
      BY <3>1, <3>2
  <2>9. Len(made'[p]) <= 1 + fails' /\ (Len(made'[p]) = 1 + fails' => Answer(i, "ok"))
    BY <1>0, <1>1, <2>2, <2>6, <2>7 DEF Lost
  <2>10. Answer(i, "ok") => Settled(i)'
    BY DEF Answer, Settled
  <2>. QED
    BY <2>2, <2>5, <2>7, <2>8, <2>9, <2>10 DEF MadeOk, Settled
<1>. QED
  BY <1>2, <1>3

LEMMA DoneStep ==
    ASSUME IInv, [Next]_vars, NEW i \in Qids
    PROVE  DoneOk(i)'
<1>0. /\ DoneOk(i) /\ RowChanges(i) /\ ServiceOk /\ i # 0 /\ made \in [Pids -> Seq(Lists)]
      /\ q \in [Qids -> Rows \union {None}]
  BY RowChange DEF IInv, TypeOK, Qids
<1>1. SUFFICES ASSUME q'[i] # None, q'[i].pid # 0, Settled(i)', ~req'[q'[i].pid].adjusts
               PROVE  HQ /\ made'[q'[i].pid] # <<>>
  BY DEF DoneOk, Orders
<1>2. ASSUME q[i] # None, q[i].pid # 0, Settled(i), q'[i].pid = q[i].pid
      PROVE  HQ /\ made[q[i].pid] # <<>> /\ q[i].pid \in Pids
  <2>1. LinkedRow(i)
    BY <1>2, SettledLinked
  <2>2. PICK p \in Pids : p = q[i].pid
    BY <1>0, <1>2 DEF Rows
  <2>3. req'[p].adjusts = req[p].adjusts
    BY <1>0, <2>1, <2>2, SentStays DEF LinkedRow
  <2>. QED
    BY <1>0, <1>1, <1>2, <2>2, <2>3 DEF DoneOk, Orders
<1>3. CASE \A j \in Qids : ~Process(j)
  <2>1. UNCHANGED made /\ (cur' # 0 => cur' = cur /\ answer' = answer)
    BY <1>3, NotProcess DEF Lost, EndBatch
  <2>2. q[i] # None /\ q'[i].pid = q[i].pid /\ (Settled(i) \/ RowAdjusts(i))
    BY <1>0, <1>1, <2>1 DEF Settled, ServiceOk, RowChanges, RowKept, RowNew, RowPended,
                            RowAdjusts, RowAnswered, RowOld
  <2>3. ~RowAdjusts(i)
    <3>1. SUFFICES ASSUME RowAdjusts(i) PROVE FALSE
      OBVIOUS
    <3>2. PICK p \in Pids : p = q[i].pid
      BY <1>0, <1>1, <2>2 DEF Rows
    <3>. QED
      BY <1>0, <1>1, <2>2, <3>1, <3>2, SentStays DEF RowAdjusts, LinkedRow
  <2>. QED
    BY <1>1, <1>2, <2>1, <2>2, <2>3
<1>4. ASSUME NEW j \in Qids, Process(j) PROVE HQ /\ made'[q'[i].pid] # <<>>
  <2>1. /\ UNCHANGED <<q, req>> /\ cur = 0
        /\ \/ Ordered(j)
           \/ UNCHANGED made /\ answer' # "ok"
           \/ UNCHANGED made /\ Answer(j, "ok") /\ (q[j].pid = 0 \/ req[q[j].pid].adjusts)
    BY <1>4, ProcessFacts DEF Answer, Lost, EndBatch
  <2>2. CASE Ordered(j)
    <3>1. /\ q[j].pid \in Pids /\ HQ /\ req[q[j].pid].items \in Lists
          /\ made' = [made EXCEPT ![q[j].pid] = Append(made[q[j].pid], req[q[j].pid].items)]
      BY <2>2 DEF Ordered
    <3>2. made'[q[j].pid] = Append(made[q[j].pid], req[q[j].pid].items)
      BY <1>0, <3>1
    <3>3. made[q[j].pid] \in Seq(Lists)
      BY <1>0, <3>1
    <3>4. made'[q[j].pid] # <<>>
      BY <3>1, <3>2, <3>3
    <3>5. CASE q[i].pid = q[j].pid
      BY <2>1, <3>1, <3>4, <3>5
    <3>6. CASE q[i].pid # q[j].pid
      <4>1. i # j /\ cur' \in {0, j}
        BY <1>4, <3>6, ProcessFacts DEF Answer, Lost, EndBatch
      <4>2. Settled(i)
        BY <1>0, <1>1, <2>1, <4>1 DEF Settled
      <4>3. made[q[i].pid] # <<>> /\ q[i].pid \in Pids
        BY <1>1, <1>2, <2>1, <4>2
      <4>. QED
        BY <1>0, <2>1, <3>1, <3>6, <4>3
    <3>. QED
      BY <3>5, <3>6
  <2>3. CASE UNCHANGED made /\ answer' # "ok"
    <3>1. Settled(i)
      BY <1>1, <2>1, <2>3 DEF Settled
    <3>. QED
      BY <1>1, <1>2, <2>1, <2>3, <3>1
  <2>4. CASE UNCHANGED made /\ Answer(j, "ok") /\ (q[j].pid = 0 \/ req[q[j].pid].adjusts)
    <3>1. i # j
      BY <1>1, <2>1, <2>4
    <3>2. Settled(i)
      BY <1>1, <2>1, <2>4, <3>1 DEF Settled, Answer
    <3>. QED
      BY <1>1, <1>2, <2>1, <2>4, <3>2
  <2>. QED
    BY <2>1, <2>2, <2>3, <2>4
<1>. QED
  BY <1>3, <1>4

LEMMA ServiceInv == IInv /\ [Next]_vars => ServiceOk'
<1>. SUFFICES ASSUME IInv, [Next]_vars PROVE ServiceOk'
  OBVIOUS
<1>0. /\ ServiceOk /\ batch \subseteq Qids /\ cur \in Qids \union {0} /\ 0 \notin Qids
      /\ q \in [Qids -> Rows \union {None}]
  BY DEF IInv, TypeOK, Qids
<1>1. ASSUME UNCHANGED <<spc, batch, cur, answer>> PROVE ServiceOk'
  <2>1. ASSUME NEW i \in Qids, q[i] # None, q[i].state = 1
        PROVE  q'[i] # None /\ q'[i].state = 1
    <3>1. ~RowAnswered(i)
      BY <1>0, <1>1, <2>1 DEF RowAnswered, Record, NextRow, EndBatch, ServiceOk
    <3>. QED
      BY <2>1, <3>1, RowChange DEF RowChanges, RowKept, RowNew, RowPended, RowAdjusts, RowOld
  <2>. QED
    BY <1>0, <1>1, <2>1 DEF ServiceOk
<1>2. CASE Staff \/ UNCHANGED vars
  BY <1>1, <1>2, StaffStep DEF vars, srvVars
<1>3. CASE Fetch
  BY <1>0, <1>3 DEF Fetch, Pending, ServiceOk
<1>4. ASSUME NEW i \in Qids, Process(i) PROVE ServiceOk'
  BY <1>0, <1>4, ProcessFacts DEF Answer, Lost, EndBatch, ServiceOk
<1>5. CASE Record
  <2>1. ASSUME NEW i \in Qids, i # cur PROVE q'[i] = q[i]
    BY <1>0, <1>5, <2>1 DEF Record
  <2>. QED
    BY <1>0, <1>5, <2>1 DEF Record, NextRow, EndBatch, ServiceOk
<1>6. CASE LoseBatch
  BY <1>6 DEF LoseBatch, EndBatch, ServiceOk
<1>. QED
  BY <1>2, <1>3, <1>4, <1>5, <1>6 DEF Next, Service

\* A worker that does not move: the others leave its row and request to it.
LEMMA JobKept ==
    ASSUME IInv, [Next]_vars, TypeOK', NEW w \in Web, pc'[w] = pc[w], job'[w] = job[w]
    PROVE  JobOk(w)'
<1>0. SUFFICES ASSUME pc[w] # "idle" PROVE JobOk(w)'
  BY <1>0 DEF JobOk
<1>1. /\ JobOk(w) /\ OwnJobs /\ job[w] # None /\ job[w] \in Jobs /\ job[w].pid <= lastPid
      /\ lastPid \in Nat /\ lastPid' \in Nat
  BY <1>0 DEF IInv, JobOk, TypeOK
<1>2. PICK p \in Pids : p = job[w].pid
  BY <1>1 DEF Jobs
<1>3. PICK i \in Qids \union {0} : i = job[w].qid
  BY <1>1 DEF Jobs
<1>4. ReqChanges(p) /\ p <= lastPid' /\ p \in Nat
  BY <1>1, <1>2, ReqChange DEF ReqChanges, Pids
<1>5. HasRow(w) => i \in Qids /\ i # 0 /\ HasRow(w)'
  BY <1>3, RowStays DEF HasRow, Qids
<1>6. CASE pc[w] \in {"insert", "link"}
  BY <1>1, <1>2, <1>4, <1>5, <1>6 DEF JobOk
<1>7. CASE pc[w] = "pend"
  <2>1. HasRow(w) /\ req[p] # None /\ req[p].sent /\ ~req[p].adjusts /\ req[p].qid = i
    BY <1>1, <1>2, <1>3, <1>7 DEF JobOk
  <2>2. req'[p] # None /\ req'[p].sent /\ ~req'[p].adjusts /\ req'[p].qid = i
    BY <1>5, <2>1, SentStays
  <2>. QED
    BY <1>1, <1>2, <1>3, <1>4, <1>5, <1>7, <2>1, <2>2 DEF JobOk
<1>8. CASE Adjusting(w)
  <2>0. ~ReqAdjusted(p)
    <3>1. SUFFICES ASSUME ReqAdjusted(p) PROVE FALSE
      OBVIOUS
    <3>2. PICK x \in Web : pc[x] = "adj_link" /\ job[x].pid = p /\ pc'[x] = "adj_pend"
      BY <3>1 DEF ReqAdjusted
    <3>3. x = w
      BY <1>1, <1>2, <1>8, <3>2 DEF OwnJobs, Adjusting
    <3>. QED
      BY <3>2, <3>3
  <2>1. PICK k \in Qids \union {0} : Adjusts(w, k) /\ k = IF pc[w] = "adj_pend" THEN i ELSE 0
    BY <1>1, <1>3, <1>8 DEF Adjusting, JobOk
  <2>2. req[p] # None /\ req[p].sent /\ req[p].adjusts /\ req[p].qid = k
    BY <1>2, <2>1 DEF Adjusts
  <2>3. req'[p] # None /\ req'[p].sent /\ req'[p].adjusts /\ req'[p].qid = k
    BY <1>4, <2>0, <2>2 DEF ReqChanges, ReqKept, ReqNew, ReqEdited, ReqLinked
  <2>4. Adjusts(w, k)'
    BY <1>2, <2>3 DEF Adjusts
  <2>5. CASE pc[w] = "adj_insert"
    BY <1>1, <1>2, <1>4, <2>1, <2>4, <2>5 DEF JobOk, Adjusts
  <2>6. CASE pc[w] # "adj_insert"
    <3>1. HasRow(w) /\ q[i].state = 0 /\ i \in Qids /\ q[i] # None /\ q[i].pid = p
      BY <1>1, <1>2, <1>3, <1>5, <1>8, <2>6 DEF Adjusting, JobOk, HasRow
    <3>2. ~RowAdjusts(i)
      <4>1. SUFFICES ASSUME RowAdjusts(i) PROVE FALSE
        OBVIOUS
      <4>2. k = i
        BY <2>2, <3>1, <4>1 DEF RowAdjusts, LinkedRow
      <4>3. pc[w] = "adj_pend"
        BY <1>5, <2>1, <3>1, <4>2
      <4>4. PICK x \in Web : pc[x] = "adj_pend" /\ job[x].pid = p /\ pc'[x] = "idle"
        BY <3>1, <4>1 DEF RowAdjusts
      <4>. QED
        BY <1>1, <1>2, <4>3, <4>4 DEF OwnJobs, Adjusting
    <3>3. q'[i].state = 0
      BY <3>1, <3>2, RowChange DEF RowChanges, RowKept, RowNew, RowPended, RowAnswered
    <3>. QED
      BY <1>1, <1>2, <1>3, <1>4, <1>5, <1>8, <2>1, <2>4, <2>6, <3>1, <3>3
      DEF JobOk, Adjusts, Adjusting
  <2>. QED
    BY <2>5, <2>6
<1>. QED
  BY <1>0, <1>6, <1>7, <1>8 DEF IInv, TypeOK, Adjusting

\* A worker that moves.
Moves(w) ==
    \/ InsertSend(w) \/ Link(w) \/ Pend(w) \/ WebFails(w)
    \/ StartAdjust(w) \/ AdjustInsert(w) \/ AdjustLink(w) \/ AdjustPend(w)
    \/ \E p \in Pids : StartSend(w, p)

LEMMA OthersKept ==
    ASSUME IInv, [Next]_vars, NEW w \in Web, ~Moves(w)
    PROVE  pc'[w] = pc[w] /\ job'[w] = job[w]
<1>0. /\ pc \in [Web -> {"idle", "insert", "link", "pend", "adj_insert", "adj_link", "adj_pend"}]
      /\ job \in [Web -> Jobs \union {None}]
  BY DEF IInv, TypeOK
<1>1. ASSUME NEW x \in Web, InsertSend(x) \/ Link(x) \/ Pend(x) \/ WebFails(x), x # w
      PROVE pc'[w] = pc[w] /\ job'[w] = job[w]
  BY <1>0, <1>1 DEF InsertSend, Link, Pend, WebFails, Goto, Leave
<1>2. ASSUME NEW x \in Web, StartAdjust(x) \/ AdjustInsert(x) \/ AdjustLink(x) \/ AdjustPend(x), x # w
      PROVE pc'[w] = pc[w] /\ job'[w] = job[w]
  BY <1>0, <1>2 DEF StartAdjust, AdjustInsert, AdjustLink, AdjustPend, Goto, Leave
<1>3. ASSUME NEW x \in Web, NEW p \in Pids, StartSend(x, p), x # w
      PROVE pc'[w] = pc[w] /\ job'[w] = job[w]
  BY <1>0, <1>3 DEF StartSend, Goto
<1>4. ASSUME NEW x \in Web, Moves(x) PROVE pc'[w] = pc[w] /\ job'[w] = job[w]
  <2>1. x # w
    BY <1>4
  <2>. QED
    BY <1>1, <1>2, <1>3, <1>4, <2>1 DEF Moves
<1>5. ASSUME NEW p \in Pids, DeleteRequest(p) \/ \E l \in Lists : SaveRequest(p, l)
      PROVE pc'[w] = pc[w] /\ job'[w] = job[w]
  BY <1>5 DEF DeleteRequest, SaveRequest, webVars
<1>6. ASSUME NEW l \in Lists, NewRequest(l) PROVE pc'[w] = pc[w] /\ job'[w] = job[w]
  BY <1>6 DEF NewRequest, webVars
<1>7. CASE InsertDirect
  BY <1>7 DEF InsertDirect, webVars
<1>8. CASE Staff
  BY <1>4, <1>5, <1>6, <1>7, <1>8 DEF Staff, Moves
<1>9. CASE Service \/ LoseBatch \/ UNCHANGED vars
  BY <1>9, ServiceStep
<1>. QED
  BY <1>8, <1>9 DEF Next

LEMMA JobStep ==
    ASSUME IInv, [Next]_vars, TypeOK', NEW w \in Web
    PROVE  JobOk(w)'
<1>0. /\ pc \in [Web -> {"idle", "insert", "link", "pend", "adj_insert", "adj_link", "adj_pend"}]
      /\ job \in [Web -> Jobs \union {None}] /\ q \in [Qids -> Rows \union {None}]
      /\ req \in [Pids -> Requests \union {None}]
      /\ JobOk(w) /\ lastPid \in Nat /\ TypeOK
  BY DEF IInv, TypeOK
<1>1. CASE ~Moves(w)
  BY <1>1, OthersKept, JobKept
<1>2. CASE Leave(w)
  BY <1>0, <1>2 DEF Leave, JobOk
<1>3. ASSUME NEW p \in Pids, StartSend(w, p) PROVE JobOk(w)'
  <2>1. req[p] \in Requests /\ ReqOk(p) /\ ~req[p].adjusts /\ req[p] # None
    BY <1>0, <1>3 DEF StartSend, IInv
  <2>. DEFINE j == [pid |-> p, rev |-> req[p].rev, qid |-> req[p].qid]
  <2>2. job'[w] = j /\ j \in Jobs /\ pc'[w] = IF req[p].qid = 0 THEN "insert" ELSE "pend"
    BY <1>0, <1>3, <2>1 DEF StartSend, Goto, Jobs, Requests
  <2>3. UNCHANGED <<req, q, lastPid>>
    BY <1>3 DEF StartSend
  <2>4. p <= lastPid
    BY <2>1 DEF ReqOk
  <2>5. job'[w].pid = p /\ job'[w].qid = req[p].qid /\ job'[w] # None
    BY <2>2, NotNone
  <2>6. CASE req[p].qid = 0
    BY <2>2, <2>3, <2>4, <2>5, <2>6 DEF JobOk
  <2>7. CASE req[p].qid # 0
    <3>1. req[p].sent /\ q[req[p].qid] # None /\ q[req[p].qid].pid = p
      BY <2>1, <2>7 DEF ReqOk
    <3>. QED
      BY <2>1, <2>2, <2>3, <2>4, <2>5, <2>7, <3>1 DEF JobOk, HasRow
  <2>. QED
    BY <2>6, <2>7
<1>4. ASSUME NEW step \in {"insert", "adj_insert"}, NEW next \in {"link", "adj_link"},
             NEW state \in 0..2,
             pc[w] = step, InsertRow(job[w].pid, state),
             job' = [job EXCEPT ![w].qid = lastQid + 1], Goto(w, next),
             UNCHANGED <<req, lastPid>>,
             step = "insert" <=> next = "link", next = "adj_link" => state = 0
      PROVE JobOk(w)'
  <2>. DEFINE p == job[w].pid
              n == lastQid + 1
  <2>1. job[w] \in Jobs /\ p \in Pids /\ p <= lastPid /\ (next = "adj_link" => Adjusts(w, 0))
    BY <1>0, <1>4 DEF JobOk, Jobs
  <2>2. /\ n \in Qids /\ n # 0
        /\ q'[n] = [pid |-> p, state |-> state, err |-> "unsent"]
    <3>1. /\ p \in Pids \union {0} /\ lastQid < MaxQid /\ lastQid' = lastQid + 1
          /\ q' = [q EXCEPT ![lastQid + 1] = [pid |-> p, state |-> state, err |-> "unsent"]]
      BY <1>4, <2>1 DEF InsertRow
    <3>. HIDE DEF p
    <3>2. /\ lastQid + 1 \in Qids
          /\ q'[lastQid + 1] = [pid |-> p, state |-> state, err |-> "unsent"]
      BY <1>0, <3>1, InsertRowFacts
    <3>. QED
      BY <3>2 DEF Qids
  <2>3. [pid |-> p, state |-> state, err |-> "unsent"] \in Rows
    BY <2>1 DEF Rows
  <2>4. q'[n] # None /\ q'[n].pid = p /\ q'[n].state = state
    BY <2>2, <2>3, NotNone
  <2>5. job'[w] = [job[w] EXCEPT !.qid = n] /\ pc'[w] = next
    BY <1>0, <1>4 DEF Goto
  <2>6. job'[w].pid = p /\ job'[w].qid = n
    BY <2>1, <2>5 DEF Jobs
  <2>7. job'[w] # None
    <3>1. [job[w] EXCEPT !.qid = n] \in Jobs
      BY <2>1, <2>2 DEF Jobs
    <3>. QED
      BY <2>5, <3>1, NotNone
  <2>8. HasRow(w)'
    BY <2>2, <2>4, <2>6 DEF HasRow
  <2>9. next = "adj_link" => Adjusts(w, 0)' /\ q'[job'[w].qid].state = 0
    BY <1>4, <2>1, <2>4, <2>6 DEF Adjusts
  <2>. HIDE DEF p, n
  <2>. QED
    BY <1>4, <2>1, <2>5, <2>6, <2>7, <2>8, <2>9 DEF JobOk
<1>5. CASE InsertSend(w)
  <2>. DEFINE state == 2
  <2>1. InsertRow(job[w].pid, state) /\ state \in 0..2
    BY <1>5 DEF InsertSend
  <2>. HIDE DEF state
  <2>. QED
    BY <1>4, <1>5, <2>1 DEF InsertSend
<1>6. CASE AdjustInsert(w)
  <2>1. InsertRow(job[w].pid, 0) /\ 0 \in 0..2
    BY <1>6 DEF AdjustInsert
  <2>. QED
    BY <1>4, <1>6, <2>1 DEF AdjustInsert
<1>7. CASE Link(w) /\ ~Leave(w)
  <2>. DEFINE p == job[w].pid
  <2>1. /\ pc[w] = "link" /\ req[p] # None /\ ~req[p].sent
        /\ req' = [req EXCEPT ![p].rev = @ + 1, ![p].sent = TRUE, ![p].qid = job[w].qid]
        /\ Goto(w, "pend") /\ UNCHANGED <<job, q, lastPid>>
    BY <1>7 DEF Link
  <2>2. HasRow(w) /\ job[w] # None /\ job[w] \in Jobs /\ p \in Pids /\ p <= lastPid
    BY <1>0, <2>1 DEF JobOk, Jobs
  <2>3. req[p] \in Requests /\ ~req[p].adjusts
    BY <1>0, <2>1, <2>2 DEF IInv, ReqOk
  <2>4. req'[p] = [req[p] EXCEPT !.rev = @ + 1, !.sent = TRUE, !.qid = job[w].qid]
    BY <1>0, <2>1, <2>2, <2>3 DEF Requests
  <2>5. req'[p].sent /\ ~req'[p].adjusts /\ req'[p].qid = job[w].qid
    BY <2>3, <2>4 DEF Requests
  <2>6. req'[p] # None
    <3>1. [req[p] EXCEPT !.rev = @ + 1, !.sent = TRUE, !.qid = job[w].qid] \in Requests
      BY <2>2, <2>3, RequestLinked DEF Jobs
    <3>. QED
      BY <2>4, <3>1, NotNone
  <2>7. pc'[w] = "pend" /\ HasRow(w)'
    BY <1>0, <2>1, <2>2 DEF Goto, HasRow
  <2>. QED
    BY <2>1, <2>2, <2>5, <2>6, <2>7 DEF JobOk
<1>8. CASE StartAdjust(w)
  <2>. DEFINE j == [pid |-> lastPid + 1, rev |-> 1, qid |-> 0]
              r == [rev |-> 1, sent |-> TRUE, qid |-> 0, items |-> Empty, adjusts |-> TRUE]
  <2>1. lastPid + 1 \in Pids /\ lastPid' = lastPid + 1
    BY <1>0, <1>8, QueueAssumption DEF StartAdjust, Pids
  <2>2. job'[w] = j /\ req'[lastPid + 1] = r /\ pc'[w] = "adj_insert"
    BY <1>0, <1>8, <2>1 DEF StartAdjust, Goto
  <2>3. j \in Jobs
    BY <2>1 DEF Jobs
  <2>4. r \in Requests
    BY QueueAssumption DEF Requests
  <2>5. job'[w] # None /\ job'[w].pid = lastPid + 1 /\ job'[w].pid <= lastPid'
    BY <1>0, <2>1, <2>2, <2>3, NotNone
  <2>6. Adjusts(w, 0)'
    BY <2>2, <2>4, <2>5, NotNone DEF Adjusts
  <2>. QED
    BY <2>2, <2>5, <2>6 DEF JobOk
<1>9. CASE AdjustLink(w)
  <2>. DEFINE p == job[w].pid
  <2>1. /\ pc[w] = "adj_link" /\ req' = [req EXCEPT ![p].rev = @ + 1, ![p].qid = job[w].qid]
        /\ Goto(w, "adj_pend") /\ UNCHANGED <<job, q, lastPid>>
    BY <1>9 DEF AdjustLink
  <2>2. /\ HasRow(w) /\ q[job[w].qid].state = 0 /\ Adjusts(w, 0)
        /\ job[w] # None /\ job[w] \in Jobs /\ p \in Pids /\ p <= lastPid
    BY <1>0, <2>1 DEF JobOk, Jobs
  <2>3. req[p] \in Requests /\ req[p].sent /\ req[p].adjusts
    BY <1>0, <2>2 DEF Adjusts
  <2>4. req'[p] = [req[p] EXCEPT !.rev = @ + 1, !.qid = job[w].qid]
    BY <1>0, <2>1, <2>2, <2>3 DEF Requests
  <2>5. req'[p].sent /\ req'[p].adjusts /\ req'[p].qid = job[w].qid
    BY <2>3, <2>4 DEF Requests
  <2>6. req'[p] # None
    <3>1. [req[p] EXCEPT !.rev = @ + 1, !.qid = job[w].qid] \in Requests
      BY <2>2, <2>3, RequestLinked DEF Jobs
    <3>. QED
      BY <2>4, <3>1, NotNone
  <2>7. pc'[w] = "adj_pend" /\ HasRow(w)' /\ Adjusts(w, job[w].qid)'
    BY <1>0, <2>1, <2>2, <2>5, <2>6 DEF Goto, HasRow, Adjusts
  <2>. QED
    BY <2>1, <2>2, <2>7 DEF JobOk
<1>10. CASE Pend(w) \/ WebFails(w) \/ AdjustPend(w)
  BY <1>2, <1>10 DEF Pend, WebFails, AdjustPend
<1>. QED
  BY <1>1, <1>2, <1>3, <1>5, <1>6, <1>7, <1>8, <1>9, <1>10 DEF Moves

\* A worker begins to adjust with a new request, which is its own.
LEMMA OwnStep == IInv /\ [Next]_vars => OwnJobs'
<1>. SUFFICES ASSUME IInv, [Next]_vars, NEW w \in Web, NEW x \in Web, w # x,
                     Adjusting(w)', Adjusting(x)'
              PROVE  job'[w].pid # job'[x].pid
  BY DEF OwnJobs
<1>0. /\ pc \in [Web -> {"idle", "insert", "link", "pend", "adj_insert", "adj_link", "adj_pend"}]
      /\ job \in [Web -> Jobs \union {None}] /\ lastPid \in Nat /\ OwnJobs /\ TypeOK
      /\ \A v \in Web : JobOk(v)
  BY DEF IInv, TypeOK
<1>1. ASSUME NEW v \in Web, Adjusting(v)', ~StartAdjust(v)
      PROVE  Adjusting(v) /\ job'[v].pid = job[v].pid /\ job[v].pid <= lastPid /\ job[v].pid \in Nat
  <2>1. CASE Moves(v)
    <3>1. CASE AdjustInsert(v)
      <4>1. job[v] \in Jobs /\ job'[v] = [job[v] EXCEPT !.qid = lastQid + 1] /\ Adjusting(v)
            /\ job[v].pid <= lastPid
        BY <1>0, <3>1 DEF AdjustInsert, JobOk, Adjusting
      <4>. QED
        BY <4>1 DEF Jobs, Pids
    <3>2. CASE AdjustLink(v)
      <4>1. job[v] \in Jobs /\ job'[v] = job[v] /\ Adjusting(v) /\ job[v].pid <= lastPid
        BY <1>0, <3>2 DEF AdjustLink, JobOk, Adjusting
      <4>. QED
        BY <4>1 DEF Jobs, Pids
    <3>3. ASSUME NEW p \in Pids, StartSend(v, p) PROVE FALSE
      BY <1>0, <1>1, <3>3 DEF StartSend, Goto, Adjusting
    <3>4. CASE InsertSend(v) \/ Link(v) \/ Pend(v) \/ WebFails(v) \/ AdjustPend(v)
      BY <1>0, <1>1, <3>4 DEF InsertSend, Link, Pend, WebFails, AdjustPend, Goto, Leave, Adjusting
    <3>. QED
      BY <1>1, <2>1, <3>1, <3>2, <3>3, <3>4 DEF Moves
  <2>2. CASE ~Moves(v)
    <3>1. pc'[v] = pc[v] /\ job'[v] = job[v] /\ Adjusting(v)
      BY <1>1, <2>2, OthersKept DEF Adjusting
    <3>2. job[v] \in Jobs /\ job[v].pid <= lastPid
      BY <1>0, <3>1 DEF JobOk, Adjusting
    <3>. QED
      BY <3>1, <3>2 DEF Jobs, Pids
  <2>. QED
    BY <2>1, <2>2
<1>2. ASSUME NEW v \in Web, NEW u \in Web, v # u, StartAdjust(v), Adjusting(u)'
      PROVE  job'[v].pid # job'[u].pid
  <2>1. job'[v].pid = lastPid + 1
    <3>1. lastPid + 1 \in Pids
      BY <1>0, <1>2, QueueAssumption DEF StartAdjust, Pids
    <3>2. job'[v] = [pid |-> lastPid + 1, rev |-> 1, qid |-> 0]
      BY <1>0, <1>2 DEF StartAdjust
    <3>. QED
      BY <3>2
  <2>2. ~StartAdjust(u)
    BY <1>0, <1>2 DEF StartAdjust, Goto
  <2>3. job'[u].pid <= lastPid /\ job'[u].pid \in Nat
    BY <1>1, <1>2, <2>2
  <2>. QED
    BY <1>0, <2>1, <2>3
<1>. QED
  BY <1>0, <1>1, <1>2 DEF OwnJobs

----------------------------------------------------------------------------
(* The theorems.                                                           *)

(***************************************************************************)
(* The invariant behind all of them, for any number of requests, rows, web *)
(* workers and lost batches: orders, requests, rows, the locals of the     *)
(* workers and of the service agree (ts_request.py:185-223,                *)
(* purchasing.py:489-515, service_qbpos.py:584-637).                       *)
(***************************************************************************)
THEOREM Invariant == Spec => []IInv
<1>1. Init => IInv
  <2>. SUFFICES ASSUME Init PROVE IInv
    OBVIOUS
  <2>1. 0 \in 0..MaxPid /\ 0 \in 0..MaxQid /\ Len(<<>>) = 0
    BY QueueAssumption
  <2>2. TypeOK
    BY <2>1 DEF Init, TypeOK
  <2>3. ASSUME NEW p \in Pids PROVE ReqOk(p) /\ MadeOk(p)
    <3>1. req[p] = None /\ made[p] = <<>> /\ Len(made[p]) = 0 /\ fails = 0
      BY <2>1 DEF Init
    <3>2. 1..0 = {} /\ 0 <= 1 + 0 /\ 0 # 1 + 0
      OBVIOUS
    <3>. QED
      BY <3>1, <3>2 DEF ReqOk, MadeOk
  <2>4. ASSUME NEW i \in Qids PROVE RowOk(i) /\ LiveOk(i) /\ DoneOk(i)
    <3>1. q[i] = None /\ ~(i <= lastQid)
      BY DEF Init, Qids
    <3>. QED
      BY <3>1 DEF RowOk, LiveOk, DoneOk, Orders
  <2>5. \A w \in Web : JobOk(w) /\ ~Adjusting(w)
    BY DEF Init, JobOk, Adjusting
  <2>6. ServiceOk
    BY DEF Init, ServiceOk
  <2>. QED
    BY <2>2, <2>3, <2>4, <2>5, <2>6 DEF IInv, OwnJobs
<1>2. IInv /\ [Next]_vars => IInv'
  <2>. SUFFICES ASSUME IInv, [Next]_vars PROVE IInv'
    OBVIOUS
  <2>1. TypeOK'
    BY TypeStep
  <2>2. ASSUME NEW p \in Pids PROVE ReqOk(p)' /\ MadeOk(p)'
    BY <2>1, ReqStep, MadeStep
  <2>3. ASSUME NEW i \in Qids PROVE RowOk(i)' /\ LiveOk(i)' /\ DoneOk(i)'
    BY RowStep, LiveStep, DoneStep
  <2>4. ASSUME NEW w \in Web PROVE JobOk(w)'
    BY <2>1, JobStep
  <2>5. OwnJobs' /\ ServiceOk'
    BY OwnStep, ServiceInv
  <2>. QED
    BY <2>1, <2>2, <2>3, <2>4, <2>5 DEF IInv
<1>. QED
  BY <1>1, <1>2, PTL DEF Spec

(***************************************************************************)
(* Type correctness of the outbox's model: the parts of the state, the     *)
(* records of service_qbpos.py and ts_request.py, stay what they are.      *)
(***************************************************************************)
THEOREM TypeCorrect == Spec => []TypeOK
<1>1. IInv => TypeOK
  BY DEF IInv
<1>. QED
  BY <1>1, Invariant, PTL

(***************************************************************************)
(* A row that was ever pending is the one its request is linked to, and    *)
(* the request is locked (ts_request.py:210-220, purchasing.py:505-513).   *)
(***************************************************************************)
THEOREM Linking == Spec => []LiveRowsLinked
<1>1. IInv => LiveRowsLinked
  BY DEF IInv, LiveOk, LiveRowsLinked
<1>. QED
  BY <1>1, Invariant, PTL

(***************************************************************************)
(* What POS ordered is what the request says, now and for ever             *)
(* (ts_request.py:131-153, 213-218).                                       *)
(***************************************************************************)
THEOREM AsWritten == Spec => []OrderedAsWritten
<1>1. IInv => OrderedAsWritten
  <2>. SUFFICES ASSUME IInv, NEW p \in Pids, NEW k \in 1..Len(made[p])
                PROVE  req[p] # None /\ req[p].sent /\ made[p][k] = req[p].items
    BY DEF OrderedAsWritten
  <2>1. MadeOk(p)
    BY DEF IInv
  <2>2. made[p] # <<>>
    OBVIOUS
  <2>. QED
    BY <2>1, <2>2 DEF MadeOk
<1>. QED
  BY <1>1, Invariant, PTL

(***************************************************************************)
(* A request is ordered at most once, and once more for each batch that    *)
(* was lost, however often and by however many people it is sent           *)
(* (ts_request.py:220, service_qbpos.py:614-628).                          *)
(***************************************************************************)
THEOREM OrderedOnce == Spec => []NoNeedlessOrder
<1>1. IInv => NoNeedlessOrder
  BY DEF IInv, MadeOk, NoNeedlessOrder
<1>. QED
  BY <1>1, Invariant, PTL

(***************************************************************************)
(* A row marked done has its order in POS (service_qbpos.py:614-628).      *)
(***************************************************************************)
THEOREM Done == Spec => []DoneIsOrdered
<1>1. IInv => DoneIsOrdered
  BY DEF IInv, DoneOk, Settled, DoneIsOrdered
<1>. QED
  BY <1>1, Invariant, PTL

(***************************************************************************)
(* A row that is done stays as it is: no sender makes it pending again, no *)
(* late answer overwrites it (ts_request.py:220, service_qbpos.py:614).    *)
(***************************************************************************)
THEOREM Final == Spec => DoneIsFinal
<1>1. IInv /\ [Next]_vars
        => \A i \in Qids : Orders(i) /\ q[i].state = 2 /\ q[i].err = "ok" => q'[i] = q[i]
  BY RowChange DEF Orders, RowChanges, RowKept, RowNew, RowPended, RowAdjusts, RowAnswered, RowOld
<1>. QED
  BY <1>1, Invariant, PTL DEF Spec, DoneIsFinal
=============================================================================
