-------------------------- MODULE Delivery_proofs --------------------------
(***************************************************************************)
(* The proofs about Delivery: that the list and the rows of a delivery     *)
(* part only by an overlap or a stop, that the next save restores what is  *)
(* missing, that no save replaces a header its user has not seen, and what *)
(* one worker at a time may rely on - for any number of receipts, records, *)
(* days, deliveries, revisions and stopped requests.                       *)
(***************************************************************************)
EXTENDS Delivery, TLAPS

----------------------------------------------------------------------------
(* The inductive invariant, for any number of workers.                     *)

\* What is not created yet is empty.
FreshOk == \A d \in Dels : d > lastId => head[d] = None /\ rows[d] = NoRows /\ tear[d] = "whole"

\* Two writers at one delivery are a mix.
AloneOk ==
    \A d \in Dels : \A v, w \in Workers :
        tear[d] # "mixed" /\ Writing(v, d) /\ Writing(w, d) => v = w

\* A page that is as new as the header shows the header.
Aware(p, j, h, last) ==
    p \in {"open", "page", "find", "check"} =>
        /\ j.d <= last
        /\ p = "open" => j.d # 0
        /\ j.d # 0 => j.rev < MaxRev
        /\ j.d # 0 /\ h[j.d] # None =>
              /\ j.rev <= h[j.d].rev
              /\ j.rev = h[j.d].rev => j.was = h[j.d].list /\ j.wasDay = h[j.d].day
        /\ p \in {"find", "check"} => j.day \in Days

\* Receipts of the old list whose rows the page does not vouch for.
Unseen(p, j) == IF p = "page" THEN j.missing ELSE j.edited \union {n \in Nums : j.list[n] = None}

Deleting == {d \in Dels : \E v \in Workers : pc[v] = "delhead" /\ job[v].d = d}

\* The rows a page has found stay as long as its header does.
Present(p, j, h, rw, t, del) ==
    /\ p \in {"page", "find", "check"}
    /\ j.d # 0 /\ h[j.d] # None /\ h[j.d].rev = j.rev
    /\ t[j.d] # "mixed" /\ j.d \notin del
    => \A n \in On(j.was) : n \in Unseen(p, j) \/ rw[j.d][n] # None

\* How far a save has come.
Saved(p, j, h, rw, last, t) ==
    p \in {"known", "put"} =>
        /\ j.d \in 1..last
        /\ j.todo \subseteq On(j.list)
        /\ t[j.d] # "mixed" =>
              /\ h[j.d] # None /\ h[j.d].list = j.list
              /\ \A n \in On(j.list) \ j.todo : rw[j.d][n] # None
        /\ t[j.d] = "whole" =>
              \A n \in Nums :
                 /\ n \in On(j.list) \ j.todo => rw[j.d][n].sc = j.list[n]
                 /\ n \notin On(j.list) \union On(j.was) => rw[j.d][n] = None

Deleted(p, j, rw, last, t) ==
    p = "delhead" =>
        /\ j.d \in 1..last
        /\ t[j.d] # "mixed" => rw[j.d] = NoRows

AwareOk == \A w \in Workers : Aware(pc[w], job[w], head, lastId)
PresentOk == \A w \in Workers : Present(pc[w], job[w], head, rows, tear, Deleting)
SavedOk == \A w \in Workers : Saved(pc[w], job[w], head, rows, lastId, tear)
DeletedOk == \A w \in Workers : Deleted(pc[w], job[w], rows, lastId, tear)

IInv ==
    /\ TypeOK /\ FreshOk /\ AloneOk
    /\ AwareOk /\ PresentOk /\ SavedOk /\ DeletedOk
    /\ RowsMatch /\ MissingRestored

----------------------------------------------------------------------------
(* What one worker at a time adds.                                         *)

OneWorker == \A v, w \in Workers : v = w

\* What may go out on one day: r is a row, s the record of another, K the
\* records that are partial or were.
Compatible(r, s, K) == r.marked \/ (r.sc \in K /\ s \in K /\ r.sc # s)

\* The receipts a check has passed; of those it is asking about it knows what
\* their own record does not tell.
Passed(p, j, h, rw, K) ==
    p = "check" =>
        \A n \in On(j.list) \ j.todo : Checked(j, n) =>
            \A e \in Dels \ {j.d} :
                rw[e][n] # None /\ h[e] # None /\ h[e].day <= j.day =>
                    IF n \in j.asks THEN rw[e][n].marked \/ (rw[e][n].sc \in K /\ rw[e][n].sc # j.list[n])
                    ELSE Compatible(rw[e][n], j.list[n], K)

\* What a check has made sure of lasts until the save is done.
Promise(p, j, h, rw, t, K) ==
    p \in {"known", "put"} /\ t[j.d] = "whole" =>
        \A n \in On(j.list) : \A e \in Dels \ {j.d} :
            /\ t[e] = "whole" /\ h[e] # None /\ rw[e][n] # None /\ h[e].list[n] # None
            /\ h[e].day = h[j.d].day
            => Compatible(rw[e][n], j.list[n], K) \/ (rw[j.d][n] # None /\ rw[j.d][n].marked)

\* A receipt that was nowhere else still is.
First(p, j, rw) ==
    p = "put" => \A n \in j.todo \ j.known : \A e \in Dels \ {j.d} : rw[e][n] = None

PassedOk == \A w \in Workers : Passed(pc[w], job[w], head, rows, Parts)
PromiseOk == \A w \in Workers : Promise(pc[w], job[w], head, rows, tear, Parts)
FirstOk == \A w \in Workers : First(pc[w], job[w], rows)

OneInv == PassedOk /\ PromiseOk /\ FirstOk /\ CountedOnce /\ NoRedeliverySameDay

----------------------------------------------------------------------------
(* Types.                                                                  *)

Steps == {"idle", "open", "page", "find", "check", "known", "put", "delhead"}

\* The fields of the three kinds of records.
LEMMA HeaderFields ==
    /\ \A h \in Headers : h.rev \in 0..MaxRev /\ h.day \in Days /\ h.list \in Lists
    /\ None \notin Headers
    /\ \A r \in 0..MaxRev, t \in Days, l \in Lists :
          LET h == [rev |-> r, day |-> t, list |-> l]
          IN  h \in Headers /\ h.rev = r /\ h.day = t /\ h.list = l
BY NoneAssumption DEF Headers

\* The fields of a row; no row is null.
LEMMA RowFields ==
    /\ \A r \in Rows : r.sc \in Scs /\ r.marked \in BOOLEAN /\ r.excluded \in BOOLEAN
    /\ None \notin Rows
BY NoneAssumption DEF Rows

\* The fields of a job; no job is null.
LEMMA JobFields ==
    /\ None \notin Jobs
    /\ \A j \in Jobs :
          /\ j.d \in 0..MaxDel /\ j.rev \in 0..MaxRev
          /\ j.was \in Lists /\ j.wasDay \in Days \union {0} /\ j.missing \subseteq Nums
          /\ j.list \in Lists /\ j.day \in Days \union {0}
          /\ j.edited \subseteq Nums /\ j.problem \subseteq Nums
          /\ j.found \in [Nums -> SUBSET Scs]
          /\ j.todo \subseteq Nums /\ j.asks \subseteq Nums /\ j.known \subseteq Nums
BY NoneAssumption DEF Jobs

\* Numbers.
LEMMA Bounds == MaxDel \in Nat /\ MaxRev \in Nat /\ Days \subseteq Nat \ {0}
BY DeliveryAssumption

\* Lists and the receipts on them.
LEMMA ListFields ==
    /\ NoList \in Lists /\ On(NoList) = {}
    /\ \A l \in Lists : On(l) \subseteq Nums /\ \A n \in Nums : n \in On(l) <=> l[n] # None
    /\ \A l \in Lists : \A n \in On(l) : l[n] \in Scs
BY DEF NoList, Lists, On

\* A job that has just begun.
LEMMA NewJobFields ==
    /\ NewJob \in Jobs
    /\ NewJob.d = 0 /\ NewJob.rev = 0 /\ NewJob.was = NoList /\ NewJob.wasDay = 0
    /\ NewJob.missing = {} /\ NewJob.list = NoList /\ NewJob.edited = {} /\ NewJob.todo = {}
<1>1. NoList \in Lists
  BY ListFields
<1>2. [n \in Nums |-> {}] \in [Nums -> SUBSET Scs]
  OBVIOUS
<1> QED
  BY <1>1, <1>2, Bounds DEF NewJob, Jobs

\* What a save has at hand once the header is written.
LEMMA WriteJobFields ==
    ASSUME NEW d \in Dels, NEW l \in Lists, NEW t \in Days \union {0}, NEW k \in Lists,
           NEW pb \in SUBSET Nums, NEW todo \in SUBSET Nums
    PROVE  LET j == [NewJob EXCEPT !.d = d, !.was = l, !.wasDay = t, !.list = k,
                                   !.problem = pb, !.todo = todo]
           IN  /\ j \in Jobs /\ j.d = d /\ j.was = l /\ j.wasDay = t /\ j.list = k
               /\ j.problem = pb /\ j.todo = todo
<1>1. d \in 0..MaxDel
  BY Bounds DEF Dels
<1>2. NewJob \in Jobs
  BY NewJobFields
<1> QED
  BY <1>1, <1>2 DEF Jobs

\* What a deletion has at hand.
LEMMA DeleteJobFields ==
    ASSUME NEW d \in Dels
    PROVE  LET j == [NewJob EXCEPT !.d = d] IN j \in Jobs /\ j.d = d
<1>1. d \in 0..MaxDel
  BY Bounds DEF Dels
<1>2. NewJob \in Jobs
  BY NewJobFields
<1> QED
  BY <1>1, <1>2 DEF Jobs

\* Rows that are written are rows.
LEMMA PutFields ==
    ASSUME NEW r \in Rows \union {None}, NEW j \in Jobs, NEW n \in Nums, j.list[n] \in Scs
    PROVE  /\ Put(r, j, n) \in Rows /\ Put(r, j, n) # None
           /\ Put(r, j, n).sc = j.list[n]
           /\ r # None /\ r.marked => Put(r, j, n).marked
           /\ ~Put(r, j, n).excluded => IF r = None THEN n \notin j.known ELSE ~r.excluded
<1> DEFINE m == n \in j.problem \/ (r # None /\ r.marked)
           x == IF r = None THEN n \in j.known ELSE r.excluded
<1>1. m \in BOOLEAN
  OBVIOUS
<1>2. x \in BOOLEAN
  <2>1. CASE r = None
    BY <2>1
  <2>2. CASE r # None
    BY <2>2, RowFields
  <2> QED
    BY <2>1, <2>2
<1>3. Put(r, j, n) = [sc |-> j.list[n], marked |-> m, excluded |-> x]
  BY DEF Put
<1> HIDE DEF m, x
<1>4. Put(r, j, n) \in Rows
  BY <1>1, <1>2, <1>3 DEF Rows
<1>5. /\ Put(r, j, n).sc = j.list[n] /\ Put(r, j, n).marked = m /\ Put(r, j, n).excluded = x
  BY <1>3
<1>6. r # None /\ r.marked => m
  BY DEF m
<1>7. ~x => IF r = None THEN n \notin j.known ELSE ~r.excluded
  BY DEF x
<1> QED
  BY <1>4, <1>5, <1>6, <1>7, RowFields

----------------------------------------------------------------------------
(* The parts of the type invariant and of the properties.                  *)

LogTyped ==
    /\ head \in [Dels -> Headers \union {None}]
    /\ rows \in [Dels -> [Nums -> Rows \union {None}]]
    /\ lastId \in 0..MaxDel
    /\ tear \in [Dels -> {"whole", "torn", "mended", "mixed"}]

SchedTyped ==
    /\ stage \in [Scs -> {"none", "pending", "accepted", "cancelling", "gone"}]
    /\ day \in [Scs -> Days \union {0}] /\ wish \in [Scs -> Days \union {0}]
    /\ partial \in [Scs -> BOOLEAN] /\ completed \subseteq Scs

JobTyped ==
    /\ pc \in [Workers -> Steps]
    /\ job \in [Workers -> Jobs \union {None}]
    /\ \A w \in Workers : pc[w] = "idle" <=> job[w] = None

\* TypeOK is the types of the log, of the schedule and of the jobs.
LEMMA TypeParts == TypeOK <=> LogTyped /\ SchedTyped /\ JobTyped /\ crashes \in 0..MaxCrash
BY DEF TypeOK, LogTyped, SchedTyped, JobTyped, Steps

\* The same after a step.
LEMMA TypePartsPrime ==
    TypeOK' <=> LogTyped' /\ SchedTyped' /\ JobTyped' /\ crashes' \in 0..MaxCrash
BY DEF TypeOK, LogTyped, SchedTyped, JobTyped, Steps

\* RowsMatch and MissingRestored of one delivery.
Matches(h, r) ==
    IF h = None THEN r = NoRows
    ELSE \A n \in Nums : IF h.list[n] = None THEN r[n] = None
                         ELSE r[n] # None /\ r[n].sc = h.list[n]

Restored(h, r) == h # None => \A n \in On(h.list) : r[n] # None

\* RowsMatch and MissingRestored speak of one delivery at a time.
LEMMA MatchParts ==
    /\ RowsMatch <=> \A d \in Dels : Settled(d) => Matches(head[d], rows[d])
    /\ MissingRestored <=>
          \A d \in Dels : tear[d] = "mended" /\ Quiet(d) => Restored(head[d], rows[d])
BY DEF RowsMatch, MissingRestored, Matches, Restored

\* The same after a step.
LEMMA MatchPartsPrime ==
    /\ RowsMatch' <=> \A d \in Dels : Settled(d)' => Matches(head'[d], rows'[d])
    /\ MissingRestored' <=>
          \A d \in Dels : tear'[d] = "mended" /\ Quiet(d)' => Restored(head'[d], rows'[d])
BY DEF RowsMatch, MissingRestored, Matches, Restored

----------------------------------------------------------------------------
(* Steps of one worker.                                                    *)

Writers == {"known", "put", "delhead"}

\* A request that ends moves to nothing.
LEMMA FinishGoes == ASSUME NEW w \in Workers PROVE Finish(w) <=> GoTo(w, "idle", None)
BY DEF Finish, GoTo

\* A step of w moves w alone.
LEMMA WorkerMoves ==
    ASSUME JobTyped, NEW w \in Workers, NEW p \in Steps, NEW j \in Jobs \union {None},
           p = "idle" <=> j = None, GoTo(w, p, j)
    PROVE  /\ JobTyped'
           /\ pc'[w] = p /\ job'[w] = j
           /\ \A v \in Workers \ {w} : pc'[v] = pc[v] /\ job'[v] = job[v]
BY DEF JobTyped, GoTo

\* A step of w changes whether w writes, and nobody else.
LEMMA WritersMove ==
    ASSUME JobTyped, NEW w \in Workers, NEW p \in Steps, NEW j \in Jobs \union {None},
           p = "idle" <=> j = None, GoTo(w, p, j)
    PROVE  /\ \A d \in Dels : Writing(w, d)' <=> p \in Writers /\ j.d = d
           /\ \A d \in Dels : Writing(w, d) <=> pc[w] \in Writers /\ job[w].d = d
           /\ \A v \in Workers \ {w}, d \in Dels : Writing(v, d)' <=> Writing(v, d)
BY WorkerMoves DEF Writing, Writers

\* A step that writes nothing, of a worker that is not deleting.
LEMMA LocalStep ==
    ASSUME IInv, NEW w \in Workers, NEW p \in Steps, NEW j \in Jobs \union {None},
           p = "idle" <=> j = None, GoTo(w, p, j),
           UNCHANGED <<logVars, schedVars, histVars>>,
           pc[w] # "delhead", p # "delhead",
           pc[w] \in Writers <=> p \in Writers, p \in Writers => j.d = job[w].d,
           Aware(p, j, head, lastId), Present(p, j, head, rows, tear, Deleting),
           Saved(p, j, head, rows, lastId, tear)
    PROVE  IInv'
<1>1. TypeOK /\ LogTyped /\ SchedTyped /\ JobTyped
  BY TypeParts DEF IInv
<1>2. /\ JobTyped' /\ pc'[w] = p /\ job'[w] = j
      /\ \A v \in Workers \ {w} : pc'[v] = pc[v] /\ job'[v] = job[v]
  BY <1>1, WorkerMoves
<1>3. \A d \in Dels, v \in Workers : Writing(v, d)' <=> Writing(v, d)
  BY <1>1, WritersMove
<1>4. /\ head' = head /\ rows' = rows /\ lastId' = lastId /\ tear' = tear /\ crashes' = crashes
      /\ stage' = stage /\ day' = day /\ wish' = wish
      /\ partial' = partial /\ completed' = completed
  BY DEF logVars, schedVars, histVars
<1>5. TypeOK'
  BY <1>2, <1>4, <1>1, TypeParts, TypePartsPrime DEF LogTyped, SchedTyped
<1>6. Deleting' = Deleting
  <2>1. pc'[w] # "delhead" /\ pc[w] # "delhead"
    BY <1>2
  <2> QED
    BY <2>1, <1>2 DEF Deleting
<1>7. FreshOk' /\ AloneOk'
  BY <1>3, <1>4 DEF IInv, FreshOk, AloneOk
<1>8. AwareOk' /\ PresentOk' /\ SavedOk'
  <2>1. ASSUME NEW v \in Workers
        PROVE  /\ Aware(pc'[v], job'[v], head, lastId)
               /\ Present(pc'[v], job'[v], head, rows, tear, Deleting)
               /\ Saved(pc'[v], job'[v], head, rows, lastId, tear)
    <3>1. CASE v = w
      BY <3>1, <1>2
    <3>2. CASE v # w
      BY <3>2, <1>2 DEF IInv, AwareOk, PresentOk, SavedOk
    <3> QED
      BY <3>1, <3>2
  <2> QED
    BY <2>1, <1>4, <1>6 DEF AwareOk, PresentOk, SavedOk
<1>9. DeletedOk'
  <2>1. ASSUME NEW v \in Workers
        PROVE  Deleted(pc'[v], job'[v], rows, lastId, tear)
    <3>1. CASE v = w
      BY <3>1, <1>2 DEF Deleted
    <3>2. CASE v # w
      BY <3>2, <1>2 DEF IInv, DeletedOk
    <3> QED
      BY <3>1, <3>2
  <2> QED
    BY <2>1, <1>4 DEF DeletedOk
<1>10. RowsMatch' /\ MissingRestored'
  <2>1. \A d \in Dels : Quiet(d)' <=> Quiet(d)
    BY <1>3 DEF Quiet
  <2> QED
    BY <2>1, <1>4, MatchParts, MatchPartsPrime DEF IInv, Settled
<1> QED
  BY <1>5, <1>7, <1>8, <1>9, <1>10 DEF IInv

\* A step that writes to delivery d alone, of a worker that was writing or is now.
LEMMA WriteStep ==
    ASSUME IInv, NEW w \in Workers, NEW p \in Steps, NEW j \in Jobs \union {None},
           p = "idle" <=> j = None, GoTo(w, p, j), UNCHANGED schedVars,
           LogTyped', crashes' \in 0..MaxCrash,
           NEW d \in Dels, lastId <= lastId', d <= lastId',
           \A e \in Dels \ {d} : head'[e] = head[e] /\ rows'[e] = rows[e] /\ tear'[e] = tear[e],
           pc[w] \in Writers => job[w].d = d,
           p \in Writers \union {"idle"}, p \in Writers => j.d = d,
           tear[d] = "mixed" => tear'[d] = "mixed",
           Shared(w, d) => tear'[d] = "mixed",
           \/ head'[d] = head[d] \/ head'[d] = None \/ lastId < d
           \/ head[d] # None /\ head[d].rev < head'[d].rev,
           head'[d] = head[d] /\ head[d] # None /\ tear'[d] # "mixed" /\ p # "delhead" =>
              \A n \in On(head[d].list) : rows[d][n] # None => rows'[d][n] # None,
           pc[w] = "delhead" => head'[d] = None \/ tear'[d] = "mixed",
           Saved(p, j, head', rows', lastId', tear'),
           Deleted(p, j, rows', lastId', tear'),
           p = "idle" /\ tear'[d] = "whole" => Matches(head'[d], rows'[d]),
           p = "idle" /\ tear'[d] = "mended" => Restored(head'[d], rows'[d])
    PROVE  IInv'
<1>1. TypeOK /\ LogTyped /\ SchedTyped /\ JobTyped
  BY TypeParts DEF IInv
<1>2. /\ JobTyped' /\ pc'[w] = p /\ job'[w] = j
      /\ \A v \in Workers \ {w} : pc'[v] = pc[v] /\ job'[v] = job[v]
  BY <1>1, WorkerMoves
<1>3. /\ \A e \in Dels : Writing(w, e)' <=> p \in Writers /\ j.d = e
      /\ \A e \in Dels : Writing(w, e) <=> pc[w] \in Writers /\ job[w].d = e
      /\ \A v \in Workers \ {w}, e \in Dels : Writing(v, e)' <=> Writing(v, e)
  BY <1>1, WritersMove
<1>4. /\ lastId \in 0..MaxDel /\ lastId' \in 0..MaxDel /\ MaxDel \in Nat
      /\ \A e \in Dels : e \in Nat /\ e # 0 /\ e \in 1..MaxDel
  BY <1>1, Bounds DEF LogTyped, Dels
<1>5. TypeOK'
  BY <1>2, <1>1, TypeParts, TypePartsPrime DEF SchedTyped, schedVars
<1>6. FreshOk'
  BY <1>4 DEF IInv, FreshOk
<1>7. AloneOk'
  <2> SUFFICES ASSUME NEW e \in Dels, NEW u \in Workers, NEW v \in Workers,
                      tear'[e] # "mixed", Writing(u, e)', Writing(v, e)'
               PROVE  u = v
    BY DEF AloneOk
  <2>1. CASE e # d
    <3>1. u # w /\ v # w
      BY <2>1, <1>3
    <3> QED
      BY <3>1, <2>1, <1>3 DEF IInv, AloneOk
  <2>2. CASE e = d
    BY <2>2, <1>3 DEF Shared
  <2> QED
    BY <2>1, <2>2
\* Another worker that is writing to d has spoilt it.
<1>8. ASSUME NEW v \in Workers \ {w}, pc[v] \in Writers, job[v].d = d
      PROVE  tear'[d] = "mixed"
  <2>1. Writing(v, d)
    BY <1>8 DEF Writing, Writers
  <2> QED
    BY <2>1 DEF Shared
<1>9. \A v \in Workers : pc[v] \in Steps /\ job[v] \in Jobs \union {None}
  BY <1>1 DEF JobTyped
<1>10. \A v \in Workers : pc[v] # "idle" => job[v] \in Jobs /\ job[v].d \in 0..MaxDel /\ job[v].rev \in Nat
  BY <1>1, <1>9, JobFields, Bounds DEF JobTyped
<1>11. /\ \A e \in Dels : head[e] # None => head[e] \in Headers /\ head[e].rev \in Nat
       /\ \A e \in Dels : head'[e] # None => head'[e] \in Headers /\ head'[e].rev \in Nat
  BY <1>1, HeaderFields, Bounds DEF LogTyped
<1>12. \A x \in 0..MaxDel : x # 0 => x \in Dels
  BY <1>4 DEF Dels
<1>13. AwareOk'
  <2> SUFFICES ASSUME NEW v \in Workers PROVE Aware(pc'[v], job'[v], head', lastId')
    BY DEF AwareOk
  <2>1. CASE v = w
    BY <2>1, <1>2 DEF Aware, Writers
  <2>2. CASE v # w
    <3> SUFFICES ASSUME pc[v] \in {"open", "page", "find", "check"}
                 PROVE  Aware(pc[v], job[v], head', lastId')
      BY <2>2, <1>2 DEF Aware
    <3>1. Aware(pc[v], job[v], head, lastId)
      BY DEF IInv, AwareOk
    <3>2. job[v] \in Jobs /\ job[v].d \in 0..MaxDel /\ job[v].rev \in Nat
      BY <1>10
    <3>3. job[v].d <= lastId /\ job[v].d <= lastId'
      BY <3>1, <3>2, <1>4 DEF Aware
    <3>4. CASE job[v].d # d \/ head'[d] = head[d]
      <4>1. job[v].d # 0 => head'[job[v].d] = head[job[v].d]
        BY <3>4, <3>2, <1>12
      <4> QED
        BY <4>1, <3>1, <3>3 DEF Aware
    <3>5. CASE job[v].d = d /\ head'[d] = None
      BY <3>5, <3>1, <3>3 DEF Aware
    <3>6. CASE job[v].d = d /\ head'[d] # None /\ head[d] # None /\ head[d].rev < head'[d].rev
      <4>1. job[v].rev <= head[d].rev
        BY <3>6, <3>1, <1>4 DEF Aware
      <4>2. job[v].rev < head'[d].rev
        BY <4>1, <3>6, <3>2, <1>11
      <4>3. job[v].rev <= head'[d].rev /\ job[v].rev # head'[d].rev
        BY <4>2, <3>2, <3>6, <1>11
      <4> QED
        BY <4>3, <3>6, <3>1, <3>3 DEF Aware
    <3> QED
      BY <3>3, <3>4, <3>5, <3>6, <1>4
  <2> QED
    BY <2>1, <2>2
<1>14. PresentOk'
  <2> SUFFICES ASSUME NEW v \in Workers,
                      pc'[v] \in {"page", "find", "check"}, job'[v].d # 0,
                      head'[job'[v].d] # None, head'[job'[v].d].rev = job'[v].rev,
                      tear'[job'[v].d] # "mixed", job'[v].d \notin Deleting',
                      NEW n \in On(job'[v].was)
               PROVE  n \in Unseen(pc'[v], job'[v]) \/ rows'[job'[v].d][n] # None
    BY DEF PresentOk, Present
  <2>1. v # w
    BY <1>2 DEF Writers
  <2>2. pc'[v] = pc[v] /\ job'[v] = job[v]
    BY <2>1, <1>2
  <2>3. job[v].d \in Dels /\ job[v].d <= lastId /\ job[v].d \notin Deleting' /\ job[v].rev \in Nat
    BY <2>2, <1>10, <1>12 DEF IInv, AwareOk, Aware
  <2>4. CASE job[v].d # d
    <3>1. job[v].d \notin Deleting
      <4>1. ASSUME NEW u \in Workers, pc[u] = "delhead", job[u].d = job[v].d PROVE FALSE
        <5>1. u # w
          BY <4>1, <2>4 DEF Writers
        <5> QED
          BY <5>1, <4>1, <1>2, <2>3 DEF Deleting
      <4> QED
        BY <4>1 DEF Deleting
    <3>2. /\ head'[job[v].d] = head[job[v].d] /\ rows'[job[v].d] = rows[job[v].d]
          /\ tear'[job[v].d] = tear[job[v].d]
      BY <2>3, <2>4
    <3> QED
      BY <3>1, <3>2, <2>2 DEF IInv, PresentOk, Present
  <2>5. CASE job[v].d = d
    <3>1. head[d] # None /\ head'[d] = head[d]
      <4>1. head[d] # None /\ head[d].rev < head'[d].rev => FALSE
        <5> SUFFICES ASSUME head[d] # None, head[d].rev < head'[d].rev PROVE FALSE
          OBVIOUS
        <5>1. job[v].rev <= head[d].rev
          BY <2>2, <2>5, <1>4 DEF IInv, AwareOk, Aware
        <5> QED
          BY <5>1, <2>2, <2>3, <2>5, <1>11
      <4>2. ~(lastId < d)
        BY <2>3, <2>5, <1>4
      <4> QED
        BY <4>1, <4>2, <2>2, <2>5
    <3>2. d \notin Deleting
      <4>1. ASSUME NEW u \in Workers, pc[u] = "delhead", job[u].d = d PROVE FALSE
        <5>1. u # w
          BY <4>1, <2>2, <2>5
        <5> QED
          BY <5>1, <4>1, <1>2, <2>3, <2>5 DEF Deleting
      <4> QED
        BY <4>1 DEF Deleting
    <3>3. tear[d] # "mixed" /\ tear'[d] # "mixed"
      BY <2>2, <2>5
    <3>4. job[v].was = head[d].list
      BY <3>1, <2>2, <2>3, <2>5 DEF IInv, AwareOk, Aware
    <3>5. n \in Unseen(pc[v], job[v]) \/ rows[d][n] # None
      BY <3>1, <3>2, <3>3, <2>2, <2>5 DEF IInv, PresentOk, Present
    <3>6. p # "delhead"
      BY <1>2, <2>3, <2>5 DEF Deleting, Writers
    <3>7. n \in On(head[d].list)
      BY <3>4, <2>2
    <3> QED
      BY <3>1, <3>3, <3>5, <3>6, <3>7, <2>2, <2>5
  <2> QED
    BY <2>4, <2>5
<1>15. SavedOk'
  <2> SUFFICES ASSUME NEW v \in Workers PROVE Saved(pc'[v], job'[v], head', rows', lastId', tear')
    BY DEF SavedOk
  <2>1. CASE v = w
    BY <2>1, <1>2
  <2>2. CASE v # w
    <3> SUFFICES ASSUME pc[v] \in {"known", "put"}
                 PROVE  Saved(pc[v], job[v], head', rows', lastId', tear')
      BY <2>2, <1>2 DEF Saved
    <3>1. Saved(pc[v], job[v], head, rows, lastId, tear)
      BY DEF IInv, SavedOk
    <3>2. job[v].d \in 1..lastId'
      BY <3>1, <1>4 DEF Saved
    <3>3. CASE job[v].d = d
      <4>1. tear'[d] = "mixed"
        BY <2>2, <3>3, <1>8 DEF Writers
      <4> QED
        BY <4>1, <3>1, <3>2, <3>3 DEF Saved
    <3>4. CASE job[v].d # d
      <4>1. job[v].d \in Dels
        BY <3>2, <1>4 DEF Dels
      <4>2. /\ head'[job[v].d] = head[job[v].d] /\ rows'[job[v].d] = rows[job[v].d]
            /\ tear'[job[v].d] = tear[job[v].d]
        BY <4>1, <3>4
      <4> QED
        BY <4>2, <3>1, <3>2 DEF Saved
    <3> QED
      BY <3>3, <3>4
  <2> QED
    BY <2>1, <2>2
<1>16. DeletedOk'
  <2> SUFFICES ASSUME NEW v \in Workers PROVE Deleted(pc'[v], job'[v], rows', lastId', tear')
    BY DEF DeletedOk
  <2>1. CASE v = w
    BY <2>1, <1>2
  <2>2. CASE v # w
    <3> SUFFICES ASSUME pc[v] = "delhead"
                 PROVE  Deleted(pc[v], job[v], rows', lastId', tear')
      BY <2>2, <1>2 DEF Deleted
    <3>1. Deleted(pc[v], job[v], rows, lastId, tear)
      BY DEF IInv, DeletedOk
    <3>2. job[v].d \in 1..lastId'
      BY <3>1, <1>4 DEF Deleted
    <3>3. CASE job[v].d = d
      <4>1. tear'[d] = "mixed"
        BY <2>2, <3>3, <1>8 DEF Writers
      <4> QED
        BY <4>1, <3>2, <3>3 DEF Deleted
    <3>4. CASE job[v].d # d
      <4>1. job[v].d \in Dels
        BY <3>2, <1>4 DEF Dels
      <4>2. rows'[job[v].d] = rows[job[v].d] /\ tear'[job[v].d] = tear[job[v].d]
        BY <4>1, <3>4
      <4> QED
        BY <4>2, <3>1, <3>2 DEF Deleted
    <3> QED
      BY <3>3, <3>4
  <2> QED
    BY <2>1, <2>2
<1>17. RowsMatch' /\ MissingRestored'
  <2> SUFFICES ASSUME NEW e \in Dels, Quiet(e)'
               PROVE  /\ tear'[e] = "whole" => Matches(head'[e], rows'[e])
                      /\ tear'[e] = "mended" => Restored(head'[e], rows'[e])
    BY MatchPartsPrime DEF Settled
  <2>1. CASE e # d
    <3>1. Quiet(e)
      BY <2>1, <1>3 DEF Quiet
    <3> QED
      BY <3>1, <2>1, MatchParts DEF IInv, Settled
  <2>2. CASE e = d
    <3>1. p = "idle"
      BY <2>2, <1>3 DEF Quiet
    <3> QED
      BY <3>1, <2>2
  <2> QED
    BY <2>1, <2>2
<1> QED
  BY <1>5, <1>6, <1>7, <1>13, <1>14, <1>15, <1>16, <1>17 DEF IInv

----------------------------------------------------------------------------
(* The invariant holds at first and every action preserves it.             *)

\* An empty log satisfies the invariant.
LEMMA InitIInv == Init => IInv
<1> SUFFICES ASSUME Init PROVE IInv
  OBVIOUS
<1>1. TypeOK
  <2>1. LogTyped
    BY Bounds DEF Init, LogTyped, NoRows, Dels
  <2>2. SchedTyped
    BY DEF Init, SchedTyped, B!Init
  <2>3. JobTyped
    BY JobFields DEF Init, JobTyped, Steps
  <2>4. crashes \in 0..MaxCrash
    BY DeliveryAssumption DEF Init
  <2> QED
    BY <2>1, <2>2, <2>3, <2>4, TypeParts
<1>2. FreshOk /\ AloneOk
  BY DEF Init, FreshOk, AloneOk, Writing
<1>3. AwareOk /\ PresentOk /\ SavedOk /\ DeletedOk
  BY DEF Init, AwareOk, PresentOk, SavedOk, DeletedOk, Aware, Present, Saved, Deleted
<1>4. RowsMatch /\ MissingRestored
  BY DEF Init, RowsMatch, MissingRestored
<1> QED
  BY <1>1, <1>2, <1>3, <1>4 DEF IInv

\* The page of a new delivery has nothing to vouch for.
LEMMA OpenNewKeeps == ASSUME IInv, NEW w \in Workers, OpenNew(w) PROVE IInv'
<1>1. "page" \in Steps /\ "page" # "delhead" /\ "page" \notin Writers /\ pc[w] \notin Writers
  BY DEF OpenNew, Steps, Writers
<1>2. lastId \in Nat
  BY TypeParts, Bounds DEF IInv, LogTyped
<1>3. Aware("page", NewJob, head, lastId)
  BY <1>2, NewJobFields DEF Aware
<1>4. Present("page", NewJob, head, rows, tear, Deleting)
  BY NewJobFields DEF Present
<1>5. Saved("page", NewJob, head, rows, lastId, tear)
  BY DEF Saved
<1>6. NewJob \in Jobs /\ NewJob # None /\ "page" # "idle"
  BY NewJobFields, JobFields
<1>7. GoTo(w, "page", NewJob) /\ UNCHANGED <<logVars, schedVars, histVars>> /\ pc[w] # "delhead"
  BY DEF OpenNew
<1> QED
  BY <1>1, <1>3, <1>4, <1>5, <1>6, <1>7, LocalStep

\* A page shows the header that it reads.
LEMMA OpenKeeps == ASSUME IInv, NEW w \in Workers, NEW d \in Dels, Open(w, d) PROVE IInv'
<1> DEFINE j == [NewJob EXCEPT !.d = d, !.rev = head[d].rev, !.was = head[d].list,
                               !.wasDay = head[d].day]
<1>1. /\ GoTo(w, "open", j) /\ UNCHANGED <<logVars, schedVars, histVars>>
      /\ pc[w] # "delhead" /\ pc[w] \notin Writers
  BY DEF Open, Writers
<1>2. "open" \in Steps /\ "open" # "delhead" /\ "open" # "idle" /\ "open" \notin Writers
  BY DEF Steps, Writers
<1>3. /\ head[d] # None /\ head[d] \in Headers /\ head[d].rev < MaxRev
      /\ head[d].rev \in 0..MaxRev /\ head[d].list \in Lists /\ head[d].day \in Days
  BY TypeParts, HeaderFields DEF IInv, LogTyped, Open
<1>4. /\ j \in Jobs /\ j # None /\ j.d = d /\ j.rev = head[d].rev /\ j.was = head[d].list
      /\ j.wasDay = head[d].day
  <2>1. d \in 0..MaxDel /\ NewJob \in Jobs
    BY Bounds, NewJobFields DEF Dels
  <2>2. /\ j \in Jobs /\ j.d = d /\ j.rev = head[d].rev /\ j.was = head[d].list
        /\ j.wasDay = head[d].day
    BY <2>1, <1>3 DEF Jobs
  <2> QED
    BY <2>2, JobFields
<1> HIDE DEF j
<1>5. lastId \in 0..MaxDel /\ d \in Nat /\ d # 0 /\ MaxRev \in Nat /\ MaxDel \in Nat
  BY TypeParts, Bounds DEF IInv, LogTyped, Dels
<1>6. d <= lastId
  BY <1>3, <1>5 DEF IInv, FreshOk
<1>7. Aware("open", j, head, lastId)
  BY <1>3, <1>4, <1>5, <1>6 DEF Aware
<1>8. Present("open", j, head, rows, tear, Deleting) /\ Saved("open", j, head, rows, lastId, tear)
  BY DEF Present, Saved
<1> QED
  BY <1>1, <1>2, <1>4, <1>7, <1>8, LocalStep

\* A page names the rows that it does not find.
LEMMA LoadRowsKeeps == ASSUME IInv, NEW w \in Workers, LoadRows(w) PROVE IInv'
<1> DEFINE k == job[w]
           m == {n \in On(k.was) : rows[k.d][n] = None}
           j == [k EXCEPT !.missing = m]
<1>1. /\ pc[w] = "open" /\ GoTo(w, "page", j) /\ UNCHANGED <<logVars, schedVars, histVars>>
      /\ pc[w] # "delhead" /\ pc[w] \notin Writers
  BY DEF LoadRows, Writers
<1>2. "page" \in Steps /\ "page" # "delhead" /\ "page" # "idle" /\ "page" \notin Writers
  BY DEF Steps, Writers
<1>3. k \in Jobs /\ Aware("open", k, head, lastId)
  BY <1>1, TypeParts DEF IInv, JobTyped, AwareOk
<1>4. m \subseteq Nums
  BY <1>3, JobFields, ListFields
<1> HIDE DEF k, m
<1>5. /\ j \in Jobs /\ j.d = k.d /\ j.rev = k.rev /\ j.was = k.was /\ j.wasDay = k.wasDay
      /\ j.missing = m
  BY <1>3, <1>4 DEF Jobs
<1> HIDE DEF j
<1>6. Aware("page", j, head, lastId)
  BY <1>3, <1>5 DEF Aware
<1>7. Present("page", j, head, rows, tear, Deleting)
  BY <1>5 DEF Present, Unseen, m
<1>8. Saved("page", j, head, rows, lastId, tear)
  BY DEF Saved
<1>9. j # None
  BY <1>5, JobFields
<1> QED
  BY <1>1, <1>2, <1>5, <1>6, <1>7, <1>8, <1>9, LocalStep

\* A request that ends without having written.
LEMMA EndKeeps ==
    ASSUME IInv, NEW w \in Workers, pc[w] \in {"page", "find", "check"}, Finish(w),
           UNCHANGED <<logVars, schedVars, histVars>>
    PROVE  IInv'
<1>1. "idle" \in Steps /\ "idle" \notin Writers /\ pc[w] \notin Writers /\ pc[w] # "delhead"
  BY DEF Steps, Writers
<1>2. /\ Aware("idle", None, head, lastId) /\ Present("idle", None, head, rows, tear, Deleting)
      /\ Saved("idle", None, head, rows, lastId, tear)
  BY DEF Aware, Present, Saved
<1> QED
  BY <1>1, <1>2, FinishGoes, LocalStep

\* A row that was missing is edited or taken off the list.
LEMMA SubmitKeeps ==
    ASSUME IInv, NEW w \in Workers, NEW l \in Lists, NEW t \in Days,
           NEW edited \in SUBSET Nums, NEW problem \in SUBSET Nums,
           Submit(w, l, t, edited, problem)
    PROVE  IInv'
<1> DEFINE k == job[w]
           j == [k EXCEPT !.list = l, !.day = t, !.edited = edited, !.problem = problem,
                          !.missing = {}]
<1>1. /\ pc[w] = "page" /\ UNCHANGED <<logVars, schedVars, histVars>>
      /\ k.missing \intersect On(l) \subseteq edited
      /\ GoTo(w, "find", j) \/ Finish(w)
  BY DEF Submit
<1>2. CASE Finish(w)
  BY <1>1, <1>2, EndKeeps
<1>3. CASE GoTo(w, "find", j)
  <2>1. /\ "find" \in Steps /\ "find" # "delhead" /\ "find" # "idle" /\ "find" \notin Writers
        /\ pc[w] \notin Writers /\ pc[w] # "delhead"
    BY <1>1 DEF Steps, Writers
  <2>2. /\ k \in Jobs /\ Aware("page", k, head, lastId)
        /\ Present("page", k, head, rows, tear, Deleting)
    BY <1>1, TypeParts DEF IInv, JobTyped, AwareOk, PresentOk
  <2> HIDE DEF k
  <2>3. /\ j \in Jobs /\ j.d = k.d /\ j.rev = k.rev /\ j.was = k.was /\ j.wasDay = k.wasDay
        /\ j.list = l /\ j.day = t /\ j.edited = edited
    BY <2>2 DEF Jobs
  <2> HIDE DEF j
  <2>4. Aware("find", j, head, lastId)
    BY <2>2, <2>3 DEF Aware
  <2>5. \A n \in k.missing : n \in Nums /\ n \in Unseen("find", j)
    BY <1>1, <2>2, <2>3, JobFields, ListFields DEF Unseen
  <2>6. Present("find", j, head, rows, tear, Deleting)
    <3>1. \A n : n \in Unseen("page", k) => n \in Unseen("find", j)
      BY <2>5 DEF Unseen
    <3> QED
      BY <3>1, <2>2, <2>3 DEF Present
  <2>7. Saved("find", j, head, rows, lastId, tear)
    BY DEF Saved
  <2>8. j # None
    BY <2>3, JobFields
  <2> QED
    BY <1>1, <1>3, <2>1, <2>3, <2>4, <2>6, <2>7, <2>8, LocalStep
<1> QED
  BY <1>1, <1>2, <1>3

\* Looking up the schedule records writes nothing.
LEMMA FindScsKeeps == ASSUME IInv, NEW w \in Workers, FindScs(w) PROVE IInv'
<1> DEFINE k == job[w]
           f == [n \in Nums |-> {s \in ScsOf[n] : Exists(s) /\ day[s] = k.day}]
           j == [k EXCEPT !.found = f, !.todo = On(k.list)]
<1>1. /\ pc[w] = "find" /\ GoTo(w, "check", j) /\ UNCHANGED <<logVars, schedVars, histVars>>
      /\ pc[w] # "delhead" /\ pc[w] \notin Writers
  BY DEF FindScs, Writers
<1>2. "check" \in Steps /\ "check" # "delhead" /\ "check" # "idle" /\ "check" \notin Writers
  BY DEF Steps, Writers
<1>3. /\ k \in Jobs /\ Aware("find", k, head, lastId)
      /\ Present("find", k, head, rows, tear, Deleting)
  BY <1>1, TypeParts DEF IInv, JobTyped, AwareOk, PresentOk
<1>4. f \in [Nums -> SUBSET Scs] /\ On(k.list) \in SUBSET Nums
  BY <1>3, JobFields, ListFields, DeliveryAssumption
<1> HIDE DEF k, f
<1>5. /\ j \in Jobs /\ j.d = k.d /\ j.rev = k.rev /\ j.was = k.was /\ j.wasDay = k.wasDay
      /\ j.list = k.list /\ j.day = k.day /\ j.edited = k.edited
  BY <1>3, <1>4 DEF Jobs
<1> HIDE DEF j
<1>6. Aware("check", j, head, lastId)
  BY <1>3, <1>5 DEF Aware
<1>7. Present("check", j, head, rows, tear, Deleting)
  BY <1>3, <1>5 DEF Present, Unseen
<1>8. Saved("check", j, head, rows, lastId, tear)
  BY DEF Saved
<1>9. j # None
  BY <1>5, JobFields
<1> QED
  BY <1>1, <1>2, <1>5, <1>6, <1>7, <1>8, <1>9, LocalStep

\* A check passes or ends the request, and writes nothing.
LEMMA CheckOneKeeps ==
    ASSUME IInv, NEW w \in Workers, AskMode(w) \/ \E n \in Nums : CheckOne(w, n) PROVE IInv'
<1> DEFINE k == job[w]
           j(t, a) == [k EXCEPT !.todo = t, !.asks = a]
<1>1. pc[w] = "check" /\ UNCHANGED <<logVars, schedVars, histVars>>
  BY DEF CheckOne, AskMode
<1>2. /\ k \in Jobs /\ Aware("check", k, head, lastId)
      /\ Present("check", k, head, rows, tear, Deleting)
  BY <1>1, TypeParts DEF IInv, JobTyped, AwareOk, PresentOk
<1>3. Finish(w) \/ \E t, a \in SUBSET Nums : GoTo(w, "check", j(t, a))
  <2>1. CASE AskMode(w)
    <3>1. [k EXCEPT !.asks = {}] = j(k.todo, {}) /\ k.todo \in SUBSET Nums
      BY <1>2, JobFields DEF Jobs
    <3> QED
      BY <2>1, <3>1 DEF AskMode
  <2>2. ASSUME NEW n \in Nums, CheckOne(w, n)
        PROVE  Finish(w) \/ \E t, a \in SUBSET Nums : GoTo(w, "check", j(t, a))
    <3>1. k.todo \ {n} \in SUBSET Nums /\ {n} \in SUBSET Nums /\ {} \in SUBSET Nums
      BY <1>2, JobFields
    <3>2. Finish(w) \/ GoTo(w, "check", j(k.todo \ {n}, {n})) \/ GoTo(w, "check", j(k.todo \ {n}, {}))
      BY <2>2 DEF CheckOne
    <3> QED
      BY <3>1, <3>2
  <2> QED
    BY <2>1, <2>2
<1>4. CASE Finish(w)
  BY <1>1, <1>4, EndKeeps
<1>5. ASSUME NEW t \in SUBSET Nums, NEW a \in SUBSET Nums, GoTo(w, "check", j(t, a)) PROVE IInv'
  <2>1. /\ "check" \in Steps /\ "check" # "delhead" /\ "check" # "idle" /\ "check" \notin Writers
        /\ pc[w] \notin Writers /\ pc[w] # "delhead"
    BY <1>1 DEF Steps, Writers
  <2> HIDE DEF k
  <2> DEFINE i == j(t, a)
  <2>3. /\ i \in Jobs /\ i.d = k.d /\ i.rev = k.rev /\ i.was = k.was /\ i.wasDay = k.wasDay
        /\ i.list = k.list /\ i.day = k.day /\ i.edited = k.edited
    BY <1>2 DEF Jobs
  <2>8. GoTo(w, "check", i)
    BY <1>5
  <2> HIDE DEF i
  <2>4. Aware("check", i, head, lastId)
    BY <1>2, <2>3 DEF Aware
  <2>5. Present("check", i, head, rows, tear, Deleting)
    BY <1>2, <2>3 DEF Present, Unseen
  <2>6. Saved("check", i, head, rows, lastId, tear)
    BY DEF Saved
  <2>7. i # None
    BY <2>3, JobFields
  <2> QED
    BY <1>1, <2>1, <2>3, <2>4, <2>5, <2>6, <2>7, <2>8, LocalStep
<1> QED
  BY <1>3, <1>4, <1>5

\* Asking which receipts are elsewhere writes nothing.
LEMMA KnownKeeps == ASSUME IInv, NEW w \in Workers, Known(w) PROVE IInv'
<1> DEFINE k == job[w]
           m == {n \in k.todo : Elsewhere(k, n)}
           j == [k EXCEPT !.known = m]
<1>1. /\ pc[w] = "known" /\ GoTo(w, "put", j) /\ UNCHANGED <<logVars, schedVars, histVars>>
      /\ pc[w] # "delhead" /\ pc[w] \in Writers
  BY DEF Known, Writers
<1>2. "put" \in Steps /\ "put" # "delhead" /\ "put" # "idle" /\ "put" \in Writers
  BY DEF Steps, Writers
<1>3. k \in Jobs /\ Saved("known", k, head, rows, lastId, tear)
  BY <1>1, TypeParts DEF IInv, JobTyped, SavedOk
<1>4. m \in SUBSET Nums
  BY <1>3, JobFields
<1> HIDE DEF m
<1>5. j \in Jobs /\ j.d = k.d /\ j.was = k.was /\ j.list = k.list /\ j.todo = k.todo
  BY <1>3, <1>4 DEF Jobs
<1> HIDE DEF j
<1>6. Aware("put", j, head, lastId) /\ Present("put", j, head, rows, tear, Deleting)
  BY DEF Aware, Present
<1>7. Saved("put", j, head, rows, lastId, tear)
  BY <1>3, <1>5 DEF Saved
<1>8. j # None
  BY <1>5, JobFields
<1> QED
  BY <1>1, <1>2, <1>5, <1>6, <1>7, <1>8, LocalStep

\* Nobody writes to what is not created yet.
LEMMA NotYetWritten ==
    ASSUME IInv, NEW v \in Workers, NEW d \in Dels, Writing(v, d)
    PROVE  d <= lastId
BY Bounds, TypeParts DEF IInv, LogTyped, Writing, SavedOk, DeletedOk, Saved, Deleted

\* The job of a save after its header is written.
AfterHead(j, d) == [NewJob EXCEPT !.d = d, !.was = j.was, !.wasDay = j.wasDay, !.list = j.list,
                                  !.problem = j.problem, !.todo = ToWrite(j)]

\* The fields of that job.
LEMMA AfterHeadFields ==
    ASSUME NEW k \in Jobs, NEW d \in Dels
    PROVE  LET j == AfterHead(k, d)
           IN  /\ j \in Jobs /\ j # None /\ j.d = d /\ j.was = k.was /\ j.wasDay = k.wasDay
               /\ j.list = k.list /\ j.problem = k.problem /\ j.todo = ToWrite(k)
<1>1. /\ k.was \in Lists /\ k.wasDay \in Days \union {0} /\ k.list \in Lists
      /\ k.problem \in SUBSET Nums /\ ToWrite(k) \in SUBSET Nums
  BY JobFields, ListFields DEF ToWrite
<1>2. NewJob \in Jobs /\ d \in 0..MaxDel
  BY NewJobFields, Bounds DEF Dels
<1>3. /\ AfterHead(k, d) \in Jobs /\ AfterHead(k, d).d = d /\ AfterHead(k, d).was = k.was
      /\ AfterHead(k, d).wasDay = k.wasDay /\ AfterHead(k, d).list = k.list
      /\ AfterHead(k, d).problem = k.problem /\ AfterHead(k, d).todo = ToWrite(k)
  BY <1>1, <1>2 DEF Jobs, AfterHead
<1> QED
  BY <1>3, JobFields

\* The three branches of PutHead.
CreateHead(w) ==
    LET j == job[w]
    IN  /\ pc[w] = "check" /\ j.todo = {} /\ j.asks = {} /\ j.d = 0 /\ lastId < MaxDel
        /\ lastId' = lastId + 1
        /\ head' = [head EXCEPT ![lastId + 1] = [rev |-> 0, day |-> j.day, list |-> j.list]]
        /\ GoTo(w, "known", AfterHead(j, lastId + 1))
        /\ UNCHANGED tear
        /\ UNCHANGED <<rows, schedVars, crashes>>

UpdateHead(w) ==
    LET j == job[w]
    IN  /\ pc[w] = "check" /\ j.todo = {} /\ j.asks = {} /\ j.d # 0 /\ SameRev(j)
        /\ head' = [head EXCEPT ![j.d] = [rev |-> head[j.d].rev + 1, day |-> j.day, list |-> j.list]]
        /\ Begin(w, j.d)
        /\ GoTo(w, "known", AfterHead(j, j.d))
        /\ UNCHANGED lastId
        /\ UNCHANGED <<rows, schedVars, crashes>>

\* PutHead creates, replaces or gives up.
LEMMA PutHeadBranches ==
    ASSUME TypeOK, NEW w \in Workers, PutHead(w)
    PROVE  \/ CreateHead(w) \/ UpdateHead(w)
           \/ /\ pc[w] = "check" /\ Finish(w) /\ UNCHANGED <<logVars, schedVars, histVars>>
<1> DEFINE j == job[w]
<1>1. pc[w] = "check" /\ j.todo = {} /\ j.asks = {} /\ UNCHANGED <<rows, schedVars, crashes>>
  BY DEF PutHead
<1>2. \/ CreateHead(w)
      \/ UpdateHead(w)
      \/ Finish(w) /\ UNCHANGED <<head, lastId, tear>>
  BY DEF PutHead, CreateHead, UpdateHead, AfterHead
<1> QED
  BY <1>1, <1>2 DEF logVars, schedVars, histVars

\* A new delivery has no rows yet and writes all of them.
LEMMA CreateHeadKeeps == ASSUME IInv, NEW w \in Workers, CreateHead(w) PROVE IInv'
<1> DEFINE k == job[w]
           d == lastId + 1
           j == AfterHead(k, d)
<1>1. /\ pc[w] = "check" /\ pc[w] \notin Writers /\ k.d = 0 /\ lastId < MaxDel
      /\ lastId' = d
      /\ head' = [head EXCEPT ![d] = [rev |-> 0, day |-> k.day, list |-> k.list]]
      /\ GoTo(w, "known", j)
      /\ rows' = rows /\ tear' = tear /\ crashes' = crashes /\ UNCHANGED schedVars
  BY DEF CreateHead, Writers
<1>2. lastId \in 0..MaxDel /\ MaxDel \in Nat /\ LogTyped /\ crashes \in 0..MaxCrash
  BY TypeParts, Bounds DEF IInv, LogTyped
<1>3. d \in Dels /\ d \in 1..MaxDel /\ lastId < d /\ lastId <= lastId' /\ d <= lastId'
  BY <1>1, <1>2 DEF Dels
<1>4. k \in Jobs /\ Aware("check", k, head, lastId)
  BY <1>1, TypeParts DEF IInv, JobTyped, AwareOk
<1>5. head[d] = None /\ rows[d] = NoRows /\ tear[d] = "whole"
  BY <1>3 DEF IInv, FreshOk
<1>6. /\ [rev |-> 0, day |-> k.day, list |-> k.list] \in Headers
      /\ k.list \in Lists
  BY <1>4, HeaderFields, JobFields, Bounds DEF Aware
<1> HIDE DEF d
<1>7. /\ head'[d] # None /\ head'[d].list = k.list
      /\ \A e \in Dels \ {d} : head'[e] = head[e]
      /\ head' \in [Dels -> Headers \union {None}]
  BY <1>1, <1>2, <1>3, <1>6, HeaderFields DEF LogTyped
<1>8. LogTyped'
  BY <1>1, <1>2, <1>3, <1>7 DEF LogTyped
<1>9. ~Shared(w, d)
  BY <1>2, <1>3, NotYetWritten DEF Shared
<1>10. /\ j \in Jobs /\ j # None /\ j.d = d /\ j.was = k.was
       /\ j.list = k.list /\ j.todo = ToWrite(k)
  BY <1>3, <1>4, AfterHeadFields
<1>11. ToWrite(k) = On(k.list)
  BY <1>1 DEF ToWrite, Checked, Moved
<1> HIDE DEF j, k
<1>12. Saved("known", j, head', rows', lastId', tear')
  BY <1>1, <1>3, <1>5, <1>7, <1>10, <1>11 DEF Saved, NoRows
<1>13. Deleted("known", j, rows', lastId', tear')
  BY DEF Deleted
<1>14. "known" \in Steps /\ "known" # "idle" /\ "known" # "delhead" /\ "known" \in Writers
  BY DEF Steps, Writers
<1>15. \A e \in Dels \ {d} : rows'[e] = rows[e] /\ tear'[e] = tear[e]
  BY <1>1
<1> QED
  BY <1>1, <1>2, <1>3, <1>5, <1>7, <1>8, <1>9, <1>10, <1>12, <1>13, <1>14, <1>15, WriteStep

\* A save writes the rows that the page does not vouch for.
LEMMA UpdateHeadKeeps == ASSUME IInv, NEW w \in Workers, UpdateHead(w) PROVE IInv'
<1> DEFINE k == job[w]
           d == k.d
           j == AfterHead(k, d)
<1>1. /\ pc[w] = "check" /\ pc[w] \notin Writers /\ d # 0 /\ lastId' = lastId
      /\ head[d] # None /\ head[d].rev = k.rev
      /\ head' = [head EXCEPT ![d] = [rev |-> head[d].rev + 1, day |-> k.day, list |-> k.list]]
      /\ tear' = [tear EXCEPT ![d] = IF Shared(w, d) THEN "mixed" ELSE tear[d]]
      /\ GoTo(w, "known", j)
      /\ rows' = rows /\ crashes' = crashes /\ UNCHANGED schedVars
  BY DEF UpdateHead, Writers, SameRev, Begin
<1>2. /\ lastId \in 0..MaxDel /\ MaxDel \in Nat /\ MaxRev \in Nat /\ LogTyped
      /\ crashes \in 0..MaxCrash
  BY TypeParts, Bounds DEF IInv, LogTyped
<1>3. /\ k \in Jobs /\ Aware("check", k, head, lastId)
      /\ Present("check", k, head, rows, tear, Deleting)
  BY <1>1, TypeParts DEF IInv, JobTyped, AwareOk, PresentOk
<1>4. /\ d \in Dels /\ d \in Nat /\ d <= lastId /\ d \in 1..lastId /\ lastId <= lastId'
  BY <1>1, <1>2, <1>3, JobFields DEF Aware, Dels
<1>5. /\ head[d].rev \in 0..MaxRev /\ head[d].rev < MaxRev /\ head[d].list \in Lists
      /\ k.was = head[d].list /\ k.wasDay = head[d].day /\ k.day \in Days
      /\ k.list \in Lists /\ k.was \in Lists
  BY <1>1, <1>2, <1>3, <1>4, HeaderFields, JobFields DEF Aware, LogTyped
<1> DEFINE h == [rev |-> head[d].rev + 1, day |-> k.day, list |-> k.list]
<1>6. h \in Headers /\ h.rev = head[d].rev + 1 /\ h.list = k.list
  <2>1. head[d].rev + 1 \in 0..MaxRev
    BY <1>2, <1>5
  <2> QED
    BY <2>1, <1>5, HeaderFields
<1>7. /\ head'[d] = h /\ head'[d] # None /\ head'[d].list = k.list
      /\ head[d].rev < head'[d].rev
      /\ \A e \in Dels \ {d} : head'[e] = head[e] /\ tear'[e] = tear[e] /\ rows'[e] = rows[e]
      /\ head' \in [Dels -> Headers \union {None}]
  BY <1>1, <1>2, <1>4, <1>5, <1>6, HeaderFields DEF LogTyped
<1>8. /\ tear'[d] = IF Shared(w, d) THEN "mixed" ELSE tear[d]
      /\ tear' \in [Dels -> {"whole", "torn", "mended", "mixed"}]
  BY <1>1, <1>2, <1>4 DEF LogTyped
<1>9. LogTyped'
  BY <1>1, <1>2, <1>7, <1>8 DEF LogTyped
<1>10. /\ j \in Jobs /\ j # None /\ j.d = d /\ j.was = k.was
       /\ j.list = k.list /\ j.todo = ToWrite(k)
  BY <1>3, <1>4, AfterHeadFields
<1>11. ToWrite(k) \subseteq On(k.list)
  BY DEF ToWrite
\* A receipt that is not written was on the page with its row.
<1>12. ASSUME NEW n \in On(k.list) \ ToWrite(k)
       PROVE  n \in Nums /\ n \in On(k.was) /\ k.was[n] = k.list[n] /\ n \notin Unseen("check", k)
  BY <1>5, <1>12, ListFields DEF ToWrite, Checked, Relinked, Unseen, On
<1>13. tear'[d] # "mixed" => Quiet(d) /\ d \notin Deleting /\ tear[d] = tear'[d]
  <2> SUFFICES ASSUME tear'[d] # "mixed"
               PROVE  Quiet(d) /\ d \notin Deleting /\ tear[d] = tear'[d]
    OBVIOUS
  <2>1. ~Shared(w, d) /\ tear[d] = tear'[d]
    BY <1>8
  <2>2. Quiet(d)
    BY <2>1, <1>1 DEF Quiet, Shared, Writing, Writers
  <2>3. d \notin Deleting
    BY <2>2 DEF Quiet, Writing, Deleting
  <2> QED
    BY <2>1, <2>2, <2>3
<1>14. tear'[d] # "mixed" => \A n \in On(k.list) \ ToWrite(k) : rows[d][n] # None
  BY <1>1, <1>3, <1>12, <1>13 DEF Present
<1>15. tear'[d] = "whole" =>
          \A n \in Nums : /\ n \in On(k.list) \ ToWrite(k) => rows[d][n].sc = k.list[n]
                          /\ n \notin On(k.list) \union On(k.was) => rows[d][n] = None
  <2> SUFFICES ASSUME tear'[d] = "whole", NEW n \in Nums
               PROVE  /\ n \in On(k.list) \ ToWrite(k) => rows[d][n].sc = k.list[n]
                      /\ n \notin On(k.list) \union On(k.was) => rows[d][n] = None
    OBVIOUS
  <2>1. Matches(head[d], rows[d])
    BY <1>4, <1>13, MatchParts DEF IInv, Settled
  <2>2. IF k.was[n] = None THEN rows[d][n] = None ELSE rows[d][n] # None /\ rows[d][n].sc = k.was[n]
    BY <2>1, <1>1, <1>5 DEF Matches
  <2> QED
    BY <2>2, <1>5, <1>12, ListFields
<1> HIDE DEF j, k, d, h
<1>16. Saved("known", j, head', rows', lastId', tear')
  BY <1>1, <1>4, <1>7, <1>10, <1>11, <1>14, <1>15 DEF Saved
<1>17. Deleted("known", j, rows', lastId', tear')
  BY DEF Deleted
<1>18. "known" \in Steps /\ "known" # "idle" /\ "known" # "delhead" /\ "known" \in Writers
  BY DEF Steps, Writers
<1>19. head'[d] # head[d]
  <2>1. head[d].rev \in Nat /\ head'[d].rev = head[d].rev + 1
    BY <1>2, <1>5, <1>6, <1>7
  <2> QED
    BY <2>1
<1>20. (tear[d] = "mixed" => tear'[d] = "mixed") /\ (Shared(w, d) => tear'[d] = "mixed")
  BY <1>8
<1> QED
  BY <1>1, <1>2, <1>4, <1>7, <1>9, <1>10, <1>16, <1>17, <1>18, <1>19, <1>20, WriteStep, ZenonT(40)

\* All branches of PutHead.
LEMMA PutHeadKeeps == ASSUME IInv, NEW w \in Workers, PutHead(w) PROVE IInv'
<1>1. TypeOK
  BY DEF IInv
<1> QED
  BY <1>1, PutHeadBranches, CreateHeadKeeps, UpdateHeadKeeps, EndKeeps

\* A worker that is writing to d is not alone only if d is a mix.
LEMMA SharedMixed ==
    ASSUME IInv, NEW w \in Workers, NEW d \in Dels, Writing(w, d), Shared(w, d)
    PROVE  tear[d] = "mixed"
BY DEF IInv, AloneOk, Shared

\* One row more is as the list says.
LEMMA PutOneKeeps ==
    ASSUME IInv, NEW w \in Workers, NEW n \in Nums, PutOne(w, n) PROVE IInv'
<1> DEFINE k == job[w]
           d == k.d
           r == Put(rows[d][n], k, n)
           j == [k EXCEPT !.todo = k.todo \ {n}]
<1>1. /\ pc[w] = "put" /\ pc[w] \in Writers /\ n \in k.todo
      /\ rows' = [rows EXCEPT ![d][n] = r]
      /\ GoTo(w, "put", j)
      /\ head' = head /\ lastId' = lastId /\ tear' = tear /\ crashes' = crashes
      /\ UNCHANGED schedVars
  BY DEF PutOne, Writers, histVars
<1>2. lastId \in 0..MaxDel /\ MaxDel \in Nat /\ LogTyped /\ crashes \in 0..MaxCrash
  BY TypeParts, Bounds DEF IInv, LogTyped
<1>3. k \in Jobs /\ Saved("put", k, head, rows, lastId, tear)
  BY <1>1, TypeParts DEF IInv, JobTyped, SavedOk
<1>4. d \in Dels /\ d \in 1..lastId /\ d <= lastId' /\ lastId <= lastId'
  BY <1>1, <1>2, <1>3 DEF Saved, Dels
<1>5. k.list \in Lists /\ n \in On(k.list) /\ k.list[n] \in Scs /\ k.todo \subseteq On(k.list)
  BY <1>1, <1>3, JobFields, ListFields DEF Saved
<1>6. r \in Rows /\ r # None /\ r.sc = k.list[n]
  <2>1. rows[d][n] \in Rows \union {None}
    BY <1>2, <1>4 DEF LogTyped
  <2> HIDE DEF k, d
  <2> QED
    BY <2>1, <1>3, <1>5, PutFields
<1> HIDE DEF r
<1>7. /\ rows'[d][n] = r
      /\ \A m \in Nums \ {n} : rows'[d][m] = rows[d][m]
      /\ \A e \in Dels \ {d} : rows'[e] = rows[e] /\ head'[e] = head[e] /\ tear'[e] = tear[e]
      /\ rows' \in [Dels -> [Nums -> Rows \union {None}]]
  BY <1>1, <1>2, <1>4, <1>6 DEF LogTyped
<1>8. LogTyped'
  BY <1>1, <1>2, <1>7 DEF LogTyped
<1>9. Shared(w, d) => tear'[d] = "mixed"
  <2>1. Writing(w, d)
    BY <1>1 DEF Writing, Writers
  <2> QED
    BY <2>1, <1>1, <1>4, SharedMixed
<1> HIDE DEF k
<1>10. k.todo \ {n} \in SUBSET Nums
  BY <1>3, JobFields
<1>11. j \in Jobs /\ j.d = d /\ j.was = k.was /\ j.list = k.list /\ j.todo = k.todo \ {n}
  BY <1>3, <1>10 DEF Jobs
<1>12. j # None
  BY <1>11, JobFields
<1> HIDE DEF j
<1>13. \A m \in On(k.list) \ j.todo : m = n \/ (m \in Nums \ {n} /\ m \in On(k.list) \ k.todo)
  BY <1>5, <1>11, ListFields
<1>14. Saved("put", j, head', rows', lastId', tear')
  BY <1>1, <1>3, <1>4, <1>5, <1>6, <1>7, <1>11, <1>13 DEF Saved
<1>15. Deleted("put", j, rows', lastId', tear')
  BY DEF Deleted
<1>16. "put" \in Steps /\ "put" # "idle" /\ "put" # "delhead" /\ "put" \in Writers
  BY DEF Steps, Writers
<1>17. \A m \in On(head[d].list) : rows[d][m] # None => rows'[d][m] # None
  <2>1. \A m \in On(head[d].list) : m \in Nums
    BY DEF On
  <2> QED
    BY <2>1, <1>6, <1>7
<1> HIDE DEF d
<1>18. pc[w] \in Writers => job[w].d = d
  BY DEF d, k
<1>19. tear'[d] = tear[d] /\ head'[d] = head[d] /\ pc[w] # "delhead"
  BY <1>1
<1>20. GoTo(w, "put", j) /\ UNCHANGED schedVars /\ crashes' \in 0..MaxCrash
  BY <1>1, <1>2
<1> QED
  BY <1>4, <1>7, <1>8, <1>9, <1>11, <1>12, <1>14, <1>15, <1>16, <1>17, <1>18, <1>19, <1>20,
     WriteStep

\* After the last statement the rows are those of the list.
LEMMA DropKeeps == ASSUME IInv, NEW w \in Workers, Drop(w) PROVE IInv'
<1> DEFINE k == job[w]
           d == k.d
           r == [n \in Nums |-> IF n \in On(k.was) \ On(k.list) THEN None ELSE rows[d][n]]
<1>1. /\ pc[w] = "put" /\ pc[w] \in Writers /\ k.todo = {}
      /\ rows' = [rows EXCEPT ![d] = r]
      /\ tear' = [tear EXCEPT ![d] = IF tear[d] = "torn" THEN "mended" ELSE tear[d]]
      /\ GoTo(w, "idle", None)
      /\ head' = head /\ lastId' = lastId /\ crashes' = crashes /\ UNCHANGED schedVars
  BY FinishGoes DEF Drop, Writers
<1>2. lastId \in 0..MaxDel /\ MaxDel \in Nat /\ LogTyped /\ crashes \in 0..MaxCrash
  BY TypeParts, Bounds DEF IInv, LogTyped
<1>3. k \in Jobs /\ Saved("put", k, head, rows, lastId, tear)
  BY <1>1, TypeParts DEF IInv, JobTyped, SavedOk
<1>4. d \in Dels /\ d \in 1..lastId /\ d <= lastId' /\ lastId <= lastId'
  BY <1>1, <1>2, <1>3 DEF Saved, Dels
<1>5. k.list \in Lists /\ k.was \in Lists
  BY <1>3, JobFields
<1>6. r \in [Nums -> Rows \union {None}]
  BY <1>2, <1>4 DEF LogTyped
<1>7. /\ \A n \in Nums : r[n] = IF n \in On(k.was) \ On(k.list) THEN None ELSE rows[d][n]
  OBVIOUS
<1> HIDE DEF r
<1>8. /\ rows'[d] = r
      /\ tear'[d] = IF tear[d] = "torn" THEN "mended" ELSE tear[d]
      /\ \A e \in Dels \ {d} : rows'[e] = rows[e] /\ head'[e] = head[e] /\ tear'[e] = tear[e]
      /\ rows' \in [Dels -> [Nums -> Rows \union {None}]]
      /\ tear' \in [Dels -> {"whole", "torn", "mended", "mixed"}]
  BY <1>1, <1>2, <1>4, <1>6 DEF LogTyped
<1>9. LogTyped'
  BY <1>1, <1>2, <1>8 DEF LogTyped
<1>10. Shared(w, d) => tear'[d] = "mixed"
  <2>1. Writing(w, d)
    BY <1>1 DEF Writing, Writers
  <2> QED
    BY <2>1, <1>4, <1>8, SharedMixed
\* A header that is not a mix is the one this save has written.
<1>11. tear[d] # "mixed" => head[d] # None /\ head[d].list = k.list
                            /\ \A n \in On(k.list) : rows[d][n] # None
  BY <1>1, <1>3 DEF Saved
<1>12. tear[d] # "mixed" => \A n \in On(k.list) : r[n] # None
  BY <1>5, <1>7, <1>11, ListFields
<1>13. tear'[d] = "whole" => Matches(head'[d], rows'[d])
  <2> SUFFICES ASSUME tear'[d] = "whole", NEW n \in Nums
               PROVE  IF k.list[n] = None THEN r[n] = None ELSE r[n] # None /\ r[n].sc = k.list[n]
    BY <1>1, <1>8, <1>11 DEF Matches
  <2>1. tear[d] = "whole"
    BY <1>8
  <2>2. CASE k.list[n] # None
    <3>1. n \in On(k.list) /\ r[n] = rows[d][n]
      BY <2>2, <1>5, <1>7, ListFields
    <3> QED
      BY <3>1, <2>1, <2>2, <1>1, <1>3 DEF Saved
  <2>3. CASE k.list[n] = None
    <3>1. n \notin On(k.list)
      BY <2>3, <1>5, ListFields
    <3> QED
      BY <3>1, <2>1, <2>3, <1>3, <1>7 DEF Saved
  <2> QED
    BY <2>2, <2>3
<1>14. tear'[d] = "mended" => Restored(head'[d], rows'[d])
  BY <1>1, <1>8, <1>11, <1>12 DEF Restored
<1>15. Saved("idle", None, head', rows', lastId', tear') /\ Deleted("idle", None, rows', lastId', tear')
  BY DEF Saved, Deleted
<1>16. "idle" \in Steps /\ "idle" \notin Writers /\ "idle" # "delhead"
  BY DEF Steps, Writers
<1>17. tear'[d] # "mixed" => \A n \in On(head[d].list) : rows'[d][n] # None
  BY <1>8, <1>11, <1>12
<1>18. pc[w] \in Writers => k.d = d
  OBVIOUS
<1>19. tear[d] = "mixed" => tear'[d] = "mixed"
  BY <1>8
<1> HIDE DEF d
<1> QED
  BY <1>1, <1>2, <1>4, <1>8, <1>9, <1>10, <1>13, <1>14, <1>15, <1>16, <1>17, <1>18, <1>19, WriteStep

\* fn_delete removes the rows.
LEMMA DeleteRowsKeeps ==
    ASSUME IInv, NEW w \in Workers, NEW d \in Dels, DeleteRows(w, d) PROVE IInv'
<1> DEFINE j == [NewJob EXCEPT !.d = d]
<1>1. /\ pc[w] = "idle" /\ pc[w] \notin Writers /\ pc[w] # "delhead" /\ d <= lastId
      /\ rows' = [rows EXCEPT ![d] = NoRows]
      /\ tear' = [tear EXCEPT ![d] = IF Shared(w, d) THEN "mixed" ELSE tear[d]]
      /\ GoTo(w, "delhead", j)
      /\ head' = head /\ lastId' = lastId /\ crashes' = crashes /\ UNCHANGED schedVars
  BY DEF DeleteRows, Writers, Begin
<1>2. lastId \in 0..MaxDel /\ MaxDel \in Nat /\ LogTyped /\ crashes \in 0..MaxCrash
  BY TypeParts, Bounds DEF IInv, LogTyped
<1>3. j \in Jobs /\ j.d = d /\ j # None
  BY DeleteJobFields, JobFields
<1> HIDE DEF j
<1>4. d \in 1..lastId' /\ d <= lastId' /\ lastId <= lastId'
  BY <1>1, <1>2 DEF Dels
<1>5. NoRows \in [Nums -> Rows \union {None}]
  BY DEF NoRows
<1>6. /\ rows'[d] = NoRows
      /\ tear'[d] = IF Shared(w, d) THEN "mixed" ELSE tear[d]
      /\ \A e \in Dels \ {d} : rows'[e] = rows[e] /\ head'[e] = head[e] /\ tear'[e] = tear[e]
      /\ rows' \in [Dels -> [Nums -> Rows \union {None}]]
      /\ tear' \in [Dels -> {"whole", "torn", "mended", "mixed"}]
  BY <1>1, <1>2, <1>5 DEF LogTyped
<1>7. LogTyped'
  BY <1>1, <1>2, <1>6 DEF LogTyped
<1>8. Saved("delhead", j, head', rows', lastId', tear')
  BY DEF Saved
<1>9. Deleted("delhead", j, rows', lastId', tear')
  BY <1>3, <1>4, <1>6 DEF Deleted
<1>10. "delhead" \in Steps /\ "delhead" # "idle" /\ "delhead" \in Writers
  BY DEF Steps, Writers
<1>11. (tear[d] = "mixed" => tear'[d] = "mixed") /\ (Shared(w, d) => tear'[d] = "mixed")
  BY <1>6
<1> QED
  BY <1>1, <1>2, <1>3, <1>4, <1>6, <1>7, <1>8, <1>9, <1>10, <1>11, WriteStep

\* And then the header.
LEMMA DeleteHeadKeeps == ASSUME IInv, NEW w \in Workers, DeleteHead(w) PROVE IInv'
<1> DEFINE d == job[w].d
<1>1. /\ pc[w] = "delhead" /\ pc[w] \in Writers
      /\ head' = [head EXCEPT ![d] = None]
      /\ GoTo(w, "idle", None)
      /\ rows' = rows /\ lastId' = lastId /\ tear' = tear /\ crashes' = crashes
      /\ UNCHANGED schedVars
  BY FinishGoes DEF DeleteHead, Writers, histVars
<1>2. lastId \in 0..MaxDel /\ MaxDel \in Nat /\ LogTyped /\ crashes \in 0..MaxCrash
  BY TypeParts, Bounds DEF IInv, LogTyped
<1>3. Deleted("delhead", job[w], rows, lastId, tear)
  BY <1>1 DEF IInv, DeletedOk
<1>4. d \in Dels /\ d <= lastId' /\ lastId <= lastId'
  BY <1>1, <1>2, <1>3 DEF Deleted, Dels
<1>5. /\ head'[d] = None
      /\ \A e \in Dels \ {d} : rows'[e] = rows[e] /\ head'[e] = head[e] /\ tear'[e] = tear[e]
      /\ head' \in [Dels -> Headers \union {None}]
  BY <1>1, <1>2, <1>4 DEF LogTyped
<1>6. LogTyped'
  BY <1>1, <1>2, <1>5 DEF LogTyped
<1>7. Shared(w, d) => tear'[d] = "mixed"
  <2>1. Writing(w, d)
    BY <1>1 DEF Writing, Writers
  <2> QED
    BY <2>1, <1>1, <1>4, SharedMixed
<1>8. Saved("idle", None, head', rows', lastId', tear') /\ Deleted("idle", None, rows', lastId', tear')
  BY DEF Saved, Deleted
<1>9. tear'[d] = "whole" => Matches(head'[d], rows'[d])
  BY <1>1, <1>3, <1>5 DEF Matches, Deleted
<1>10. Restored(head'[d], rows'[d])
  BY <1>5 DEF Restored
<1>11. "idle" \in Steps /\ "idle" \notin Writers
  BY DEF Steps, Writers
<1> QED
  BY <1>1, <1>2, <1>4, <1>5, <1>6, <1>7, <1>8, <1>9, <1>10, <1>11, WriteStep

\* A request that stops leaves a torn delivery or a mix.
LEMMA CrashKeeps == ASSUME IInv, NEW w \in Workers, Crash(w) PROVE IInv'
<1>1. /\ crashes < MaxCrash /\ crashes' = crashes + 1 /\ GoTo(w, "idle", None)
      /\ head' = head /\ rows' = rows /\ lastId' = lastId /\ UNCHANGED schedVars
  BY FinishGoes DEF Crash, logVars
<1>2. PICK d \in Dels :
        /\ Writing(w, d)
        /\ tear' = [tear EXCEPT ![d] =
                       IF pc[w] = "delhead" \/ tear[d] = "mixed" THEN "mixed" ELSE "torn"]
  BY DEF Crash
<1>3. /\ lastId \in 0..MaxDel /\ MaxDel \in Nat /\ LogTyped /\ crashes \in 0..MaxCrash
      /\ MaxCrash \in Nat
  BY TypeParts, Bounds, DeliveryAssumption DEF IInv, LogTyped
<1>4. crashes' \in 0..MaxCrash
  BY <1>1, <1>3
<1>5. d <= lastId' /\ lastId <= lastId'
  BY <1>1, <1>2, <1>3, NotYetWritten
<1>6. /\ tear'[d] = IF pc[w] = "delhead" \/ tear[d] = "mixed" THEN "mixed" ELSE "torn"
      /\ \A e \in Dels \ {d} : rows'[e] = rows[e] /\ head'[e] = head[e] /\ tear'[e] = tear[e]
      /\ tear' \in [Dels -> {"whole", "torn", "mended", "mixed"}]
  BY <1>1, <1>2, <1>3 DEF LogTyped
<1>7. LogTyped'
  BY <1>1, <1>3, <1>6 DEF LogTyped
<1>8. Shared(w, d) => tear'[d] = "mixed"
  BY <1>2, <1>6, SharedMixed
<1>9. Saved("idle", None, head', rows', lastId', tear') /\ Deleted("idle", None, rows', lastId', tear')
  BY DEF Saved, Deleted
<1>10. tear'[d] # "whole" /\ tear'[d] # "mended"
  BY <1>6
<1>11. "idle" \in Steps /\ "idle" \notin Writers
  BY DEF Steps, Writers
<1>12. job[w].d = d
  BY <1>2 DEF Writing
<1>13. (tear[d] = "mixed" => tear'[d] = "mixed") /\ (pc[w] = "delhead" => tear'[d] = "mixed")
  BY <1>6
<1> QED
  BY <1>1, <1>4, <1>5, <1>6, <1>7, <1>8, <1>9, <1>10, <1>11, <1>12, <1>13, WriteStep

\* Steps of the schedule, and of nothing.
LEMMA ElsewhereStep ==
    ASSUME IInv, UNCHANGED <<logVars, pc, job, histVars>>, SchedTyped' PROVE IInv'
<1>1. /\ head' = head /\ rows' = rows /\ lastId' = lastId /\ tear' = tear /\ crashes' = crashes
      /\ pc' = pc /\ job' = job
  BY DEF logVars, histVars
<1>2. TypeOK'
  BY <1>1, TypeParts, TypePartsPrime DEF IInv, LogTyped, JobTyped
<1>3. FreshOk' /\ AloneOk' /\ RowsMatch' /\ MissingRestored'
  BY <1>1 DEF IInv, FreshOk, AloneOk, RowsMatch, MissingRestored, Settled, Quiet, Writing
<1>4. AwareOk' /\ PresentOk' /\ SavedOk' /\ DeletedOk'
  BY <1>1 DEF IInv, AwareOk, PresentOk, SavedOk, DeletedOk, Deleting
<1> QED
  BY <1>2, <1>3, <1>4 DEF IInv

\* The schedule does not touch the log.
LEMMA ScheduleKeeps == ASSUME IInv, ScheduleStep PROVE IInv'
<1>1. SchedTyped
  BY TypeParts DEF IInv
<1>2. PICK s \in Scs :
        \/ B!Accept(s) \/ B!Confirm(s) \/ B!Cancel(s) \/ B!Remove(s)
        \/ \E m \in BOOLEAN : B!Edit(s, m)
  BY DEF ScheduleStep
<1>3. wish[s] \in Days \union {0}
  BY <1>1 DEF SchedTyped
<1>4. completed' \subseteq Scs
  BY <1>1 DEF ScheduleStep, SchedTyped
<1> DEFINE T == /\ stage' \in [Scs -> {"none", "pending", "accepted", "cancelling", "gone"}]
                /\ day' \in [Scs -> Days \union {0}] /\ wish' \in [Scs -> Days \union {0}]
                /\ partial' \in [Scs -> BOOLEAN]
<1>5. T
  <2>1. CASE B!Accept(s)
    BY <1>1, <2>1 DEF SchedTyped, B!Accept
  <2>2. CASE B!Confirm(s)
    BY <1>1, <1>3, <2>2 DEF SchedTyped, B!Confirm
  <2>3. CASE B!Cancel(s)
    BY <1>1, <2>3 DEF SchedTyped, B!Cancel
  <2>4. CASE B!Remove(s)
    BY <1>1, <2>4 DEF SchedTyped, B!Remove
  <2>5. ASSUME NEW m \in BOOLEAN, B!Switch(s, m) PROVE T
    BY <1>1, <2>5 DEF SchedTyped, B!Switch
  <2>6. ASSUME NEW m \in BOOLEAN, NEW t \in Days, B!Book(s, t, m) \/ B!Move(s, t, m) \/ B!Wish(s, t, m)
        PROVE T
    BY <1>1, <2>6 DEF SchedTyped, B!Book, B!Move, B!Wish
  <2> HIDE DEF T
  <2> QED
    BY <1>2, <2>1, <2>2, <2>3, <2>4, <2>5, <2>6 DEF B!Edit
<1> QED
  BY <1>4, <1>5, ElsewhereStep DEF ScheduleStep, SchedTyped

\* Every step preserves the invariant.
LEMMA NextKeeps == ASSUME IInv, [Next]_vars PROVE IInv'
<1>1. CASE UNCHANGED vars
  <2>1. UNCHANGED <<logVars, pc, job, histVars>> /\ UNCHANGED schedVars
    BY <1>1 DEF vars
  <2>2. SchedTyped'
    BY <2>1, TypeParts DEF IInv, SchedTyped, schedVars
  <2> QED
    BY <2>1, <2>2, ElsewhereStep
<1>2. CASE ScheduleStep
  BY <1>2, ScheduleKeeps
<1>3. ASSUME NEW w \in Workers, Save(w) PROVE IInv'
  <2>1. CASE OpenNew(w) \/ LoadRows(w) \/ FindScs(w) \/ AskMode(w) \/ PutHead(w) \/ Known(w) \/ Drop(w)
    BY <2>1, OpenNewKeeps, LoadRowsKeeps, FindScsKeeps, CheckOneKeeps, PutHeadKeeps, KnownKeeps,
       DropKeeps
  <2>2. CASE Close(w)
    BY <2>2, EndKeeps DEF Close
  <2>3. ASSUME NEW d \in Dels, Open(w, d) PROVE IInv'
    BY <2>3, OpenKeeps
  <2>4. ASSUME NEW l \in Lists, NEW t \in Days, NEW edited \in SUBSET Nums,
               NEW problem \in SUBSET Nums, Submit(w, l, t, edited, problem)
        PROVE  IInv'
    BY <2>4, SubmitKeeps
  <2>5. ASSUME NEW n \in Nums, CheckOne(w, n) \/ PutOne(w, n) PROVE IInv'
    BY <2>5, CheckOneKeeps, PutOneKeeps
  <2> QED
    BY <1>3, <2>1, <2>2, <2>3, <2>4, <2>5 DEF Save
<1>4. ASSUME NEW w \in Workers, Delete(w) PROVE IInv'
  BY <1>4, DeleteHeadKeeps, DeleteRowsKeeps DEF Delete
<1>5. ASSUME NEW w \in Workers, Crash(w) PROVE IInv'
  BY <1>5, CrashKeeps
<1> QED
  BY <1>1, <1>2, <1>3, <1>4, <1>5 DEF Next

----------------------------------------------------------------------------
(* What holds for any number of workers.                                   *)

\* The inductive invariant.
THEOREM Invariant == Spec => []IInv
<1>1. Init => IInv
  BY InitIInv
<1>2. IInv /\ [Next]_vars => IInv'
  BY NextKeeps
<1> QED
  BY <1>1, <1>2, PTL DEF Spec

\* Every state of the log is one of the states that it is meant to have; in
\* particular every row that is written has a schedule record.
THEOREM TypesOK == Spec => []TypeOK
<1>1. IInv => TypeOK
  BY DEF IInv
<1> QED
  BY <1>1, Invariant, PTL

\* The list in the header and the rows agree unless writers overlapped or one
\* of them stopped half-way.
THEOREM ListsAgree == Spec => []RowsMatch
<1>1. IInv => RowsMatch
  BY DEF IInv
<1> QED
  BY <1>1, Invariant, PTL

\* The save after one that stopped half-way restores the rows that it lacks.
THEOREM Mends == Spec => []MissingRestored
<1>1. IInv => MissingRestored
  BY DEF IInv
<1> QED
  BY <1>1, Invariant, PTL

\* Only PutHead and DeleteHead write headers.
LEMMA HeadsMove ==
    ASSUME IInv, [Next]_vars, head' # head
    PROVE  \E w \in Workers : CreateHead(w) \/ UpdateHead(w) \/ DeleteHead(w)
<1>1. TypeOK
  BY DEF IInv
<1>2. ASSUME NEW w \in Workers, PutHead(w) PROVE CreateHead(w) \/ UpdateHead(w)
  BY <1>1, <1>2, PutHeadBranches DEF logVars
<1>3. ~ScheduleStep /\ ~UNCHANGED vars
  BY DEF ScheduleStep, vars, logVars
<1>4. ASSUME NEW w \in Workers, Crash(w) PROVE FALSE
  BY <1>4 DEF Crash, logVars
<1>5. ASSUME NEW w \in Workers, NEW d \in Dels, DeleteRows(w, d) \/ Open(w, d) PROVE FALSE
  BY <1>5 DEF DeleteRows, Open, logVars
<1>6. ASSUME NEW w \in Workers, OpenNew(w) \/ LoadRows(w) \/ Close(w) \/ FindScs(w)
                             \/ AskMode(w) \/ Known(w)
      PROVE  FALSE
  BY <1>6 DEF OpenNew, LoadRows, Close, FindScs, AskMode, Known, logVars
<1>7. ASSUME NEW w \in Workers, Drop(w) PROVE FALSE
  BY <1>7 DEF Drop
<1>8. ASSUME NEW w \in Workers, NEW n \in Nums, CheckOne(w, n) PROVE FALSE
  BY <1>8 DEF CheckOne, logVars
<1>9. ASSUME NEW w \in Workers, NEW n \in Nums, PutOne(w, n) PROVE FALSE
  BY <1>9 DEF PutOne
<1>10. ASSUME NEW w \in Workers, NEW l \in Lists, NEW t \in Days, NEW edited \in SUBSET Nums,
              NEW problem \in SUBSET Nums, Submit(w, l, t, edited, problem)
       PROVE  FALSE
  BY <1>10 DEF Submit, logVars
<1> QED
  BY <1>2, <1>3, <1>4, <1>5, <1>6, <1>7, <1>8, <1>9, <1>10 DEF Next, Save, Delete

\* A header is replaced only by a user who had exactly that header on the page.
THEOREM NothingLost == Spec => SavedFromLatest
<1> DEFINE A == \A d \in Dels : head[d] # None /\ head'[d] # None /\ head'[d] # head[d] =>
            \E w \in Workers : /\ job[w] # None /\ job[w].d = d
                               /\ job[w].was = head[d].list /\ job[w].wasDay = head[d].day
<1>1. IInv /\ [Next]_vars => A
  <2> SUFFICES ASSUME IInv, [Next]_vars, NEW d \in Dels,
                      head[d] # None, head'[d] # None, head'[d] # head[d]
               PROVE  \E w \in Workers :
                         /\ job[w] # None /\ job[w].d = d
                         /\ job[w].was = head[d].list /\ job[w].wasDay = head[d].day
    OBVIOUS
  <2>1. PICK w \in Workers : CreateHead(w) \/ UpdateHead(w) \/ DeleteHead(w)
    BY HeadsMove
  <2>2. /\ head \in [Dels -> Headers \union {None}] /\ lastId \in 0..MaxDel /\ MaxDel \in Nat
        /\ d \in Nat /\ \A e \in Dels : e \in Nat
    BY TypeParts, Bounds DEF IInv, LogTyped, Dels
  <2>3. CASE CreateHead(w)
    <3>1. head[lastId + 1] = None \/ lastId + 1 \notin Dels
      BY <2>2 DEF IInv, FreshOk
    <3>2. head' = [head EXCEPT ![lastId + 1] = [rev |-> 0, day |-> job[w].day, list |-> job[w].list]]
      BY <2>3 DEF CreateHead
    <3> QED
      BY <3>1, <3>2, <2>2
  <2>4. CASE UpdateHead(w)
    <3>1. /\ job[w].d # 0 /\ pc[w] = "check" /\ head[job[w].d] # None
          /\ head[job[w].d].rev = job[w].rev
          /\ head' = [head EXCEPT ![job[w].d] =
                        [rev |-> head[job[w].d].rev + 1, day |-> job[w].day, list |-> job[w].list]]
      BY <2>4 DEF UpdateHead, SameRev
    <3>2. job[w].d = d
      BY <3>1, <2>2
    <3>3. Aware("check", job[w], head, lastId)
      BY <3>1 DEF IInv, AwareOk
    <3>4. job[w].was = head[d].list /\ job[w].wasDay = head[d].day
      BY <3>1, <3>2, <3>3 DEF Aware
    <3>5. job[w] # None
      BY <3>1, TypeParts DEF IInv, JobTyped
    <3> QED
      BY <3>2, <3>4, <3>5
  <2>5. CASE DeleteHead(w)
    BY <2>2, <2>5 DEF DeleteHead
  <2> QED
    BY <2>1, <2>3, <2>4, <2>5
<1>2. IInv /\ [Next]_vars => [A]_vars
  BY <1>1
<1> QED
  BY <1>2, Invariant, PTL DEF Spec, SavedFromLatest

----------------------------------------------------------------------------
(* What holds when requests follow one another.                            *)

\* NoRedeliverySameDay of two deliveries and a receipt.
Apart(h1, r1, h2, r2, n, K) ==
    /\ h1 # None /\ r1[n] # None /\ h1.list[n] # None
    /\ h2 # None /\ r2[n] # None /\ h2.list[n] # None
    /\ h1.day = h2.day
    => \/ r1[n].marked \/ r2[n].marked
       \/ {r1[n].sc, r2[n].sc} \subseteq K /\ r1[n].sc # r2[n].sc

\* NoRedeliverySameDay speaks of two deliveries at a time.
LEMMA ApartParts ==
    NoRedeliverySameDay <=>
       \A n \in Nums : \A d, e \in Dels :
          d # e /\ Settled(d) /\ Settled(e) => Apart(head[d], rows[d], head[e], rows[e], n, Parts)
BY DEF NoRedeliverySameDay, Apart, Listed

\* The same after a step.
LEMMA ApartPartsPrime ==
    NoRedeliverySameDay' <=>
       \A n \in Nums : \A d, e \in Dels :
          d # e /\ Settled(d)' /\ Settled(e)' => Apart(head'[d], rows'[d], head'[e], rows'[e], n, Parts')
BY DEF NoRedeliverySameDay, Apart, Listed

\* It does not matter which of the two comes first.
LEMMA ApartSymmetric ==
    ASSUME NEW h1, NEW r1, NEW h2, NEW r2, NEW n, NEW K, Apart(h1, r1, h2, r2, n, K)
    PROVE  Apart(h2, r2, h1, r1, n, K)
BY DEF Apart

\* An empty log satisfies it.
LEMMA InitOneInv == Init => OneInv
<1> SUFFICES ASSUME Init PROVE OneInv
  OBVIOUS
<1>1. PassedOk /\ PromiseOk /\ FirstOk
  BY DEF Init, PassedOk, PromiseOk, FirstOk, Passed, Promise, First
<1>2. CountedOnce /\ NoRedeliverySameDay
  BY DEF Init, CountedOnce, NoRedeliverySameDay, Listed, NoRows
<1> QED
  BY <1>1, <1>2 DEF OneInv

\* A step of a worker changes no record.
LEMMA PartsStay == UNCHANGED schedVars => Parts' = Parts
BY DEF schedVars, Parts

\* A step of the worker that writes nothing.
LEMMA OneLocalStep ==
    ASSUME OneWorker, JobTyped, OneInv,
           NEW w \in Workers, NEW p \in Steps, NEW j \in Jobs \union {None},
           p = "idle" <=> j = None, GoTo(w, p, j),
           UNCHANGED <<logVars, schedVars, histVars>>,
           pc[w] \in Writers <=> p \in Writers, p \in Writers => j.d = job[w].d,
           Passed(p, j, head, rows, Parts), Promise(p, j, head, rows, tear, Parts), First(p, j, rows)
    PROVE  OneInv'
<1>1. \A v \in Workers : v = w /\ pc'[v] = p /\ job'[v] = j
  BY WorkerMoves DEF OneWorker
<1>2. head' = head /\ rows' = rows /\ tear' = tear
  BY DEF logVars, histVars
<1>3. PassedOk' /\ PromiseOk' /\ FirstOk'
  BY <1>1, <1>2, PartsStay DEF PassedOk, PromiseOk, FirstOk
<1>4. \A d \in Dels : Settled(d)' <=> Settled(d)
  BY <1>1, <1>2, WritersMove DEF Settled, Quiet
<1>5. CountedOnce'
  BY <1>2 DEF OneInv, CountedOnce
<1>6. NoRedeliverySameDay'
  BY <1>2, <1>4, PartsStay, ApartParts, ApartPartsPrime DEF OneInv
<1> QED
  BY <1>3, <1>5, <1>6 DEF OneInv

\* A step of the worker that writes to delivery d.
LEMMA OneWriteStep ==
    ASSUME OneWorker, JobTyped, OneInv,
           NEW w \in Workers, NEW p \in Steps, NEW j \in Jobs \union {None},
           p = "idle" <=> j = None, GoTo(w, p, j), NEW d \in Dels,
           UNCHANGED schedVars,
           \A e \in Dels \ {d} : head'[e] = head[e] /\ rows'[e] = rows[e] /\ tear'[e] = tear[e],
           pc[w] \in Writers => job[w].d = d,
           p \in Writers \union {"idle"}, p \in Writers => j.d = d,
           Promise(p, j, head', rows', tear', Parts), First(p, j, rows'),
           \A n \in Nums, e \in Dels \ {d} :
              ~(/\ rows'[d][n] # None /\ ~rows'[d][n].excluded
                /\ rows[e][n] # None /\ ~rows[e][n].excluded),
           p = "idle" /\ tear'[d] = "whole" =>
              \A n \in Nums, e \in Dels \ {d} :
                 tear[e] = "whole" => Apart(head'[d], rows'[d], head[e], rows[e], n, Parts)
    PROVE  OneInv'
<1>1. \A v \in Workers : v = w /\ pc'[v] = p /\ job'[v] = j
  BY WorkerMoves DEF OneWorker
<1>2. PassedOk' /\ PromiseOk' /\ FirstOk'
  BY <1>1, PartsStay DEF PassedOk, PromiseOk, FirstOk, Passed, Writers
<1>3. \A e \in Dels \ {d} : Settled(e)' => Settled(e)
  BY <1>1, WritersMove DEF Settled, Quiet
<1>4. Settled(d)' => p = "idle" /\ tear'[d] = "whole"
  BY WritersMove DEF Settled, Quiet
<1>5. CountedOnce'
  <2> SUFFICES ASSUME NEW n \in Nums, NEW e \in Dels, NEW f \in Dels,
                      rows'[e][n] # None, rows'[f][n] # None,
                      ~rows'[e][n].excluded, ~rows'[f][n].excluded
               PROVE  e = f
    BY DEF CountedOnce
  <2>1. CASE e # d /\ f # d
    BY <2>1 DEF OneInv, CountedOnce
  <2>2. CASE e = d \/ f = d
    BY <2>2
  <2> QED
    BY <2>1, <2>2
<1>6. NoRedeliverySameDay'
  <2> SUFFICES ASSUME NEW n \in Nums, NEW e \in Dels, NEW f \in Dels,
                      e # f, Settled(e)', Settled(f)'
               PROVE  Apart(head'[e], rows'[e], head'[f], rows'[f], n, Parts)
    BY PartsStay, ApartPartsPrime
  <2>1. CASE e # d /\ f # d
    <3>1. Apart(head[e], rows[e], head[f], rows[f], n, Parts)
      BY <2>1, <1>3, ApartParts DEF OneInv
    <3> QED
      BY <3>1, <2>1
  <2>2. CASE e = d
    <3>1. f # d /\ tear[f] = "whole" /\ head'[f] = head[f] /\ rows'[f] = rows[f]
      BY <2>2, <1>3 DEF Settled
    <3> QED
      BY <3>1, <2>2, <1>4
  <2>3. CASE f = d
    <3>1. e # d /\ tear[e] = "whole" /\ head'[e] = head[e] /\ rows'[e] = rows[e]
      BY <2>3, <1>3 DEF Settled
    <3>2. Apart(head'[d], rows'[d], head[e], rows[e], n, Parts)
      BY <3>1, <2>3, <1>4
    <3> QED
      BY <3>1, <3>2, <2>3, ApartSymmetric
  <2> QED
    BY <2>1, <2>2, <2>3
<1> QED
  BY <1>2, <1>5, <1>6 DEF OneInv

\* What the check of a receipt means.
LEMMA MayShipMeans ==
    ASSUME LogTyped, NEW k, NEW n \in Nums, MayShip(k, n), NEW e \in Dels \ {k.d},
           rows[e][n] # None, head[e] # None, head[e].day <= k.day
    PROVE  /\ rows[e][n].marked \/ (rows[e][n].sc \in Parts /\ rows[e][n].sc # k.list[n])
           /\ ~AfterPartial(k, n) => rows[e][n].marked
<1>1. rows[e][n] \in Previous(k, n)
  BY DEF Previous
<1>2. rows[e][n].sc \in Scs
  BY RowFields DEF LogTyped
<1>3. \A s \in Scs : IsPartial(s) => s \in Parts
  BY DEF IsPartial, Parts
<1> HIDE DEF Previous
<1>4. rows[e][n].sc = k.list[n] => rows[e][n].marked
  BY <1>1 DEF MayShip
<1>5. CASE \A r \in Previous(k, n) : IsPartial(r.sc)
  BY <1>1, <1>2, <1>3, <1>4, <1>5 DEF AfterPartial
<1>6. CASE \A r \in Previous(k, n) : r.marked
  BY <1>1, <1>6
<1> QED
  BY <1>5, <1>6 DEF MayShip

\* Steps that neither check nor write.
LEMMA OneIdleStep ==
    ASSUME OneWorker, JobTyped, OneInv,
           NEW w \in Workers, NEW p \in {"idle", "open", "page", "find"},
           NEW j \in Jobs \union {None}, p = "idle" <=> j = None, GoTo(w, p, j),
           UNCHANGED <<logVars, schedVars, histVars>>, pc[w] \notin Writers
    PROVE  OneInv'
<1>1. p \in Steps /\ p \notin Writers
  BY DEF Steps, Writers
<1>2. Passed(p, j, head, rows, Parts) /\ Promise(p, j, head, rows, tear, Parts) /\ First(p, j, rows)
  BY DEF Passed, Promise, First
<1> QED
  BY <1>1, <1>2, OneLocalStep

\* Pages neither check nor write.
LEMMA PagesKeepOne ==
    ASSUME OneWorker, IInv, OneInv, NEW w \in Workers,
           \/ OpenNew(w) \/ (\E d \in Dels : Open(w, d)) \/ LoadRows(w) \/ Close(w)
           \/ \E l \in Lists, t \in Days, edited, problem \in SUBSET Nums :
                 Submit(w, l, t, edited, problem)
    PROVE  OneInv'
<1>1. JobTyped /\ LogTyped
  BY TypeParts DEF IInv
<1>2. CASE OpenNew(w)
  <2>1. NewJob \in Jobs /\ NewJob # None
    BY NewJobFields, JobFields
  <2> QED
    BY <1>1, <1>2, <2>1, OneIdleStep DEF OpenNew, Writers
<1>3. ASSUME NEW d \in Dels, Open(w, d) PROVE OneInv'
  <2> DEFINE j == [NewJob EXCEPT !.d = d, !.rev = head[d].rev, !.was = head[d].list,
                                 !.wasDay = head[d].day]
  <2>1. /\ head[d] # None /\ head[d] \in Headers
        /\ head[d].rev \in 0..MaxRev /\ head[d].list \in Lists /\ head[d].day \in Days
    <3>1. head[d] # None
      BY <1>3 DEF Open
    <3>2. head[d] \in Headers
      BY <1>1, <3>1 DEF LogTyped
    <3> QED
      BY <3>1, <3>2, HeaderFields
  <2>2. d \in 0..MaxDel /\ NewJob \in Jobs
    BY Bounds, NewJobFields DEF Dels
  <2>3. j \in Jobs
    BY <2>1, <2>2 DEF Jobs
  <2>4. GoTo(w, "open", j) /\ UNCHANGED <<logVars, schedVars, histVars>> /\ pc[w] \notin Writers
    BY <1>3 DEF Open, Writers
  <2> HIDE DEF j
  <2> QED
    BY <1>1, <2>3, <2>4, JobFields, OneIdleStep
<1>4. CASE LoadRows(w)
  <2> DEFINE k == job[w]
             m == {n \in On(k.was) : rows[k.d][n] = None}
             j == [k EXCEPT !.missing = m]
  <2>1. /\ k \in Jobs /\ GoTo(w, "page", j) /\ UNCHANGED <<logVars, schedVars, histVars>>
        /\ pc[w] \notin Writers
    BY <1>1, <1>4 DEF LoadRows, Writers, JobTyped
  <2>2. m \in SUBSET Nums
    BY <2>1, JobFields, ListFields
  <2> HIDE DEF k, m
  <2>3. j \in Jobs
    BY <2>1, <2>2 DEF Jobs
  <2> HIDE DEF j
  <2> QED
    BY <1>1, <2>1, <2>3, JobFields, OneIdleStep
<1>5. CASE Close(w)
  BY <1>1, <1>5, FinishGoes, OneIdleStep DEF Close, Writers
<1>6. ASSUME NEW l \in Lists, NEW t \in Days, NEW edited \in SUBSET Nums,
             NEW problem \in SUBSET Nums, Submit(w, l, t, edited, problem)
      PROVE  OneInv'
  <2> DEFINE k == job[w]
             j == [k EXCEPT !.list = l, !.day = t, !.edited = edited, !.problem = problem,
                            !.missing = {}]
  <2>1. /\ k \in Jobs /\ (GoTo(w, "find", j) \/ Finish(w))
        /\ UNCHANGED <<logVars, schedVars, histVars>> /\ pc[w] \notin Writers
    BY <1>1, <1>6 DEF Submit, Writers, JobTyped
  <2>2. k \in Jobs
    BY <1>1, <1>6 DEF Submit, JobTyped
  <2> HIDE DEF k
  <2>3. j \in Jobs
    BY <2>2 DEF Jobs
  <2> HIDE DEF j
  <2> QED
    BY <1>1, <2>1, <2>3, JobFields, FinishGoes, OneIdleStep
<1> QED
  BY <1>2, <1>3, <1>4, <1>5, <1>6

\* A check makes sure of one receipt more.
LEMMA ChecksKeepOne ==
    ASSUME OneWorker, IInv, OneInv, NEW w \in Workers,
           FindScs(w) \/ AskMode(w) \/ \E n \in Nums : CheckOne(w, n)
    PROVE  OneInv'
<1>1. JobTyped /\ LogTyped
  BY TypeParts DEF IInv
<1>2. "check" \in Steps /\ "check" # "idle" /\ "check" \notin Writers
  BY DEF Steps, Writers
<1>3. CASE FindScs(w)
  <2> DEFINE k == job[w]
             f == [n \in Nums |-> {s \in ScsOf[n] : Exists(s) /\ day[s] = k.day}]
             j == [k EXCEPT !.found = f, !.todo = On(k.list)]
  <2>1. /\ k \in Jobs /\ GoTo(w, "check", j) /\ UNCHANGED <<logVars, schedVars, histVars>>
        /\ pc[w] \notin Writers
    BY <1>1, <1>3 DEF FindScs, Writers, JobTyped
  <2>2. f \in [Nums -> SUBSET Scs] /\ On(k.list) \in SUBSET Nums
    BY <2>1, JobFields, ListFields, DeliveryAssumption
  <2> HIDE DEF k, f
  <2>3. j \in Jobs /\ j.list = k.list /\ j.todo = On(k.list)
    BY <2>1, <2>2 DEF Jobs
  <2> HIDE DEF j
  <2>4. Passed("check", j, head, rows, Parts) /\ Promise("check", j, head, rows, tear, Parts) /\ First("check", j, rows)
    BY <2>3 DEF Passed, Promise, First
  <2> QED
    BY <1>1, <1>2, <2>1, <2>3, <2>4, JobFields, OneLocalStep
<1>4. ASSUME NEW n \in Nums, CheckOne(w, n) PROVE OneInv'
  <2> DEFINE k == job[w]
             a == IF Checked(k, n) /\ AfterPartial(k, n) THEN {n} ELSE {}
             j == [k EXCEPT !.todo = k.todo \ {n}, !.asks = a]
  <2>1. /\ pc[w] = "check" /\ pc[w] \notin Writers /\ k.asks = {}
        /\ UNCHANGED <<logVars, schedVars, histVars>>
        /\ \/ GoTo(w, "check", j) /\ (Checked(k, n) => MayShip(k, n))
           \/ Finish(w)
    BY <1>4 DEF CheckOne, Writers
  <2>2. CASE Finish(w)
    BY <1>1, <2>1, <2>2, FinishGoes, OneIdleStep
  <2>3. CASE GoTo(w, "check", j) /\ (Checked(k, n) => MayShip(k, n))
    <3>1. k \in Jobs /\ Passed("check", k, head, rows, Parts)
      BY <1>1, <2>1 DEF JobTyped, OneInv, PassedOk
    <3>6. a \in SUBSET Nums /\ a \subseteq {n} /\ (Checked(k, n) => (n \in a <=> AfterPartial(k, n)))
      OBVIOUS
    <3> HIDE DEF k, a
    <3>2. /\ j \in Jobs /\ j.d = k.d /\ j.was = k.was /\ j.wasDay = k.wasDay /\ j.asks = a
          /\ j.list = k.list /\ j.day = k.day /\ j.todo = k.todo \ {n}
      BY <3>1, <3>6 DEF Jobs
    <3> HIDE DEF j
    <3>3. \A m : Checked(j, m) <=> Checked(k, m)
      BY <3>2 DEF Checked, Moved, Relinked
    <3>4. Passed("check", j, head, rows, Parts)
      <4> SUFFICES ASSUME NEW m \in On(j.list) \ j.todo, Checked(j, m), NEW e \in Dels \ {j.d},
                          rows[e][m] # None, head[e] # None, head[e].day <= j.day
                   PROVE  IF m \in j.asks
                          THEN rows[e][m].marked \/ (rows[e][m].sc \in Parts /\ rows[e][m].sc # j.list[m])
                          ELSE Compatible(rows[e][m], j.list[m], Parts)
        BY DEF Passed
      <4>1. CASE m = n
        <5>1. /\ rows[e][n].marked \/ (rows[e][n].sc \in Parts /\ rows[e][n].sc # k.list[n])
              /\ ~AfterPartial(k, n) => rows[e][n].marked
          BY <4>1, <1>1, <2>3, <3>2, <3>3, MayShipMeans
        <5> QED
          BY <5>1, <4>1, <3>2, <3>3, <3>6 DEF Compatible
      <4>2. CASE m # n
        BY <4>2, <2>1, <3>1, <3>2, <3>3, <3>6 DEF Passed, k
      <4> QED
        BY <4>1, <4>2
    <3>5. Promise("check", j, head, rows, tear, Parts) /\ First("check", j, rows)
      BY DEF Promise, First
    <3> QED
      BY <1>1, <1>2, <2>1, <2>3, <3>2, <3>4, <3>5, JobFields, OneLocalStep
  <2> QED
    BY <2>1, <2>2, <2>3
<1>5. CASE AskMode(w)
  <2> DEFINE k == job[w]
             j == [k EXCEPT !.asks = {}]
  <2>1. /\ pc[w] = "check" /\ pc[w] \notin Writers
        /\ UNCHANGED <<logVars, schedVars, histVars>>
        /\ \/ GoTo(w, "check", j) /\ \A n \in k.asks : IsPartial(k.list[n])
           \/ Finish(w)
    BY <1>5 DEF AskMode, Writers
  <2>2. CASE Finish(w)
    BY <1>1, <2>1, <2>2, FinishGoes, OneIdleStep
  <2>3. CASE GoTo(w, "check", j) /\ \A n \in k.asks : IsPartial(k.list[n])
    <3>1. k \in Jobs /\ Passed("check", k, head, rows, Parts) /\ k.list \in Lists
      BY <1>1, <2>1, JobFields DEF JobTyped, OneInv, PassedOk
    <3> HIDE DEF k
    <3>2. /\ j \in Jobs /\ j.d = k.d /\ j.was = k.was /\ j.wasDay = k.wasDay /\ j.asks = {}
          /\ j.list = k.list /\ j.day = k.day /\ j.todo = k.todo
      BY <3>1 DEF Jobs
    <3> HIDE DEF j
    <3>3. \A m : Checked(j, m) <=> Checked(k, m)
      BY <3>2 DEF Checked, Moved, Relinked
    <3>4. Passed("check", j, head, rows, Parts)
      <4> SUFFICES ASSUME NEW m \in On(j.list) \ j.todo, Checked(j, m), NEW e \in Dels \ {j.d},
                          rows[e][m] # None, head[e] # None, head[e].day <= j.day
                   PROVE  Compatible(rows[e][m], j.list[m], Parts)
        BY <3>2 DEF Passed
      <4>1. IF m \in k.asks
            THEN rows[e][m].marked \/ (rows[e][m].sc \in Parts /\ rows[e][m].sc # k.list[m])
            ELSE Compatible(rows[e][m], k.list[m], Parts)
        BY <3>1, <3>2, <3>3 DEF Passed
      <4>2. m \in k.asks => k.list[m] \in Parts
        BY <2>3, <3>1, <3>2, ListFields DEF IsPartial, Parts
      <4> QED
        BY <4>1, <4>2, <3>2 DEF Compatible
    <3>5. Promise("check", j, head, rows, tear, Parts) /\ First("check", j, rows)
      BY DEF Promise, First
    <3> QED
      BY <1>1, <1>2, <2>1, <2>3, <3>2, <3>4, <3>5, JobFields, OneLocalStep
  <2> QED
    BY <2>1, <2>2, <2>3
<1> QED
  BY <1>3, <1>4, <1>5

\* The receipts that are nowhere else are noted down.
LEMMA KnownKeepsOne ==
    ASSUME OneWorker, IInv, OneInv, NEW w \in Workers, Known(w) PROVE OneInv'
<1> DEFINE k == job[w]
           m == {n \in k.todo : Elsewhere(k, n)}
           j == [k EXCEPT !.known = m]
<1>1. /\ pc[w] = "known" /\ GoTo(w, "put", j) /\ UNCHANGED <<logVars, schedVars, histVars>>
      /\ pc[w] \in Writers
  BY DEF Known, Writers
<1>2. "put" \in Steps /\ "put" # "idle" /\ "put" \in Writers
  BY DEF Steps, Writers
<1>3. JobTyped /\ k \in Jobs /\ Promise("known", k, head, rows, tear, Parts)
  BY <1>1, TypeParts DEF IInv, JobTyped, OneInv, PromiseOk
<1>4. m \in SUBSET Nums /\ \A n \in k.todo \ m : \A e \in Dels \ {k.d} : rows[e][n] = None
  BY <1>3, JobFields DEF Elsewhere
<1> HIDE DEF m
<1>5. j \in Jobs /\ j.d = k.d /\ j.list = k.list /\ j.todo = k.todo /\ j.known = m
  BY <1>3, <1>4 DEF Jobs
<1> HIDE DEF j
<1>6. Passed("put", j, head, rows, Parts) /\ Promise("put", j, head, rows, tear, Parts) /\ First("put", j, rows)
  BY <1>3, <1>4, <1>5 DEF Passed, Promise, First
<1> QED
  BY <1>1, <1>2, <1>3, <1>5, <1>6, JobFields, OneLocalStep

\* For a new delivery every receipt was checked.
LEMMA CreateHeadKeepsOne ==
    ASSUME OneWorker, IInv, OneInv, NEW w \in Workers, CreateHead(w) PROVE OneInv'
<1> DEFINE k == job[w]
           d == lastId + 1
           j == AfterHead(k, d)
           h == [rev |-> 0, day |-> k.day, list |-> k.list]
<1>1. /\ pc[w] = "check" /\ pc[w] \notin Writers /\ k.d = 0 /\ lastId < MaxDel /\ k.todo = {} /\ k.asks = {}
      /\ head' = [head EXCEPT ![d] = h]
      /\ GoTo(w, "known", j)
      /\ rows' = rows /\ tear' = tear /\ UNCHANGED schedVars
  BY DEF CreateHead, Writers
<1>2. lastId \in 0..MaxDel /\ MaxDel \in Nat /\ LogTyped /\ JobTyped
  BY TypeParts, Bounds DEF IInv, LogTyped
<1>3. d \in Dels /\ lastId < d /\ \A e \in Dels : e \in Nat /\ e # 0
  BY <1>1, <1>2 DEF Dels
<1>4. k \in Jobs /\ Aware("check", k, head, lastId) /\ Passed("check", k, head, rows, Parts)
  BY <1>1, <1>2 DEF IInv, JobTyped, AwareOk, OneInv, PassedOk
<1>5. rows[d] = NoRows
  BY <1>3 DEF IInv, FreshOk
<1>6. j \in Jobs /\ j # None /\ j.d = d /\ j.list = k.list
  BY <1>3, <1>4, AfterHeadFields
<1>7. k.day \in Days /\ k.day \in Nat /\ \A n \in On(k.list) : n \in Nums
  BY <1>4, Bounds DEF Aware, On
<1> HIDE DEF j
<1>8. /\ \A e \in Dels \ {d} : head'[e] = head[e] /\ rows'[e] = rows[e] /\ tear'[e] = tear[e]
      /\ head'[d].day = k.day
  BY <1>1, <1>2, <1>3 DEF LogTyped
<1> HIDE DEF d, h
<1>9. Promise("known", j, head', rows', tear', Parts)
  <2> SUFFICES ASSUME NEW n \in On(k.list), NEW e \in Dels \ {d},
                      head[e] # None, rows[e][n] # None, head[e].day = k.day
               PROVE  Compatible(rows[e][n], k.list[n], Parts)
    BY <1>1, <1>6, <1>8 DEF Promise
  <2>1. Checked(k, n)
    BY <1>1 DEF Checked, Moved
  <2>2. e \in Dels \ {k.d} /\ head[e].day <= k.day /\ n \in On(k.list) \ k.todo
    BY <1>1, <1>3, <1>7
  <2> QED
    BY <2>1, <2>2, <1>1, <1>4 DEF Passed
<1> HIDE DEF k
<1>10. First("known", j, rows')
  BY DEF First
<1>11. \A n \in Nums : rows'[d][n] = None
  BY <1>1, <1>5 DEF NoRows
<1>12. "known" \in Steps /\ "known" # "idle" /\ "known" \in Writers
  BY DEF Steps, Writers
<1> QED
  BY <1>1, <1>2, <1>3, <1>6, <1>8, <1>9, <1>10, <1>11, <1>12, OneWriteStep, ZenonT(40)

\* What was not checked again is as it was when it was checked.
LEMMA UpdateHeadKeepsOne ==
    ASSUME OneWorker, IInv, OneInv, NEW w \in Workers, UpdateHead(w) PROVE OneInv'
<1> DEFINE k == job[w]
           d == k.d
           j == AfterHead(k, d)
           h == [rev |-> head[d].rev + 1, day |-> k.day, list |-> k.list]
<1>1. /\ pc[w] = "check" /\ pc[w] \notin Writers /\ d # 0 /\ k.todo = {} /\ k.asks = {}
      /\ head[d] # None /\ head[d].rev = k.rev
      /\ head' = [head EXCEPT ![d] = h]
      /\ tear' = [tear EXCEPT ![d] = IF Shared(w, d) THEN "mixed" ELSE tear[d]]
      /\ GoTo(w, "known", j)
      /\ rows' = rows /\ UNCHANGED schedVars
  BY DEF UpdateHead, Writers, SameRev, Begin
<1>2. lastId \in 0..MaxDel /\ MaxDel \in Nat /\ LogTyped /\ JobTyped
  BY TypeParts, Bounds DEF IInv, LogTyped
<1>3. k \in Jobs /\ Aware("check", k, head, lastId) /\ Passed("check", k, head, rows, Parts)
  BY <1>1, <1>2 DEF IInv, JobTyped, AwareOk, OneInv, PassedOk
<1>4. d \in Dels
  BY <1>1, <1>2, <1>3, JobFields DEF Aware, Dels
<1>5. /\ k.was = head[d].list /\ k.wasDay = head[d].day /\ k.day \in Days /\ k.day \in Nat
      /\ k.list \in Lists /\ k.was \in Lists
  BY <1>1, <1>2, <1>3, <1>4, HeaderFields, JobFields, Bounds DEF Aware, LogTyped
<1>6. j \in Jobs /\ j # None /\ j.d = d /\ j.list = k.list
  BY <1>3, <1>4, AfterHeadFields
<1> HIDE DEF j
\* With one worker nobody writes at this moment.
<1>7. \A e \in Dels : Quiet(e) /\ ~Shared(w, e)
  BY <1>1 DEF OneWorker, Quiet, Shared, Writing, Writers
<1>8. /\ \A e \in Dels \ {d} : head'[e] = head[e] /\ rows'[e] = rows[e] /\ tear'[e] = tear[e]
      /\ head'[d].day = k.day /\ tear'[d] = tear[d]
  BY <1>1, <1>2, <1>4, <1>7 DEF LogTyped
<1>9. Promise("known", j, head', rows', tear', Parts)
  <2> SUFFICES ASSUME tear[d] = "whole", NEW n \in On(k.list), NEW e \in Dels \ {d},
                      tear[e] = "whole", head[e] # None, rows[e][n] # None,
                      head[e].list[n] # None, head[e].day = k.day
               PROVE  \/ Compatible(rows[e][n], k.list[n], Parts)
                      \/ rows[d][n] # None /\ rows[d][n].marked
    BY <1>1, <1>4, <1>6, <1>8 DEF Promise
  <2>1. n \in Nums
    BY DEF On
  <2>2. CASE Checked(k, n)
    <3>1. head[e].day <= k.day /\ n \in On(k.list) \ k.todo
      BY <1>1, <1>5
    <3> QED
      BY <3>1, <2>2, <1>1, <1>3 DEF Passed
  <2>3. CASE ~Checked(k, n)
    <3>1. k.was[n] = k.list[n] /\ k.wasDay = k.day /\ k.list[n] # None
      BY <2>3, <1>5, ListFields DEF Checked, Moved, Relinked
    <3>2. Settled(d) /\ Settled(e)
      BY <1>4, <1>7 DEF Settled
    <3>3. rows[d][n] # None /\ rows[d][n].sc = k.list[n]
      BY <3>1, <3>2, <2>1, <1>1, <1>4, <1>5, MatchParts DEF IInv, Matches
    <3>4. Apart(head[d], rows[d], head[e], rows[e], n, Parts)
      BY <3>2, <2>1, <1>4, ApartParts DEF OneInv
    <3>5. \/ rows[d][n].marked \/ rows[e][n].marked
          \/ {rows[d][n].sc, rows[e][n].sc} \subseteq Parts /\ rows[d][n].sc # rows[e][n].sc
      BY <3>1, <3>3, <3>4, <1>1, <1>5 DEF Apart
    <3> QED
      BY <3>3, <3>5 DEF Compatible
  <2> QED
    BY <2>2, <2>3
<1>10. First("known", j, rows')
  BY DEF First
<1>11. \A n \in Nums, e \in Dels \ {d} :
          ~(/\ rows'[d][n] # None /\ ~rows'[d][n].excluded
            /\ rows[e][n] # None /\ ~rows[e][n].excluded)
  BY <1>1, <1>4 DEF OneInv, CountedOnce
<1>12. "known" \in Steps /\ "known" # "idle" /\ "known" \in Writers
  BY DEF Steps, Writers
<1> HIDE DEF d, k, h
<1> QED
  BY <1>1, <1>2, <1>4, <1>6, <1>8, <1>9, <1>10, <1>11, <1>12, OneWriteStep, ZenonT(40)

\* A new row counts only if the receipt is nowhere else.
LEMMA PutOneKeepsOne ==
    ASSUME OneWorker, IInv, OneInv, NEW w \in Workers, NEW n \in Nums, PutOne(w, n)
    PROVE  OneInv'
<1> DEFINE k == job[w]
           d == k.d
           o == rows[d][n]
           r == Put(o, k, n)
           j == [k EXCEPT !.todo = k.todo \ {n}]
<1>1. /\ pc[w] = "put" /\ n \in k.todo
      /\ rows' = [rows EXCEPT ![d][n] = r]
      /\ GoTo(w, "put", j)
      /\ head' = head /\ tear' = tear /\ UNCHANGED schedVars
  BY DEF PutOne, histVars
<1>2. lastId \in 0..MaxDel /\ MaxDel \in Nat /\ LogTyped /\ JobTyped
  BY TypeParts, Bounds DEF IInv, LogTyped
<1>3. /\ k \in Jobs /\ Saved("put", k, head, rows, lastId, tear)
      /\ Promise("put", k, head, rows, tear, Parts) /\ First("put", k, rows)
  BY <1>1, <1>2 DEF IInv, JobTyped, SavedOk, OneInv, PromiseOk, FirstOk
<1>4. d \in Dels
  BY <1>2, <1>3 DEF Saved, Dels
<1>5. k.list \in Lists /\ k.list[n] \in Scs
  BY <1>1, <1>3, JobFields, ListFields DEF Saved
<1>6. o \in Rows \union {None}
  BY <1>2, <1>4 DEF LogTyped
<1>7. pc[w] \in Writers => job[w].d = d
  OBVIOUS
<1>8. \A m \in Nums, e \in Dels \ {d} :
         ~(/\ rows[d][m] # None /\ ~rows[d][m].excluded
           /\ rows[e][m] # None /\ ~rows[e][m].excluded)
  BY <1>4 DEF OneInv, CountedOnce
<1> HIDE DEF k, o
<1>9. /\ r \in Rows /\ r # None
      /\ o # None /\ o.marked => r.marked
      /\ ~r.excluded => IF o = None THEN n \notin k.known ELSE ~o.excluded
  BY <1>3, <1>5, <1>6, PutFields
<1> HIDE DEF r
<1>10. /\ rows'[d][n] = r
       /\ \A m \in Nums \ {n} : rows'[d][m] = rows[d][m]
       /\ \A e \in Dels \ {d} : rows'[e] = rows[e] /\ head'[e] = head[e] /\ tear'[e] = tear[e]
  BY <1>1, <1>2, <1>4, <1>9 DEF LogTyped
<1>11. k.todo \ {n} \in SUBSET Nums
  BY <1>3, JobFields
<1>12. j \in Jobs /\ j.d = d /\ j.list = k.list /\ j.todo = k.todo \ {n} /\ j.known = k.known
  BY <1>3, <1>11 DEF Jobs
<1>13. j # None
  BY <1>12, JobFields
<1> HIDE DEF j
<1>14. \A m \in Nums : rows[d][m] # None /\ rows[d][m].marked => rows'[d][m] # None /\ rows'[d][m].marked
  BY <1>9, <1>10 DEF o
<1>15. Promise("put", j, head', rows', tear', Parts)
  <2> SUFFICES ASSUME tear[d] = "whole", NEW m \in On(k.list), NEW e \in Dels \ {d},
                      tear[e] = "whole", head[e] # None, rows[e][m] # None,
                      head[e].list[m] # None, head[e].day = head[d].day
               PROVE  \/ Compatible(rows[e][m], k.list[m], Parts)
                      \/ rows'[d][m] # None /\ rows'[d][m].marked
    BY <1>1, <1>10, <1>12 DEF Promise
  <2>1. \/ Compatible(rows[e][m], k.list[m], Parts)
        \/ rows[d][m] # None /\ rows[d][m].marked
    BY <1>3 DEF Promise
  <2>2. m \in Nums
    BY DEF On
  <2> QED
    BY <2>1, <2>2, <1>14
<1>16. First("put", j, rows')
  BY <1>3, <1>10, <1>12 DEF First
<1>17. \A m \in Nums, e \in Dels \ {d} :
          ~(/\ rows'[d][m] # None /\ ~rows'[d][m].excluded
            /\ rows[e][m] # None /\ ~rows[e][m].excluded)
  <2> SUFFICES ASSUME NEW m \in Nums, NEW e \in Dels \ {d},
                      rows'[d][m] # None, ~rows'[d][m].excluded,
                      rows[e][m] # None, ~rows[e][m].excluded
               PROVE  FALSE
    OBVIOUS
  <2>1. CASE m # n
    BY <2>1, <1>8, <1>10
  <2>2. CASE m = n /\ o # None
    BY <2>2, <1>8, <1>9, <1>10 DEF o
  <2>3. CASE m = n /\ o = None
    <3>1. n \in k.todo \ k.known
      BY <2>3, <1>1, <1>9, <1>10
    <3> QED
      BY <3>1, <2>3, <1>3 DEF First, d
  <2> QED
    BY <2>1, <2>2, <2>3
<1>18. "put" \in Steps /\ "put" # "idle" /\ "put" \in Writers
  BY DEF Steps, Writers
<1>19. GoTo(w, "put", j) /\ UNCHANGED schedVars
  BY <1>1
<1> HIDE DEF d
<1> QED
  BY <1>2, <1>4, <1>7, <1>10, <1>12, <1>13, <1>15, <1>16, <1>17, <1>18, <1>19, OneWriteStep

\* When the save is done, the promise is the property.
LEMMA DropKeepsOne ==
    ASSUME OneWorker, IInv, OneInv, NEW w \in Workers, Drop(w) PROVE OneInv'
<1> DEFINE k == job[w]
           d == k.d
           r == [n \in Nums |-> IF n \in On(k.was) \ On(k.list) THEN None ELSE rows[d][n]]
<1>1. /\ pc[w] = "put" /\ k.todo = {}
      /\ rows' = [rows EXCEPT ![d] = r]
      /\ tear' = [tear EXCEPT ![d] = IF tear[d] = "torn" THEN "mended" ELSE tear[d]]
      /\ GoTo(w, "idle", None)
      /\ head' = head /\ UNCHANGED schedVars
  BY FinishGoes DEF Drop
<1>2. lastId \in 0..MaxDel /\ MaxDel \in Nat /\ LogTyped /\ JobTyped
  BY TypeParts, Bounds DEF IInv, LogTyped
<1>3. /\ k \in Jobs /\ Saved("put", k, head, rows, lastId, tear)
      /\ Promise("put", k, head, rows, tear, Parts)
  BY <1>1, <1>2 DEF IInv, JobTyped, SavedOk, OneInv, PromiseOk
<1>4. d \in Dels
  BY <1>2, <1>3 DEF Saved, Dels
<1>5. k.list \in Lists
  BY <1>3, JobFields
<1>6. \A n \in Nums : r[n] = IF n \in On(k.was) \ On(k.list) THEN None ELSE rows[d][n]
  OBVIOUS
<1> HIDE DEF r
<1>7. /\ rows'[d] = r
      /\ tear'[d] = IF tear[d] = "torn" THEN "mended" ELSE tear[d]
      /\ \A e \in Dels \ {d} : rows'[e] = rows[e] /\ head'[e] = head[e] /\ tear'[e] = tear[e]
  BY <1>1, <1>2, <1>4 DEF LogTyped
<1>8. \A n \in Nums, e \in Dels \ {d} :
         ~(/\ rows[d][n] # None /\ ~rows[d][n].excluded
           /\ rows[e][n] # None /\ ~rows[e][n].excluded)
  BY <1>4 DEF OneInv, CountedOnce
<1>9. ASSUME tear'[d] = "whole", NEW n \in Nums, NEW e \in Dels \ {d}, tear[e] = "whole"
      PROVE  Apart(head'[d], rows'[d], head[e], rows[e], n, Parts)
  <2> SUFFICES ASSUME head[d] # None, r[n] # None, head[d].list[n] # None,
                      head[e] # None, rows[e][n] # None, head[e].list[n] # None,
                      head[d].day = head[e].day
               PROVE  \/ r[n].marked \/ rows[e][n].marked
                      \/ {r[n].sc, rows[e][n].sc} \subseteq Parts /\ r[n].sc # rows[e][n].sc
    BY <1>1, <1>7 DEF Apart
  <2>1. tear[d] = "whole"
    BY <1>7, <1>9
  <2>2. head[d].list = k.list
    BY <2>1, <1>3 DEF Saved
  <2>3. n \in On(k.list) \ k.todo /\ r[n] = rows[d][n]
    BY <2>2, <1>1, <1>5, <1>6, ListFields
  <2>4. r[n].sc = k.list[n]
    BY <2>1, <2>3, <1>3 DEF Saved
  <2>5. Compatible(rows[e][n], k.list[n], Parts) \/ (rows[d][n] # None /\ rows[d][n].marked)
    BY <2>1, <2>3, <1>3, <1>9 DEF Promise
  <2> QED
    BY <2>3, <2>4, <2>5 DEF Compatible
<1>10. Promise("idle", None, head', rows', tear', Parts) /\ First("idle", None, rows')
  BY DEF Promise, First
<1>11. "idle" \in Steps /\ "idle" \notin Writers /\ (pc[w] \in Writers => job[w].d = d)
  BY DEF Steps, Writers
<1>12. /\ GoTo(w, "idle", None) /\ UNCHANGED schedVars
       /\ \A n \in Nums, e \in Dels \ {d} :
            ~(/\ rows'[d][n] # None /\ ~rows'[d][n].excluded
              /\ rows[e][n] # None /\ ~rows[e][n].excluded)
  <2>1. \A n \in Nums : rows'[d][n] = None \/ rows'[d][n] = rows[d][n]
    BY <1>6, <1>7
  <2> QED
    BY <2>1, <1>1, <1>8
<1> HIDE DEF d, k
<1> QED
  BY <1>2, <1>4, <1>7, <1>9, <1>10, <1>11, <1>12, OneWriteStep

\* Rows that are removed break no promise.
LEMMA RemovalsKeepOne ==
    ASSUME OneWorker, IInv, OneInv, NEW w \in Workers, Delete(w) \/ Crash(w) PROVE OneInv'
<1>1. LogTyped /\ JobTyped /\ lastId \in 0..MaxDel /\ MaxDel \in Nat
  BY TypeParts, Bounds DEF IInv, LogTyped
<1>2. /\ "idle" \in Steps /\ "idle" \notin Writers
      /\ "delhead" \in Steps /\ "delhead" \in Writers /\ "delhead" # "idle"
  BY DEF Steps, Writers
<1>3. \A n \in Nums : \A d \in Dels : \A e \in Dels \ {d} :
         ~(/\ rows[d][n] # None /\ ~rows[d][n].excluded
           /\ rows[e][n] # None /\ ~rows[e][n].excluded)
  BY DEF OneInv, CountedOnce
<1>4. Promise("idle", None, head', rows', tear', Parts) /\ First("idle", None, rows')
  BY DEF Promise, First
<1>5. ASSUME NEW d \in Dels, DeleteRows(w, d) PROVE OneInv'
  <2> DEFINE j == [NewJob EXCEPT !.d = d]
  <2>1. /\ pc[w] \notin Writers /\ GoTo(w, "delhead", j)
        /\ rows' = [rows EXCEPT ![d] = NoRows] /\ head' = head /\ UNCHANGED schedVars
        /\ tear' = [tear EXCEPT ![d] = IF Shared(w, d) THEN "mixed" ELSE tear[d]]
    BY <1>5 DEF DeleteRows, Writers, Begin
  <2>2. j \in Jobs /\ j.d = d /\ j # None
    BY DeleteJobFields, JobFields
  <2> HIDE DEF j
  <2>3. /\ \A n \in Nums : rows'[d][n] = None
        /\ \A e \in Dels \ {d} : rows'[e] = rows[e] /\ head'[e] = head[e] /\ tear'[e] = tear[e]
    BY <1>1, <2>1 DEF LogTyped, NoRows
  <2>4. Promise("delhead", j, head', rows', tear', Parts) /\ First("delhead", j, rows')
    BY DEF Promise, First
  <2> QED
    BY <1>1, <1>2, <2>1, <2>2, <2>3, <2>4, OneWriteStep, ZenonT(40)
<1>6. CASE DeleteHead(w)
  <2> DEFINE d == job[w].d
  <2>1. /\ pc[w] = "delhead" /\ head' = [head EXCEPT ![d] = None]
        /\ GoTo(w, "idle", None) /\ rows' = rows /\ tear' = tear /\ UNCHANGED schedVars
    BY <1>6, FinishGoes DEF DeleteHead, histVars
  <2>2. d \in Dels
    BY <1>1, <2>1 DEF IInv, DeletedOk, Deleted, Dels
  <2>3. /\ head'[d] = None
        /\ \A e \in Dels \ {d} : rows'[e] = rows[e] /\ head'[e] = head[e] /\ tear'[e] = tear[e]
    BY <1>1, <2>1, <2>2 DEF LogTyped
  <2>4. \A n \in Nums, e \in Dels \ {d} : Apart(head'[d], rows'[d], head[e], rows[e], n, Parts)
    BY <2>3 DEF Apart
  <2>5. \A n \in Nums, e \in Dels \ {d} :
           ~(/\ rows'[d][n] # None /\ ~rows'[d][n].excluded
             /\ rows[e][n] # None /\ ~rows[e][n].excluded)
    BY <1>3, <2>1, <2>2
  <2>6. pc[w] \in Writers => job[w].d = d
    OBVIOUS
  <2>7. tear'[d] = "whole" =>
           \A n \in Nums, e \in Dels \ {d} :
              tear[e] = "whole" => Apart(head'[d], rows'[d], head[e], rows[e], n, Parts)
    BY <2>4
  <2>8. GoTo(w, "idle", None) /\ UNCHANGED schedVars
    BY <2>1
  <2> HIDE DEF d
  <2> QED
    BY <1>1, <1>2, <1>4, <2>2, <2>3, <2>5, <2>6, <2>7, <2>8, OneWriteStep
<1>7. CASE Crash(w)
  <2>1. PICK d \in Dels :
          /\ Writing(w, d)
          /\ tear' = [tear EXCEPT ![d] =
                         IF pc[w] = "delhead" \/ tear[d] = "mixed" THEN "mixed" ELSE "torn"]
    BY <1>7 DEF Crash
  <2>2. head' = head /\ rows' = rows /\ GoTo(w, "idle", None) /\ job[w].d = d
        /\ UNCHANGED schedVars
    BY <1>7, <2>1, FinishGoes DEF Crash, logVars, Writing
  <2>3. /\ tear'[d] # "whole"
        /\ \A e \in Dels \ {d} : rows'[e] = rows[e] /\ head'[e] = head[e] /\ tear'[e] = tear[e]
    BY <1>1, <2>1, <2>2 DEF LogTyped
  <2> QED
    BY <1>1, <1>2, <1>3, <1>4, <2>2, <2>3, OneWriteStep
<1> QED
  BY <1>5, <1>6, <1>7 DEF Delete

\* A record that a delivery or a save has stays where it was counted.
LEMMA PartsLast ==
    ASSUME SchedTyped, ScheduleStep, NEW s \in Parts, InHand(s) PROVE s \in Parts'
<1>1. s \in Scs /\ (partial[s] \/ s \in completed)
  BY DEF Parts
<1>2. completed' = completed \union {t \in Scs : InHand(t) /\ partial[t] /\ ~partial'[t]}
  BY DEF ScheduleStep
<1> QED
  BY <1>1, <1>2 DEF Parts

\* The schedule breaks no promise.
LEMMA ScheduleKeepsOne ==
    ASSUME OneWorker, IInv, OneInv, ScheduleStep PROVE OneInv'
<1>1. /\ head' = head /\ rows' = rows /\ tear' = tear /\ pc' = pc /\ job' = job
  BY DEF ScheduleStep, logVars, histVars
<1>2. LogTyped /\ JobTyped /\ SchedTyped
  BY TypeParts DEF IInv
<1>3. ASSUME NEW e \in Dels, NEW n \in Nums, rows[e][n] # None, rows[e][n].sc \in Parts
      PROVE  rows[e][n].sc \in Parts'
  <2>1. rows[e][n].sc \in Scs
    BY <1>2, <1>3, RowFields DEF LogTyped
  <2>2. InHand(rows[e][n].sc)
    BY <2>1, <1>3 DEF InHand, Used
  <2> QED
    BY <2>2, <1>2, <1>3, PartsLast
<1>4. ASSUME NEW w \in Workers, pc[w] # "idle", NEW n \in Nums, job[w].list[n] \in Parts
      PROVE  job[w].list[n] \in Parts'
  <2>1. InHand(job[w].list[n])
    BY <1>2, <1>4 DEF InHand, JobTyped
  <2> QED
    BY <2>1, <1>2, <1>4, PartsLast
<1>5. ASSUME NEW w \in Workers, pc[w] # "idle", NEW e \in Dels, NEW n \in Nums, rows[e][n] # None,
             Compatible(rows[e][n], job[w].list[n], Parts)
      PROVE  Compatible(rows[e][n], job[w].list[n], Parts')
  BY <1>3, <1>4, <1>5 DEF Compatible
<1>6. PassedOk'
  <2> SUFFICES ASSUME NEW w \in Workers PROVE Passed(pc[w], job[w], head, rows, Parts')
    BY <1>1 DEF PassedOk
  <2>1. Passed(pc[w], job[w], head, rows, Parts) /\ On(job[w].list) \subseteq Nums
    BY DEF OneInv, PassedOk, On
  <2> SUFFICES ASSUME pc[w] = "check", NEW n \in On(job[w].list) \ job[w].todo, Checked(job[w], n),
                      NEW e \in Dels \ {job[w].d},
                      rows[e][n] # None, head[e] # None, head[e].day <= job[w].day
               PROVE  IF n \in job[w].asks
                      THEN \/ rows[e][n].marked
                           \/ rows[e][n].sc \in Parts' /\ rows[e][n].sc # job[w].list[n]
                      ELSE Compatible(rows[e][n], job[w].list[n], Parts')
    BY DEF Passed
  <2>2. IF n \in job[w].asks
        THEN rows[e][n].marked \/ (rows[e][n].sc \in Parts /\ rows[e][n].sc # job[w].list[n])
        ELSE Compatible(rows[e][n], job[w].list[n], Parts)
    BY <2>1 DEF Passed
  <2>3. n \in Nums
    BY <2>1
  <2> QED
    BY <2>2, <2>3, <1>3, <1>5
<1>7. PromiseOk'
  <2> SUFFICES ASSUME NEW w \in Workers PROVE Promise(pc[w], job[w], head, rows, tear, Parts')
    BY <1>1 DEF PromiseOk
  <2>1. Promise(pc[w], job[w], head, rows, tear, Parts) /\ On(job[w].list) \subseteq Nums
    BY DEF OneInv, PromiseOk, On
  <2> SUFFICES ASSUME pc[w] \in {"known", "put"}, tear[job[w].d] = "whole",
                      NEW n \in On(job[w].list), NEW e \in Dels \ {job[w].d},
                      tear[e] = "whole", head[e] # None, rows[e][n] # None, head[e].list[n] # None,
                      head[e].day = head[job[w].d].day
               PROVE  \/ Compatible(rows[e][n], job[w].list[n], Parts')
                      \/ rows[job[w].d][n] # None /\ rows[job[w].d][n].marked
    BY DEF Promise
  <2>2. \/ Compatible(rows[e][n], job[w].list[n], Parts)
        \/ rows[job[w].d][n] # None /\ rows[job[w].d][n].marked
    BY <2>1 DEF Promise
  <2> QED
    BY <2>1, <2>2, <1>5
<1>8. FirstOk' /\ CountedOnce'
  BY <1>1 DEF OneInv, FirstOk, CountedOnce
<1>9. NoRedeliverySameDay'
  <2> SUFFICES ASSUME NEW n \in Nums, NEW d \in Dels, NEW e \in Dels,
                      d # e, Settled(d)', Settled(e)'
               PROVE  Apart(head'[d], rows'[d], head'[e], rows'[e], n, Parts')
    BY ApartPartsPrime
  <2>1. Settled(d) /\ Settled(e)
    BY <1>1 DEF Settled, Quiet, Writing
  <2>2. Apart(head[d], rows[d], head[e], rows[e], n, Parts)
    BY <2>1, ApartParts DEF OneInv
  <2> QED
    BY <2>2, <1>1, <1>3 DEF Apart
<1> QED
  BY <1>6, <1>7, <1>8, <1>9 DEF OneInv

\* Every step preserves it.
LEMMA NextKeepsOne == ASSUME OneWorker, IInv, OneInv, [Next]_vars PROVE OneInv'
<1>1. CASE UNCHANGED vars
  <2>1. /\ head' = head /\ rows' = rows /\ tear' = tear /\ pc' = pc /\ job' = job
        /\ Parts' = Parts
    BY <1>1, PartsStay DEF vars, logVars, histVars
  <2> QED
    BY <2>1 DEF OneInv, PassedOk, PromiseOk, FirstOk, CountedOnce, NoRedeliverySameDay,
                Listed, Settled, Quiet, Writing
<1>5. CASE ScheduleStep
  BY <1>5, ScheduleKeepsOne
<1>2. ASSUME NEW w \in Workers, PutHead(w) PROVE OneInv'
  <2>1. TypeOK /\ JobTyped
    BY TypeParts DEF IInv
  <2>2. CASE CreateHead(w) \/ UpdateHead(w)
    BY <2>2, CreateHeadKeepsOne, UpdateHeadKeepsOne
  <2>3. CASE pc[w] = "check" /\ Finish(w) /\ UNCHANGED <<logVars, schedVars, histVars>>
    BY <2>1, <2>3, FinishGoes, OneIdleStep DEF Writers
  <2> QED
    BY <1>2, <2>1, <2>2, <2>3, PutHeadBranches
<1>3. ASSUME NEW w \in Workers, Save(w) PROVE OneInv'
  <2>1. ASSUME NEW n \in Nums, CheckOne(w, n) \/ PutOne(w, n) PROVE OneInv'
    BY <2>1, ChecksKeepOne, PutOneKeepsOne
  <2>2. CASE FindScs(w) \/ AskMode(w) \/ Known(w) \/ Drop(w) \/ PutHead(w)
    BY <2>2, <1>2, ChecksKeepOne, KnownKeepsOne, DropKeepsOne
  <2> QED
    BY <1>3, <2>1, <2>2, PagesKeepOne DEF Save
<1>4. ASSUME NEW w \in Workers, Delete(w) \/ Crash(w) PROVE OneInv'
  BY <1>4, RemovalsKeepOne
<1> QED
  BY <1>1, <1>3, <1>4, <1>5 DEF Next

\* If requests follow one another, the log keeps what the checks promise.
THEOREM OneAtATime == ASSUME OneWorker PROVE Spec => []OneInv
<1>1. Init => OneInv
  BY InitOneInv
<1>2. IInv /\ OneInv /\ [Next]_vars => OneInv'
  BY NextKeepsOne
<1> QED
  BY <1>1, <1>2, Invariant, PTL DEF Spec

\* A receipt is then counted in one delivery at most, whatever stops half-way.
THEOREM CountsOnce == ASSUME OneWorker PROVE Spec => []CountedOnce
<1>1. OneInv => CountedOnce
  BY DEF OneInv
<1> QED
  BY <1>1, OneAtATime, PTL

\* And it does not go out twice on a day without a reason.
THEOREM ShipsOncePerDay == ASSUME OneWorker PROVE Spec => []NoRedeliverySameDay
<1>1. OneInv => NoRedeliverySameDay
  BY DEF OneInv
<1> QED
  BY <1>1, OneAtATime, PTL

============================================================================
