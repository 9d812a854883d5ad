------------------------- MODULE InstSync_proofs ---------------------------
(***************************************************************************)
(* The proofs about InstSync: that the stores agree when nobody has        *)
(* anything to do, on the latest change of each field of which no change   *)
(* was lost - for any number of fields, edits and failures.                *)
(***************************************************************************)
EXTENDS InstSync, TLAPS, SequenceTheorems, WellFoundedInduction

----------------------------------------------------------------------------
(* What a store has recorded.                                              *)

\* The change rows, with the one whose snapshot is stored already.
Eff(s) ==
    IF sync[s].pc = "insert" THEN Append(chg[s], Change(sync[s].lts, sync[s].dif)) ELSE chg[s]

\* The rows of e that change f: number, stamp and value.
Logged(e, f) ==
    {[k |-> i, ts |-> e[i].ts, v |-> e[i].d[f]] : i \in {j \in 1..Len(e) : f \in DOMAIN e[j].d}}

\* The changes of f that s has settled.
Rec(s, f) == Logged(Eff(s), f)

\* The values of f that a store has settled, and the first one.
Published(f) == {0} \cup {r.v : r \in UNION {Rec(s, f) : s \in Stores}}

\* n is the newest of the rows up to id.
IsTop(n, rows, id) == n \in rows /\ n.k <= id /\ \A r \in rows : r.k <= id => r.k <= n.k

----------------------------------------------------------------------------
(* Numbers, clocks and what exists.                                        *)

\* The sync service has a row in hand.
Busy(s) == sync[s].pc # "idle"

\* A store without the customer has nothing to do with it but to copy it.
Exist(s) ==
    /\ pos[s] = None =>
          /\ snap[s] = None /\ ~journal[s] /\ sync[s].pc = "idle" /\ last[s] = 0
          /\ inst[s].pc \in {"idle", "own", "snap", "insert"}
          /\ chg[Other(s)] # <<>> /\ pos[Other(s)] # None /\ snap[Other(s)] # None
    /\ snap[s] = None =>
          /\ chg[s] = <<>> /\ sync[s].pc # "insert"
          /\ inst[s].pc \notin {"update", "commit"}
    /\ inst[s].pc = "insert" => pos[s] = None

\* Stored ids and ids in hand are ids of rows.
Ids(s) ==
    /\ last[s] <= Len(chg[Other(s)])
    /\ inst[s].pc # "idle" => last[s] < inst[s].id /\ inst[s].id <= Len(chg[Other(s)])
    /\ inst[s].pc = "snap" => inst[s].seen <= Len(chg[s])

\* No stamp is later than the clock.
Clocks(s) ==
    /\ lastedit[s] <= now
    /\ Busy(s) => sync[s].lts <= lastedit[s]
    /\ inst[s].pc = "insert" => inst[s].lts <= now

\* Later rows have later stamps, no later than the last edit.
Stamps(s, f) ==
    /\ \A r, q \in Rec(s, f) : r.k <= q.k => r.ts <= q.ts
    /\ \A r \in Rec(s, f) : r.ts <= lastedit[s] /\ (Busy(s) => r.ts <= sync[s].lts)

\* What was fetched is the newest change of each field.
Fetched(s, f) ==
    inst[s].pc \in {"own", "snap"} =>
        IF f \in DOMAIN inst[s].new
        THEN \E n \in Rec(Other(s), f) :
                /\ IsTop(n, Rec(Other(s), f), inst[s].id) /\ n.k > last[s]
                /\ n.ts = inst[s].new[f].ts /\ n.v = inst[s].new[f].v
        ELSE \A r \in Rec(Other(s), f) : r.k <= inst[s].id => r.k <= last[s]

\* What the store found of its own.
Found(s, f) ==
    /\ inst[s].pc = "own" /\ f \in DOMAIN inst[s].new => inst[s].lts <= inst[s].new[f].ts
    /\ inst[s].pc = "snap" /\ f \in DOMAIN inst[s].new =>
          /\ \A r \in Rec(s, f) :
                r.k <= inst[s].seen /\ r.ts >= inst[s].new[f].ts => r.ts <= inst[s].own[f]
          /\ inst[s].own[f] >= inst[s].new[f].ts =>
                \E r \in Rec(s, f) : r.k <= inst[s].seen /\ r.ts = inst[s].own[f]

\* All of these.
Plain ==
    /\ \A s \in Stores : Exist(s) /\ Ids(s) /\ Clocks(s)
    /\ \A s \in Stores, f \in Fields : Stamps(s, f) /\ Fetched(s, f) /\ Found(s, f)

----------------------------------------------------------------------------
(* Where the values of a field are, of which no change was lost.           *)

\* The snapshot holds a change that POS does not yet.
Ahead(s, f) == inst[s].pc = "commit" /\ f \in DOMAIN inst[s].take

\* The values of f in POS and in the hand of the sync service.
Held(s, f) ==
    (IF pos[s] # None THEN {pos[s][f]} ELSE {}) \cup (IF Busy(s) THEN {sync[s].row[f]} ELSE {})

\* Values are new when they are made, and reach the other store by a row only.
Distinct(f) ==
    /\ \A s, t \in Stores : s # t => Held(s, f) \cap Held(t, f) \subseteq Published(f)
    /\ \A v \in Published(f) : v <= edits
    /\ \A s \in Stores : \A v \in Held(s, f) : v <= edits

\* A row in hand that POS has left behind is read again.
Reread(s, f) ==
    Busy(s) /\ sync[s].row[f] # pos[s][f] => journal[s] /\ pos[s][f] \notin Published(f)

\* What POS has and the snapshot lacks is nowhere else.
Private(s, f) ==
    /\ pos[s] # None /\ snap[s] = None => pos[s][f] \in Published(f)
    /\ snap[s] # None /\ pos[s][f] # snap[s][f] /\ ~Ahead(s, f) => pos[s][f] \notin Published(f)
    /\ sync[s].pc \in {"compare", "replace"} /\ snap[s] = None => sync[s].row[f] = pos[s][f]
    /\ sync[s].pc = "compare" /\ snap[s] # None /\ ~Ahead(s, f) =>
          sync[s].row[f] = snap[s][f] \/ sync[s].row[f] \notin Published(f)
    /\ sync[s].pc = "replace" /\ ~Ahead(s, f) =>
          IF f \in DOMAIN sync[s].dif THEN snap[s] # None /\ sync[s].row[f] \notin Published(f)
          ELSE snap[s] # None => sync[s].row[f] = snap[s][f]
    /\ sync[s].pc = "insert" \/ (sync[s].pc = "replace" /\ f \notin DOMAIN sync[s].dif) =>
          sync[s].row[f] \in Published(f)
    /\ sync[s].pc \in {"replace", "insert"} /\ f \in DOMAIN sync[s].dif =>
          sync[s].dif[f] = sync[s].row[f]

\* What POS has and the snapshot lacks will be found.
Pending(s, f) ==
    /\ pos[s] # None /\ snap[s] = None => journal[s] \/ Busy(s)
    /\ snap[s] # None /\ pos[s][f] # snap[s][f] /\ ~Ahead(s, f) =>
          journal[s] \/ (sync[s].pc \in {"compare", "replace"} /\ sync[s].row[f] = pos[s][f])

\* What the exchange service has in hand is published.
Public(s, f) ==
    /\ snap[s] # None => snap[s][f] \in Published(f)
    /\ inst[s].pc = "insert" => inst[s].row[f] \in Published(f)
    /\ inst[s].pc \in {"update", "commit"} =>
         /\ inst[s].c[f] \in Published(f)
         /\ f \in DOMAIN inst[s].take =>
              inst[s].take[f] \in Published(f) /\ inst[s].take[f] # inst[s].c[f]

\* The sync service has not read what the commit is still to write.
Unread(s, f) ==
    Ahead(s, f) /\ pos[s][f] = inst[s].c[f] /\ Busy(s) => sync[s].row[f] # inst[s].take[f]

\* All of these, of one store.
InHand(s, f) == Reread(s, f) /\ Private(s, f) /\ Pending(s, f) /\ Public(s, f) /\ Unread(s, f)

\* A field of which no change was lost.
FieldOk(f) == Distinct(f) /\ \A s \in Stores : InHand(s, f)

----------------------------------------------------------------------------
(* Which change a store has settled on.                                    *)

\* The commit to come will find that a change was lost.
Doomed(s, f) ==
    Ahead(s, f) /\ ~(pos[s][f] = inst[s].c[f] /\ snap[s][f] = inst[s].take[f])

\* No change was lost, or will turn out to be by a commit.
Good(f) == f \notin astray /\ \A s \in Stores : ~Doomed(s, f)

\* Rows of the other store up to here are in the snapshot.
Lo(s, f) ==
    IF \/ inst[s].pc \in {"last", "commit", "insert"}
       \/ inst[s].pc = "update" /\ f \notin DOMAIN inst[s].take
    THEN inst[s].id ELSE last[s]

\* What store s knows of the customer.
Known(s) == inst[s].pc = "insert" \/ pos[s] # None

\* The row that s has settled on.
Base(s) ==
    IF inst[s].pc = "insert" THEN inst[s].row ELSE IF snap[s] = None THEN pos[s] ELSE snap[s]

\* No value is recorded twice.
Unique(f) ==
    \A s, t \in Stores : \A r \in Rec(s, f), q \in Rec(t, f) :
        r.v # 0 /\ (r.v = q.v => s = t /\ r = q)

\* y is the winner of the changes mine and theirs, of theirs those up to lo;
\* the other store has seen those of mine up to olo.
Wins(y, mine, theirs, lo, olo) ==
    \/ y = 0 /\ mine = {} /\ \A r \in theirs : r.k > lo
    \/ \E w \in mine :
         /\ w.v = y
         /\ \A r \in mine : r.k <= w.k
         /\ \A r \in theirs : r.k <= lo =>
              /\ r.ts <= w.ts
              /\ r.ts = w.ts => w.k > olo \/ \E q \in theirs : q.ts > w.ts
    \/ \E w \in theirs :
         /\ w.v = y
         /\ \A r \in theirs : r.k <= lo => r.k <= w.k
         /\ \A r \in mine : r.ts < w.ts

\* What s has settled on is the winner of what it knows.
Winner(s, f) ==
    Known(s) => Wins(Base(s)[f], Rec(s, f), Rec(Other(s), f), Lo(s, f), Lo(Other(s), f))

\* Whatever is in the snapshot is no later than an edit it lacks.
Later(y, theirs, lo, ts) == \A r \in theirs : r.k <= lo \/ r.v = y => r.ts <= ts

\* An edit that is not settled yet is no earlier than what is.
Edited(s, f) ==
    /\ pos[s] # None /\ pos[s][f] \notin Published(f) =>
          Later(Base(s)[f], Rec(Other(s), f), Lo(s, f), lastedit[s])
    /\ Busy(s) /\ sync[s].row[f] \notin Published(f) =>
          Later(Base(s)[f], Rec(Other(s), f), Lo(s, f), sync[s].lts)

\* What s is about to take is the newest change, and wins.
Taken(s, f) ==
    inst[s].pc = "update" /\ f \in DOMAIN inst[s].take =>
        \E n \in Rec(Other(s), f) :
            /\ IsTop(n, Rec(Other(s), f), inst[s].id) /\ n.k > last[s]
            /\ n.v = inst[s].take[f]
            /\ snap[s][f] = inst[s].c[f] => \A r \in Rec(s, f) : r.ts < n.ts

\* A field whose stores will agree.
ChangeOk(f) ==
    /\ Unique(f)
    /\ \A s \in Stores : Winner(s, f) /\ Edited(s, f) /\ Taken(s, f)

\* The invariant of every field of which no change was lost,
FieldsOk == \A f \in Fields \ astray : FieldOk(f)
\* and of every field that is in order.
ChangesOk == \A f \in Fields : Good(f) => ChangeOk(f)

\* The inductive invariant.
IInv == TypeOK /\ Plain /\ FieldsOk /\ ChangesOk

----------------------------------------------------------------------------
(* Extremes.                                                               *)

\* A set of naturals has a least one.
LEMMA LeastNat ==
    ASSUME NEW T \in SUBSET Nat, T # {}
    PROVE  \E x \in T : \A y \in T : x <= y
<1> DEFINE R == OpToRel(<, Nat)
<1>1. IsWellFoundedOn(R, Nat)
  BY NatLessThanWellFounded
<1>2. \E x \in T : \A y \in T : ~(<<y, x>> \in R)
  <2> HIDE DEF R
  <2> QED BY <1>1, WFMin
<1>3. \A x, y \in Nat : y < x => <<y, x>> \in R
  BY DEF OpToRel
<1>4. \A x, y \in Nat : ~(y < x) => x <= y
  OBVIOUS
<1> HIDE DEF R
<1> QED BY <1>2, <1>3, <1>4

\* The greatest member of a bounded set is the greatest.
LEMMA MaxIs ==
    ASSUME NEW n \in Nat, NEW T \in SUBSET (0..n), T # {}
    PROVE  Max(T) \in T /\ \A y \in T : y <= Max(T)
<1> DEFINE D == {n - x : x \in T}
<1>1. D \in SUBSET Nat /\ D # {}
  <2>1. \A x \in T : x \in 0..n /\ n - x \in Nat
    OBVIOUS
  <2>2. \A d \in D : d \in Nat
    BY <2>1
  <2>3. PICK x \in T : TRUE
    OBVIOUS
  <2>4. n - x \in D
    BY <2>3
  <2> QED BY <2>2, <2>4
<1>2. PICK d \in D : \A e \in D : d <= e
  <2> HIDE DEF D
  <2> QED BY <1>1, LeastNat
<1>3. PICK x \in T : d = n - x
  BY <1>2
<1>4. ASSUME NEW y \in T PROVE x >= y
  <2>1. n - y \in D
    OBVIOUS
  <2>2. x \in Int /\ y \in Int /\ n - x <= n - y
    BY <1>2, <1>3, <2>1
  <2> QED BY <2>2
<1> QED BY <1>3, <1>4 DEF Max

\* The least member of a set of naturals is the least.
LEMMA MinIs ==
    ASSUME NEW T \in SUBSET Nat, T # {}
    PROVE  Min(T) \in T /\ \A y \in T : Min(T) <= y
<1>1. PICK x \in T : \A y \in T : x <= y
  BY LeastNat
<1> QED BY <1>1 DEF Min

\* No change at all.
LEMMA EmptyPart == <<>> \in Parts /\ DOMAIN <<>> = {}
<1>1. <<>> \in Seq(Values) /\ Len(<<>>) = 0
  BY EmptySeq
<1>2. <<>> \in [1..0 -> Values]
  BY <1>1, LenProperties
<1>3. <<>> \in [{} -> Values]
  BY <1>2
<1> QED BY <1>3 DEF Parts

----------------------------------------------------------------------------
(* Types.                                                                  *)

\* Each of the two stores is the other one of the other.
LEMMA TwoStores ==
    ASSUME NEW s \in Stores
    PROVE  /\ Other(s) \in Stores /\ Other(s) # s /\ Other(Other(s)) = s
           /\ \A t \in Stores : t = s \/ t = Other(s)
BY InstSyncAssumption DEF Other

\* Stamps and values are naturals.
LEMMA Numbers ==
    /\ MaxEdits \in Nat /\ MaxFails \in Nat
    /\ Times \subseteq Nat /\ Values \subseteq Nat
    /\ 0 \in Times /\ 0 \in Values
BY InstSyncAssumption DEF Times, Values

\* A row is not null.
LEMMA NoneIsNoRow == None \notin Rows
<1>1. Rows \subseteq [Fields -> Nat]
  BY Numbers DEF Rows
<1> QED BY <1>1, InstSyncAssumption

\* What a part of a row is.
LEMMA PartFields ==
    /\ \A d \in Parts : DOMAIN d \subseteq Fields /\ \A f \in DOMAIN d : d[f] \in Values
    /\ \A F \in SUBSET Fields : \A d \in [F -> Values] : d \in Parts
BY DEF Parts

\* What a change is.
LEMMA ChangeFields ==
    /\ \A c \in Changes : c.ts \in Times /\ c.d \in Parts
    /\ \A t \in Times, d \in Parts :
          /\ Change(t, d) \in Changes
          /\ Change(t, d).ts = t /\ Change(t, d).d = d
BY DEF Changes, Change

\* The steps of the sync service.
SyncSteps == {"idle", "compare", "replace", "insert"}

\* The fields of the sync service at each step.
LEMMA SyncFields ==
    ASSUME NEW x \in SyncStates
    PROVE  /\ x.pc \in SyncSteps
           /\ x.pc = "idle" => x = SyncIdle
           /\ x.pc # "idle" => x.row \in Rows /\ x.lts \in Times
           /\ x.pc \in {"replace", "insert"} => x.dif \in Parts
           /\ x.pc = "replace" =>
                 LET y == [x EXCEPT !.pc = "insert"]
                 IN  /\ y \in SyncStates /\ y.pc = "insert"
                     /\ y.row = x.row /\ y.lts = x.lts /\ y.dif = x.dif
BY DEF SyncStates, SyncSteps, SyncIdle

\* The states of the sync service that its steps make.
LEMMA NewSync ==
    /\ SyncIdle \in SyncStates /\ SyncIdle.pc = "idle"
    /\ \A r \in Rows, t \in Times :
          LET x == [pc |-> "compare", row |-> r, lts |-> t]
          IN  x \in SyncStates /\ x.pc = "compare" /\ x.row = r /\ x.lts = t
    /\ \A r \in Rows, t \in Times, d \in Parts :
          LET x == [pc |-> "replace", row |-> r, lts |-> t, dif |-> d]
          IN  x \in SyncStates /\ x.pc = "replace" /\ x.row = r /\ x.lts = t /\ x.dif = d
BY DEF SyncStates, SyncIdle

\* The steps of the exchange service.
InstSteps == {"idle", "own", "snap", "update", "commit", "last", "insert"}

\* The fields of the exchange service at each step.
LEMMA InstFields ==
    ASSUME NEW x \in InstStates
    PROVE  /\ x.pc \in InstSteps
           /\ x.pc = "idle" => x = InstIdle
           /\ x.pc # "idle" => x.id \in Nat
           /\ x.pc = "own" => x.new \in Remote /\ x.lts \in Times
           /\ x.pc = "snap" =>
                 x.new \in Remote /\ x.own \in [Fields -> Times \cup {-1}] /\ x.seen \in Nat
           /\ x.pc \in {"update", "commit"} => x.c \in Rows /\ x.take \in Parts
           /\ x.pc = "insert" => x.row \in Rows /\ x.lts \in Times
           /\ x.pc = "update" =>
                 LET y == [x EXCEPT !.pc = "commit"]
                 IN  /\ y \in InstStates /\ y.pc = "commit"
                     /\ y.id = x.id /\ y.c = x.c /\ y.take = x.take
BY DEF InstStates, InstSteps, InstIdle

\* The states of the exchange service that its steps make.
LEMMA NewInst ==
    /\ InstIdle \in InstStates /\ InstIdle.pc = "idle"
    /\ \A n \in Remote, t \in Times, i \in Nat :
          LET x == [pc |-> "own", new |-> n, lts |-> t, id |-> i]
          IN  x \in InstStates /\ x.pc = "own" /\ x.new = n /\ x.lts = t /\ x.id = i
    /\ \A n \in Remote, i, k \in Nat, o \in [Fields -> Times \cup {-1}] :
          LET x == [pc |-> "snap", new |-> n, id |-> i, own |-> o, seen |-> k]
          IN  /\ x \in InstStates /\ x.pc = "snap"
              /\ x.new = n /\ x.id = i /\ x.own = o /\ x.seen = k
    /\ \A i \in Nat, r \in Rows, d \in Parts :
          LET x == [pc |-> "update", id |-> i, c |-> r, take |-> d]
          IN  x \in InstStates /\ x.pc = "update" /\ x.id = i /\ x.c = r /\ x.take = d
    /\ \A i \in Nat :
          LET x == [pc |-> "last", id |-> i]
          IN  x \in InstStates /\ x.pc = "last" /\ x.id = i
    /\ \A i \in Nat, r \in Rows, t \in Times :
          LET x == [pc |-> "insert", id |-> i, row |-> r, lts |-> t]
          IN  x \in InstStates /\ x.pc = "insert" /\ x.id = i /\ x.row = r /\ x.lts = t
BY DEF InstStates, InstIdle

\* What a merged answer is.
LEMMA RemoteFields ==
    /\ \A n \in Remote :
          DOMAIN n \subseteq Fields /\ \A f \in DOMAIN n : n[f].ts \in Times /\ n[f].v \in Values
    /\ \A F \in SUBSET Fields : \A n \in [F -> [ts : Times, v : Values]] : n \in Remote
BY DEF Remote

\* A step of a store.
Step(s) ==
    \/ \E f \in Fields : Edit(s, f)
    \/ Sync(s) \/ SyncFail(s)
    \/ Inst(s) \/ InstFail(s)

\* A step of the system is a step of a store.
LEMMA NextSteps == Next => \E s \in Stores : Step(s)
BY DEF Next, Step

\* What _diff_customer finds.
LEMMA DiffFields ==
    ASSUME NEW o \in Rows \cup {None}, NEW n \in Rows
    PROVE  /\ Diff(o, n) \in Parts
           /\ o = None => DOMAIN Diff(o, n) = {}
           /\ o # None => DOMAIN Diff(o, n) = {f \in Fields : o[f] # n[f]}
           /\ \A f \in DOMAIN Diff(o, n) : Diff(o, n)[f] = n[f]
<1>1. CASE o = None
  BY <1>1, EmptyPart DEF Diff
<1>2. CASE o # None
  <2> DEFINE F == {f \in Fields : o[f] # n[f]}
  <2>1. Diff(o, n) = [f \in F |-> n[f]]
    BY <1>2 DEF Diff, Restrict
  <2>2. Diff(o, n) \in [F -> Values] /\ F \in SUBSET Fields
    BY <2>1 DEF Rows
  <2>3. Diff(o, n) \in Parts
    <3> HIDE DEF F
    <3> QED BY <2>2, PartFields
  <2> QED BY <1>2, <2>1, <2>3
<1> QED BY <1>1, <1>2

\* What an update writes.
LEMMA PutFields ==
    ASSUME NEW d \in Parts, NEW c \in Rows
    PROVE  /\ Put(d, c) \in Rows
           /\ \A f \in Fields : Put(d, c)[f] = IF f \in DOMAIN d THEN d[f] ELSE c[f]
BY PartFields DEF Put, Rows

----------------------------------------------------------------------------
(* What is fetched.                                                        *)

\* The rows of one answer, and where they are in the log.
LEMMA AnswerRows ==
    ASSUME NEW e \in Seq(Changes), NEW l \in Nat, l <= Len(e)
    PROVE  LET rows == SubSeq(e, l + 1, Len(e))
           IN  /\ rows \in Seq(Changes) /\ Len(rows) = Len(e) - l
               /\ \A i \in 1..Len(rows) : rows[i] = e[l + i]
               /\ \A k \in l + 1 .. Len(e) : k - l \in 1..Len(rows) /\ rows[k - l] = e[k]
<1>1. Len(e) \in Nat
  BY LenProperties
<1>2. \A i \in l + 1 .. Len(e) : e[i] \in Changes
  <2> TAKE i \in l + 1 .. Len(e)
  <2>1. i \in 1..Len(e)
    BY <1>1
  <2> QED BY <2>1, ElementOfSeq
<1> DEFINE rows == SubSeq(e, l + 1, Len(e))
<1>3. /\ rows \in Seq(Changes) /\ Len(rows) = Len(e) - l
      /\ \A i \in 1 .. Len(e) - (l + 1) + 1 : rows[i] = e[l + 1 + i - 1]
  BY <1>1, <1>2, SubSeqProperties
<1> HIDE DEF rows
<1>4. \A i \in 1..Len(rows) : rows[i] = e[l + i]
  <2> TAKE i \in 1..Len(rows)
  <2>1. i \in 1 .. Len(e) - (l + 1) + 1 /\ l + 1 + i - 1 = l + i
    BY <1>1, <1>3
  <2> QED BY <2>1, <1>3
<1>5. \A k \in l + 1 .. Len(e) : k - l \in 1..Len(rows) /\ rows[k - l] = e[k]
  <2> TAKE k \in l + 1 .. Len(e)
  <2>1. k - l \in 1..Len(rows) /\ l + (k - l) = k
    BY <1>1, <1>3
  <2> QED BY <2>1, <1>4
<1> QED BY <1>3, <1>4, <1>5 DEF rows

\* A merged answer has the newest change of each field.
LEMMA MergedFields ==
    ASSUME NEW rows \in Seq(Changes)
    PROVE  /\ Merged(rows) \in Remote
           /\ \A f \in DOMAIN Merged(rows) : \E i \in 1..Len(rows) :
                 /\ f \in DOMAIN rows[i].d
                 /\ Merged(rows)[f].ts = rows[i].ts /\ Merged(rows)[f].v = rows[i].d[f]
                 /\ \A j \in 1..Len(rows) : f \in DOMAIN rows[j].d => j <= i
           /\ \A i \in 1..Len(rows) : DOMAIN rows[i].d \subseteq DOMAIN Merged(rows)
<1>1. Len(rows) \in Nat /\ DOMAIN rows = 1..Len(rows) /\ \A i \in 1..Len(rows) : rows[i] \in Changes
  BY LenProperties, ElementOfSeq
<1> DEFINE F == UNION {DOMAIN rows[k].d : k \in DOMAIN rows}
<1>2. F \in SUBSET Fields
  BY <1>1, ChangeFields, PartFields
<1>3. ASSUME NEW f \in F
      PROVE  LET i == Newest(rows, f)
             IN  /\ i \in 1..Len(rows) /\ f \in DOMAIN rows[i].d
                 /\ \A j \in 1..Len(rows) : f \in DOMAIN rows[j].d => j <= i
  <2> DEFINE T == {k \in DOMAIN rows : f \in DOMAIN rows[k].d}
  <2>1. T \in SUBSET (0..Len(rows)) /\ T # {}
    BY <1>1
  <2>2. Max(T) \in T /\ \A y \in T : y <= Max(T)
    <3> HIDE DEF T
    <3> QED BY <2>1, <1>1, MaxIs
  <2> QED BY <2>2, <1>1 DEF Newest
<1> DEFINE Entry(f) == [ts |-> rows[Newest(rows, f)].ts, v |-> rows[Newest(rows, f)].d[f]]
<1>4. Merged(rows) = [f \in F |-> Entry(f)]
  BY DEF Merged
<1>5. ASSUME NEW f \in F
      PROVE  Entry(f) \in [ts : Times, v : Values]
  <2>1. rows[Newest(rows, f)] \in Changes /\ f \in DOMAIN rows[Newest(rows, f)].d
    BY <1>1, <1>3
  <2> QED BY <2>1, ChangeFields, PartFields
<1>6. Merged(rows) \in Remote
  <2>1. Merged(rows) \in [F -> [ts : Times, v : Values]]
    <3> HIDE DEF F, Entry
    <3> QED BY <1>4, <1>5
  <2> HIDE DEF F
  <2> QED BY <2>1, <1>2, RemoteFields
<1>7. ASSUME NEW f \in F
      PROVE  \E i \in 1..Len(rows) :
                 /\ f \in DOMAIN rows[i].d
                 /\ Merged(rows)[f].ts = rows[i].ts /\ Merged(rows)[f].v = rows[i].d[f]
                 /\ \A j \in 1..Len(rows) : f \in DOMAIN rows[j].d => j <= i
  <2>1. Merged(rows)[f].ts = rows[Newest(rows, f)].ts /\ Merged(rows)[f].v = rows[Newest(rows, f)].d[f]
    BY <1>4
  <2> QED BY <2>1, <1>3
<1>8. DOMAIN Merged(rows) = F
  BY <1>4
<1>9. \A i \in 1..Len(rows) : DOMAIN rows[i].d \subseteq F
  BY <1>1
<1> HIDE DEF F
<1> QED BY <1>6, <1>7, <1>8, <1>9

\* And no change that is earlier than lts.
LEMMA EarliestFields ==
    ASSUME NEW rows \in Seq(Changes), rows # <<>>
    PROVE  /\ Earliest(rows) \in Times
           /\ \A f \in DOMAIN Merged(rows) : Earliest(rows) <= Merged(rows)[f].ts
<1> DEFINE m == Merged(rows)
           T == {rows[Len(rows)].ts} \cup {m[f].ts : f \in DOMAIN m}
<1>1. Len(rows) \in Nat \ {0}
  BY EmptySeq
<1>2. rows[Len(rows)] \in Changes
  BY <1>1, ElementOfSeq
<1>3. m \in Remote
  BY MergedFields
<1>4. \A f \in DOMAIN m : m[f].ts \in Times
  BY <1>3, RemoteFields
<1>5. T \subseteq Times
  BY <1>2, <1>4, ChangeFields
<1>6. rows[Len(rows)].ts \in T /\ \A f \in DOMAIN m : m[f].ts \in T
  OBVIOUS
<1>7. Earliest(rows) = Min(T)
  BY DEF Earliest
<1> HIDE DEF T
<1>8. Min(T) \in T /\ \A y \in T : Min(T) <= y
  BY <1>5, <1>6, Numbers, MinIs
<1> QED BY <1>5, <1>6, <1>7, <1>8

\* d_last_chg has the newest of the changes as far back as lts.
LEMMA OwnTimeFields ==
    ASSUME NEW s \in Stores, chg[s] \in Seq(Changes), NEW l \in Times, NEW f \in Fields
    PROVE  /\ OwnTime(s, l, f) \in Times \cup {-1}
           /\ OwnTime(s, l, f) # -1 => \E i \in 1..Len(chg[s]) :
                 f \in DOMAIN chg[s][i].d /\ chg[s][i].ts = OwnTime(s, l, f)
           /\ \A k \in 1..Len(chg[s]) : f \in DOMAIN chg[s][k].d /\ chg[s][k].ts >= l =>
                 \E i \in k..Len(chg[s]) :
                    f \in DOMAIN chg[s][i].d /\ chg[s][i].ts = OwnTime(s, l, f)
<1> DEFINE e == chg[s]
           T == {k \in DOMAIN e : e[k].ts >= l /\ f \in DOMAIN e[k].d}
<1>1. Len(e) \in Nat /\ DOMAIN e = 1..Len(e) /\ \A i \in 1..Len(e) : e[i] \in Changes
  BY LenProperties, ElementOfSeq
<1>2. OwnTime(s, l, f) = IF T = {} THEN -1 ELSE e[Max(T)].ts
  BY DEF OwnTime
<1>3. T \in SUBSET (0..Len(e))
  BY <1>1
<1>4. CASE T = {}
  BY <1>1, <1>2, <1>4
<1>5. CASE T # {}
  <2>1. Max(T) \in T /\ \A y \in T : y <= Max(T)
    <3> HIDE DEF T
    <3> QED BY <1>1, <1>3, <1>5, MaxIs
  <2>2. OwnTime(s, l, f) = e[Max(T)].ts
    BY <1>2, <1>5
  <2>3. Max(T) \in 1..Len(e) /\ f \in DOMAIN e[Max(T)].d /\ e[Max(T)].ts \in Times
    BY <2>1, <1>1, ChangeFields
  <2>4. ASSUME NEW k \in 1..Len(e), f \in DOMAIN e[k].d, e[k].ts >= l
        PROVE  Max(T) \in k..Len(e)
    <3>1. k \in T
      BY <1>1, <2>4
    <3> HIDE DEF T
    <3> QED BY <3>1, <2>1, <2>3
  <2> HIDE DEF T
  <2> QED BY <2>2, <2>3, <2>4
<1> QED BY <1>4, <1>5

----------------------------------------------------------------------------
(* The types and what exists.                                              *)

\* The state of a store: typed.
LEMMA StoreTyped ==
    ASSUME TypeOK, NEW s \in Stores
    PROVE  /\ pos[s] \in Rows \cup {None} /\ snap[s] \in Rows \cup {None}
           /\ chg[s] \in Seq(Changes) /\ Len(chg[s]) \in Nat
           /\ lastedit[s] \in Times /\ last[s] \in Nat /\ journal[s] \in BOOLEAN
           /\ sync[s] \in SyncStates /\ inst[s] \in InstStates
           /\ now \in Nat /\ edits \in Nat
BY Numbers, LenProperties DEF TypeOK

\* A step of a store leaves the other one alone.
LEMMA OthersStay ==
    ASSUME TypeOK, NEW s \in Stores, Step(s), NEW t \in Stores, t # s
    PROVE  /\ pos'[t] = pos[t] /\ lastedit'[t] = lastedit[t] /\ journal'[t] = journal[t]
           /\ snap'[t] = snap[t] /\ chg'[t] = chg[t] /\ last'[t] = last[t]
           /\ sync'[t] = sync[t] /\ inst'[t] = inst[t]
<1>1. ASSUME NEW f \in Fields, Edit(s, f)
      PROVE  UNCHANGED <<pos[t], lastedit[t], journal[t], snap[t], chg[t], last[t], sync[t], inst[t]>>
  BY <1>1 DEF TypeOK, Edit, myVars
<1>2. CASE SyncRead(s) \/ SyncCompare(s)
  BY <1>2 DEF TypeOK, SyncRead, SyncCompare, posVars, myVars
<1>3. CASE SyncReplace(s) \/ SyncInsert(s) \/ SyncFail(s)
  BY <1>3 DEF TypeOK, SyncReplace, SyncInsert, SyncFail, posVars, myVars
<1>4. CASE Fetch(s) \/ LookOwn(s)
  BY <1>4 DEF TypeOK, Fetch, LookOwn, posVars, myVars
<1>5. CASE LookSnap(s) \/ UpdateSnap(s) \/ CopyRow(s)
  BY <1>5 DEF TypeOK, LookSnap, UpdateSnap, CopyRow, posVars, myVars
<1>6. CASE Commit(s) \/ InsertRow(s)
  BY <1>6 DEF TypeOK, Commit, InsertRow, posVars, myVars
<1>7. CASE SetLast(s) \/ InstFail(s)
  BY <1>7 DEF TypeOK, SetLast, InstFail, posVars, myVars
<1> QED BY <1>1, <1>2, <1>3, <1>4, <1>5, <1>6, <1>7 DEF Step, Sync, Inst

\* The types after an edit,
LEMMA EditKeepsTypes ==
    ASSUME TypeOK, NEW s \in Stores, NEW f \in Fields, Edit(s, f)
    PROVE  TypeOK'
<1>1. pos[s] \in Rows /\ edits + 1 \in Values /\ edits \in Nat /\ now \in 0..edits
  BY Numbers DEF TypeOK, Edit, Values
<1>2. [pos[s] EXCEPT ![f] = edits + 1] \in Rows
  BY <1>1 DEF Rows
<1>3. pos' = [pos EXCEPT ![s] = [pos[s] EXCEPT ![f] = edits + 1]]
  BY DEF Edit
<1>4. pos' \in [Stores -> Rows \cup {None}]
  BY <1>2, <1>3 DEF TypeOK
<1>5. now' \in 0..edits' /\ edits' \in 0..MaxEdits /\ lastedit' \in [Stores -> Times]
  BY <1>1, Numbers DEF TypeOK, Edit, Times
<1> QED BY <1>4, <1>5 DEF TypeOK, Edit, myVars

\* after a step of the sync service,
LEMMA SyncKeepsTypes ==
    ASSUME TypeOK, NEW s \in Stores, Exist(s), Sync(s) \/ SyncFail(s)
    PROVE  TypeOK'
<1> USE DEF TypeOK
<1>1. CASE SyncRead(s)
  <2>1. pos[s] \in Rows /\ lastedit[s] \in Times
    BY <1>1 DEF SyncRead, Exist
  <2>2. sync' \in [Stores -> SyncStates] /\ journal' \in [Stores -> BOOLEAN]
    BY <1>1, <2>1, NewSync DEF SyncRead
  <2> QED BY <1>1, <2>2 DEF SyncRead, myVars, boundVars
<1>2. CASE SyncCompare(s)
  <2> DEFINE d == Diff(snap[s], sync[s].row)
             x == [pc |-> "replace", row |-> sync[s].row, lts |-> sync[s].lts, dif |-> d]
  <2>1. sync[s].row \in Rows /\ sync[s].lts \in Times
    BY <1>2, SyncFields DEF SyncCompare
  <2>2. d \in Parts
    BY <2>1, DiffFields
  <2>3. x \in SyncStates
    BY <2>1, <2>2, NewSync
  <2>4. sync' = [sync EXCEPT ![s] = SyncIdle] \/ sync' = [sync EXCEPT ![s] = x]
    BY <1>2 DEF SyncCompare
  <2>5. sync' \in [Stores -> SyncStates]
    <3> HIDE DEF x
    <3>1. sync \in [Stores -> SyncStates] /\ SyncIdle \in SyncStates
      BY NewSync
    <3> QED BY <2>3, <2>4, <3>1
  <2> QED BY <1>2, <2>5 DEF SyncCompare, posVars, myVars, boundVars
<1>3. CASE SyncReplace(s)
  <2>1. sync[s].row \in Rows /\ [sync[s] EXCEPT !.pc = "insert"] \in SyncStates
    BY <1>3, SyncFields DEF SyncReplace
  <2>2. sync' = [sync EXCEPT ![s] = [sync[s] EXCEPT !.pc = "insert"]]
    BY <1>3 DEF SyncReplace
  <2>3. sync' \in [Stores -> SyncStates] /\ snap' \in [Stores -> Rows \cup {None}]
    BY <1>3, <2>1, <2>2 DEF SyncReplace
  <2> QED BY <1>3, <2>3 DEF SyncReplace, posVars, boundVars
<1>4. CASE SyncInsert(s)
  <2>1. sync[s].dif \in Parts /\ sync[s].lts \in Times
    BY <1>4, SyncFields DEF SyncInsert
  <2>2. Append(chg[s], Change(sync[s].lts, sync[s].dif)) \in Seq(Changes)
    BY <2>1, ChangeFields, AppendProperties
  <2>3. sync' \in [Stores -> SyncStates] /\ chg' \in [Stores -> Seq(Changes)]
    BY <1>4, <2>2, NewSync DEF SyncInsert
  <2> QED BY <1>4, <2>3 DEF SyncInsert, posVars, boundVars
<1>5. CASE SyncFail(s)
  <2>1. sync[s].pc = "insert" => DOMAIN sync[s].dif \subseteq Fields
    BY SyncFields, PartFields
  <2>2. sync' \in [Stores -> SyncStates] /\ journal' \in [Stores -> BOOLEAN] /\ astray' \subseteq Fields
    BY <1>5, <2>1, NewSync DEF SyncFail
  <2>3. fails' \in 0..MaxFails
    BY <1>5, Numbers DEF SyncFail
  <2> QED BY <1>5, <2>2, <2>3 DEF SyncFail, myVars
<1> QED BY <1>1, <1>2, <1>3, <1>4, <1>5 DEF Sync

\* and after one of the exchange service.
LEMMA InstKeepsTypes ==
    ASSUME TypeOK, NEW s \in Stores, Exist(s), Ids(s), Inst(s) \/ InstFail(s)
    PROVE  TypeOK'
<1> USE DEF TypeOK
<1>1. Other(s) \in Stores
  BY TwoStores
<1>2. CASE Fetch(s)
  <2> DEFINE there == chg[Other(s)]
             rows == SubSeq(there, last[s] + 1, Len(there))
             x == [pc |-> "own", new |-> Merged(rows), lts |-> Earliest(rows), id |-> Len(there)]
  <2>1. there \in Seq(Changes) /\ Len(there) \in Nat /\ last[s] \in Nat /\ last[s] <= Len(there)
    BY <1>1, StoreTyped DEF Ids
  <2>2. rows \in Seq(Changes)
    <3> HIDE DEF there
    <3> QED BY <2>1, AnswerRows
  <2>3. rows # <<>> /\ inst' = [inst EXCEPT ![s] = x]
    BY <1>2 DEF Fetch
  <2>4. Merged(rows) \in Remote /\ Earliest(rows) \in Times
    <3> HIDE DEF rows
    <3> QED BY <2>2, <2>3, MergedFields, EarliestFields
  <2>5. x \in InstStates
    <3> HIDE DEF rows, there
    <3> QED BY <2>1, <2>4, NewInst
  <2>6. inst' \in [Stores -> InstStates]
    <3> HIDE DEF x
    <3> QED BY <2>3, <2>5
  <2> QED BY <1>2, <2>6 DEF Fetch, posVars, myVars, boundVars
<1>3. CASE LookOwn(s)
  <2> DEFINE own == [f \in Fields |-> OwnTime(s, inst[s].lts, f)]
             x == [pc |-> "snap", new |-> inst[s].new, id |-> inst[s].id,
                   own |-> own, seen |-> Len(chg[s])]
  <2>1. inst[s].pc = "own" /\ inst' = [inst EXCEPT ![s] = x]
    BY <1>3 DEF LookOwn
  <2>2. /\ inst[s].new \in Remote /\ inst[s].lts \in Times /\ inst[s].id \in Nat
        /\ chg[s] \in Seq(Changes) /\ Len(chg[s]) \in Nat
    BY <2>1, InstFields, StoreTyped
  <2>3. own \in [Fields -> Times \cup {-1}]
    BY <2>2, OwnTimeFields
  <2>4. x \in InstStates
    <3> HIDE DEF own
    <3> QED BY <2>2, <2>3, NewInst
  <2>5. inst' \in [Stores -> InstStates]
    <3> HIDE DEF x
    <3> QED BY <2>1, <2>4
  <2> QED BY <1>3, <2>5 DEF LookOwn, posVars, myVars, boundVars
<1>4. CASE LookSnap(s)
  <2> DEFINE take == IF snap[s] = None THEN {}
                     ELSE {f \in DOMAIN inst[s].new : Accepts(snap[s], inst[s].own, inst[s].new, f)}
             d == [f \in take |-> inst[s].new[f].v]
             x == [pc |-> "update", id |-> inst[s].id, c |-> snap[s], take |-> d]
             y == [pc |-> "last", id |-> inst[s].id]
  <2>1. inst[s].pc = "snap" /\ inst' = [inst EXCEPT ![s] = IF take = {} THEN y ELSE x]
    BY <1>4 DEF LookSnap
  <2>2. inst[s].new \in Remote /\ inst[s].id \in Nat
    BY <2>1, InstFields
  <2>3. DOMAIN inst[s].new \subseteq Fields /\ \A f \in DOMAIN inst[s].new : inst[s].new[f].v \in Values
    BY <2>2, RemoteFields
  <2>4. take \in SUBSET Fields /\ d \in [take -> Values]
    BY <2>3
  <2>5. d \in Parts
    <3> HIDE DEF take, d
    <3> QED BY <2>4, PartFields
  <2>6. take # {} => snap[s] \in Rows
    OBVIOUS
  <2>7. y \in InstStates /\ (take # {} => x \in InstStates)
    <3> HIDE DEF take, d
    <3> QED BY <2>2, <2>5, <2>6, NewInst
  <2>8. inst' \in [Stores -> InstStates]
    <3> HIDE DEF x, y, take
    <3> QED BY <2>1, <2>7
  <2>9. astray' \subseteq Fields
    BY <1>4, <2>3 DEF LookSnap
  <2> QED BY <1>4, <2>8, <2>9 DEF LookSnap, posVars, myVars, boundVars
<1>5. CASE UpdateSnap(s)
  <2>1. inst[s].pc = "update" /\ inst[s].take \in Parts /\ inst[s].c \in Rows
        /\ [inst[s] EXCEPT !.pc = "commit"] \in InstStates
    BY <1>5, InstFields DEF UpdateSnap
  <2>2. Put(inst[s].take, inst[s].c) \in Rows
    BY <2>1, PutFields
  <2>3. inst' = [inst EXCEPT ![s] = [inst[s] EXCEPT !.pc = "commit"]]
    BY <1>5 DEF UpdateSnap
  <2>4. inst' \in [Stores -> InstStates] /\ snap' \in [Stores -> Rows \cup {None}] /\ astray' \subseteq Fields
    BY <1>5, <2>1, <2>2, <2>3 DEF UpdateSnap
  <2> QED BY <1>5, <2>4 DEF UpdateSnap, posVars, boundVars
<1>6. CASE Commit(s)
  <2>1. pos[s] \in Rows
    BY <1>6 DEF Commit, Exist
  <2>2. inst[s].pc = "commit" /\ inst[s].take \in Parts /\ inst[s].id \in Nat
    BY <1>6, InstFields DEF Commit
  <2>3. Put(inst[s].take, pos[s]) \in Rows
    BY <2>1, <2>2, PutFields
  <2>4. pos' = [pos EXCEPT ![s] = Put(inst[s].take, pos[s])]
    BY <1>6 DEF Commit
  <2>5. inst' \in [Stores -> InstStates] /\ pos' \in [Stores -> Rows \cup {None}]
    BY <1>6, <2>2, <2>3, <2>4, NewInst DEF Commit
  <2>6. astray' \subseteq Fields /\ journal' \in [Stores -> BOOLEAN]
    BY <1>6, <2>2, PartFields DEF Commit
  <2> QED BY <1>6, <2>5, <2>6 DEF Commit, myVars, boundVars
<1>7. CASE CopyRow(s)
  <2> DEFINE x == [pc |-> "insert", id |-> inst[s].id,
                   row |-> pos[Other(s)], lts |-> lastedit[Other(s)]]
  <2>1. pos[Other(s)] \in Rows /\ lastedit[Other(s)] \in Times
    BY <1>1, <1>7 DEF CopyRow, Exist
  <2>2. inst[s].id \in Nat
    BY <1>7, InstFields DEF CopyRow
  <2>3. x \in InstStates
    BY <2>1, <2>2, NewInst
  <2>4. inst' = [inst EXCEPT ![s] = x]
    BY <1>7 DEF CopyRow
  <2>5. inst' \in [Stores -> InstStates] /\ astray' \subseteq Fields
    <3> HIDE DEF x
    <3> QED BY <1>7, <2>3, <2>4 DEF CopyRow
  <2> QED BY <1>7, <2>5 DEF CopyRow, posVars, myVars, boundVars
<1>8. CASE InsertRow(s)
  <2>1. inst[s].row \in Rows /\ inst[s].lts \in Times /\ inst[s].id \in Nat
    BY <1>8, InstFields DEF InsertRow
  <2>2. inst' \in [Stores -> InstStates] /\ pos' \in [Stores -> Rows \cup {None}]
        /\ lastedit' \in [Stores -> Times] /\ journal' \in [Stores -> BOOLEAN]
    BY <1>8, <2>1, NewInst DEF InsertRow
  <2> QED BY <1>8, <2>2 DEF InsertRow, myVars, boundVars
<1>9. CASE SetLast(s)
  <2>1. inst[s].id \in Nat
    BY <1>9, InstFields DEF SetLast
  <2>2. inst' \in [Stores -> InstStates] /\ last' \in [Stores -> Nat]
    BY <1>9, <2>1, NewInst DEF SetLast
  <2> QED BY <1>9, <2>2 DEF SetLast, posVars, boundVars
<1>10. CASE InstFail(s)
  <2>1. inst[s].pc = "commit" => DOMAIN inst[s].take \subseteq Fields
    BY InstFields, PartFields
  <2>2. inst' \in [Stores -> InstStates] /\ astray' \subseteq Fields
    BY <1>10, <2>1, NewInst DEF InstFail
  <2>3. fails' \in 0..MaxFails
    BY <1>10, Numbers DEF InstFail
  <2> QED BY <1>10, <2>2, <2>3 DEF InstFail, posVars, myVars
<1> QED BY <1>2, <1>3, <1>4, <1>5, <1>6, <1>7, <1>8, <1>9, <1>10 DEF Inst

----------------------------------------------------------------------------
(* What the steps do.                                                      *)

\* An edit changes POS, its journal and the clock.
LEMMA EditDoes ==
    ASSUME TypeOK, NEW s \in Stores, NEW f \in Fields, Edit(s, f)
    PROVE  /\ pos[s] \in Rows /\ pos'[s] \in Rows
           /\ pos'[s][f] = edits + 1 /\ \A g \in Fields \ {f} : pos'[s][g] = pos[s][g]
           /\ now' >= now /\ lastedit'[s] = now' /\ journal'[s] /\ edits' = edits + 1
           /\ astray \subseteq astray' /\ (snap[s] = None => f \in astray')
           /\ UNCHANGED <<snap, chg, last, sync, inst>>
<1>1. pos[s] \in Rows /\ edits + 1 \in Values /\ edits \in Nat /\ now \in 0..edits
  BY Numbers DEF TypeOK, Edit, Values
<1>2. [pos[s] EXCEPT ![f] = edits + 1] \in Rows
  BY <1>1 DEF Rows
<1>3. pos' = [pos EXCEPT ![s] = [pos[s] EXCEPT ![f] = edits + 1]]
  BY DEF Edit
<1>4. pos'[s] = [pos[s] EXCEPT ![f] = edits + 1]
  BY <1>3 DEF TypeOK
<1>5. pos'[s][f] = edits + 1 /\ \A g \in Fields \ {f} : pos'[s][g] = pos[s][g]
  BY <1>1, <1>4 DEF Rows
<1>6. now' >= now /\ lastedit'[s] = now' /\ journal'[s] /\ edits' = edits + 1
  BY <1>1 DEF TypeOK, Edit
<1>7. UNCHANGED <<snap, chg, last, sync, inst>>
  BY DEF Edit, myVars
<1> QED BY <1>1, <1>2, <1>4, <1>5, <1>6, <1>7 DEF Edit

\* The row of POS is in hand.
LEMMA SyncReadDoes ==
    ASSUME TypeOK, NEW s \in Stores, Exist(s), SyncRead(s)
    PROVE  /\ sync[s].pc = "idle" /\ journal[s] /\ ~journal'[s]
           /\ pos[s] \in Rows
           /\ sync'[s].pc = "compare" /\ sync'[s].row = pos[s] /\ sync'[s].lts = lastedit[s]
           /\ UNCHANGED <<pos, lastedit, snap, chg, last, inst, now, edits, astray>>
BY NewSync DEF TypeOK, SyncRead, Exist, myVars, boundVars

\* The difference to the snapshot is in hand, or nothing.
LEMMA SyncCompareDoes ==
    ASSUME TypeOK, NEW s \in Stores, SyncCompare(s)
    PROVE  /\ sync[s].pc = "compare" /\ sync[s].row \in Rows
           /\ \/ /\ sync'[s].pc = "idle" /\ snap[s] # None
                 /\ \A f \in Fields : snap[s][f] = sync[s].row[f]
              \/ /\ sync'[s].pc = "replace"
                 /\ sync'[s].row = sync[s].row /\ sync'[s].lts = sync[s].lts
                 /\ snap[s] = None => DOMAIN sync'[s].dif = {}
                 /\ snap[s] # None =>
                       DOMAIN sync'[s].dif = {f \in Fields : snap[s][f] # sync[s].row[f]}
                 /\ \A f \in DOMAIN sync'[s].dif : sync'[s].dif[f] = sync[s].row[f]
           /\ UNCHANGED <<pos, lastedit, journal, snap, chg, last, inst, now, edits, astray>>
<1> DEFINE d == Diff(snap[s], sync[s].row)
           x == [pc |-> "replace", row |-> sync[s].row, lts |-> sync[s].lts, dif |-> d]
<1>1. snap[s] \in Rows \cup {None} /\ sync[s] \in SyncStates
  BY DEF TypeOK
<1>2. sync[s].pc = "compare" /\ sync[s].row \in Rows
  BY <1>1, SyncFields DEF SyncCompare
<1>3. sync' = [sync EXCEPT ![s] = IF snap[s] # None /\ DOMAIN d = {} THEN SyncIdle ELSE x]
  BY DEF SyncCompare
<1>4. sync'[s] = IF snap[s] # None /\ DOMAIN d = {} THEN SyncIdle ELSE x
  <2> HIDE DEF x, d
  <2> QED BY <1>3 DEF TypeOK
<1>5. /\ snap[s] = None => DOMAIN d = {}
      /\ snap[s] # None => DOMAIN d = {f \in Fields : snap[s][f] # sync[s].row[f]}
      /\ \A f \in DOMAIN d : d[f] = sync[s].row[f]
  BY <1>1, <1>2, DiffFields
<1>6. x.pc = "replace" /\ x.row = sync[s].row /\ x.lts = sync[s].lts /\ x.dif = d
  OBVIOUS
<1>7. UNCHANGED <<pos, lastedit, journal, snap, chg, last, inst, now, edits, astray>>
  BY DEF SyncCompare, posVars, myVars, boundVars
<1> HIDE DEF x, d
<1>8. CASE snap[s] # None /\ DOMAIN d = {}
  BY <1>2, <1>4, <1>5, <1>7, <1>8, NewSync
<1>9. CASE ~(snap[s] # None /\ DOMAIN d = {})
  BY <1>2, <1>4, <1>5, <1>6, <1>7, <1>9
<1> QED BY <1>8, <1>9

\* The snapshot is the row.
LEMMA SyncReplaceDoes ==
    ASSUME TypeOK, NEW s \in Stores, SyncReplace(s)
    PROVE  /\ sync[s].pc = "replace" /\ sync[s].row \in Rows
           /\ snap'[s] = sync[s].row /\ snap'[s] # None
           /\ sync'[s].pc = "insert"
           /\ sync'[s].row = sync[s].row /\ sync'[s].lts = sync[s].lts /\ sync'[s].dif = sync[s].dif
           /\ UNCHANGED <<pos, lastedit, journal, chg, last, inst, now, edits, astray>>
<1>1. sync[s] \in SyncStates /\ sync[s].pc = "replace"
  BY DEF TypeOK, SyncReplace
<1>2. sync' = [sync EXCEPT ![s] = [sync[s] EXCEPT !.pc = "insert"]]
  BY DEF SyncReplace
<1>3. sync'[s] = [sync[s] EXCEPT !.pc = "insert"]
  BY <1>2 DEF TypeOK
<1>4. /\ sync'[s].pc = "insert"
      /\ sync'[s].row = sync[s].row /\ sync'[s].lts = sync[s].lts /\ sync'[s].dif = sync[s].dif
      /\ sync[s].row \in Rows
  BY <1>1, <1>3, SyncFields
<1>5. snap'[s] = sync[s].row
  BY DEF SyncReplace, TypeOK
<1> QED BY <1>1, <1>4, <1>5, NoneIsNoRow DEF SyncReplace, posVars, boundVars

\* The difference is recorded.
LEMMA SyncInsertDoes ==
    ASSUME TypeOK, NEW s \in Stores, SyncInsert(s)
    PROVE  /\ sync[s].pc = "insert" /\ sync'[s].pc = "idle"
           /\ chg'[s] = Append(chg[s], Change(sync[s].lts, sync[s].dif))
           /\ UNCHANGED <<pos, lastedit, journal, snap, last, inst, now, edits, astray>>
BY NewSync DEF TypeOK, SyncInsert, posVars, boundVars

\* Nothing is in hand, and the journal is read again.
LEMMA SyncFailDoes ==
    ASSUME TypeOK, NEW s \in Stores, SyncFail(s)
    PROVE  /\ sync[s].pc # "idle" /\ sync'[s].pc = "idle" /\ journal'[s]
           /\ astray \subseteq astray'
           /\ sync[s].pc = "insert" => DOMAIN sync[s].dif \subseteq astray'
           /\ UNCHANGED <<pos, lastedit, snap, chg, last, inst, now, edits>>
<1>1. sync[s] \in SyncStates /\ sync[s] # SyncIdle
  BY DEF TypeOK, SyncFail
<1>2. sync[s].pc # "idle"
  BY <1>1, SyncFields
<1> QED BY <1>2, NewSync DEF TypeOK, SyncFail, myVars

\* The answer of the other store is in hand.
LEMMA FetchDoes ==
    ASSUME TypeOK, NEW s \in Stores, Ids(s), Fetch(s)
    PROVE  LET there == chg[Other(s)]
               rows == SubSeq(there, last[s] + 1, Len(there))
           IN  /\ inst[s].pc = "idle"
               /\ rows \in Seq(Changes) /\ rows # <<>> /\ last[s] < Len(there)
               /\ inst'[s].pc = "own" /\ inst'[s].id = Len(there)
               /\ inst'[s].new = Merged(rows) /\ inst'[s].lts = Earliest(rows)
               /\ UNCHANGED <<pos, lastedit, journal, snap, chg, last, sync, now, edits, astray>>
<1> DEFINE there == chg[Other(s)]
           rows == SubSeq(there, last[s] + 1, Len(there))
           x == [pc |-> "own", new |-> Merged(rows), lts |-> Earliest(rows), id |-> Len(there)]
<1>1. there \in Seq(Changes) /\ Len(there) \in Nat /\ last[s] \in Nat /\ last[s] <= Len(there)
  BY TwoStores, StoreTyped DEF Ids
<1>2. rows # <<>> /\ inst' = [inst EXCEPT ![s] = x] /\ inst[s] = InstIdle
  BY DEF Fetch
<1>3. inst'[s] = x
  <2> HIDE DEF x
  <2> QED BY <1>2 DEF TypeOK
<1>4. x.pc = "own" /\ x.id = Len(there) /\ x.new = Merged(rows) /\ x.lts = Earliest(rows)
  OBVIOUS
<1>5. rows \in Seq(Changes) /\ Len(rows) = Len(there) - last[s]
  <2> HIDE DEF there
  <2> QED BY <1>1, AnswerRows
<1>6. Len(rows) # 0
  <2> HIDE DEF rows
  <2> QED BY <1>2, <1>5, EmptySeq
<1>7. last[s] < Len(there)
  BY <1>1, <1>5, <1>6
<1>8. UNCHANGED <<pos, lastedit, journal, snap, chg, last, sync, now, edits, astray>>
  BY DEF Fetch, posVars, myVars, boundVars
<1> HIDE DEF x
<1> QED BY <1>2, <1>3, <1>4, <1>5, <1>7, <1>8, NewInst

\* The own changes are in hand.
LEMMA LookOwnDoes ==
    ASSUME TypeOK, NEW s \in Stores, LookOwn(s)
    PROVE  /\ inst[s].pc = "own"
           /\ inst'[s].pc = "snap" /\ inst'[s].id = inst[s].id /\ inst'[s].new = inst[s].new
           /\ inst'[s].seen = Len(chg[s])
           /\ \A f \in Fields : inst'[s].own[f] = OwnTime(s, inst[s].lts, f)
           /\ UNCHANGED <<pos, lastedit, journal, snap, chg, last, sync, now, edits, astray>>
<1> DEFINE own == [f \in Fields |-> OwnTime(s, inst[s].lts, f)]
           x == [pc |-> "snap", new |-> inst[s].new, id |-> inst[s].id,
                 own |-> own, seen |-> Len(chg[s])]
<1>1. inst[s].pc = "own" /\ inst' = [inst EXCEPT ![s] = x]
  BY DEF LookOwn
<1>2. inst'[s] = x
  <2> HIDE DEF x
  <2> QED BY <1>1 DEF TypeOK
<1>3. /\ x.pc = "snap" /\ x.id = inst[s].id /\ x.new = inst[s].new /\ x.seen = Len(chg[s])
      /\ \A f \in Fields : x.own[f] = OwnTime(s, inst[s].lts, f)
  OBVIOUS
<1>4. UNCHANGED <<pos, lastedit, journal, snap, chg, last, sync, now, edits, astray>>
  BY DEF LookOwn, posVars, myVars, boundVars
<1> HIDE DEF x
<1> QED BY <1>1, <1>2, <1>3, <1>4

\* The fields to take are in hand.
LEMMA LookSnapDoes ==
    ASSUME TypeOK, NEW s \in Stores, LookSnap(s)
    PROVE  LET new == inst[s].new
               own == inst[s].own
           IN  /\ inst[s].pc = "snap" /\ pos[s] # None
               /\ inst'[s].id = inst[s].id
               /\ \/ /\ inst'[s].pc = "last"
                     /\ snap[s] # None => \A f \in DOMAIN new : ~Accepts(snap[s], own, new, f)
                  \/ /\ inst'[s].pc = "update" /\ snap[s] # None /\ inst'[s].c = snap[s]
                     /\ DOMAIN inst'[s].take = {f \in DOMAIN new : Accepts(snap[s], own, new, f)}
                     /\ \A f \in DOMAIN inst'[s].take : inst'[s].take[f] = new[f].v
               /\ astray \subseteq astray'
               /\ \A f \in DOMAIN new \ astray' :
                     /\ snap[s] # None /\ f \notin Missed(s)
                     /\ snap[s][f] = new[f].v \/ own[f] # new[f].ts
               /\ UNCHANGED <<pos, lastedit, journal, snap, chg, last, sync, now, edits>>
<1> DEFINE new == inst[s].new
           own == inst[s].own
           take == IF snap[s] = None THEN {} ELSE {f \in DOMAIN new : Accepts(snap[s], own, new, f)}
           d == [f \in take |-> new[f].v]
           x == [pc |-> "update", id |-> inst[s].id, c |-> snap[s], take |-> d]
           y == [pc |-> "last", id |-> inst[s].id]
<1>1. inst[s].pc = "snap" /\ pos[s] # None /\ inst' = [inst EXCEPT ![s] = IF take = {} THEN y ELSE x]
  BY DEF LookSnap
<1>2. inst'[s] = IF take = {} THEN y ELSE x
  <2> HIDE DEF x, y, take
  <2> QED BY <1>1 DEF TypeOK
<1>3. /\ x.pc = "update" /\ x.id = inst[s].id /\ x.c = snap[s] /\ x.take = d
      /\ y.pc = "last" /\ y.id = inst[s].id
      /\ DOMAIN d = take /\ \A f \in take : d[f] = new[f].v
  OBVIOUS
<1>4. /\ astray \subseteq astray'
      /\ \A f \in DOMAIN new \ astray' :
            /\ snap[s] # None /\ f \notin Missed(s)
            /\ snap[s][f] = new[f].v \/ own[f] # new[f].ts
      /\ UNCHANGED <<pos, lastedit, journal, snap, chg, last, sync, now, edits>>
  BY DEF LookSnap, posVars, myVars, boundVars
<1>5. CASE take = {}
  <2>1. snap[s] # None => \A f \in DOMAIN new : ~Accepts(snap[s], own, new, f)
    BY <1>5
  <2> HIDE DEF x, y, d, take
  <2> QED BY <1>1, <1>2, <1>3, <1>4, <1>5, <2>1
<1>6. CASE take # {}
  <2>1. snap[s] # None /\ take = {f \in DOMAIN new : Accepts(snap[s], own, new, f)}
    BY <1>6
  <2> HIDE DEF x, y, d, take
  <2> QED BY <1>1, <1>2, <1>3, <1>4, <1>6, <2>1
<1> QED BY <1>5, <1>6

\* The snapshot has them.
LEMMA UpdateSnapDoes ==
    ASSUME TypeOK, NEW s \in Stores, Exist(s), UpdateSnap(s)
    PROVE  /\ inst[s].pc = "update" /\ inst'[s].pc = "commit"
           /\ inst'[s].id = inst[s].id /\ inst'[s].c = inst[s].c /\ inst'[s].take = inst[s].take
           /\ snap[s] # None /\ snap'[s] # None
           /\ \A f \in Fields : snap'[s][f] =
                 IF f \in DOMAIN inst[s].take THEN inst[s].take[f] ELSE inst[s].c[f]
           /\ astray \subseteq astray'
           /\ \A f \in Fields \ astray' : snap[s][f] = inst[s].c[f]
           /\ UNCHANGED <<pos, lastedit, journal, chg, last, sync, now, edits>>
<1>1. inst[s] \in InstStates /\ inst[s].pc = "update"
  BY DEF TypeOK, UpdateSnap
<1>2. inst' = [inst EXCEPT ![s] = [inst[s] EXCEPT !.pc = "commit"]]
  BY DEF UpdateSnap
<1>3. inst'[s] = [inst[s] EXCEPT !.pc = "commit"]
  BY <1>2 DEF TypeOK
<1>4. /\ inst'[s].pc = "commit" /\ inst[s].take \in Parts /\ inst[s].c \in Rows
      /\ inst'[s].id = inst[s].id /\ inst'[s].c = inst[s].c /\ inst'[s].take = inst[s].take
  BY <1>1, <1>3, InstFields
<1>5. snap'[s] = Put(inst[s].take, inst[s].c)
  BY DEF UpdateSnap, TypeOK
<1>6. /\ snap'[s] \in Rows
      /\ \A f \in Fields : snap'[s][f] =
            IF f \in DOMAIN inst[s].take THEN inst[s].take[f] ELSE inst[s].c[f]
  BY <1>4, <1>5, PutFields
<1>7. snap[s] # None
  BY <1>1 DEF Exist
<1>8. /\ astray \subseteq astray'
      /\ \A f \in Fields \ astray' : snap[s][f] = inst[s].c[f]
      /\ UNCHANGED <<pos, lastedit, journal, chg, last, sync, now, edits>>
  BY DEF UpdateSnap, posVars, boundVars
<1> QED BY <1>1, <1>4, <1>6, <1>7, <1>8, NoneIsNoRow

\* POS has them.
LEMMA CommitDoes ==
    ASSUME TypeOK, NEW s \in Stores, Exist(s), Commit(s)
    PROVE  /\ inst[s].pc = "commit" /\ inst'[s].pc = "last" /\ inst'[s].id = inst[s].id
           /\ pos[s] \in Rows /\ pos'[s] \in Rows /\ snap[s] # None
           /\ \A f \in Fields : pos'[s][f] =
                 IF f \in DOMAIN inst[s].take THEN inst[s].take[f] ELSE pos[s][f]
           /\ journal'[s] /\ astray \subseteq astray'
           /\ \A f \in DOMAIN inst[s].take \ astray' :
                 /\ pos[s][f] = inst[s].c[f] /\ snap[s][f] = inst[s].take[f]
                 /\ sync[s].pc = "idle"
           /\ UNCHANGED <<lastedit, snap, chg, last, sync, now, edits>>
<1>1. inst[s] \in InstStates /\ inst[s].pc = "commit"
  BY DEF TypeOK, Commit
<1>2. pos[s] \in Rows
  BY <1>1 DEF TypeOK, Exist
<1>3. inst[s].take \in Parts /\ inst[s].id \in Nat
  BY <1>1, InstFields
<1>4. pos' = [pos EXCEPT ![s] = Put(inst[s].take, pos[s])]
  BY DEF Commit
<1>5. pos'[s] = Put(inst[s].take, pos[s])
  BY <1>4 DEF TypeOK
<1>6. /\ pos'[s] \in Rows
      /\ \A f \in Fields : pos'[s][f] =
            IF f \in DOMAIN inst[s].take THEN inst[s].take[f] ELSE pos[s][f]
  BY <1>2, <1>3, <1>5, PutFields
<1>7. snap[s] # None
  BY <1>1 DEF Exist
<1>8. inst'[s].pc = "last" /\ inst'[s].id = inst[s].id
  BY <1>3, NewInst DEF Commit, TypeOK
<1>9. journal'[s] /\ UNCHANGED <<lastedit, snap, chg, last, sync, now, edits>>
  BY DEF Commit, TypeOK, myVars, boundVars
<1>10. /\ astray \subseteq astray'
       /\ \A f \in DOMAIN inst[s].take \ astray' :
             /\ pos[s][f] = inst[s].c[f] /\ snap[s][f] = inst[s].take[f]
             /\ sync[s] = SyncIdle
  BY DEF Commit
<1> QED BY <1>1, <1>2, <1>6, <1>7, <1>8, <1>9, <1>10, NewSync

\* The row of the other store is in hand.
LEMMA CopyRowDoes ==
    ASSUME TypeOK, NEW s \in Stores, Exist(s), CopyRow(s)
    PROVE  /\ inst[s].pc = "snap" /\ pos[s] = None /\ pos[Other(s)] \in Rows /\ snap[Other(s)] # None
           /\ inst'[s].pc = "insert" /\ inst'[s].id = inst[s].id
           /\ inst'[s].row = pos[Other(s)] /\ inst'[s].lts = lastedit[Other(s)]
           /\ astray \subseteq astray'
           /\ \A f \in Fields \ astray' : pos[Other(s)][f] = snap[Other(s)][f]
           /\ UNCHANGED <<pos, lastedit, journal, snap, chg, last, sync, now, edits>>
<1> DEFINE x == [pc |-> "insert", id |-> inst[s].id,
                 row |-> pos[Other(s)], lts |-> lastedit[Other(s)]]
<1>1. inst[s].pc = "snap" /\ pos[s] = None /\ inst' = [inst EXCEPT ![s] = x]
  BY DEF CopyRow
<1>2. pos[Other(s)] \in Rows /\ snap[Other(s)] # None
  BY <1>1, TwoStores DEF TypeOK, Exist
<1>3. inst'[s] = x
  <2> HIDE DEF x
  <2> QED BY <1>1 DEF TypeOK
<1>4. /\ x.pc = "insert" /\ x.id = inst[s].id
      /\ x.row = pos[Other(s)] /\ x.lts = lastedit[Other(s)]
  OBVIOUS
<1>5. /\ astray \subseteq astray'
      /\ \A f \in Fields \ astray' : pos[Other(s)][f] = snap[Other(s)][f]
      /\ UNCHANGED <<pos, lastedit, journal, snap, chg, last, sync, now, edits>>
  BY DEF CopyRow, posVars, myVars, boundVars
<1> HIDE DEF x
<1> QED BY <1>1, <1>2, <1>3, <1>4, <1>5

\* POS has it.
LEMMA InsertRowDoes ==
    ASSUME TypeOK, NEW s \in Stores, InsertRow(s)
    PROVE  /\ inst[s].pc = "insert" /\ inst'[s].pc = "last" /\ inst'[s].id = inst[s].id
           /\ pos'[s] = inst[s].row /\ pos'[s] \in Rows
           /\ lastedit'[s] = inst[s].lts /\ journal'[s]
           /\ UNCHANGED <<snap, chg, last, sync, now, edits, astray>>
<1>1. inst[s] \in InstStates /\ inst[s].pc = "insert"
  BY DEF TypeOK, InsertRow
<1>2. inst[s].row \in Rows /\ inst[s].id \in Nat
  BY <1>1, InstFields
<1> QED BY <1>1, <1>2, NewInst DEF InsertRow, TypeOK, myVars, boundVars

\* The answer is handled.
LEMMA SetLastDoes ==
    ASSUME TypeOK, NEW s \in Stores, SetLast(s)
    PROVE  /\ inst[s].pc = "last" /\ inst'[s].pc = "idle" /\ last'[s] = inst[s].id
           /\ UNCHANGED <<pos, lastedit, journal, snap, chg, sync, now, edits, astray>>
BY NewInst DEF TypeOK, SetLast, posVars, boundVars

\* Nothing is in hand.
LEMMA InstFailDoes ==
    ASSUME TypeOK, NEW s \in Stores, InstFail(s)
    PROVE  /\ inst[s].pc # "idle" /\ inst'[s].pc = "idle"
           /\ astray \subseteq astray'
           /\ inst[s].pc = "commit" => DOMAIN inst[s].take \subseteq astray'
           /\ UNCHANGED <<pos, lastedit, journal, snap, chg, last, sync, now, edits>>
<1>1. inst[s] \in InstStates /\ inst[s] # InstIdle
  BY DEF TypeOK, InstFail
<1>2. inst[s].pc # "idle"
  BY <1>1, InstFields
<1> QED BY <1>2, NewInst DEF TypeOK, InstFail, posVars, myVars

----------------------------------------------------------------------------
(* The changes of a field as the stores have recorded them.                *)

\* The changes of a field are those of its rows.
LEMMA LoggedFields ==
    ASSUME NEW e \in Seq(Changes), NEW f
    PROVE  /\ \A r \in Logged(e, f) :
                 /\ r.k \in 1..Len(e) /\ f \in DOMAIN e[r.k].d
                 /\ r = [k |-> r.k, ts |-> e[r.k].ts, v |-> e[r.k].d[f]]
                 /\ r.ts \in Times /\ r.v \in Values
           /\ \A i \in 1..Len(e) : f \in DOMAIN e[i].d =>
                 [k |-> i, ts |-> e[i].ts, v |-> e[i].d[f]] \in Logged(e, f)
<1>1. ASSUME NEW i \in 1..Len(e), f \in DOMAIN e[i].d
      PROVE  e[i].ts \in Times /\ e[i].d[f] \in Values
  <2>1. e[i] \in Changes
    BY ElementOfSeq
  <2> QED BY <1>1, <2>1, ChangeFields, PartFields
<1>2. ASSUME NEW r \in Logged(e, f)
      PROVE  /\ r.k \in 1..Len(e) /\ f \in DOMAIN e[r.k].d
             /\ r = [k |-> r.k, ts |-> e[r.k].ts, v |-> e[r.k].d[f]]
             /\ r.ts \in Times /\ r.v \in Values
  <2>1. PICK i \in 1..Len(e) :
           f \in DOMAIN e[i].d /\ r = [k |-> i, ts |-> e[i].ts, v |-> e[i].d[f]]
    BY DEF Logged
  <2>2. r.k = i /\ r.ts = e[i].ts /\ r.v = e[i].d[f]
    BY <2>1
  <2> QED BY <1>1, <2>1, <2>2
<1>3. \A i \in 1..Len(e) : f \in DOMAIN e[i].d =>
         [k |-> i, ts |-> e[i].ts, v |-> e[i].d[f]] \in Logged(e, f)
  BY DEF Logged
<1> QED BY <1>2, <1>3

\* A row has one change of a field.
LEMMA LoggedUnique ==
    ASSUME NEW e \in Seq(Changes), NEW f, NEW r \in Logged(e, f), NEW q \in Logged(e, f), r.k = q.k
    PROVE  r = q
BY LoggedFields

\* A new row adds its change.
LEMMA LoggedAppend ==
    ASSUME NEW e \in Seq(Changes), NEW c \in Changes, NEW f
    PROVE  /\ f \notin DOMAIN c.d => Logged(Append(e, c), f) = Logged(e, f)
           /\ f \in DOMAIN c.d => Logged(Append(e, c), f) =
                 Logged(e, f) \cup {[k |-> Len(e) + 1, ts |-> c.ts, v |-> c.d[f]]}
<1> DEFINE a == Append(e, c)
           w == [k |-> Len(e) + 1, ts |-> c.ts, v |-> c.d[f]]
<1>1. /\ a \in Seq(Changes) /\ Len(e) \in Nat /\ Len(a) = Len(e) + 1
      /\ \A i \in 1..Len(e) : a[i] = e[i]
      /\ a[Len(e) + 1] = c
  BY AppendProperties, LenProperties
<1> HIDE DEF a
<1>2. ASSUME NEW r \in Logged(e, f) PROVE r \in Logged(a, f)
  <2>1. /\ r.k \in 1..Len(e) /\ f \in DOMAIN e[r.k].d
        /\ r = [k |-> r.k, ts |-> e[r.k].ts, v |-> e[r.k].d[f]]
    BY LoggedFields
  <2>2. r.k \in 1..Len(a) /\ a[r.k] = e[r.k]
    BY <1>1, <2>1
  <2>3. [k |-> r.k, ts |-> a[r.k].ts, v |-> a[r.k].d[f]] \in Logged(a, f)
    BY <1>1, <2>1, <2>2, LoggedFields
  <2> QED BY <2>1, <2>2, <2>3
<1>3. ASSUME NEW r \in Logged(a, f)
      PROVE  r \in Logged(e, f) \/ (f \in DOMAIN c.d /\ r = w)
  <2>1. /\ r.k \in 1..Len(a) /\ f \in DOMAIN a[r.k].d
        /\ r = [k |-> r.k, ts |-> a[r.k].ts, v |-> a[r.k].d[f]]
    BY <1>1, LoggedFields
  <2>2. CASE r.k \in 1..Len(e)
    <3>1. a[r.k] = e[r.k]
      BY <1>1, <2>2
    <3>2. [k |-> r.k, ts |-> e[r.k].ts, v |-> e[r.k].d[f]] \in Logged(e, f)
      BY <2>1, <2>2, <3>1, LoggedFields
    <3> QED BY <2>1, <3>1, <3>2
  <2>3. CASE r.k = Len(e) + 1
    BY <1>1, <2>1, <2>3
  <2> QED BY <1>1, <2>1, <2>2, <2>3
<1>4. f \in DOMAIN c.d => w \in Logged(a, f)
  <2>1. Len(e) + 1 \in 1..Len(a)
    BY <1>1
  <2> QED BY <1>1, <2>1, LoggedFields
<1> HIDE DEF w
<1>5. f \notin DOMAIN c.d => Logged(a, f) = Logged(e, f)
  BY <1>2, <1>3
<1>6. f \in DOMAIN c.d => Logged(a, f) = Logged(e, f) \cup {w}
  BY <1>2, <1>3, <1>4
<1> QED BY <1>5, <1>6 DEF a, w

\* The row that the sync service is about to insert.
LEMMA PendingRow ==
    ASSUME TypeOK, NEW s \in Stores, sync[s].pc \in {"replace", "insert"}
    PROVE  LET c == Change(sync[s].lts, sync[s].dif)
           IN  c \in Changes /\ c.d = sync[s].dif /\ c.ts = sync[s].lts
<1>1. sync[s] \in SyncStates
  BY StoreTyped
<1>2. sync[s].lts \in Times /\ sync[s].dif \in Parts
  BY <1>1, SyncFields
<1> QED BY <1>2, ChangeFields

\* The rows of a store: numbered, stamped, and one for each number.
LEMMA RecFields ==
    ASSUME TypeOK, NEW s \in Stores, NEW f \in Fields
    PROVE  /\ Eff(s) \in Seq(Changes)
           /\ \A r \in Rec(s, f) :
                 r.k \in Nat \ {0} /\ r.k <= Len(chg[s]) + 1 /\ r.ts \in Nat /\ r.v \in Nat
           /\ \A r, q \in Rec(s, f) : r.k = q.k => r = q
           /\ sync[s].pc # "insert" => \A r \in Rec(s, f) : r.k <= Len(chg[s])
           /\ sync[s].pc = "insert" /\ f \notin DOMAIN sync[s].dif =>
                 \A r \in Rec(s, f) : r.k <= Len(chg[s])
<1>1. chg[s] \in Seq(Changes) /\ Len(chg[s]) \in Nat
  BY StoreTyped
<1>2. CASE sync[s].pc = "insert"
  <2> DEFINE c == Change(sync[s].lts, sync[s].dif)
  <2>1. c \in Changes /\ c.d = sync[s].dif
    BY <1>2, PendingRow
  <2>2. Eff(s) = Append(chg[s], c)
    BY <1>2 DEF Eff
  <2> HIDE DEF c
  <2>3. Append(chg[s], c) \in Seq(Changes) /\ Len(Append(chg[s], c)) = Len(chg[s]) + 1
    BY <1>1, <2>1, AppendProperties
  <2>4. Rec(s, f) = Logged(Append(chg[s], c), f)
    BY <2>2 DEF Rec
  <2>5. f \notin DOMAIN c.d => Rec(s, f) = Logged(chg[s], f)
    BY <1>1, <2>1, <2>4, LoggedAppend
  <2>6. f \notin DOMAIN c.d => \A r \in Rec(s, f) : r.k <= Len(chg[s])
    BY <1>1, <2>5, LoggedFields
  <2> DEFINE e == Append(chg[s], c)
  <2>7. \A r \in Rec(s, f) : r.k \in 1..Len(chg[s]) + 1 /\ r.ts \in Times /\ r.v \in Values
    <3>1. e \in Seq(Changes) /\ Len(e) = Len(chg[s]) + 1 /\ Rec(s, f) = Logged(e, f)
      BY <2>3, <2>4
    <3> HIDE DEF e
    <3> QED BY <3>1, LoggedFields
  <2>8. \A r, q \in Rec(s, f) : r.k = q.k => r = q
    <3>1. e \in Seq(Changes) /\ Rec(s, f) = Logged(e, f)
      BY <2>3, <2>4
    <3> HIDE DEF e
    <3> QED BY <3>1, LoggedUnique
  <2>9. \A r \in Rec(s, f) :
           r.k \in Nat \ {0} /\ r.k <= Len(chg[s]) + 1 /\ r.ts \in Nat /\ r.v \in Nat
    <3> TAKE r \in Rec(s, f)
    <3>1. r.k \in 1..Len(chg[s]) + 1 /\ r.ts \in Nat /\ r.v \in Nat
      BY <2>7, Numbers
    <3> QED BY <1>1, <3>1
  <2>10. Eff(s) \in Seq(Changes)
    BY <2>2, <2>3
  <2> QED BY <1>2, <2>1, <2>6, <2>8, <2>9, <2>10
<1>3. CASE sync[s].pc # "insert"
  <2>1. Eff(s) = chg[s] /\ Rec(s, f) = Logged(chg[s], f)
    BY <1>3 DEF Eff, Rec
  <2>2. \A r \in Rec(s, f) : r.k \in 1..Len(chg[s]) /\ r.ts \in Times /\ r.v \in Values
    BY <1>1, <2>1, LoggedFields
  <2>3. \A r, q \in Rec(s, f) : r.k = q.k => r = q
    BY <1>1, <2>1, LoggedUnique
  <2>4. \A r \in Rec(s, f) :
           /\ r.k \in Nat \ {0} /\ r.k <= Len(chg[s]) + 1 /\ r.ts \in Nat /\ r.v \in Nat
           /\ r.k <= Len(chg[s])
    <3> TAKE r \in Rec(s, f)
    <3>1. r.k \in 1..Len(chg[s]) /\ r.ts \in Nat /\ r.v \in Nat
      BY <2>2, Numbers
    <3> QED BY <1>1, <3>1
  <2> QED BY <1>1, <1>3, <2>1, <2>3, <2>4
<1> QED BY <1>2, <1>3

\* The rows that are stored already.
LEMMA RecStored ==
    ASSUME TypeOK, NEW s \in Stores, NEW f \in Fields
    PROVE  /\ Logged(chg[s], f) = {r \in Rec(s, f) : r.k <= Len(chg[s])}
           /\ Logged(chg[s], f) \subseteq Rec(s, f)
<1>1. chg[s] \in Seq(Changes) /\ Len(chg[s]) \in Nat
  BY StoreTyped
<1>2. CASE sync[s].pc = "insert"
  <2> DEFINE c == Change(sync[s].lts, sync[s].dif)
  <2>1. c \in Changes
    BY <1>2, PendingRow
  <2>2. Rec(s, f) = Logged(Append(chg[s], c), f)
    BY <1>2 DEF Eff, Rec
  <2> HIDE DEF c
  <2> DEFINE w == [k |-> Len(chg[s]) + 1, ts |-> c.ts, v |-> c.d[f]]
  <2>3. Rec(s, f) = Logged(chg[s], f) \/ Rec(s, f) = Logged(chg[s], f) \cup {w}
    BY <1>1, <2>1, <2>2, LoggedAppend
  <2>4. \A r \in Logged(chg[s], f) : r.k \in 1..Len(chg[s])
    BY <1>1, LoggedFields
  <2>5. w.k = Len(chg[s]) + 1
    OBVIOUS
  <2> HIDE DEF w
  <2>6. ~(w.k <= Len(chg[s]))
    BY <1>1, <2>5
  <2> QED BY <1>1, <2>3, <2>4, <2>6
<1>3. CASE sync[s].pc # "insert"
  <2>1. Rec(s, f) = Logged(chg[s], f)
    BY <1>3 DEF Eff, Rec
  <2> QED BY <2>1, <1>1, LoggedFields
<1> QED BY <1>2, <1>3

\* The change of f that SyncReplace settles.
NewRow(s, f) == [k |-> Len(chg[s]) + 1, ts |-> sync[s].lts, v |-> sync[s].dif[f]]

\* A change is recorded with the snapshot, and undone by a failure alone.
LEMMA RecMoves ==
    ASSUME TypeOK, NEW s \in Stores, Exist(s), Ids(s), Step(s), NEW f \in Fields
    PROVE  /\ \A t \in Stores : t # s => Rec(t, f)' = Rec(t, f)
           /\ \/ Rec(s, f)' = Rec(s, f)
              \/ /\ SyncReplace(s) /\ f \in DOMAIN sync[s].dif
                 /\ Rec(s, f)' = Rec(s, f) \cup {NewRow(s, f)}
                 /\ \A r \in Rec(s, f) : r.k <= Len(chg[s])
              \/ /\ SyncFail(s) /\ f \in astray'
                 /\ Rec(s, f)' = {r \in Rec(s, f) : r.k <= Len(chg[s])}
<1>1. ASSUME NEW t \in Stores, t # s PROVE Rec(t, f)' = Rec(t, f)
  <2>1. Eff(t)' = Eff(t)
    BY <1>1, OthersStay DEF Eff
  <2> QED BY <2>1 DEF Rec
<1>2. CASE Eff(s)' = Eff(s)
  BY <1>1, <1>2 DEF Rec
<1>3. CASE SyncReplace(s)
  <2> DEFINE c == Change(sync[s].lts, sync[s].dif)
  <2>1. c \in Changes /\ c.d = sync[s].dif /\ c.ts = sync[s].lts
    BY <1>3, SyncReplaceDoes, PendingRow
  <2>2. Rec(s, f) = Logged(chg[s], f)
    BY <1>3, SyncReplaceDoes DEF Eff, Rec
  <2>3. Eff(s)' = Append(chg[s], c)
    BY <1>3, SyncReplaceDoes DEF Eff
  <2>4. Rec(s, f)' = Logged(Append(chg[s], c), f)
    BY <2>3 DEF Rec
  <2>5. \A r \in Rec(s, f) : r.k <= Len(chg[s])
    BY <1>3, SyncReplaceDoes, RecFields
  <2> HIDE DEF c
  <2>6. /\ f \notin DOMAIN c.d => Rec(s, f)' = Rec(s, f)
        /\ f \in DOMAIN c.d => Rec(s, f)' = Rec(s, f) \cup {NewRow(s, f)}
    BY <2>1, <2>2, <2>4, LoggedAppend, StoreTyped DEF NewRow
  <2> QED BY <1>1, <1>3, <2>1, <2>5, <2>6
<1>4. CASE SyncFail(s)
  <2>1. Eff(s)' = chg[s]
    BY <1>4, SyncFailDoes DEF Eff
  <2>2. Rec(s, f)' = {r \in Rec(s, f) : r.k <= Len(chg[s])}
    BY <2>1, RecStored DEF Rec
  <2>3. CASE f \in astray'
    BY <1>1, <1>4, <2>2, <2>3
  <2>4. CASE f \notin astray'
    <3>1. sync[s].pc = "insert" => f \notin DOMAIN sync[s].dif
      BY <1>4, <2>4, SyncFailDoes
    <3>2. \A r \in Rec(s, f) : r.k <= Len(chg[s])
      BY <3>1, RecFields
    <3> QED BY <1>1, <2>2, <3>2
  <2> QED BY <2>3, <2>4
<1>5. CASE SyncInsert(s)
  <2>1. Eff(s)' = Eff(s)
    BY <1>5, SyncInsertDoes DEF Eff
  <2> QED BY <2>1, <1>2
<1>6. ASSUME NEW g \in Fields, Edit(s, g) PROVE Eff(s)' = Eff(s)
  BY <1>6, EditDoes DEF Eff
<1>7. CASE SyncRead(s) \/ SyncCompare(s)
  <2>1. Eff(s)' = Eff(s)
    BY <1>7, SyncReadDoes, SyncCompareDoes DEF Eff
  <2> QED BY <2>1, <1>2
<1>8. CASE Inst(s) \/ InstFail(s)
  <2>1. (Fetch(s) \/ LookOwn(s)) => UNCHANGED <<sync, chg>>
    BY FetchDoes, LookOwnDoes
  <2>2. (LookSnap(s)) => UNCHANGED <<sync, chg>>
    BY LookSnapDoes
  <2>3. (UpdateSnap(s) \/ Commit(s)) => UNCHANGED <<sync, chg>>
    BY UpdateSnapDoes, CommitDoes
  <2>4. (CopyRow(s) \/ InsertRow(s)) => UNCHANGED <<sync, chg>>
    BY CopyRowDoes, InsertRowDoes
  <2>5. (SetLast(s) \/ InstFail(s)) => UNCHANGED <<sync, chg>>
    BY SetLastDoes, InstFailDoes
  <2>6. UNCHANGED <<sync, chg>>
    BY <1>8, <2>1, <2>2, <2>3, <2>4, <2>5 DEF Inst
  <2>7. Eff(s)' = Eff(s)
    BY <2>6 DEF Eff
  <2> QED BY <1>2, <2>7
<1> QED BY <1>2, <1>3, <1>4, <1>5, <1>6, <1>7, <1>8 DEF Step, Sync

----------------------------------------------------------------------------
(* What exists stays, and the numbers stay in range.                       *)

\* The steps of a store.
Moves(s) ==
    \/ \E f \in Fields : Edit(s, f)
    \/ SyncRead(s) \/ SyncCompare(s) \/ SyncReplace(s) \/ SyncInsert(s) \/ SyncFail(s)
    \/ Fetch(s) \/ LookOwn(s) \/ LookSnap(s) \/ UpdateSnap(s) \/ Commit(s)
    \/ CopyRow(s) \/ InsertRow(s) \/ SetLast(s) \/ InstFail(s)

\* The steps of a store, one by one.
LEMMA StepMoves == ASSUME NEW s, Step(s) PROVE Moves(s)
BY DEF Step, Sync, Inst, Moves

\* Customers, snapshots, rows and losses stay.
LEMMA Grows ==
    ASSUME TypeOK, NEW s \in Stores, Exist(s), Ids(s), Step(s), NEW t \in Stores
    PROVE  /\ pos[t] # None => pos'[t] # None
           /\ snap[t] # None => snap'[t] # None
           /\ Len(chg[t]) \in Nat /\ Len(chg'[t]) \in Nat /\ Len(chg'[t]) >= Len(chg[t])
           /\ chg[t] # <<>> => chg'[t] # <<>>
           /\ astray \subseteq astray'
<1>1. chg[t] \in Seq(Changes) /\ Len(chg[t]) \in Nat
  BY StoreTyped
<1>2. astray \subseteq astray'
  <2>1. ASSUME NEW f \in Fields, Edit(s, f) PROVE astray \subseteq astray'
    BY <2>1 DEF Edit
  <2>2. CASE SyncRead(s) \/ SyncCompare(s) \/ SyncReplace(s) \/ SyncInsert(s) \/ SyncFail(s)
    BY <2>2 DEF SyncRead, SyncCompare, SyncReplace, SyncInsert, SyncFail
  <2>3. CASE Fetch(s) \/ LookOwn(s) \/ LookSnap(s) \/ UpdateSnap(s)
    BY <2>3 DEF Fetch, LookOwn, LookSnap, UpdateSnap
  <2>4. CASE Commit(s) \/ CopyRow(s) \/ InsertRow(s) \/ SetLast(s) \/ InstFail(s)
    BY <2>4 DEF Commit, CopyRow, InsertRow, SetLast, InstFail
  <2> QED BY <2>1, <2>2, <2>3, <2>4, StepMoves DEF Moves
<1>3. CASE t # s
  BY <1>1, <1>2, <1>3, OthersStay
<1>4. CASE t = s
  <2>1. ASSUME NEW f \in Fields, Edit(s, f)
        PROVE  pos'[s] # None /\ UNCHANGED <<snap, chg>>
    BY <2>1, EditDoes, NoneIsNoRow
  <2>2. SyncRead(s) \/ SyncCompare(s) => UNCHANGED <<pos, snap, chg>>
    BY SyncReadDoes, SyncCompareDoes
  <2>3. SyncReplace(s) \/ SyncFail(s) =>
        /\ UNCHANGED <<pos, chg>>
        /\ snap'[s] # None \/ UNCHANGED snap
    BY SyncReplaceDoes, SyncFailDoes
  <2>4. SyncInsert(s) => UNCHANGED <<pos, snap>> /\ Len(chg'[s]) = Len(chg[s]) + 1 /\ chg'[s] # <<>>
    <3>1. ASSUME SyncInsert(s)
          PROVE  /\ UNCHANGED <<pos, snap>>
                 /\ chg'[s] = Append(chg[s], Change(sync[s].lts, sync[s].dif))
                 /\ Change(sync[s].lts, sync[s].dif) \in Changes
      BY <3>1, SyncInsertDoes, PendingRow
    <3>2. \A c \in Changes : Len(Append(chg[s], c)) = Len(chg[s]) + 1 /\ Append(chg[s], c) # <<>>
      BY <1>1, <1>4, AppendProperties
    <3> QED BY <3>1, <3>2
  <2>5. Fetch(s) \/ LookOwn(s) \/ LookSnap(s) => UNCHANGED <<pos, snap, chg>>
    BY FetchDoes, LookOwnDoes, LookSnapDoes
  <2>6. UpdateSnap(s) => snap'[s] # None /\ UNCHANGED <<pos, chg>>
    BY UpdateSnapDoes
  <2>7. Commit(s) \/ InsertRow(s) => pos'[s] # None /\ UNCHANGED <<snap, chg>>
    BY CommitDoes, InsertRowDoes, NoneIsNoRow
  <2>8. CopyRow(s) \/ SetLast(s) \/ InstFail(s) => UNCHANGED <<pos, snap, chg>>
    BY CopyRowDoes, SetLastDoes, InstFailDoes
  <2>9. UNCHANGED chg \/ (Len(chg'[s]) = Len(chg[s]) + 1 /\ chg'[s] # <<>>)
    BY <2>1, <2>2, <2>3, <2>4, <2>5, <2>6, <2>7, <2>8, StepMoves DEF Moves
  <2>10. (pos[s] # None => pos'[s] # None) /\ (snap[s] # None => snap'[s] # None)
    BY <2>1, <2>2, <2>3, <2>4, <2>5, <2>6, <2>7, <2>8, StepMoves DEF Moves
  <2> QED BY <1>1, <1>2, <1>4, <2>9, <2>10
<1> QED BY <1>3, <1>4

\* The types after any step.
LEMMA TypesKept ==
    ASSUME TypeOK, NEW s \in Stores, Exist(s), Ids(s), Step(s)
    PROVE  TypeOK'
<1>1. ASSUME NEW f \in Fields, Edit(s, f) PROVE TypeOK'
  BY <1>1, EditKeepsTypes
<1>2. CASE Sync(s) \/ SyncFail(s)
  BY <1>2, SyncKeepsTypes
<1>3. CASE Inst(s) \/ InstFail(s)
  BY <1>3, InstKeepsTypes
<1> QED BY <1>1, <1>2, <1>3 DEF Step

\* A store without the customer has nothing to do with it.
LEMMA ExistKept ==
    ASSUME TypeOK, \A t \in Stores : Exist(t) /\ Ids(t), NEW s \in Stores, Step(s), NEW t \in Stores
    PROVE  Exist(t)'
<1>1. CASE t # s
  <2>1. t \in Stores /\ Other(t) = s /\ Exist(t)
    BY <1>1, TwoStores
  <2>2. /\ pos'[t] = pos[t] /\ snap'[t] = snap[t] /\ journal'[t] = journal[t]
        /\ sync'[t] = sync[t] /\ inst'[t] = inst[t] /\ last'[t] = last[t] /\ chg'[t] = chg[t]
    BY <1>1, OthersStay
  <2>3. /\ pos[s] # None => pos'[s] # None
        /\ snap[s] # None => snap'[s] # None
        /\ chg[s] # <<>> => chg'[s] # <<>>
    BY Grows
  <2> QED BY <2>1, <2>2, <2>3 DEF Exist
<1>2. Exist(s)'
  <2>1. /\ Other(s) \in Stores /\ chg'[Other(s)] = chg[Other(s)]
        /\ pos'[Other(s)] = pos[Other(s)] /\ snap'[Other(s)] = snap[Other(s)]
    BY TwoStores, OthersStay
  <2>2. Exist(s) /\ Ids(s)
    OBVIOUS
  <2>3. ASSUME NEW f \in Fields, Edit(s, f) PROVE Exist(s)'
    BY <2>1, <2>2, <2>3, EditDoes, NoneIsNoRow DEF Exist
  <2>4. CASE SyncRead(s)
    BY <2>1, <2>2, <2>4, SyncReadDoes, NoneIsNoRow DEF Exist
  <2>5. CASE SyncCompare(s)
    BY <2>1, <2>2, <2>5, SyncCompareDoes DEF Exist
  <2>6. CASE SyncReplace(s)
    BY <2>1, <2>2, <2>6, SyncReplaceDoes DEF Exist
  <2>7. CASE SyncInsert(s)
    BY <2>1, <2>2, <2>7, SyncInsertDoes DEF Exist
  <2>8. CASE SyncFail(s)
    BY <2>1, <2>2, <2>8, SyncFailDoes DEF Exist
  <2>9. CASE Fetch(s)
    BY <2>1, <2>2, <2>9, FetchDoes DEF Exist
  <2>10. CASE LookOwn(s)
    BY <2>1, <2>2, <2>10, LookOwnDoes DEF Exist
  <2>11. CASE LookSnap(s)
    BY <2>1, <2>2, <2>11, LookSnapDoes DEF Exist
  <2>12. CASE UpdateSnap(s)
    BY <2>1, <2>2, <2>12, UpdateSnapDoes DEF Exist
  <2>13. CASE Commit(s)
    BY <2>1, <2>2, <2>13, CommitDoes, NoneIsNoRow DEF Exist
  <2>14. CASE CopyRow(s)
    BY <2>1, <2>2, <2>14, CopyRowDoes DEF Exist
  <2>15. CASE InsertRow(s)
    BY <2>1, <2>2, <2>15, InsertRowDoes, NoneIsNoRow DEF Exist
  <2>16. CASE SetLast(s)
    BY <2>1, <2>2, <2>16, SetLastDoes DEF Exist
  <2>17. CASE InstFail(s)
    BY <2>1, <2>2, <2>17, InstFailDoes DEF Exist
  <2> QED BY <2>3, <2>4, <2>5, <2>6, <2>7, <2>8, <2>9, <2>10, <2>11, <2>12, <2>13, <2>14, <2>15,
             <2>16, <2>17, StepMoves DEF Moves
<1> QED BY <1>1, <1>2

\* Stored ids are ids of rows.
LEMMA IdsKept ==
    ASSUME TypeOK, \A t \in Stores : Exist(t) /\ Ids(t), NEW s \in Stores, Step(s), NEW t \in Stores
    PROVE  Ids(t)'
<1>1. CASE t # s
  <2>1. Other(t) = s /\ Ids(t) /\ inst[t].pc \in InstSteps /\ last[t] \in Nat
    BY <1>1, TwoStores, StoreTyped, InstFields
  <2>2. inst[t].pc # "idle" => inst[t].id \in Nat
    BY StoreTyped, InstFields
  <2>3. inst'[t] = inst[t] /\ last'[t] = last[t] /\ chg'[t] = chg[t]
    BY <1>1, OthersStay
  <2>4. Len(chg[s]) \in Nat /\ Len(chg'[s]) \in Nat /\ Len(chg'[s]) >= Len(chg[s])
    BY Grows
  <2> QED BY <2>1, <2>2, <2>3, <2>4 DEF Ids
<1>2. Ids(s)'
  <2>1. /\ Other(s) \in Stores /\ chg'[Other(s)] = chg[Other(s)]
        /\ Len(chg[Other(s)]) \in Nat /\ last[s] \in Nat
    BY TwoStores, OthersStay, StoreTyped
  <2>2. Ids(s) /\ Exist(s)
    OBVIOUS
  <2>3. Len(chg[s]) \in Nat /\ Len(chg'[s]) \in Nat /\ Len(chg'[s]) >= Len(chg[s])
    BY Grows
  <2>4. inst[s].pc = "snap" => inst[s].seen \in Nat
    BY StoreTyped, InstFields
  <2>5. CASE last'[s] = last[s] /\ inst'[s] = inst[s]
    BY <2>1, <2>2, <2>3, <2>4, <2>5 DEF Ids
  <2>6. CASE /\ last'[s] = last[s] /\ inst[s].pc # "idle" /\ inst'[s].pc # "snap"
             /\ inst'[s].pc = "idle" \/ inst'[s].id = inst[s].id
    BY <2>1, <2>2, <2>6 DEF Ids
  <2>7. CASE Fetch(s)
    <3>1. /\ inst'[s].pc = "own" /\ inst'[s].id = Len(chg[Other(s)])
          /\ last[s] < Len(chg[Other(s)]) /\ last' = last
      BY <2>2, <2>7, FetchDoes
    <3> QED BY <2>1, <3>1 DEF Ids
  <2>8. CASE LookOwn(s)
    <3>1. /\ inst[s].pc = "own" /\ inst'[s].pc = "snap" /\ inst'[s].id = inst[s].id
          /\ inst'[s].seen = Len(chg[s]) /\ last' = last /\ chg' = chg
      BY <2>8, LookOwnDoes
    <3> QED BY <2>1, <2>2, <2>3, <3>1 DEF Ids
  <2>9. CASE SetLast(s)
    <3>1. inst[s].pc = "last" /\ inst'[s].pc = "idle" /\ last'[s] = inst[s].id
      BY <2>9, SetLastDoes
    <3> QED BY <2>1, <2>2, <3>1 DEF Ids
  <2>10. \/ last' = last /\ inst' = inst
         \/ Fetch(s) \/ LookOwn(s) \/ SetLast(s)
         \/ /\ last' = last /\ inst[s].pc # "idle" /\ inst'[s].pc # "snap"
            /\ inst'[s].pc = "idle" \/ inst'[s].id = inst[s].id
    <3>1. ASSUME NEW f \in Fields, Edit(s, f) PROVE last' = last /\ inst' = inst
      BY <3>1, EditDoes
    <3>2. SyncRead(s) \/ SyncCompare(s) \/ SyncReplace(s) => last' = last /\ inst' = inst
      BY <2>2, SyncReadDoes, SyncCompareDoes, SyncReplaceDoes
    <3>3. SyncInsert(s) \/ SyncFail(s) => last' = last /\ inst' = inst
      BY SyncInsertDoes, SyncFailDoes
    <3>4. LookSnap(s) =>
             /\ last' = last /\ inst[s].pc # "idle" /\ inst'[s].pc # "snap"
             /\ inst'[s].id = inst[s].id
      BY LookSnapDoes
    <3>5. UpdateSnap(s) \/ Commit(s) =>
             /\ last' = last /\ inst[s].pc # "idle" /\ inst'[s].pc # "snap"
             /\ inst'[s].id = inst[s].id
      BY <2>2, UpdateSnapDoes, CommitDoes
    <3>6. CopyRow(s) \/ InsertRow(s) =>
             /\ last' = last /\ inst[s].pc # "idle" /\ inst'[s].pc # "snap"
             /\ inst'[s].id = inst[s].id
      BY <2>2, CopyRowDoes, InsertRowDoes
    <3>7. InstFail(s) => last' = last /\ inst[s].pc # "idle" /\ inst'[s].pc = "idle"
      BY InstFailDoes
    <3> QED BY <3>1, <3>2, <3>3, <3>4, <3>5, <3>6, <3>7, StepMoves DEF Moves
  <2> QED BY <2>5, <2>6, <2>7, <2>8, <2>9, <2>10
<1> QED BY <1>1, <1>2

----------------------------------------------------------------------------
(* Clocks and stamps.                                                      *)

\* Which steps change what the stamps depend on.
LEMMA ClockMoves ==
    ASSUME TypeOK, NEW s \in Stores, Exist(s), Ids(s), Step(s)
    PROVE  \/ /\ lastedit' = lastedit /\ now' = now
              /\ sync'[s].pc # "idle" => sync[s].pc # "idle" /\ sync'[s].lts = sync[s].lts
           \/ /\ now' >= now /\ lastedit'[s] = now' /\ sync' = sync
           \/ /\ SyncRead(s) /\ now' = now /\ lastedit' = lastedit /\ sync'[s].lts = lastedit[s]
           \/ /\ InsertRow(s) /\ now' = now /\ lastedit'[s] = inst[s].lts /\ sync' = sync
<1>1. ASSUME NEW f \in Fields, Edit(s, f)
      PROVE  now' >= now /\ lastedit'[s] = now' /\ sync' = sync
  BY <1>1, EditDoes
<1>2. CASE SyncRead(s)
  BY <1>2, SyncReadDoes
<1>3. CASE InsertRow(s)
  BY <1>3, InsertRowDoes
<1>4. ASSUME UNCHANGED <<lastedit, now, sync>> \/ (UNCHANGED <<lastedit, now>> /\ sync'[s].pc = "idle")
      PROVE  /\ lastedit' = lastedit /\ now' = now
             /\ sync'[s].pc # "idle" => sync[s].pc # "idle" /\ sync'[s].lts = sync[s].lts
  BY <1>4
<1>5. CASE SyncCompare(s)
  BY <1>5, SyncCompareDoes
<1>6. CASE SyncReplace(s)
  BY <1>6, SyncReplaceDoes
<1>7. CASE SyncInsert(s) \/ SyncFail(s)
  BY <1>4, <1>7, SyncInsertDoes, SyncFailDoes
<1>8. CASE Fetch(s) \/ LookOwn(s) \/ LookSnap(s)
  BY <1>4, <1>8, FetchDoes, LookOwnDoes, LookSnapDoes
<1>9. CASE UpdateSnap(s) \/ Commit(s) \/ CopyRow(s)
  BY <1>4, <1>9, UpdateSnapDoes, CommitDoes, CopyRowDoes
<1>10. CASE SetLast(s) \/ InstFail(s)
  BY <1>4, <1>10, SetLastDoes, InstFailDoes
<1> QED BY <1>1, <1>2, <1>3, <1>5, <1>6, <1>7, <1>8, <1>9, <1>10, StepMoves DEF Moves

\* No stamp is later than the clock.
LEMMA ClocksKept ==
    ASSUME TypeOK, \A t \in Stores : Exist(t) /\ Ids(t) /\ Clocks(t), NEW s \in Stores, Step(s),
           NEW t \in Stores
    PROVE  Clocks(t)'
<1>1. /\ \A x \in Stores : lastedit[x] \in Nat
      /\ now \in Nat /\ now' \in Nat /\ lastedit'[t] \in Nat
  <2>1. TypeOK'
    BY TypesKept
  <2>2. \A x \in Stores : lastedit[x] \in Nat
    BY StoreTyped, Numbers
  <2>3. now \in Nat /\ now' \in Nat /\ lastedit'[t] \in Nat
    <3>1. lastedit' \in [Stores -> Times] /\ edits' \in 0..MaxEdits /\ now' \in 0..edits'
      BY <2>1 DEF TypeOK
    <3>2. lastedit'[t] \in Times
      BY <3>1
    <3>3. lastedit'[t] \in Nat
      BY <3>2, Numbers
    <3>4. now' \in Nat
      BY <3>1
    <3> QED BY <3>3, <3>4, StoreTyped
  <2> QED BY <2>2, <2>3
<1>2. \A x \in Stores : /\ Busy(x) => sync[x].lts \in Nat
                        /\ inst[x].pc = "insert" => inst[x].lts \in Nat
  <2> TAKE x \in Stores
  <2>1. sync[x] \in SyncStates /\ inst[x] \in InstStates
    BY StoreTyped
  <2> QED BY <2>1, SyncFields, InstFields, Numbers DEF Busy
<1>3. CASE t # s
  <2>1. now' >= now
    BY <1>1, ClockMoves
  <2>2. lastedit'[t] = lastedit[t] /\ sync'[t] = sync[t] /\ inst'[t] = inst[t] /\ Clocks(t)
    BY <1>3, OthersStay
  <2> QED BY <1>1, <1>2, <2>1, <2>2 DEF Clocks, Busy
<1>4. Clocks(s)'
  <2>1. Clocks(s) /\ Exist(s) /\ Ids(s) /\ Clocks(Other(s))
    BY TwoStores
  <2>2. now' >= now
    BY <1>1, ClockMoves
  <2>3. inst'[s].pc = "insert" => inst'[s].lts <= now
    <3>1. CASE inst'[s] = inst[s]
      BY <2>1, <3>1 DEF Clocks
    <3>2. CASE CopyRow(s)
      <4>1. inst'[s].lts = lastedit[Other(s)]
        BY <2>1, <3>2, CopyRowDoes
      <4> QED BY <4>1, <2>1 DEF Clocks
    <3>3. ASSUME NEW f \in Fields, Edit(s, f) PROVE inst' = inst
      BY <3>3, EditDoes
    <3>4. SyncRead(s) \/ SyncCompare(s) \/ SyncReplace(s) => inst' = inst
      BY <2>1, SyncReadDoes, SyncCompareDoes, SyncReplaceDoes
    <3>5. SyncInsert(s) \/ SyncFail(s) => inst' = inst
      BY SyncInsertDoes, SyncFailDoes
    <3>6. Fetch(s) \/ LookOwn(s) \/ LookSnap(s) \/ UpdateSnap(s) => inst'[s].pc # "insert"
      BY <2>1, FetchDoes, LookOwnDoes, LookSnapDoes, UpdateSnapDoes
    <3>7. Commit(s) \/ InsertRow(s) \/ SetLast(s) \/ InstFail(s) => inst'[s].pc # "insert"
      BY <2>1, CommitDoes, InsertRowDoes, SetLastDoes, InstFailDoes
    <3> QED BY <3>1, <3>2, <3>3, <3>4, <3>5, <3>6, <3>7, StepMoves DEF Moves
  <2>4. inst'[s].pc = "insert" => inst'[s].lts \in Nat
    <3>1. TypeOK'
      BY TypesKept
    <3>2. inst'[s] \in InstStates
      BY <3>1 DEF TypeOK
    <3> QED BY <3>2, InstFields, Numbers
  <2>5. inst'[s].pc = "insert" => inst'[s].lts <= now'
    BY <1>1, <2>2, <2>3, <2>4
  <2>6. lastedit'[s] <= now' /\ (sync'[s].pc # "idle" => sync'[s].lts <= lastedit'[s])
    <3>1. CASE /\ lastedit' = lastedit /\ now' = now
               /\ sync'[s].pc # "idle" => sync[s].pc # "idle" /\ sync'[s].lts = sync[s].lts
      BY <2>1, <3>1 DEF Clocks, Busy
    <3>2. CASE now' >= now /\ lastedit'[s] = now' /\ sync' = sync
      BY <1>1, <1>2, <2>1, <3>2 DEF Clocks, Busy
    <3>3. CASE SyncRead(s) /\ now' = now /\ lastedit' = lastedit /\ sync'[s].lts = lastedit[s]
      BY <1>1, <2>1, <3>3 DEF Clocks
    <3>4. CASE InsertRow(s) /\ now' = now /\ lastedit'[s] = inst[s].lts /\ sync' = sync
      <4>1. inst[s].pc = "insert"
        BY <3>4, InsertRowDoes
      <4>2. sync[s].pc = "idle"
        BY <4>1, <2>1 DEF Exist
      <4> QED BY <4>1, <4>2, <2>1, <3>4 DEF Clocks
    <3> QED BY <2>1, <3>1, <3>2, <3>3, <3>4, ClockMoves
  <2> QED BY <2>5, <2>6 DEF Clocks, Busy
<1> QED BY <1>3, <1>4

\* Later rows have later stamps.
LEMMA StampsKept ==
    ASSUME TypeOK, Plain, NEW s \in Stores, Step(s), NEW t \in Stores, NEW f \in Fields
    PROVE  Stamps(t, f)'
<1>1. /\ \A x \in Stores : Exist(x) /\ Ids(x) /\ Clocks(x) /\ Stamps(x, f)
      /\ \A x \in Stores : lastedit[x] \in Nat /\ now \in Nat
  BY StoreTyped, Numbers DEF Plain
<1>2. CASE t # s
  <2>1. Rec(t, f)' = Rec(t, f) /\ lastedit'[t] = lastedit[t] /\ sync'[t] = sync[t]
    BY <1>1, <1>2, OthersStay, RecMoves
  <2> QED BY <1>1, <2>1 DEF Stamps, Busy
<1>3. Stamps(s, f)'
  <2>1. Exist(s) /\ Ids(s) /\ Clocks(s) /\ Stamps(s, f)
    BY <1>1
  <2>2. /\ \A r \in Rec(s, f) : r.k \in Nat \ {0} /\ r.ts \in Nat
        /\ Len(chg[s]) \in Nat
        /\ Busy(s) => sync[s].lts \in Nat
    BY StoreTyped, RecFields, SyncFields, Numbers DEF Busy
  <2>3. CASE Rec(s, f)' = Rec(s, f) \/ Rec(s, f)' = {r \in Rec(s, f) : r.k <= Len(chg[s])}
    <3>1. \A r \in Rec(s, f)' : r \in Rec(s, f)
      BY <2>3
    <3>2. \A r, q \in Rec(s, f)' : r.k <= q.k => r.ts <= q.ts
      BY <3>1, <2>1 DEF Stamps
    <3>3. ASSUME NEW r \in Rec(s, f)
          PROVE  r.ts <= lastedit'[s] /\ (sync'[s].pc # "idle" => r.ts <= sync'[s].lts)
      <4>1. r.ts <= lastedit[s] /\ (sync[s].pc # "idle" => r.ts <= sync[s].lts)
        BY <2>1 DEF Stamps, Busy
      <4>2. CASE /\ lastedit' = lastedit /\ now' = now
                 /\ sync'[s].pc # "idle" => sync[s].pc # "idle" /\ sync'[s].lts = sync[s].lts
        BY <4>1, <4>2
      <4>3. CASE now' >= now /\ lastedit'[s] = now' /\ sync' = sync
        <5>1. now' \in Nat
          BY <2>1, TypesKept DEF TypeOK
        <5> QED BY <1>1, <2>1, <2>2, <4>1, <4>3, <5>1 DEF Clocks
      <4>4. CASE SyncRead(s) /\ now' = now /\ lastedit' = lastedit /\ sync'[s].lts = lastedit[s]
        BY <4>1, <4>4
      <4>5. CASE InsertRow(s)
        <5>1. inst[s].pc = "insert"
          BY <4>5, InsertRowDoes
        <5>2. chg[s] = <<>> /\ sync[s].pc # "insert"
          BY <5>1, <2>1 DEF Exist
        <5>3. r.k <= Len(chg[s])
          BY <5>2, RecFields
        <5> QED BY <5>2, <5>3, <2>2, EmptySeq
      <4> QED BY <2>1, <4>2, <4>3, <4>4, <4>5, ClockMoves
    <3> QED BY <3>1, <3>2, <3>3 DEF Stamps, Busy
  <2>4. CASE SyncReplace(s) /\ Rec(s, f)' = Rec(s, f) \cup {NewRow(s, f)}
             /\ \A r \in Rec(s, f) : r.k <= Len(chg[s])
    <3>1. /\ sync[s].pc = "replace" /\ sync'[s].lts = sync[s].lts /\ lastedit' = lastedit
      BY <2>4, SyncReplaceDoes
    <3>2. sync[s].lts <= lastedit[s] /\ lastedit[s] \in Nat /\ sync[s].lts \in Nat
      BY <1>1, <2>1, <2>2, <3>1 DEF Clocks, Busy
    <3>3. NewRow(s, f).k = Len(chg[s]) + 1 /\ NewRow(s, f).ts = sync[s].lts
      BY DEF NewRow
    <3>4. \A r \in Rec(s, f) : r.ts <= lastedit[s] /\ r.ts <= sync[s].lts
      BY <2>1, <3>1 DEF Stamps, Busy
    <3>5. \A r \in Rec(s, f)' : r.ts <= lastedit[s] /\ r.ts <= sync[s].lts
      BY <2>4, <3>2, <3>3, <3>4
    <3>6. \A r, q \in Rec(s, f)' : r.k <= q.k => r.ts <= q.ts
      <4> TAKE r, q \in Rec(s, f)'
      <4>1. CASE q = NewRow(s, f)
        BY <3>3, <3>5, <4>1
      <4>2. CASE q \in Rec(s, f) /\ r \in Rec(s, f)
        BY <2>1, <4>2 DEF Stamps
      <4>3. CASE q \in Rec(s, f) /\ r = NewRow(s, f)
        BY <2>2, <2>4, <3>3, <4>3
      <4> QED BY <2>4, <4>1, <4>2, <4>3
    <3> QED BY <3>1, <3>5, <3>6 DEF Stamps, Busy
  <2> QED BY <2>1, <2>3, <2>4, RecMoves
<1> QED BY <1>2, <1>3

----------------------------------------------------------------------------
(* What was fetched, and what a store found of its own.                    *)

\* The rows that are stored stay as they are.
LEMMA StoredStay ==
    ASSUME TypeOK, NEW s \in Stores, Exist(s), Ids(s), Step(s), NEW t \in Stores, NEW f \in Fields
    PROVE  /\ \A r \in Rec(t, f) : r.k <= Len(chg[t]) => r \in Rec(t, f)'
           /\ \A r \in Rec(t, f)' : r.k <= Len(chg[t]) => r \in Rec(t, f)
<1>1. Len(chg[t]) \in Nat
  BY StoreTyped
<1>2. CASE t # s
  BY <1>2, RecMoves
<1>3. CASE t = s
  <2>1. NewRow(s, f).k = Len(chg[s]) + 1
    BY DEF NewRow
  <2>2. ~(NewRow(s, f).k <= Len(chg[s]))
    BY <1>1, <1>3, <2>1
  <2> QED BY <1>3, <2>2, RecMoves
<1> QED BY <1>2, <1>3

\* The rows after a step, as before.
LEMMA RecNext ==
    ASSUME TypeOK, NEW s \in Stores, Exist(s), Ids(s), Step(s), NEW t \in Stores, NEW f \in Fields
    PROVE  /\ \A r \in Rec(t, f)' : r.k \in Nat \ {0} /\ r.ts \in Nat /\ r.v \in Nat
           /\ \A r, q \in Rec(t, f)' : r.k = q.k => r = q
<1>1. TypeOK'
  BY TypesKept
<1>2. chg'[t] \in Seq(Changes) /\ sync'[t] \in SyncStates
  BY <1>1 DEF TypeOK
<1>3. Eff(t)' \in Seq(Changes)
  <2>1. CASE sync'[t].pc = "insert"
    <3>1. sync'[t].lts \in Times /\ sync'[t].dif \in Parts
      BY <1>2, <2>1, SyncFields
    <3>2. Change(sync'[t].lts, sync'[t].dif) \in Changes
      BY <3>1, ChangeFields
    <3>3. Append(chg'[t], Change(sync'[t].lts, sync'[t].dif)) \in Seq(Changes)
      BY <1>2, <3>2, AppendProperties
    <3> QED BY <2>1, <3>3 DEF Eff
  <2>2. CASE sync'[t].pc # "insert"
    BY <1>2, <2>2 DEF Eff
  <2> QED BY <2>1, <2>2
<1>4. Rec(t, f)' = Logged(Eff(t)', f)
  BY DEF Rec
<1>5. ASSUME NEW r \in Rec(t, f)' PROVE r.k \in Nat \ {0} /\ r.ts \in Nat /\ r.v \in Nat
  <2>1. r.k \in 1..Len(Eff(t)') /\ r.ts \in Times /\ r.v \in Values
    BY <1>3, <1>4, LoggedFields
  <2>2. Len(Eff(t)') \in Nat
    BY <1>3, LenProperties
  <2>3. r.k \in Nat \ {0}
    BY <2>1, <2>2
  <2>4. r.ts \in Nat /\ r.v \in Nat
    BY <2>1, Numbers
  <2> QED BY <2>3, <2>4
<1>6. ASSUME NEW r \in Rec(t, f)', NEW q \in Rec(t, f)', r.k = q.k PROVE r = q
  BY <1>3, <1>4, <1>6, LoggedUnique
<1> QED BY <1>5, <1>6

\* What Fetch got, in terms of the rows of the other store.
LEMMA FetchGets ==
    ASSUME TypeOK, NEW s \in Stores, Ids(s), Fetch(s), NEW f \in Fields
    PROVE  LET new == inst'[s].new
               rows == Rec(Other(s), f)
               id == inst'[s].id
           IN  /\ f \in DOMAIN new =>
                     /\ \E n \in rows : IsTop(n, rows, id) /\ n.k > last[s]
                                        /\ n.ts = new[f].ts /\ n.v = new[f].v
                     /\ inst'[s].lts <= new[f].ts
               /\ f \notin DOMAIN new => \A r \in rows : r.k <= id => r.k <= last[s]
<1> DEFINE u == Other(s)
           e == chg[u]
           rows == SubSeq(e, last[s] + 1, Len(e))
<1>1. u \in Stores /\ e \in Seq(Changes) /\ Len(e) \in Nat /\ last[s] \in Nat /\ last[s] <= Len(e)
  BY TwoStores, StoreTyped DEF Ids
<1>2. /\ rows \in Seq(Changes) /\ rows # <<>> /\ inst'[s].id = Len(e)
      /\ inst'[s].new = Merged(rows) /\ inst'[s].lts = Earliest(rows)
  BY FetchDoes
<1>3. /\ Len(rows) = Len(e) - last[s]
      /\ \A i \in 1..Len(rows) : rows[i] = e[last[s] + i]
      /\ \A k \in last[s] + 1 .. Len(e) : k - last[s] \in 1..Len(rows) /\ rows[k - last[s]] = e[k]
  <2> HIDE DEF e
  <2> QED BY <1>1, AnswerRows
<1>4. /\ \A r \in Rec(u, f) : r.k <= Len(e) => r \in Logged(e, f)
      /\ Logged(e, f) \subseteq Rec(u, f)
  BY <1>1, RecStored
<1> HIDE DEF rows
<1>5. ASSUME NEW r \in Rec(u, f), r.k <= Len(e), r.k > last[s]
      PROVE  r.k - last[s] \in 1..Len(rows) /\ f \in DOMAIN rows[r.k - last[s]].d
  <2>1. r \in Logged(e, f)
    BY <1>4, <1>5
  <2>2. r.k \in 1..Len(e) /\ f \in DOMAIN e[r.k].d
    BY <1>1, <2>1, LoggedFields
  <2>3. r.k \in last[s] + 1 .. Len(e)
    BY <1>1, <1>5, <2>2
  <2> QED BY <1>3, <2>2, <2>3
<1>6. ASSUME f \in DOMAIN Merged(rows)
      PROVE  /\ \E n \in Rec(u, f) : IsTop(n, Rec(u, f), Len(e)) /\ n.k > last[s]
                      /\ n.ts = Merged(rows)[f].ts /\ n.v = Merged(rows)[f].v
             /\ Earliest(rows) <= Merged(rows)[f].ts
  <2>1. PICK i \in 1..Len(rows) :
           /\ f \in DOMAIN rows[i].d
           /\ Merged(rows)[f].ts = rows[i].ts /\ Merged(rows)[f].v = rows[i].d[f]
           /\ \A j \in 1..Len(rows) : f \in DOMAIN rows[j].d => j <= i
    BY <1>2, <1>6, MergedFields
  <2> DEFINE n == [k |-> last[s] + i, ts |-> e[last[s] + i].ts, v |-> e[last[s] + i].d[f]]
  <2>2. last[s] + i \in 1..Len(e) /\ rows[i] = e[last[s] + i]
    BY <1>1, <1>3
  <2>3. n \in Logged(e, f)
    BY <1>1, <2>1, <2>2, LoggedFields
  <2>4. n.k = last[s] + i /\ n.ts = Merged(rows)[f].ts /\ n.v = Merged(rows)[f].v
    BY <2>1, <2>2
  <2> HIDE DEF n
  <2>5. ASSUME NEW r \in Rec(u, f), r.k <= Len(e) PROVE r.k <= n.k
    <3>1. r.k \in Nat
      BY <1>1, RecFields
    <3>2. CASE r.k > last[s]
      <4>1. r.k - last[s] \in 1..Len(rows) /\ r.k - last[s] <= i
        BY <1>5, <2>1, <2>5, <3>2
      <4> QED BY <1>1, <2>4, <3>1, <4>1
    <3>3. CASE ~(r.k > last[s])
      BY <1>1, <2>4, <3>1, <3>3
    <3> QED BY <3>2, <3>3
  <2>6. n.k > last[s] /\ n.k <= Len(e) /\ n \in Rec(u, f)
    BY <1>1, <1>4, <2>2, <2>3, <2>4
  <2>7. Earliest(rows) <= Merged(rows)[f].ts
    BY <1>2, <1>6, EarliestFields
  <2> QED BY <2>4, <2>5, <2>6, <2>7 DEF IsTop
<1>7. ASSUME f \notin DOMAIN Merged(rows), NEW r \in Rec(u, f), r.k <= Len(e)
      PROVE  r.k <= last[s]
  <2>1. r.k \in Nat
    BY <1>1, RecFields
  <2>2. CASE r.k > last[s]
    <3>1. r.k - last[s] \in 1..Len(rows) /\ f \in DOMAIN rows[r.k - last[s]].d
      BY <1>5, <1>7, <2>2
    <3> QED BY <1>2, <1>7, <3>1, MergedFields
  <2> QED BY <1>1, <2>1, <2>2
<1> HIDE DEF u, e
<1> QED BY <1>2, <1>6, <1>7 DEF u

\* What LookOwn found of its own rows.
LEMMA LookOwnGets ==
    ASSUME TypeOK, NEW s \in Stores, Ids(s), LookOwn(s), NEW f \in Fields, Stamps(s, f),
           NEW ts \in Nat, inst[s].lts <= ts
    PROVE  /\ \A r \in Rec(s, f) : r.k <= Len(chg[s]) /\ r.ts >= ts => r.ts <= inst'[s].own[f]
           /\ inst'[s].own[f] >= ts =>
                 \E r \in Rec(s, f) : r.k <= Len(chg[s]) /\ r.ts = inst'[s].own[f]
<1> DEFINE e == chg[s]
           own == inst'[s].own[f]
<1>1. e \in Seq(Changes) /\ Len(e) \in Nat /\ inst[s].pc = "own" /\ inst[s].lts \in Times
  BY StoreTyped, LookOwnDoes, InstFields
<1>2. own = OwnTime(s, inst[s].lts, f)
  BY LookOwnDoes
<1>3. /\ own \in Times \cup {-1}
      /\ own # -1 => \E i \in 1..Len(e) : f \in DOMAIN e[i].d /\ e[i].ts = own
      /\ \A k \in 1..Len(e) : f \in DOMAIN e[k].d /\ e[k].ts >= inst[s].lts =>
            \E i \in k..Len(e) : f \in DOMAIN e[i].d /\ e[i].ts = own
  BY <1>1, <1>2, OwnTimeFields
<1>4. /\ \A r \in Rec(s, f) : r.k <= Len(e) => r \in Logged(e, f)
      /\ Logged(e, f) \subseteq Rec(s, f)
  BY RecStored
<1> HIDE DEF e, own
<1>5. ASSUME NEW i \in 1..Len(e), f \in DOMAIN e[i].d
      PROVE  \E q \in Rec(s, f) : q.k = i /\ q.ts = e[i].ts
  <2> DEFINE q == [k |-> i, ts |-> e[i].ts, v |-> e[i].d[f]]
  <2>1. q \in Logged(e, f)
    BY <1>1, <1>5, LoggedFields
  <2>2. q.k = i /\ q.ts = e[i].ts
    OBVIOUS
  <2> HIDE DEF q
  <2> QED BY <1>4, <2>1, <2>2
<1>6. ASSUME NEW r \in Rec(s, f), r.k <= Len(e), r.ts >= ts PROVE r.ts <= own
  <2>1. r \in Logged(e, f)
    BY <1>4, <1>6
  <2>2. r.k \in 1..Len(e) /\ f \in DOMAIN e[r.k].d /\ r.ts = e[r.k].ts /\ r.ts \in Nat
    <3>1. r = [k |-> r.k, ts |-> e[r.k].ts, v |-> e[r.k].d[f]]
      BY <1>1, <2>1, LoggedFields
    <3> QED BY <1>1, <2>1, <3>1, LoggedFields, Numbers
  <2>3. e[r.k].ts >= inst[s].lts
    <3>1. inst[s].lts \in Nat
      BY <1>1, Numbers
    <3> QED BY <1>6, <2>2, <3>1
  <2>4. PICK i \in r.k..Len(e) : f \in DOMAIN e[i].d /\ e[i].ts = own
    BY <1>3, <2>2, <2>3
  <2>5. i \in 1..Len(e) /\ r.k <= i
    BY <1>1, <2>2
  <2>6. PICK q \in Rec(s, f) : q.k = i /\ q.ts = own
    BY <1>5, <2>4, <2>5
  <2> QED BY <2>5, <2>6 DEF Stamps
<1>7. ASSUME own >= ts
      PROVE  \E r \in Rec(s, f) : r.k <= Len(e) /\ r.ts = own
  <2>1. own # -1
    BY <1>7
  <2>2. PICK i \in 1..Len(e) : f \in DOMAIN e[i].d /\ e[i].ts = own
    BY <1>3, <2>1
  <2>3. PICK q \in Rec(s, f) : q.k = i /\ q.ts = own
    BY <1>5, <2>2
  <2> QED BY <1>1, <2>3
<1> QED BY <1>6, <1>7 DEF e, own

\* Which steps change what the exchange service has fetched.
LEMMA InstMoves ==
    ASSUME TypeOK, NEW s \in Stores, Exist(s), Ids(s), Step(s)
    PROVE  \/ UNCHANGED <<inst, last>>
           \/ inst'[s].pc \notin {"own", "snap"}
           \/ Fetch(s) \/ LookOwn(s)
<1>1. ASSUME NEW g \in Fields, Edit(s, g) PROVE UNCHANGED <<inst, last>>
  BY <1>1, EditDoes
<1>2. SyncRead(s) \/ SyncCompare(s) \/ SyncReplace(s) => UNCHANGED <<inst, last>>
  BY SyncReadDoes, SyncCompareDoes, SyncReplaceDoes
<1>3. SyncInsert(s) \/ SyncFail(s) => UNCHANGED <<inst, last>>
  BY SyncInsertDoes, SyncFailDoes
<1>4. LookSnap(s) \/ UpdateSnap(s) => inst'[s].pc \notin {"own", "snap"}
  BY LookSnapDoes, UpdateSnapDoes
<1>5. Commit(s) \/ CopyRow(s) => inst'[s].pc \notin {"own", "snap"}
  BY CommitDoes, CopyRowDoes
<1>6. InsertRow(s) \/ SetLast(s) \/ InstFail(s) => inst'[s].pc \notin {"own", "snap"}
  BY InsertRowDoes, SetLastDoes, InstFailDoes
<1> QED BY <1>1, <1>2, <1>3, <1>4, <1>5, <1>6, StepMoves DEF Moves

\* What was fetched stays the newest change up to its id.
LEMMA FetchedKept ==
    ASSUME TypeOK, Plain, NEW s \in Stores, Step(s), NEW t \in Stores, NEW f \in Fields
    PROVE  Fetched(t, f)'
<1>1. /\ \A x \in Stores : Exist(x) /\ Ids(x)
      /\ Fetched(t, f) /\ Other(t) \in Stores
  BY TwoStores DEF Plain
<1> DEFINE u == Other(t)
<1>2. CASE inst'[t] = inst[t] /\ last'[t] = last[t]
  <2> SUFFICES ASSUME inst[t].pc \in {"own", "snap"}
               PROVE  Fetched(t, f)'
    BY <1>2 DEF Fetched
  <2>1. inst[t].id \in Nat /\ inst[t].id <= Len(chg[u]) /\ Len(chg[u]) \in Nat
    BY <1>1, StoreTyped, InstFields DEF Ids
  <2>2. /\ \A r \in Rec(u, f) : r.k \in Nat /\ (r.k <= inst[t].id => r \in Rec(u, f)')
        /\ \A r \in Rec(u, f)' : r.k <= Len(chg[u]) => r \in Rec(u, f)
    BY <1>1, <2>1, StoredStay, RecFields
  <2>3. \A r \in Rec(u, f)' : r.k \in Nat
    BY <1>1, RecNext
  <2>4. \A r \in Rec(u, f)' : r.k <= inst[t].id => r \in Rec(u, f)
    BY <2>1, <2>2, <2>3
  <2> HIDE DEF u
  <2>5. CASE f \in DOMAIN inst[t].new
    <3>1. PICK n \in Rec(u, f) : /\ IsTop(n, Rec(u, f), inst[t].id) /\ n.k > last[t]
                                 /\ n.ts = inst[t].new[f].ts /\ n.v = inst[t].new[f].v
      BY <1>1, <2>5 DEF Fetched, u
    <3>2. IsTop(n, Rec(u, f)', inst[t].id)
      BY <2>2, <2>4, <3>1 DEF IsTop
    <3>3. n \in Rec(u, f)'
      BY <3>2 DEF IsTop
    <3> QED BY <1>2, <2>5, <3>1, <3>2, <3>3 DEF Fetched, u, IsTop
  <2>6. CASE f \notin DOMAIN inst[t].new
    BY <1>1, <1>2, <2>4, <2>6 DEF Fetched, u
  <2> QED BY <2>5, <2>6
<1>3. CASE inst'[t].pc \notin {"own", "snap"}
  BY <1>3 DEF Fetched
<1>4. CASE t = s /\ Fetch(s)
  <2>1. Rec(u, f)' = Rec(u, f) /\ last' = last
    BY <1>1, <1>4, FetchDoes, RecMoves, TwoStores
  <2> QED BY <1>1, <1>4, <2>1, FetchGets DEF Fetched
<1>5. CASE t = s /\ LookOwn(s)
  <2>1. Rec(u, f)' = Rec(u, f) /\ last' = last /\ inst[s].pc = "own"
        /\ inst'[s].id = inst[s].id /\ inst'[s].new = inst[s].new
    BY <1>1, <1>5, LookOwnDoes, RecMoves, TwoStores
  <2> QED BY <1>1, <1>5, <2>1 DEF Fetched
<1>6. CASE t # s
  BY <1>2, <1>6, OthersStay
<1> QED BY <1>1, <1>2, <1>3, <1>4, <1>5, <1>6, InstMoves

\* What a store found of its own stays so up to the rows it saw.
LEMMA FoundKept ==
    ASSUME TypeOK, Plain, NEW s \in Stores, Step(s), NEW t \in Stores, NEW f \in Fields
    PROVE  Found(t, f)'
<1>1. /\ \A x \in Stores : Exist(x) /\ Ids(x) /\ Stamps(x, f)
      /\ Found(t, f)
  BY DEF Plain
<1>2. CASE inst'[t] = inst[t]
  <2>1. CASE inst[t].pc = "snap" /\ f \in DOMAIN inst[t].new
    <3>1. inst[t].seen \in Nat /\ inst[t].seen <= Len(chg[t]) /\ Len(chg[t]) \in Nat
      BY <1>1, <2>1, StoreTyped, InstFields DEF Ids
    <3>2. /\ \A r \in Rec(t, f) : r.k \in Nat /\ (r.k <= Len(chg[t]) => r \in Rec(t, f)')
          /\ \A r \in Rec(t, f)' : r.k \in Nat /\ (r.k <= Len(chg[t]) => r \in Rec(t, f))
      BY <1>1, StoredStay, RecFields, RecNext
    <3>3. /\ \A r \in Rec(t, f) : r.k <= inst[t].seen => r \in Rec(t, f)'
          /\ \A r \in Rec(t, f)' : r.k <= inst[t].seen => r \in Rec(t, f)
      BY <3>1, <3>2
    <3> QED BY <1>1, <1>2, <2>1, <3>3 DEF Found
  <2>2. CASE ~(inst[t].pc = "snap" /\ f \in DOMAIN inst[t].new)
    BY <1>1, <1>2, <2>2 DEF Found
  <2> QED BY <2>1, <2>2
<1>3. CASE inst'[t].pc \notin {"own", "snap"}
  BY <1>3 DEF Found
<1>4. CASE t = s /\ Fetch(s)
  BY <1>1, <1>4, FetchGets, FetchDoes DEF Found
<1>5. CASE t = s /\ LookOwn(s)
  <2>1. /\ Rec(s, f)' = Rec(s, f)
        /\ inst[s].pc = "own" /\ inst'[s].pc = "snap" /\ inst'[s].new = inst[s].new
        /\ inst'[s].seen = Len(chg[s])
    <3>1. sync' = sync /\ chg' = chg
      BY <1>5, LookOwnDoes
    <3>2. Rec(s, f)' = Rec(s, f)
      BY <3>1 DEF Rec, Eff
    <3> QED BY <1>5, <3>2, LookOwnDoes
  <2>2. CASE f \in DOMAIN inst[s].new
    <3> DEFINE ts == inst[s].new[f].ts
    <3>1. ts \in Nat /\ inst[s].lts <= ts
      <4>1. inst[s].new \in Remote
        BY <2>1, StoreTyped, InstFields
      <4>2. ts \in Times
        BY <4>1, <2>2, RemoteFields
      <4> QED BY <1>1, <1>5, <2>1, <2>2, <4>2, Numbers DEF Found
    <3> HIDE DEF ts
    <3>2. /\ \A r \in Rec(s, f) : r.k <= Len(chg[s]) /\ r.ts >= ts => r.ts <= inst'[s].own[f]
          /\ inst'[s].own[f] >= ts =>
                \E r \in Rec(s, f) : r.k <= Len(chg[s]) /\ r.ts = inst'[s].own[f]
      BY <1>1, <1>5, <3>1, LookOwnGets
    <3> QED BY <1>5, <2>1, <3>2 DEF Found, ts
  <2>3. CASE f \notin DOMAIN inst[s].new
    BY <1>5, <2>1, <2>3 DEF Found
  <2> QED BY <2>2, <2>3
<1>6. CASE t # s
  BY <1>2, <1>6, OthersStay
<1> QED BY <1>1, <1>2, <1>3, <1>4, <1>5, <1>6, InstMoves

\* Numbers, clocks and what exists, after any step.
LEMMA PlainKept ==
    ASSUME TypeOK, Plain, NEW s \in Stores, Step(s)
    PROVE  TypeOK' /\ Plain'
<1>1. \A t \in Stores : Exist(t) /\ Ids(t) /\ Clocks(t)
  BY DEF Plain
<1>2. TypeOK'
  BY <1>1, TypesKept
<1>3. ASSUME NEW t \in Stores PROVE Exist(t)' /\ Ids(t)' /\ Clocks(t)'
  BY <1>1, ExistKept, IdsKept, ClocksKept
<1>4. ASSUME NEW t \in Stores, NEW f \in Fields PROVE Stamps(t, f)' /\ Fetched(t, f)' /\ Found(t, f)'
  BY StampsKept, FetchedKept, FoundKept
<1> QED BY <1>2, <1>3, <1>4 DEF Plain

----------------------------------------------------------------------------
(* What a store has in hand of a field of which no change was lost.        *)

\* A value is published with the first row that has it.
LEMMA PublishedIs ==
    ASSUME NEW f
    PROVE  /\ \A v : v \in Published(f) <=> v = 0 \/ \E t \in Stores : \E r \in Rec(t, f) : r.v = v
           /\ \A v : v \in Published(f)' <=> v = 0 \/ \E t \in Stores : \E r \in Rec(t, f)' : r.v = v
BY DEF Published

\* SyncReplace publishes the value in hand; no other step does.
LEMMA PublishedMoves ==
    ASSUME TypeOK, Plain, NEW s \in Stores, Step(s), NEW f \in Fields \ astray', Private(s, f)
    PROVE  /\ \A t \in Stores : t # s => Rec(t, f)' = Rec(t, f)
           /\ \/ /\ Rec(s, f)' = Rec(s, f)
                 /\ Published(f)' = Published(f)
                 /\ SyncReplace(s) => f \notin DOMAIN sync[s].dif
              \/ /\ SyncReplace(s) /\ f \in DOMAIN sync[s].dif
                 /\ Rec(s, f)' = Rec(s, f) \cup {NewRow(s, f)}
                 /\ \A r \in Rec(s, f) : r.k <= Len(chg[s])
                 /\ Published(f)' = Published(f) \cup {sync[s].row[f]}
                 /\ NewRow(s, f).k = Len(chg[s]) + 1
                 /\ NewRow(s, f).ts = sync[s].lts
                 /\ NewRow(s, f).v = sync[s].row[f]
<1>1. Exist(s) /\ Ids(s) /\ f \in Fields
  BY DEF Plain
<1>2. \A t \in Stores : t # s => Rec(t, f)' = Rec(t, f)
  BY <1>1, RecMoves
<1>3. ASSUME Rec(s, f)' = Rec(s, f) PROVE Published(f)' = Published(f)
  <2>1. \A t \in Stores : Rec(t, f)' = Rec(t, f)
    BY <1>2, <1>3
  <2> QED BY <2>1 DEF Published
<1>4. CASE /\ SyncReplace(s) /\ f \in DOMAIN sync[s].dif
           /\ Rec(s, f)' = Rec(s, f) \cup {NewRow(s, f)}
           /\ \A r \in Rec(s, f) : r.k <= Len(chg[s])
  <2>1. sync[s].pc = "replace"
    BY <1>4, SyncReplaceDoes
  <2>2. sync[s].dif[f] = sync[s].row[f]
    BY <1>4, <2>1 DEF Private
  <2>3. /\ NewRow(s, f).k = Len(chg[s]) + 1
        /\ NewRow(s, f).ts = sync[s].lts
        /\ NewRow(s, f).v = sync[s].row[f]
    BY <2>2 DEF NewRow
  <2>4. Published(f)' = Published(f) \cup {sync[s].row[f]}
    <3>1. ASSUME NEW v
          PROVE  v \in Published(f)' <=> v \in Published(f) \/ v = sync[s].row[f]
      <4>1. (\E t \in Stores : \E r \in Rec(t, f)' : r.v = v)
               <=> (\E t \in Stores : \E r \in Rec(t, f) : r.v = v) \/ v = sync[s].row[f]
        BY <1>2, <1>4, <2>3
      <4> QED BY <4>1, PublishedIs
    <3> QED BY <3>1
  <2> QED BY <1>2, <1>4, <2>3, <2>4
<1>5. CASE Rec(s, f)' = Rec(s, f)
  <2>1. SyncReplace(s) => f \notin DOMAIN sync[s].dif
    <3> SUFFICES ASSUME SyncReplace(s), f \in DOMAIN sync[s].dif PROVE FALSE
      OBVIOUS
    <3> DEFINE c == Change(sync[s].lts, sync[s].dif)
    <3>1. sync[s].pc = "replace"
      BY SyncReplaceDoes
    <3>2. c \in Changes /\ c.d = sync[s].dif
      BY <3>1, PendingRow
    <3>3. Rec(s, f) = Logged(chg[s], f)
      BY <3>1 DEF Eff, Rec
    <3>4. Eff(s)' = Append(chg[s], c)
      BY SyncReplaceDoes DEF Eff
    <3> HIDE DEF c
    <3>5. Rec(s, f)' = Logged(Append(chg[s], c), f)
      BY <3>4 DEF Rec
    <3>6. chg[s] \in Seq(Changes) /\ Len(chg[s]) \in Nat
      BY StoreTyped
    <3> DEFINE w == [k |-> Len(chg[s]) + 1, ts |-> c.ts, v |-> c.d[f]]
    <3>7. w \in Rec(s, f)' /\ w.k = Len(chg[s]) + 1
      BY <3>2, <3>5, <3>6, LoggedAppend
    <3> HIDE DEF w
    <3>8. w.k \in 1..Len(chg[s])
      BY <1>5, <3>3, <3>6, <3>7, LoggedFields
    <3> QED BY <3>6, <3>7, <3>8
  <2> QED BY <1>2, <1>3, <1>5, <2>1
<1> QED BY <1>1, <1>4, <1>5, RecMoves

\* The other store: what it has in hand is not what the step publishes.
LEMMA OtherInHand ==
    ASSUME TypeOK, Plain, NEW s \in Stores, Step(s), NEW f \in Fields \ astray', FieldOk(f),
           NEW t \in Stores, t # s
    PROVE  InHand(t, f)'
<1>1. /\ pos'[t] = pos[t] /\ journal'[t] = journal[t]
      /\ snap'[t] = snap[t] /\ sync'[t] = sync[t] /\ inst'[t] = inst[t]
  BY OthersStay
<1>2. InHand(t, f) /\ Distinct(f) /\ Private(s, f)
  BY DEF FieldOk, InHand
<1>3. \A v \in Held(t, f) : v \notin Published(f) => v \notin Published(f)'
  <2>1. CASE Published(f)' = Published(f)
    BY <2>1
  <2>2. CASE SyncReplace(s) /\ Published(f)' = Published(f) \cup {sync[s].row[f]}
    <3>1. sync[s].row[f] \in Held(s, f)
      BY <2>2, SyncReplaceDoes DEF Held, Busy
    <3> QED BY <1>2, <2>2, <3>1 DEF Distinct
  <2> QED BY <1>2, <2>1, <2>2, PublishedMoves
<1>4. \A v \in Published(f) : v \in Published(f)'
  BY <1>2, PublishedMoves
<1>5. /\ pos[t] # None => pos[t][f] \in Held(t, f)
      /\ Busy(t) => sync[t].row[f] \in Held(t, f)
  BY DEF Held
<1>6. /\ snap[t] # None => pos[t] # None
      /\ inst[t].pc = "commit" => pos[t] # None
      /\ Busy(t) => pos[t] # None
  BY DEF Plain, Exist, Busy
<1>7. Busy(t)' = Busy(t) /\ Ahead(t, f)' = Ahead(t, f)
  BY <1>1 DEF Busy, Ahead
<1>8. sync[t].pc \in {"compare", "replace", "insert"} => Busy(t)
  BY DEF Busy
<1>9. Reread(t, f)'
  BY <1>1, <1>2, <1>3, <1>5, <1>6, <1>7 DEF InHand, Reread
<1>10. Private(t, f)'
  <2>1. (pos[t] # None /\ snap[t] = None => pos[t][f] \in Published(f))'
    BY <1>1, <1>2, <1>4 DEF InHand, Private
  <2>2. (snap[t] # None /\ pos[t][f] # snap[t][f] /\ ~Ahead(t, f) => pos[t][f] \notin Published(f))'
    BY <1>1, <1>2, <1>3, <1>5, <1>6, <1>7 DEF InHand, Private
  <2>3. (sync[t].pc = "compare" /\ snap[t] # None /\ ~Ahead(t, f) =>
            sync[t].row[f] = snap[t][f] \/ sync[t].row[f] \notin Published(f))'
    BY <1>1, <1>2, <1>3, <1>5, <1>7, <1>8 DEF InHand, Private
  <2>4. (sync[t].pc = "replace" /\ ~Ahead(t, f) =>
          IF f \in DOMAIN sync[t].dif THEN snap[t] # None /\ sync[t].row[f] \notin Published(f)
          ELSE snap[t] # None => sync[t].row[f] = snap[t][f])'
    BY <1>1, <1>2, <1>3, <1>5, <1>7, <1>8 DEF InHand, Private
  <2>5. (sync[t].pc = "insert" \/ (sync[t].pc = "replace" /\ f \notin DOMAIN sync[t].dif) =>
          sync[t].row[f] \in Published(f))'
    BY <1>1, <1>2, <1>4 DEF InHand, Private
  <2> QED BY <1>1, <1>2, <2>1, <2>2, <2>3, <2>4, <2>5 DEF InHand, Private
<1>11. Pending(t, f)'
  BY <1>1, <1>2, <1>7 DEF InHand, Pending
<1>12. Public(t, f)'
  BY <1>1, <1>2, <1>4 DEF InHand, Public
<1>13. Unread(t, f)'
  BY <1>1, <1>2, <1>7 DEF InHand, Unread
<1> QED BY <1>9, <1>10, <1>11, <1>12, <1>13 DEF InHand

\* What both stores hold is published.
LEMMA DistinctKept ==
    ASSUME TypeOK, Plain, NEW s \in Stores, Step(s), NEW f \in Fields \ astray', FieldOk(f)
    PROVE  Distinct(f)'
<1>1. Exist(s) /\ Ids(s) /\ InHand(s, f) /\ Distinct(f) /\ Private(s, f) /\ Public(s, f) /\ edits \in Nat
  BY StoreTyped DEF FieldOk, InHand, Plain
<1>2. edits' \in Nat /\ edits' >= edits
  <2>1. UNCHANGED edits \/ \E g \in Fields : Edit(s, g)
    <3>1. Sync(s) \/ SyncFail(s) => UNCHANGED edits
      BY DEF Sync, SyncRead, SyncCompare, SyncReplace, SyncInsert, SyncFail, boundVars
    <3>2. Fetch(s) \/ LookOwn(s) \/ LookSnap(s) \/ UpdateSnap(s) \/ Commit(s) => UNCHANGED edits
      BY DEF Fetch, LookOwn, LookSnap, UpdateSnap, Commit, boundVars
    <3>3. CopyRow(s) \/ InsertRow(s) \/ SetLast(s) \/ InstFail(s) => UNCHANGED edits
      BY DEF CopyRow, InsertRow, SetLast, InstFail, boundVars
    <3> QED BY <3>1, <3>2, <3>3 DEF Step, Inst
  <2> QED BY <1>1, <2>1, EditDoes
<1>3. \A v \in Published(f)' : v \in Published(f) \/ v \in Held(s, f)
  <2>1. SyncReplace(s) => sync[s].row[f] \in Held(s, f)
    BY SyncReplaceDoes DEF Held, Busy
  <2> QED BY <1>1, <2>1, PublishedMoves
<1>4. \A v \in Published(f) : v \in Published(f)'
  BY <1>1, PublishedMoves
<1>5. \A t \in Stores : t # s => Held(t, f)' = Held(t, f)
  BY OthersStay DEF Held, Busy
<1>6. /\ pos[s] # None => pos[s][f] \in Held(s, f)
      /\ Busy(s) => sync[s].row[f] \in Held(s, f)
      /\ \A v : v \in Held(s, f)' <=> \/ pos'[s] # None /\ v = pos'[s][f]
                                      \/ Busy(s)' /\ v = sync'[s].row[f]
  BY DEF Held
<1>7. \A v \in Held(s, f)' : v \in Held(s, f) \/ v \in Published(f) \/ (v = edits + 1 /\ edits' = edits + 1)
  <2>1. ASSUME pos' = pos, sync' = sync PROVE Held(s, f)' = Held(s, f)
    BY <2>1 DEF Held, Busy
  <2>2. ASSUME NEW g \in Fields, Edit(s, g)
        PROVE  \A v \in Held(s, f)' : v \in Held(s, f) \/ (v = edits + 1 /\ edits' = edits + 1)
    <3>1. /\ sync' = sync /\ pos[s] # None /\ edits' = edits + 1
          /\ pos'[s][f] = pos[s][f] \/ pos'[s][f] = edits + 1
      BY <2>2, EditDoes, NoneIsNoRow
    <3> QED BY <1>6, <3>1 DEF Busy
  <2>3. SyncRead(s) => \A v \in Held(s, f)' : v \in Held(s, f)
    BY <1>1, <1>6, SyncReadDoes, NoneIsNoRow
  <2>4. SyncCompare(s) => \A v \in Held(s, f)' : v \in Held(s, f)
    BY <1>6, SyncCompareDoes DEF Busy
  <2>5. SyncReplace(s) => \A v \in Held(s, f)' : v \in Held(s, f)
    BY <1>6, SyncReplaceDoes DEF Busy
  <2>6. SyncInsert(s) \/ SyncFail(s) => \A v \in Held(s, f)' : v \in Held(s, f)
    BY <1>6, SyncInsertDoes, SyncFailDoes DEF Busy
  <2>7. Fetch(s) \/ LookOwn(s) \/ LookSnap(s) => pos' = pos /\ sync' = sync
    BY <1>1, FetchDoes, LookOwnDoes, LookSnapDoes
  <2>8. UpdateSnap(s) \/ CopyRow(s) => pos' = pos /\ sync' = sync
    BY <1>1, UpdateSnapDoes, CopyRowDoes
  <2>9. SetLast(s) \/ InstFail(s) => pos' = pos /\ sync' = sync
    BY SetLastDoes, InstFailDoes
  <2>10. Commit(s) => \A v \in Held(s, f)' : v \in Held(s, f) \/ v \in Published(f)
    <3> SUFFICES ASSUME Commit(s)
                 PROVE  \A v \in Held(s, f)' : v \in Held(s, f) \/ v \in Published(f)
      OBVIOUS
    <3>1. /\ sync' = sync /\ pos[s] # None /\ inst[s].pc = "commit"
          /\ f \in DOMAIN inst[s].take => pos'[s][f] = inst[s].take[f]
          /\ f \notin DOMAIN inst[s].take => pos'[s][f] = pos[s][f]
      BY <1>1, CommitDoes, NoneIsNoRow
    <3> QED BY <1>1, <1>6, <3>1 DEF Busy, Public
  <2>11. InsertRow(s) => \A v \in Held(s, f)' : v \in Held(s, f) \/ v \in Published(f)
    <3> SUFFICES ASSUME InsertRow(s)
                 PROVE  \A v \in Held(s, f)' : v \in Held(s, f) \/ v \in Published(f)
      OBVIOUS
    <3>1. sync' = sync /\ inst[s].pc = "insert" /\ pos'[s] = inst[s].row
      BY InsertRowDoes
    <3> QED BY <1>1, <1>6, <3>1 DEF Busy, Public
  <2> DEFINE H == Held(s, f)
             K == Held(s, f)'
  <2>12. pos' = pos /\ sync' = sync => K = H
    BY <2>1
  <2> HIDE DEF H, K
  <2>13. CASE \A v \in K : v \in H \/ v \in Published(f)
    BY <2>13 DEF H, K
  <2>14. CASE K = H
    BY <2>14 DEF H, K
  <2>15. CASE \E g \in Fields : Edit(s, g)
    BY <2>2, <2>15
  <2>16. ~(\E g \in Fields : Edit(s, g)) =>
            (\A v \in K : v \in H \/ v \in Published(f)) \/ K = H
    BY <2>3, <2>4, <2>5, <2>6, <2>7, <2>8, <2>9, <2>10, <2>11, <2>12, StepMoves DEF Moves, H, K
  <2> QED BY <2>13, <2>14, <2>15, <2>16
<1>8. /\ \A v \in Published(f) : v \in Nat /\ v <= edits
      /\ \A t \in Stores : \A v \in Held(t, f) : v \in Nat /\ v <= edits
  <2>1. \A v \in Published(f) : v \in Nat
    BY RecFields, PublishedIs
  <2>2. ASSUME NEW t \in Stores, NEW v \in Held(t, f) PROVE v \in Nat
    <3>1. pos[t] \in Rows \cup {None} /\ sync[t] \in SyncStates
      BY StoreTyped
    <3>2. Busy(t) => sync[t].row \in Rows
      BY <3>1, SyncFields DEF Busy
    <3>3. \E r \in Rows : v = r[f]
      BY <3>1, <3>2 DEF Held
    <3> QED BY <3>3, Numbers DEF Rows
  <2> QED BY <1>1, <2>1, <2>2 DEF Distinct
<1>9. \A v \in Published(f)' : v <= edits'
  BY <1>1, <1>2, <1>3, <1>8
<1>10. ASSUME NEW t \in Stores, NEW v \in Held(t, f)' PROVE v <= edits'
  BY <1>1, <1>2, <1>5, <1>7, <1>8
<1>11. ASSUME NEW t \in Stores, t # s, NEW v, v \in Held(s, f)', v \in Held(t, f)'
       PROVE  v \in Published(f)'
  <2>1. v \in Held(t, f) /\ v <= edits /\ v \in Nat
    BY <1>5, <1>8, <1>11
  <2>2. v # edits + 1
    BY <1>1, <2>1
  <2>3. v \in Held(s, f) \/ v \in Published(f)
    BY <1>7, <1>11, <2>2
  <2>4. v \in Published(f)
    BY <1>1, <1>11, <2>1, <2>3 DEF Distinct
  <2> QED BY <1>4, <2>4
<1>12. \A t, u \in Stores : t # u => Held(t, f)' \cap Held(u, f)' \subseteq Published(f)'
  BY <1>11, TwoStores
<1> QED BY <1>9, <1>10, <1>12 DEF Distinct

\* What an edit does to what its store has in hand of a field;
LEMMA EditInHand ==
    ASSUME TypeOK, Plain, NEW s \in Stores, NEW f \in Fields \ astray', FieldOk(f),
           NEW g \in Fields, Edit(s, g)
    PROVE  InHand(s, f)'
<1>1. /\ InHand(s, f) /\ Exist(s) /\ Distinct(f) /\ edits \in Nat
      /\ \A v \in Published(f) : v \in Nat /\ v <= edits
  BY StoreTyped, RecFields, PublishedIs DEF FieldOk, Plain, Distinct
<1>2. /\ pos[s] # None /\ pos'[s] # None /\ journal'[s]
      /\ UNCHANGED <<snap, chg, last, sync, inst>>
  BY EditDoes, NoneIsNoRow
<1>3. Published(f)' = Published(f)
  <2>1. \A t \in Stores : Rec(t, f)' = Rec(t, f)
    BY <1>2 DEF Rec, Eff
  <2> QED BY <2>1 DEF Published
<1>4. /\ pos'[s][f] = pos[s][f] \/ pos'[s][f] \notin Published(f)
      /\ pos'[s][f] = pos[s][f] \/ snap[s] # None
  <2>1. CASE g = f
    <3>1. pos'[s][f] = edits + 1 /\ snap[s] # None
      BY <2>1, EditDoes
    <3> QED BY <1>1, <3>1
  <2>2. CASE g # f
    BY <2>2, EditDoes
  <2> QED BY <2>1, <2>2
<1>5. Reread(s, f)'
  BY <1>1, <1>2, <1>3, <1>4 DEF InHand, Reread, Busy
<1>6. Private(s, f)'
  <2>1. (pos[s] # None /\ snap[s] = None => pos[s][f] \in Published(f))'
    BY <1>1, <1>2, <1>3, <1>4 DEF InHand, Private
  <2>2. (snap[s] # None /\ pos[s][f] # snap[s][f] /\ ~Ahead(s, f) => pos[s][f] \notin Published(f))'
    BY <1>1, <1>2, <1>3, <1>4 DEF InHand, Private, Ahead
  <2>3. (sync[s].pc \in {"compare", "replace"} /\ snap[s] = None => sync[s].row[f] = pos[s][f])'
    BY <1>1, <1>2, <1>3, <1>4 DEF InHand, Private
  <2> QED BY <1>1, <1>2, <1>3, <2>1, <2>2, <2>3 DEF InHand, Private, Ahead
<1>7. Pending(s, f)'
  BY <1>2 DEF Pending
<1>8. Public(s, f)'
  BY <1>1, <1>2, <1>3 DEF InHand, Public
<1>9. Unread(s, f)'
  <2> SUFFICES ASSUME inst[s].pc = "commit", f \in DOMAIN inst[s].take,
                      pos'[s][f] = inst[s].c[f], Busy(s)
               PROVE  sync[s].row[f] # inst[s].take[f]
    BY <1>2 DEF Unread, Ahead, Busy
  <2>1. inst[s].c[f] \in Published(f)
    BY <1>1 DEF InHand, Public
  <2> QED BY <1>1, <1>4, <2>1 DEF InHand, Unread, Ahead
<1> QED BY <1>5, <1>6, <1>7, <1>8, <1>9 DEF InHand

\* what a step of the sync service does,
LEMMA SyncInHand ==
    ASSUME TypeOK, Plain, NEW s \in Stores, NEW f \in Fields \ astray', FieldOk(f),
           SyncRead(s) \/ SyncCompare(s) \/ SyncReplace(s) \/ SyncInsert(s) \/ SyncFail(s)
    PROVE  InHand(s, f)'
<1>1. /\ InHand(s, f) /\ Exist(s)
      /\ Reread(s, f) /\ Private(s, f) /\ Pending(s, f) /\ Public(s, f) /\ Unread(s, f)
      /\ sync[s].pc \in SyncSteps
  BY StoreTyped, SyncFields DEF FieldOk, Plain, InHand
<1>2. Step(s)
  BY DEF Step, Sync
<1>3. ~SyncReplace(s) => Published(f)' = Published(f)
  BY <1>1, <1>2, PublishedMoves
<1>4. CASE SyncRead(s)
  <2>1. /\ sync[s].pc = "idle" /\ pos[s] # None
        /\ sync'[s].pc = "compare" /\ sync'[s].row = pos[s]
        /\ UNCHANGED <<pos, snap, inst>>
    BY <1>1, <1>4, SyncReadDoes, NoneIsNoRow
  <2>2. Published(f)' = Published(f)
    BY <1>3, <2>1, SyncReplaceDoes
  <2>3. Reread(s, f)'
    BY <2>1 DEF Reread
  <2>4. Private(s, f)'
    BY <1>1, <2>1, <2>2 DEF Private, Ahead
  <2>5. Pending(s, f)'
    BY <2>1 DEF Pending, Busy, Ahead
  <2>6. Public(s, f)'
    BY <1>1, <2>1, <2>2 DEF Public
  <2>7. Unread(s, f)'
    BY <1>1, <2>1 DEF Unread, Ahead, Public
  <2> QED BY <2>3, <2>4, <2>5, <2>6, <2>7 DEF InHand
<1>5. CASE SyncCompare(s)
  <2>1. /\ sync[s].pc = "compare" /\ Busy(s)
        /\ UNCHANGED <<pos, journal, snap, inst>>
        /\ Published(f)' = Published(f) /\ Ahead(s, f)' = Ahead(s, f)
    BY <1>3, <1>5, SyncCompareDoes, SyncReplaceDoes DEF Busy, Ahead
  <2>2. CASE sync'[s].pc = "idle" /\ snap[s] # None /\ \A h \in Fields : snap[s][h] = sync[s].row[h]
    <3>1. Reread(s, f)' /\ Unread(s, f)'
      BY <2>2 DEF Reread, Busy, Unread
    <3>2. Private(s, f)'
      BY <1>1, <2>1, <2>2 DEF Private
    <3>3. Pending(s, f)'
      BY <1>1, <2>1, <2>2 DEF Pending, Reread
    <3>4. Public(s, f)'
      BY <1>1, <2>1 DEF Public
    <3> QED BY <3>1, <3>2, <3>3, <3>4 DEF InHand
  <2>3. CASE /\ sync'[s].pc = "replace"
             /\ sync'[s].row = sync[s].row
             /\ snap[s] = None => DOMAIN sync'[s].dif = {}
             /\ snap[s] # None => DOMAIN sync'[s].dif = {h \in Fields : snap[s][h] # sync[s].row[h]}
             /\ \A h \in DOMAIN sync'[s].dif : sync'[s].dif[h] = sync[s].row[h]
    <3>1. Busy(s)' /\ (f \in DOMAIN sync'[s].dif <=> snap[s] # None /\ snap[s][f] # sync[s].row[f])
      BY <2>3 DEF Busy
    <3>2. Reread(s, f)' /\ Unread(s, f)'
      BY <1>1, <2>1, <2>3 DEF Reread, Busy, Unread
    <3>3. Private(s, f)'
      <4>1. (sync[s].pc = "replace" /\ ~Ahead(s, f) =>
          IF f \in DOMAIN sync[s].dif THEN snap[s] # None /\ sync[s].row[f] \notin Published(f)
          ELSE snap[s] # None => sync[s].row[f] = snap[s][f])'
        BY <1>1, <2>1, <2>3, <3>1 DEF Private
      <4>2. f \notin DOMAIN sync'[s].dif => sync[s].row[f] \in Published(f)
        BY <1>1, <2>1, <3>1 DEF Private, Public, Exist
      <4>3. f \in DOMAIN sync'[s].dif => sync'[s].dif[f] = sync[s].row[f]
        BY <2>3
      <4> QED BY <1>1, <2>1, <2>3, <4>1, <4>2, <4>3 DEF Private
    <3>4. Pending(s, f)'
      BY <1>1, <2>1, <2>3, <3>1 DEF Pending
    <3>5. Public(s, f)'
      BY <1>1, <2>1 DEF Public
    <3> QED BY <3>2, <3>3, <3>4, <3>5 DEF InHand
  <2> QED BY <1>5, <2>2, <2>3, SyncCompareDoes
<1>6. CASE SyncReplace(s)
  <2>1. /\ sync[s].pc = "replace" /\ snap'[s] = sync[s].row /\ snap'[s] # None
        /\ sync'[s].pc = "insert" /\ sync'[s].row = sync[s].row /\ sync'[s].dif = sync[s].dif
        /\ UNCHANGED <<pos, journal, inst>> /\ Busy(s) /\ Busy(s)' /\ Ahead(s, f)' = Ahead(s, f)
    BY <1>6, SyncReplaceDoes DEF Busy, Ahead
  <2>2. /\ sync[s].row[f] \in Published(f)'
        /\ \A v : v \in Published(f)' <=> v \in Published(f) \/ v = sync[s].row[f]
    <3>1. CASE f \in DOMAIN sync[s].dif
      BY <1>1, <1>2, <1>6, <3>1, PublishedMoves
    <3>2. CASE f \notin DOMAIN sync[s].dif
      BY <1>1, <1>2, <1>6, <2>1, <3>2, PublishedMoves DEF Private
    <3> QED BY <3>1, <3>2
  <2>3. pos[s][f] # sync[s].row[f] => journal[s] /\ pos[s][f] \notin Published(f)'
    BY <1>1, <2>1, <2>2 DEF Reread
  <2>4. Reread(s, f)'
    BY <2>1, <2>3 DEF Reread
  <2>5. Private(s, f)'
    BY <1>1, <2>1, <2>2, <2>3 DEF Private
  <2>6. Pending(s, f)'
    BY <2>1, <2>3 DEF Pending
  <2>7. Public(s, f)'
    BY <1>1, <2>1, <2>2 DEF Public
  <2>8. Unread(s, f)'
    BY <1>1, <2>1 DEF Unread
  <2> QED BY <2>4, <2>5, <2>6, <2>7, <2>8 DEF InHand
<1>7. CASE SyncInsert(s) \/ SyncFail(s)
  <2>1. /\ sync'[s].pc = "idle" /\ UNCHANGED <<pos, snap, inst>> /\ Ahead(s, f)' = Ahead(s, f)
        /\ \/ journal'[s]
           \/ sync[s].pc = "insert" /\ journal' = journal
    BY <1>7, SyncInsertDoes, SyncFailDoes DEF Ahead
  <2>2. Published(f)' = Published(f)
    <3>1. SyncReplace(s) => sync'[s].pc = "insert"
      BY SyncReplaceDoes
    <3> QED BY <1>3, <2>1, <3>1
  <2>3. Reread(s, f)' /\ Unread(s, f)'
    BY <2>1 DEF Reread, Unread, Busy
  <2>4. Private(s, f)'
    BY <1>1, <2>1, <2>2 DEF Private
  <2>5. Pending(s, f)'
    BY <1>1, <2>1 DEF Pending, Exist
  <2>6. Public(s, f)'
    BY <1>1, <2>1, <2>2 DEF Public
  <2> QED BY <2>3, <2>4, <2>5, <2>6 DEF InHand
<1> QED BY <1>4, <1>5, <1>6, <1>7

\* and a step of the exchange service.
LEMMA InstInHand ==
    ASSUME TypeOK, Plain, NEW s \in Stores, NEW f \in Fields \ astray', FieldOk(f), Inst(s) \/ InstFail(s)
    PROVE  InHand(s, f)'
<1>1. /\ InHand(s, f) /\ Exist(s) /\ Ids(s) /\ Fetched(s, f)
      /\ Reread(s, f) /\ Private(s, f) /\ Pending(s, f) /\ Public(s, f) /\ Unread(s, f)
      /\ inst[s].pc \in InstSteps /\ sync[s].pc \in SyncSteps
  BY StoreTyped, SyncFields, InstFields DEF FieldOk, Plain, InHand
<1>2. ASSUME sync' = sync, chg' = chg PROVE Published(f)' = Published(f)
  <2>1. \A t \in Stores : Rec(t, f)' = Rec(t, f)
    BY <1>2 DEF Rec, Eff
  <2> QED BY <2>1 DEF Published
\* POS, snapshot and sync stay.
<1>3. ASSUME UNCHANGED <<pos, journal, snap, chg, sync>>, ~Ahead(s, f), ~Ahead(s, f)', Public(s, f)'
      PROVE  InHand(s, f)'
  <2>1. Published(f)' = Published(f) /\ Busy(s)' = Busy(s)
    BY <1>2, <1>3 DEF Busy
  <2>2. Reread(s, f)'
    BY <1>1, <1>3, <2>1 DEF Reread
  <2>3. Private(s, f)'
    BY <1>1, <1>3, <2>1 DEF Private
  <2>4. Pending(s, f)'
    BY <1>1, <1>3, <2>1 DEF Pending
  <2>5. Unread(s, f)'
    BY <1>3 DEF Unread
  <2> QED BY <1>3, <2>2, <2>3, <2>4, <2>5 DEF InHand
<1>4. CASE Fetch(s) \/ LookOwn(s)
  <2>1. /\ UNCHANGED <<pos, journal, snap, chg, sync>>
        /\ inst[s].pc \in {"idle", "own"} /\ inst'[s].pc \in {"own", "snap"}
    BY <1>1, <1>4, FetchDoes, LookOwnDoes
  <2>2. Published(f)' = Published(f)
    BY <1>2, <2>1
  <2>3. Public(s, f)'
    BY <1>1, <2>1, <2>2 DEF Public
  <2> QED BY <1>3, <2>1, <2>3 DEF Ahead
<1>5. CASE LookSnap(s)
  <2>1. /\ UNCHANGED <<pos, journal, snap, chg, sync>> /\ inst[s].pc = "snap"
        /\ \/ inst'[s].pc = "last"
           \/ /\ inst'[s].pc = "update" /\ snap[s] # None /\ inst'[s].c = snap[s]
              /\ DOMAIN inst'[s].take =
                    {h \in DOMAIN inst[s].new : Accepts(snap[s], inst[s].own, inst[s].new, h)}
              /\ \A h \in DOMAIN inst'[s].take : inst'[s].take[h] = inst[s].new[h].v
    BY <1>5, LookSnapDoes
  <2>2. Published(f)' = Published(f)
    BY <1>2, <2>1
  <2>3. f \in DOMAIN inst[s].new => inst[s].new[f].v \in Published(f)
    BY <1>1, <2>1, TwoStores, PublishedIs DEF Fetched
  <2>4. Public(s, f)'
    <3>1. CASE inst'[s].pc = "last"
      BY <1>1, <2>1, <2>2, <3>1 DEF Public
    <3>2. CASE inst'[s].pc = "update"
      <4>1. f \in DOMAIN inst'[s].take =>
               /\ inst'[s].take[f] = inst[s].new[f].v
               /\ f \in DOMAIN inst[s].new /\ snap[s][f] # inst[s].new[f].v
        BY <2>1, <3>2 DEF Accepts
      <4> QED BY <1>1, <2>1, <2>2, <2>3, <3>2, <4>1 DEF Public
    <3> QED BY <2>1, <3>1, <3>2
  <2> QED BY <1>3, <2>1, <2>4 DEF Ahead
<1>6. CASE UpdateSnap(s)
  <2>1. /\ UNCHANGED <<pos, journal, chg, sync>>
        /\ inst[s].pc = "update" /\ inst'[s].pc = "commit"
        /\ inst'[s].c = inst[s].c /\ inst'[s].take = inst[s].take
        /\ snap[s] # None /\ snap'[s] # None
        /\ snap[s][f] = inst[s].c[f]
        /\ f \in DOMAIN inst[s].take => snap'[s][f] = inst[s].take[f]
        /\ f \notin DOMAIN inst[s].take => snap'[s][f] = inst[s].c[f]
    BY <1>1, <1>6, UpdateSnapDoes
  <2>2. Published(f)' = Published(f) /\ Busy(s)' = Busy(s)
    BY <1>2, <2>1 DEF Busy
  <2>3. Reread(s, f)'
    BY <1>1, <2>1, <2>2 DEF Reread
  <2>4. Public(s, f)'
    BY <1>1, <2>1, <2>2 DEF Public
  <2>5. CASE f \in DOMAIN inst[s].take
    <3>1. Ahead(s, f)'
      BY <2>1, <2>5 DEF Ahead
    <3>2. Private(s, f)' /\ Pending(s, f)'
      BY <1>1, <2>1, <2>2, <3>1 DEF Private, Pending
    <3>3. Unread(s, f)'
      <4> SUFFICES ASSUME pos[s][f] = inst[s].c[f], Busy(s)
                   PROVE  sync[s].row[f] # inst[s].take[f]
        BY <2>1, <2>2 DEF Unread, Ahead
      <4>1. inst[s].c[f] \in Published(f) /\ inst[s].take[f] # inst[s].c[f]
        BY <1>1, <2>1, <2>5 DEF Public
      <4> QED BY <1>1, <4>1 DEF Reread
    <3> QED BY <2>3, <2>4, <3>2, <3>3 DEF InHand
  <2>6. CASE f \notin DOMAIN inst[s].take
    <3>1. ~Ahead(s, f)' /\ ~Ahead(s, f) /\ snap'[s][f] = snap[s][f]
      BY <2>1, <2>6 DEF Ahead
    <3>2. Private(s, f)'
      BY <1>1, <2>1, <2>2, <3>1 DEF Private
    <3>3. Pending(s, f)' /\ Unread(s, f)'
      BY <1>1, <2>1, <2>2, <3>1 DEF Pending, Unread
    <3> QED BY <2>3, <2>4, <3>2, <3>3 DEF InHand
  <2> QED BY <2>5, <2>6
<1>7. CASE Commit(s)
  <2>1. /\ inst[s].pc = "commit" /\ inst'[s].pc = "last"
        /\ pos[s] # None /\ pos'[s] # None /\ snap[s] # None
        /\ journal'[s] /\ UNCHANGED <<snap, chg, sync>>
        /\ f \in DOMAIN inst[s].take =>
             pos'[s][f] = snap[s][f] /\ sync[s].pc = "idle"
        /\ f \notin DOMAIN inst[s].take => pos'[s][f] = pos[s][f]
    BY <1>1, <1>7, CommitDoes, NoneIsNoRow
  <2>2. Published(f)' = Published(f) /\ Busy(s)' = Busy(s) /\ ~Ahead(s, f)'
    BY <1>2, <2>1 DEF Busy, Ahead
  <2>3. Public(s, f)'
    BY <1>1, <2>1, <2>2 DEF Public
  <2>4. Pending(s, f)' /\ Unread(s, f)'
    BY <2>1, <2>2 DEF Pending, Unread
  <2>5. CASE f \in DOMAIN inst[s].take
    <3>1. Reread(s, f)' /\ Private(s, f)'
      BY <2>1, <2>2, <2>5 DEF Reread, Private, Busy
    <3> QED BY <2>3, <2>4, <3>1 DEF InHand
  <2>6. CASE f \notin DOMAIN inst[s].take
    <3>1. ~Ahead(s, f)
      BY <2>6 DEF Ahead
    <3>2. Reread(s, f)'
      BY <1>1, <2>1, <2>2, <2>6 DEF Reread
    <3>3. Private(s, f)'
      BY <1>1, <2>1, <2>2, <2>6, <3>1 DEF Private
    <3> QED BY <2>3, <2>4, <3>2, <3>3 DEF InHand
  <2> QED BY <2>5, <2>6
<1>8. CASE CopyRow(s)
  <2>1. /\ UNCHANGED <<pos, journal, snap, chg, sync>>
        /\ inst[s].pc = "snap" /\ inst'[s].pc = "insert"
        /\ snap[Other(s)] # None /\ inst'[s].row[f] = snap[Other(s)][f]
    BY <1>1, <1>8, CopyRowDoes
  <2>2. Published(f)' = Published(f)
    BY <1>2, <2>1
  <2>3. Public(Other(s), f)
    BY TwoStores DEF FieldOk, InHand
  <2>4. Public(s, f)'
    BY <1>1, <2>1, <2>2, <2>3 DEF Public
  <2> QED BY <1>3, <2>1, <2>4 DEF Ahead
<1>9. CASE InsertRow(s)
  <2>1. /\ inst[s].pc = "insert" /\ inst'[s].pc = "last"
        /\ pos'[s] = inst[s].row /\ journal'[s]
        /\ UNCHANGED <<snap, chg, sync>>
        /\ snap[s] = None /\ sync[s].pc = "idle"
    BY <1>1, <1>9, InsertRowDoes DEF Exist
  <2>2. Published(f)' = Published(f) /\ ~Busy(s)' /\ ~Ahead(s, f)'
    BY <1>2, <2>1 DEF Busy, Ahead
  <2>3. Public(s, f)'
    BY <1>1, <2>1, <2>2 DEF Public
  <2>4. Pending(s, f)' /\ Unread(s, f)' /\ Reread(s, f)'
    BY <2>1, <2>2 DEF Pending, Unread, Reread
  <2>5. Private(s, f)'
    BY <1>1, <2>1, <2>2 DEF Private, Public
  <2> QED BY <2>3, <2>4, <2>5 DEF InHand
<1>10. CASE SetLast(s)
  <2>1. UNCHANGED <<pos, journal, snap, chg, sync>> /\ inst[s].pc = "last" /\ inst'[s].pc = "idle"
    BY <1>10, SetLastDoes
  <2>2. Published(f)' = Published(f)
    BY <1>2, <2>1
  <2>3. Public(s, f)'
    BY <1>1, <2>1, <2>2 DEF Public
  <2> QED BY <1>3, <2>1, <2>3 DEF Ahead
<1>11. CASE InstFail(s)
  <2>1. /\ UNCHANGED <<pos, journal, snap, chg, sync>> /\ inst'[s].pc = "idle"
        /\ inst[s].pc = "commit" => f \notin DOMAIN inst[s].take
    BY <1>11, InstFailDoes
  <2>2. Published(f)' = Published(f)
    BY <1>2, <2>1
  <2>3. Public(s, f)'
    BY <1>1, <2>1, <2>2 DEF Public
  <2> QED BY <1>3, <2>1, <2>3 DEF Ahead
<1> QED BY <1>4, <1>5, <1>6, <1>7, <1>8, <1>9, <1>10, <1>11 DEF Inst

\* Any step, of a field of which no change was lost.
LEMMA FieldKept ==
    ASSUME TypeOK, Plain, NEW s \in Stores, Step(s), NEW f \in Fields \ astray', FieldOk(f)
    PROVE  FieldOk(f)'
<1>1. Distinct(f)'
  BY DistinctKept
<1>2. InHand(s, f)'
  <2>1. CASE \E g \in Fields : Edit(s, g)
    BY <2>1, EditInHand
  <2>2. CASE Sync(s) \/ SyncFail(s)
    BY <2>2, SyncInHand DEF Sync
  <2>3. CASE Inst(s) \/ InstFail(s)
    BY <2>3, InstInHand
  <2> QED BY <2>1, <2>2, <2>3 DEF Step
<1>3. \A t \in Stores : t # s => InHand(t, f)'
  BY OtherInHand
<1> QED BY <1>1, <1>2, <1>3 DEF FieldOk

----------------------------------------------------------------------------
(* Which value wins: sets of changes alone, without the state.             *)

\* Changes with a number and a stamp.
Numbered(rows) == \A r \in rows : r.k \in Nat /\ r.ts \in Nat

\* Later ones have later stamps.
InOrder(rows) == \A r, q \in rows : r.k <= q.k => r.ts <= q.ts

\* A store that has taken less still has the right value.
LEMMA WinsLower ==
    ASSUME NEW y, NEW M, NEW T, Numbered(M), Numbered(T),
           NEW lo \in Nat, NEW olo \in Nat, NEW lo2 \in Nat, NEW olo2 \in Nat,
           lo2 <= lo, olo2 <= olo, Wins(y, M, T, lo, olo)
    PROVE  Wins(y, M, T, lo2, olo2)
<1>1. \A r \in T : r.k <= lo2 => r.k <= lo
  BY DEF Numbered
<1>2. \A r \in M : r.k > olo => r.k > olo2
  BY DEF Numbered
<1>3. \A r \in T : r.k > lo => r.k > lo2
  BY DEF Numbered
<1> QED BY <1>1, <1>2, <1>3 DEF Wins

\* A change of the other store that is still to come.
LEMMA WinsTheirs ==
    ASSUME NEW y, NEW M, NEW T, NEW w, NEW lo \in Nat, NEW olo \in Nat,
           w.k \in Nat, w.k > lo, Wins(y, M, T, lo, olo)
    PROVE  Wins(y, M, T \cup {w}, lo, olo)
<1>1. ~(w.k <= lo)
  OBVIOUS
<1> QED BY <1>1 DEF Wins

\* An own change that is no earlier than what was taken.
LEMMA WinsMine ==
    ASSUME NEW M, NEW T, NEW w, NEW lo \in Nat, NEW olo \in Nat, Numbered(T),
           w.k \in Nat, w.k > olo, \A r \in M : r.k <= w.k,
           \A r \in T : r.k <= lo => r.ts <= w.ts
    PROVE  Wins(w.v, M \cup {w}, T, lo, olo)
BY DEF Wins

\* Passing over changes of the other store.
LEMMA WinsPass ==
    ASSUME NEW y, NEW M, NEW T, Numbered(M), Numbered(T), InOrder(M), InOrder(T),
           NEW lo \in Nat, NEW olo \in Nat, NEW id \in Nat, lo <= id,
           \A r \in M, q \in T : r.v # q.v, \A q \in T : q.v # 0,
           \A r, q \in T : r.v = q.v => r = q,
           Wins(y, M, T, lo, olo),
           \/ \A r \in T : r.k <= id => r.k <= lo
           \/ \E n \in T : /\ IsTop(n, T, id)
                           /\ n.v = y \/ \E r \in M : r.ts > n.ts
    PROVE  Wins(y, M, T, id, olo)
<1>1. CASE \A r \in T : r.k <= id => r.k <= lo
  <2>1. \A r \in T : r.k > lo => r.k > id
    BY <1>1 DEF Numbered
  <2> QED BY <1>1, <2>1 DEF Wins
<1>2. ASSUME NEW n \in T, IsTop(n, T, id), n.v = y PROVE Wins(y, M, T, id, olo)
  <2>1. \E w \in T : w.v = y /\ \A r \in M : r.ts < w.ts
    BY <1>2 DEF Wins
  <2>2. \A r \in M : r.ts < n.ts
    BY <1>2, <2>1
  <2> QED BY <1>2, <2>2 DEF Wins, IsTop
<1>3. ASSUME NEW n \in T, IsTop(n, T, id), NEW r0 \in M, r0.ts > n.ts PROVE Wins(y, M, T, id, olo)
  <2>1. \A r \in T : r.k <= id => r.ts <= n.ts
    BY <1>3 DEF IsTop, InOrder
  <2>2. ASSUME NEW w \in M, w.v = y, \A r \in M : r.k <= w.k
        PROVE  Wins(y, M, T, id, olo)
    <3>1. w.ts \in Nat /\ n.ts \in Nat /\ r0.ts \in Nat /\ r0.ts <= w.ts
      BY <2>2 DEF Numbered, InOrder
    <3>2. \A r \in T : r.k <= id => r.ts <= w.ts /\ r.ts # w.ts
      <4> TAKE r \in T
      <4>1. r.ts \in Nat
        BY DEF Numbered
      <4> QED BY <1>3, <2>1, <3>1, <4>1
    <3> QED BY <2>2, <3>2 DEF Wins
  <2>3. ASSUME NEW w \in T, w.v = y, \A r \in M : r.ts < w.ts
        PROVE  Wins(y, M, T, id, olo)
    <3>1. /\ w.ts \in Nat /\ n.ts \in Nat /\ r0.ts \in Nat /\ w.k \in Nat /\ n.k \in Nat
          /\ r0.ts < w.ts
      BY <2>3 DEF Numbered
    <3>2. ~(w.k <= n.k)
      BY <1>3, <3>1 DEF InOrder
    <3>3. \A r \in T : r.k <= id => r.k <= w.k
      <4> TAKE r \in T
      <4>1. r.k \in Nat
        BY DEF Numbered
      <4> QED BY <1>3, <3>1, <3>2, <4>1 DEF IsTop
    <3> QED BY <2>3, <3>3 DEF Wins
  <2> QED BY <1>3, <2>2, <2>3 DEF Wins
<1> QED BY <1>1, <1>2, <1>3

\* Taking the newest change of the other store.
LEMMA WinsTake ==
    ASSUME NEW M, NEW T, NEW id, NEW olo, NEW n \in T, IsTop(n, T, id), \A r \in M : r.ts < n.ts
    PROVE  Wins(n.v, M, T, id, olo)
BY DEF Wins, IsTop

\* The other store has seen own changes up to id: they were beaten, or won.
LEMMA WinsSeen ==
    ASSUME NEW y, NEW M, NEW T, Numbered(M), Numbered(T),
           NEW lo \in Nat, NEW olo \in Nat, NEW id \in Nat,
           Wins(y, M, T, lo, olo),
           \/ \A r \in M : r.k <= id => r.k <= olo
           \/ \E n \in M : /\ IsTop(n, M, id)
                           /\ \/ \A r \in T : r.ts < n.ts
                              \/ \E r \in T : r.ts > n.ts,
           \A r, q \in M : r.k = q.k => r = q
    PROVE  Wins(y, M, T, lo, id)
<1>1. SUFFICES ASSUME NEW w \in M, w.v = y, \A r \in M : r.k <= w.k,
                      \A r \in T : r.k <= lo => /\ r.ts <= w.ts
                                                /\ r.ts = w.ts => w.k > olo \/ \E q \in T : q.ts > w.ts,
                      NEW r \in T, r.k <= lo, r.ts = w.ts
               PROVE  w.k > id \/ \E q \in T : q.ts > w.ts
  BY DEF Wins
<1>2. CASE \A q \in M : q.k <= id => q.k <= olo
  BY <1>1, <1>2 DEF Numbered
<1>3. ASSUME NEW n \in M, IsTop(n, M, id), w.k <= id
      PROVE  n = w
  <2>1. w.k <= n.k /\ n.k <= w.k
    BY <1>1, <1>3 DEF IsTop
  <2> QED BY <2>1 DEF Numbered
<1>4. ASSUME NEW n \in M, IsTop(n, M, id), (\A q \in T : q.ts < n.ts) \/ (\E q \in T : q.ts > n.ts)
      PROVE  w.k > id \/ \E q \in T : q.ts > w.ts
  <2>1. w.k \in Nat /\ r.ts \in Nat
    BY DEF Numbered
  <2>2. CASE w.k <= id
    <3>1. n = w
      BY <1>3, <1>4, <2>2
    <3> QED BY <1>1, <1>4, <2>1, <3>1
  <2> QED BY <2>1, <2>2
<1> QED BY <1>1, <1>2, <1>4

\* A copy of the row of the store that made the changes.
LEMMA WinsCopy ==
    ASSUME NEW y, NEW M, Numbered(M), NEW lo \in Nat, NEW olo \in Nat, NEW id \in Nat,
           NEW any \in Nat, Wins(y, M, {}, lo, olo)
    PROVE  Wins(y, {}, M, id, any)
BY DEF Wins

\* Nothing is to come: the stores agree, on the latest change.
LEMMA WinsAgree ==
    ASSUME NEW y, NEW z, NEW M, NEW T, Numbered(M), Numbered(T), InOrder(M), InOrder(T),
           NEW lo \in Nat, NEW olo \in Nat,
           \A r \in T : r.k <= lo, \A r \in M : r.k <= olo,
           \A r, q \in M : r.k = q.k => r = q, \A r, q \in T : r.k = q.k => r = q,
           Wins(y, M, T, lo, olo), Wins(z, T, M, olo, lo)
    PROVE  /\ y = z
           /\ \A r \in M \cup T : \E q \in M \cup T : q.ts >= r.ts /\ q.v = y
<1>1. /\ \A r \in M : ~(r.k > olo)
      /\ \A r \in T : ~(r.k > lo)
  BY DEF Numbered
<1>2. ASSUME NEW w \in M, w.v = y, \A r \in M : r.k <= w.k, \A r \in T : r.ts < w.ts
      PROVE  y = z
  <2>1. ASSUME NEW x \in T, \A r \in M : r.k <= olo => r.ts <= x.ts PROVE FALSE
    <3>1. x.ts \in Nat /\ w.ts \in Nat
      BY DEF Numbered
    <3> QED BY <1>2, <2>1, <3>1
  <2>2. ASSUME NEW x \in M, x.v = z, \A r \in M : r.k <= olo => r.k <= x.k PROVE y = z
    <3>1. x.k \in Nat /\ w.k \in Nat
      BY DEF Numbered
    <3>2. x.k = w.k
      BY <1>2, <2>2, <3>1
    <3> QED BY <1>2, <2>2, <3>2
  <2> QED BY <1>1, <2>1, <2>2 DEF Wins
<1>3. ASSUME NEW w \in T, w.v = y, \A r \in T : r.k <= w.k, \A r \in M : r.ts < w.ts
      PROVE  y = z
  <2>1. ASSUME NEW x \in T, x.v = z, \A r \in T : r.k <= x.k PROVE y = z
    <3>1. x.k \in Nat /\ w.k \in Nat
      BY DEF Numbered
    <3>2. x.k = w.k
      BY <1>3, <2>1, <3>1
    <3> QED BY <1>3, <2>1, <3>2
  <2>2. ASSUME NEW x \in M, \A r \in T : r.ts < x.ts PROVE FALSE
    <3>1. x.ts \in Nat /\ w.ts \in Nat
      BY DEF Numbered
    <3> QED BY <1>3, <2>2, <3>1
  <2> QED BY <1>3, <2>1, <2>2 DEF Wins
<1>4. CASE y = 0 /\ M = {} /\ \A r \in T : r.k > lo
  <2>1. T = {}
    BY <1>1, <1>4
  <2> QED BY <1>4, <2>1 DEF Wins
<1>5. ASSUME NEW w \in M, w.v = y, \A r \in M : r.k <= w.k,
             \A r \in T : r.k <= lo => /\ r.ts <= w.ts
                                       /\ r.ts = w.ts => w.k > olo \/ \E q \in T : q.ts > w.ts
      PROVE  \A r \in T : r.ts < w.ts
  <2> TAKE r \in T
  <2>1. \A q \in T : q.ts <= w.ts /\ q.ts \in Nat /\ w.ts \in Nat
    BY <1>5 DEF Numbered
  <2>2. r.ts # w.ts
    <3>1. \A q \in T : ~(q.ts > w.ts)
      BY <2>1
    <3> QED BY <1>1, <1>5, <3>1
  <2> QED BY <2>1, <2>2
<1>6. ASSUME NEW w \in M, w.v = y, \A r \in M : r.k <= w.k, \A r \in T : r.ts < w.ts
      PROVE  \A r \in M \cup T : w.ts >= r.ts
  <2> TAKE r \in M \cup T
  <2>1. r.ts \in Nat /\ w.ts \in Nat
    BY DEF Numbered
  <2> QED BY <1>6, <2>1 DEF InOrder
<1>7. ASSUME NEW w \in T, w.v = y, \A r \in T : r.k <= w.k, \A r \in M : r.ts < w.ts
      PROVE  \A r \in M \cup T : w.ts >= r.ts
  <2> TAKE r \in M \cup T
  <2>1. r.ts \in Nat /\ w.ts \in Nat
    BY DEF Numbered
  <2> QED BY <1>7, <2>1 DEF InOrder
<1>8. CASE \E w \in M : w.v = y /\ (\A r \in M : r.k <= w.k) /\ (\A r \in T : r.ts < w.ts)
  BY <1>2, <1>6, <1>8
<1>9. CASE \E w \in T : w.v = y /\ (\A r \in T : r.k <= w.k) /\ (\A r \in M : r.ts < w.ts)
  BY <1>3, <1>7, <1>9
<1> QED BY <1>4, <1>5, <1>8, <1>9 DEF Wins

----------------------------------------------------------------------------
(* A store keeps the value that wins.                                      *)

\* The facts about rows and ids that the lemmas above ask for.
LEMMA RowFacts ==
    ASSUME TypeOK, Plain, NEW s \in Stores, NEW f \in Fields
    PROVE  /\ Numbered(Rec(s, f)) /\ InOrder(Rec(s, f))
           /\ \A r, q \in Rec(s, f) : r.k = q.k => r = q
           /\ Len(chg[s]) \in Nat /\ Lo(s, f) \in Nat /\ last[s] \in Nat
           /\ Lo(s, f) <= Len(chg[Other(s)]) /\ last[s] <= Lo(s, f)
           /\ inst[s].pc # "idle" => inst[s].id \in Nat /\ last[s] < inst[s].id
<1>1. Numbered(Rec(s, f)) /\ InOrder(Rec(s, f))
  BY RecFields DEF Numbered, InOrder, Plain, Stamps
<1>2. /\ Len(chg[s]) \in Nat /\ last[s] \in Nat /\ Len(chg[Other(s)]) \in Nat
      /\ inst[s].pc # "idle" => inst[s].id \in Nat
  BY StoreTyped, TwoStores, InstFields
<1>3. Ids(s)
  BY DEF Plain
<1> QED BY <1>1, <1>2, <1>3, RecFields DEF Ids, Lo

\* A field that is right after a step was right before it.
LEMMA GoodBefore ==
    ASSUME TypeOK, Plain, NEW s \in Stores, Step(s), NEW f \in Fields, FieldOk(f), Good(f)'
    PROVE  Good(f) /\ f \notin astray' /\ f \notin astray
<1>1. f \notin astray' /\ f \notin astray
  BY Grows DEF Good, Plain
<1>2. ASSUME NEW t \in Stores, t # s, Doomed(t, f) PROVE FALSE
  <2>1. Doomed(t, f)'
    BY <1>2, OthersStay DEF Doomed, Ahead
  <2> QED BY <2>1 DEF Good
<1>3. ASSUME Doomed(s, f) PROVE FALSE
  <2>1. /\ inst[s].pc = "commit" /\ f \in DOMAIN inst[s].take
        /\ ~(pos[s][f] = inst[s].c[f] /\ snap[s][f] = inst[s].take[f])
        /\ Exist(s) /\ Ids(s) /\ Public(s, f) /\ Unread(s, f) /\ edits \in Nat
        /\ \A v \in Published(f) : v \in Nat /\ v <= edits
        /\ ~Doomed(s, f)'
    BY <1>3, StoreTyped, RecFields, PublishedIs DEF Doomed, Ahead, Plain, FieldOk, InHand, Distinct, Good
  <2>2. ASSUME NEW g \in Fields, Edit(s, g) PROVE FALSE
    <3>1. UNCHANGED <<snap, inst>>
      BY <2>2, EditDoes
    <3>2. pos'[s][f] = pos[s][f] \/ pos'[s][f] = edits + 1
      BY <2>2, EditDoes
    <3>3. edits + 1 # inst[s].c[f]
      <4>1. inst[s].c[f] \in Published(f)
        BY <2>1 DEF Public
      <4> QED BY <2>1, <4>1
    <3> QED BY <2>1, <3>1, <3>2, <3>3 DEF Doomed, Ahead
  <2>3. ASSUME UNCHANGED <<pos, snap, inst>> PROVE FALSE
    BY <2>1, <2>3 DEF Doomed, Ahead
  <2>4. SyncRead(s) \/ SyncCompare(s) \/ SyncInsert(s) \/ SyncFail(s) => UNCHANGED <<pos, snap, inst>>
    BY <2>1, SyncReadDoes, SyncCompareDoes, SyncInsertDoes, SyncFailDoes
  <2>5. CASE SyncReplace(s)
    <3>1. /\ snap'[s] = sync[s].row /\ UNCHANGED <<pos, inst>> /\ Busy(s)
      BY <2>5, SyncReplaceDoes DEF Busy
    <3>2. pos[s][f] = inst[s].c[f] => snap'[s][f] # inst[s].take[f]
      BY <2>1, <3>1 DEF Unread, Ahead
    <3> QED BY <2>1, <3>1, <3>2 DEF Doomed, Ahead
  <2>6. ~Fetch(s) /\ ~LookOwn(s) /\ ~LookSnap(s)
    BY <2>1, FetchDoes, LookOwnDoes, LookSnapDoes
  <2>7. ~UpdateSnap(s) /\ ~CopyRow(s)
    BY <2>1, UpdateSnapDoes, CopyRowDoes
  <2>8. ~InsertRow(s) /\ ~SetLast(s)
    BY <2>1, InsertRowDoes, SetLastDoes
  <2>9. ~InstFail(s)
    BY <1>1, <2>1, InstFailDoes
  <2>10. ~Commit(s)
    BY <1>1, <2>1, CommitDoes
  <2> QED BY <2>2, <2>3, <2>4, <2>5, <2>6, <2>7, <2>8, <2>9, <2>10, StepMoves DEF Moves
<1> QED BY <1>1, <1>2, <1>3 DEF Good

\* What a store knows of a field has been published.
LEMMA BasePublished ==
    ASSUME TypeOK, Plain, NEW s \in Stores, NEW f \in Fields, FieldOk(f), Known(s)
    PROVE  Base(s)[f] \in Published(f)
BY DEF FieldOk, InHand, Public, Private, Known, Base, Plain, Exist

\* No row comes, nothing is taken: the stores have what they had.
LEMMA WinnerStays ==
    ASSUME TypeOK, Plain, NEW t \in Stores, NEW f \in Fields, Winner(t, f),
           \A x \in Stores : Rec(x, f)' = Rec(x, f),
           \A x \in Stores : Lo(x, f)' \in Nat /\ Lo(x, f)' <= Lo(x, f),
           Known(t)' => Known(t) /\ Base(t)'[f] = Base(t)[f]
    PROVE  Winner(t, f)'
<1> DEFINE u == Other(t)
<1>1. u \in Stores /\ Numbered(Rec(t, f)) /\ Numbered(Rec(u, f)) /\ Lo(t, f) \in Nat /\ Lo(u, f) \in Nat
  BY TwoStores, RowFacts
<1>2. ASSUME Known(t)
      PROVE  Wins(Base(t)[f], Rec(t, f), Rec(u, f), Lo(t, f)', Lo(u, f)')
  BY <1>1, <1>2, WinsLower DEF Winner
<1> QED BY <1>1, <1>2 DEF Winner

\* What the other store is about to take stays the newest change.
LEMMA OtherTaken ==
    ASSUME TypeOK, Plain, NEW s \in Stores, Step(s), NEW f \in Fields \ astray', FieldOk(f),
           NEW t \in Stores, t # s, Taken(t, f)
    PROVE  Taken(t, f)'
<1>1. Other(t) = s
  BY TwoStores
<1>2. /\ snap'[t] = snap[t] /\ inst'[t] = inst[t] /\ last'[t] = last[t] /\ Rec(t, f)' = Rec(t, f)
      /\ Ids(t) /\ Exist(s) /\ Ids(s)
  BY OthersStay, RecMoves DEF Plain
<1>3. SUFFICES ASSUME inst[t].pc = "update", f \in DOMAIN inst[t].take
               PROVE  Taken(t, f)'
  BY <1>2 DEF Taken
<1>4. PICK n \in Rec(s, f) :
         /\ IsTop(n, Rec(s, f), inst[t].id) /\ n.k > last[t]
         /\ n.v = inst[t].take[f]
         /\ snap[t][f] = inst[t].c[f] => \A r \in Rec(t, f) : r.ts < n.ts
  BY <1>1, <1>3 DEF Taken
<1>5. inst[t].id \in Nat /\ inst[t].id <= Len(chg[s]) /\ Len(chg[s]) \in Nat
  BY <1>1, <1>2, <1>3, StoreTyped, InstFields DEF Ids
<1>6. IsTop(n, Rec(s, f)', inst[t].id)
  <2>1. \A r \in Rec(s, f) : r.k \in Nat
    BY RecFields
  <2>2. \A r \in Rec(s, f)' : r.k \in Nat
    BY <1>2, RecNext
  <2>3. n \in Rec(s, f)' /\ \A r \in Rec(s, f)' : r.k <= inst[t].id => r \in Rec(s, f)
    BY <1>2, <1>4, <1>5, <2>1, <2>2, StoredStay DEF IsTop
  <2> QED BY <1>4, <2>3 DEF IsTop
<1> QED BY <1>1, <1>2, <1>3, <1>4, <1>6 DEF Taken, IsTop

\* The snapshot is not replaced while it is ahead of POS.
LEMMA ReplaceFresh ==
    ASSUME TypeOK, Plain, NEW s \in Stores, NEW f \in Fields, FieldOk(f), SyncReplace(s), Good(f)'
    PROVE  /\ ~Ahead(s, f) /\ f \notin astray'
           /\ f \in DOMAIN sync[s].dif => snap[s] # None /\ sync[s].row[f] \notin Published(f)
<1>1. Step(s)
  BY DEF Step, Sync
<1>2. Good(f) /\ f \notin astray'
  BY <1>1, GoodBefore
<1>3. /\ sync[s].pc = "replace" /\ snap'[s] = sync[s].row /\ UNCHANGED <<pos, inst>> /\ Busy(s)
  BY SyncReplaceDoes DEF Busy
<1>4. ~Ahead(s, f)
  <2> SUFFICES ASSUME Ahead(s, f) PROVE FALSE
    OBVIOUS
  <2>1. pos[s][f] = inst[s].c[f]
    BY <1>2 DEF Good, Doomed
  <2>2. sync[s].row[f] = inst[s].take[f]
    BY <1>3 DEF Good, Doomed, Ahead
  <2> QED BY <1>3, <2>1, <2>2 DEF FieldOk, InHand, Unread
<1> QED BY <1>2, <1>3, <1>4 DEF FieldOk, InHand, Private

\* An edit of the other store stays as late as what it has.
LEMMA OtherEdited ==
    ASSUME TypeOK, Plain, NEW s \in Stores, Step(s), NEW f \in Fields, FieldOk(f), Good(f)',
           NEW t \in Stores, t # s, Edited(t, f)
    PROVE  Edited(t, f)'
<1>1. Other(t) = s
  BY TwoStores
<1>2. /\ pos'[t] = pos[t] /\ snap'[t] = snap[t] /\ inst'[t] = inst[t] /\ last'[t] = last[t]
      /\ sync'[t] = sync[t] /\ lastedit'[t] = lastedit[t]
      /\ Exist(t) /\ Ids(s) /\ Exist(s) /\ Ids(t) /\ Private(s, f) /\ f \in Fields \ astray'
  BY OthersStay, GoodBefore DEF Plain, FieldOk, InHand
<1>3. Lo(t, f)' = Lo(t, f) /\ Base(t)' = Base(t) /\ Busy(t)' = Busy(t)
  BY <1>2 DEF Lo, Base, Busy
<1>4. \A v : v \notin Published(f)' => v \notin Published(f)
  BY <1>2, PublishedMoves
<1>5. CASE Rec(s, f)' = Rec(s, f)
  BY <1>1, <1>2, <1>3, <1>4, <1>5 DEF Edited, Later
<1>6. CASE /\ SyncReplace(s) /\ f \in DOMAIN sync[s].dif
           /\ Rec(s, f)' = Rec(s, f) \cup {NewRow(s, f)}
           /\ NewRow(s, f).k = Len(chg[s]) + 1
           /\ NewRow(s, f).v = sync[s].row[f]
  <2>1. CASE pos[t] = None
    BY <1>2, <1>3, <2>1 DEF Edited, Busy, Exist
  <2>2. CASE pos[t] # None
    <3> DEFINE y == Base(t)[f]
    <3>1. y \in Published(f)
      BY <2>2, BasePublished DEF Known
    <3>2. sync[s].row[f] \notin Published(f)
      BY <1>6, ReplaceFresh
    <3>3. Lo(t, f) \in Nat /\ Lo(t, f) <= Len(chg[s]) /\ Len(chg[s]) \in Nat
      BY <1>1, RowFacts
    <3> HIDE DEF y
    <3>4. ~(NewRow(s, f).k <= Lo(t, f)) /\ NewRow(s, f).v # y
      BY <1>6, <3>1, <3>2, <3>3
    <3>5. \A ts : Later(y, Rec(s, f), Lo(t, f), ts) => Later(y, Rec(s, f)', Lo(t, f), ts)
      BY <1>6, <3>4 DEF Later
    <3> QED BY <1>1, <1>2, <1>3, <1>4, <3>5 DEF Edited, y
  <2> QED BY <2>1, <2>2
<1> QED BY <1>2, <1>5, <1>6, PublishedMoves

\* Nothing but what a store has in hand changes.
LEMMA QuietStep ==
    ASSUME TypeOK, Plain, NEW s \in Stores, Step(s), NEW f \in Fields, FieldOk(f), ChangeOk(f),
           Good(f)', Rec(s, f)' = Rec(s, f), Lo(s, f)' \in Nat, Lo(s, f)' <= Lo(s, f),
           Known(s)' => Known(s) /\ Base(s)'[f] = Base(s)[f],
           inst'[s].pc = "update" => UNCHANGED <<inst, snap, last>>,
           Edited(s, f)'
    PROVE  ChangeOk(f)'
<1>1. f \in Fields \ astray' /\ Exist(s) /\ Ids(s)
  BY GoodBefore DEF Plain
<1>2. \A x \in Stores : Rec(x, f)' = Rec(x, f)
  BY <1>1, RecMoves
<1>3. Unique(f)'
  BY <1>2 DEF ChangeOk, Unique
<1>4. ASSUME NEW x \in Stores, x # s
      PROVE  Lo(x, f)' = Lo(x, f) /\ Known(x)' = Known(x) /\ Base(x)' = Base(x)
  BY <1>4, OthersStay DEF Lo, Known, Base
<1>5. \A x \in Stores : Lo(x, f)' \in Nat /\ Lo(x, f)' <= Lo(x, f)
  <2> TAKE x \in Stores
  <2>1. Lo(x, f) \in Nat
    BY RowFacts
  <2> QED BY <1>4, <2>1
<1>6. ASSUME NEW t \in Stores PROVE Winner(t, f)'
  <2>1. Known(t)' => Known(t) /\ Base(t)'[f] = Base(t)[f]
    BY <1>4
  <2>2. Winner(t, f)
    BY DEF ChangeOk
  <2> QED BY <1>2, <1>5, <2>1, <2>2, WinnerStays
<1>7. ASSUME NEW t \in Stores, t # s PROVE Edited(t, f)' /\ Taken(t, f)'
  BY <1>1, <1>7, OtherEdited, OtherTaken DEF ChangeOk
<1>8. Taken(s, f)'
  <2>1. Taken(s, f) /\ Other(s) \in Stores
    BY TwoStores DEF ChangeOk
  <2> QED BY <1>2, <2>1 DEF Taken
<1> QED BY <1>3, <1>6, <1>7, <1>8 DEF ChangeOk

\* No row is later than the clock.
LEMMA NothingLater ==
    ASSUME TypeOK, Plain, NEW s \in Stores, NEW f \in Fields
    PROVE  \A r \in Rec(s, f) : r.ts <= now
<1>1. /\ \A r \in Rec(s, f) : r.ts \in Nat /\ r.ts <= lastedit[s]
      /\ lastedit[s] \in Nat /\ now \in Nat /\ lastedit[s] <= now
  BY RecFields, StoreTyped, Numbers DEF Plain, Stamps, Clocks
<1> QED BY <1>1

\* An edit is later than every row.
LEMMA EditChange ==
    ASSUME TypeOK, Plain, NEW s \in Stores, NEW f \in Fields, FieldOk(f), ChangeOk(f), Good(f)',
           NEW g \in Fields, Edit(s, g)
    PROVE  ChangeOk(f)'
<1>1. Step(s)
  BY DEF Step
<1>2. /\ UNCHANGED <<snap, chg, last, sync, inst>>
      /\ pos[s] # None /\ pos'[s] # None
      /\ now' >= now /\ lastedit'[s] = now'
  BY EditDoes, NoneIsNoRow
<1>3. f \notin astray'
  BY DEF Good
<1>4. pos'[s][f] = pos[s][f] \/ snap[s] # None
  <2>1. CASE g = f
    BY <1>3, <2>1, EditDoes
  <2>2. CASE g # f
    BY <2>2, EditDoes
  <2> QED BY <2>1, <2>2
<1>5. \A x \in Stores : Rec(x, f)' = Rec(x, f)
  BY <1>2 DEF Rec, Eff
<1>6. Lo(s, f)' = Lo(s, f) /\ Lo(s, f) \in Nat
  BY <1>2, RowFacts DEF Lo
<1>7. Exist(s)
  BY DEF Plain
<1>8. Known(s) /\ Known(s)' /\ Base(s)'[f] = Base(s)[f] /\ Published(f)' = Published(f)
  <2>1. Published(f)' = Published(f)
    BY <1>5 DEF Published
  <2> QED BY <1>2, <1>4, <1>7, <2>1 DEF Known, Base, Exist
<1>9. Edited(s, f)'
  <2>1. \A r \in Rec(Other(s), f) : r.ts <= now'
    <3>1. \A r \in Rec(Other(s), f) : r.ts \in Nat /\ r.ts <= now
      BY TwoStores, RecFields, NothingLater
    <3>2. now \in Nat /\ now' \in Nat
      <4>1. TypeOK'
        BY <1>1, PlainKept
      <4> QED BY <4>1, StoreTyped DEF TypeOK
    <3> QED BY <1>2, <3>1, <3>2
  <2>2. Other(s) \in Stores /\ Edited(s, f)
    BY TwoStores DEF ChangeOk
  <2> QED BY <1>2, <1>5, <1>6, <1>8, <2>1, <2>2 DEF Edited, Later, Busy
<1>10. Lo(s, f)' <= Lo(s, f)
  BY <1>6
<1> QED BY <1>1, <1>2, <1>5, <1>6, <1>8, <1>9, <1>10, QuietStep

\* Reading, comparing and inserting publish nothing.
LEMMA SyncChange ==
    ASSUME TypeOK, Plain, NEW s \in Stores, NEW f \in Fields, FieldOk(f), ChangeOk(f), Good(f)',
           SyncRead(s) \/ SyncCompare(s) \/ SyncInsert(s) \/ SyncFail(s)
    PROVE  ChangeOk(f)'
<1>1. Step(s) /\ Exist(s) /\ Ids(s) /\ f \in Fields \ astray' /\ Edited(s, f) /\ Private(s, f)
  BY GoodBefore DEF Step, Sync, Plain, ChangeOk, FieldOk, InHand, Good
<1>2. /\ UNCHANGED <<pos, lastedit, snap, last, inst>>
      /\ sync'[s].pc # "idle" =>
            \/ sync'[s].row = pos[s] /\ sync'[s].lts = lastedit[s] /\ pos[s] # None
            \/ Busy(s) /\ sync'[s].row = sync[s].row /\ sync'[s].lts = sync[s].lts
      /\ sync'[s].pc # "insert"
  <2>1. CASE SyncRead(s)
    BY <1>1, <2>1, SyncReadDoes, NoneIsNoRow
  <2>2. CASE SyncCompare(s)
    BY <2>2, SyncCompareDoes DEF Busy
  <2>3. CASE SyncInsert(s) \/ SyncFail(s)
    BY <2>3, SyncInsertDoes, SyncFailDoes
  <2> QED BY <2>1, <2>2, <2>3
<1>3. ~SyncReplace(s)
  BY <1>2, SyncReplaceDoes
<1>4. Rec(s, f)' = Rec(s, f) /\ Published(f)' = Published(f) /\ Rec(Other(s), f)' = Rec(Other(s), f)
  BY <1>1, <1>3, TwoStores, PublishedMoves
<1>5. Lo(s, f)' = Lo(s, f) /\ Lo(s, f) \in Nat /\ Known(s)' = Known(s) /\ Base(s)' = Base(s)
  BY <1>2, RowFacts DEF Lo, Known, Base
<1>6. Edited(s, f)'
  BY <1>1, <1>2, <1>4, <1>5 DEF Edited, Busy
<1>7. Lo(s, f)' <= Lo(s, f)
  BY <1>5
<1> QED BY <1>1, <1>2, <1>4, <1>5, <1>6, <1>7, QuietStep

\* Steps of the exchange service that settle nothing.
LEMMA QuietInstChange ==
    ASSUME TypeOK, Plain, NEW s \in Stores, NEW f \in Fields, FieldOk(f), ChangeOk(f), Good(f)',
           \/ Fetch(s) \/ LookOwn(s) \/ Commit(s) \/ InsertRow(s) \/ SetLast(s) \/ InstFail(s)
    PROVE  ChangeOk(f)'
<1>1. /\ Step(s) /\ Exist(s) /\ Ids(s) /\ f \in Fields \ astray' /\ Edited(s, f)
      /\ Private(s, f) /\ Public(s, f)
      /\ Lo(s, f) \in Nat /\ last[s] <= Lo(s, f) /\ last[s] \in Nat
      /\ inst[s].pc # "idle" => inst[s].id \in Nat
      /\ last'[s] \in Nat
  <2>1. Step(s)
    BY DEF Step, Inst
  <2>2. TypeOK'
    BY <2>1, PlainKept
  <2>3. last'[s] \in Nat
    BY <2>2 DEF TypeOK
  <2> QED BY <2>1, <2>3, RowFacts DEF Plain, ChangeOk, FieldOk, InHand, Good
<1>2. /\ UNCHANGED <<snap, chg, sync>>
      /\ inst'[s].pc # "update"
      /\ \/ UNCHANGED <<pos, lastedit>>
         \/ Commit(s) /\ UNCHANGED lastedit
         \/ InsertRow(s)
  BY <1>1, FetchDoes, LookOwnDoes, CommitDoes, InsertRowDoes, SetLastDoes, InstFailDoes
<1>3. Rec(s, f)' = Rec(s, f) /\ Published(f)' = Published(f) /\ Rec(Other(s), f)' = Rec(Other(s), f)
  <2>1. \A x \in Stores : Rec(x, f)' = Rec(x, f)
    BY <1>2 DEF Rec, Eff
  <2> QED BY <2>1, TwoStores DEF Published
<1>4. Lo(s, f)' \in Nat /\ Lo(s, f)' <= Lo(s, f)
  <2>1. CASE Fetch(s) \/ LookOwn(s)
    BY <1>1, <2>1, FetchDoes, LookOwnDoes DEF Lo
  <2>2. CASE Commit(s)
    BY <1>1, <2>2, CommitDoes DEF Lo
  <2>3. CASE InsertRow(s)
    BY <1>1, <2>3, InsertRowDoes DEF Lo
  <2>4. CASE SetLast(s)
    BY <1>1, <2>4, SetLastDoes DEF Lo
  <2>5. CASE InstFail(s)
    BY <1>1, <2>5, InstFailDoes DEF Lo
  <2> QED BY <2>1, <2>2, <2>3, <2>4, <2>5
<1>5. Known(s)' => Known(s) /\ Base(s)'[f] = Base(s)[f]
  <2>1. CASE Fetch(s) \/ LookOwn(s)
    BY <1>1, <2>1, FetchDoes, LookOwnDoes DEF Known, Base
  <2>2. CASE Commit(s)
    BY <1>1, <2>2, CommitDoes, NoneIsNoRow DEF Known, Base
  <2>3. CASE InsertRow(s)
    BY <1>1, <2>3, InsertRowDoes DEF Known, Base, Exist
  <2>4. CASE SetLast(s) \/ InstFail(s)
    BY <1>1, <2>4, SetLastDoes, InstFailDoes DEF Known, Base, Exist
  <2> QED BY <2>1, <2>2, <2>3, <2>4
<1>6. Edited(s, f)'
  <2> DEFINE T == Rec(Other(s), f)
  <2>1. \A r \in T : r.k \in Nat
    BY TwoStores, RecFields
  <2>2. /\ (pos[s] # None /\ pos[s][f] \notin Published(f) => Later(Base(s)[f], T, Lo(s, f), lastedit[s]))'
        /\ Busy(s)' => Busy(s) /\ sync'[s] = sync[s] /\ Known(s)'
    <3>1. CASE UNCHANGED <<pos, lastedit>>
      <4>1. ASSUME pos'[s] # None PROVE Known(s)'
        BY <4>1 DEF Known
      <4>2. \A ts : Later(Base(s)[f], T, Lo(s, f), ts) => Later(Base(s)[f], T, Lo(s, f)', ts)
        BY <1>1, <1>4, <2>1 DEF Later
      <4> QED BY <1>1, <1>2, <1>3, <1>5, <3>1, <4>1, <4>2 DEF Edited, Busy, Exist
    <3>2. CASE Commit(s)
      <4>1. /\ inst[s].pc = "commit" /\ pos[s] # None /\ pos'[s] # None /\ UNCHANGED lastedit
            /\ f \in DOMAIN inst[s].take => pos'[s][f] = inst[s].take[f]
            /\ f \notin DOMAIN inst[s].take => pos'[s][f] = pos[s][f]
        BY <1>1, <3>2, CommitDoes, NoneIsNoRow
      <4>2. Known(s)'
        BY <4>1 DEF Known
      <4>3. \A ts : Later(Base(s)[f], T, Lo(s, f), ts) => Later(Base(s)[f], T, Lo(s, f)', ts)
        BY <1>1, <1>4, <2>1 DEF Later
      <4> QED BY <1>1, <1>2, <1>3, <1>5, <4>1, <4>2, <4>3 DEF Edited, Busy, Public
    <3>3. CASE InsertRow(s)
      <4>1. inst[s].pc = "insert" /\ pos'[s] = inst[s].row /\ sync'[s].pc = "idle"
        BY <1>1, <1>2, <3>3, InsertRowDoes DEF Exist
      <4> QED BY <1>1, <1>3, <4>1 DEF Public, Busy
    <3> QED BY <1>2, <3>1, <3>2, <3>3
  <2>3. (Busy(s) /\ sync[s].row[f] \notin Published(f) => Later(Base(s)[f], T, Lo(s, f), sync[s].lts))'
    <3>1. \A ts : Later(Base(s)[f], T, Lo(s, f), ts) => Later(Base(s)[f], T, Lo(s, f)', ts)
      BY <1>1, <1>4, <2>1 DEF Later
    <3> QED BY <1>1, <1>3, <1>5, <2>2, <3>1 DEF Edited
  <2> QED BY <2>2, <2>3 DEF Edited
<1> QED BY <1>1, <1>2, <1>3, <1>4, <1>5, <1>6, QuietStep

\* SyncReplace publishes a change that wins.
LEMMA ReplaceChange ==
    ASSUME TypeOK, Plain, NEW s \in Stores, NEW f \in Fields, FieldOk(f), ChangeOk(f), Good(f)',
           SyncReplace(s)
    PROVE  ChangeOk(f)'
<1> DEFINE u == Other(s)
           T == Rec(u, f)
           w == NewRow(s, f)
<1>1. /\ Step(s) /\ Exist(s) /\ Ids(s) /\ f \in Fields \ astray' /\ u \in Stores /\ u # s /\ Other(u) = s
      /\ Edited(s, f) /\ Winner(s, f) /\ Winner(u, f) /\ Taken(s, f) /\ Unique(f)
      /\ Private(s, f) /\ Reread(s, f) /\ Public(s, f) /\ ~Ahead(s, f)
  BY TwoStores, ReplaceFresh DEF Step, Sync, Plain, ChangeOk, FieldOk, InHand
<1>2. /\ sync[s].pc = "replace" /\ snap'[s] = sync[s].row /\ snap'[s] # None
      /\ sync'[s].pc = "insert" /\ sync'[s].row = sync[s].row
      /\ UNCHANGED <<pos, lastedit, last, inst>>
      /\ Busy(s) /\ pos[s] # None /\ inst[s].pc # "insert"
  BY <1>1, SyncReplaceDoes DEF Busy, Exist
<1>3. /\ Lo(s, f)' = Lo(s, f) /\ Known(s) /\ Known(s)' /\ Base(s)'[f] = sync[s].row[f]
      /\ Base(s)[f] = IF snap[s] = None THEN pos[s][f] ELSE snap[s][f]
  BY <1>2 DEF Lo, Known, Base
<1>4. CASE Rec(s, f)' = Rec(s, f)
  <2>1. f \notin DOMAIN sync[s].dif /\ Published(f)' = Published(f)
    <3>1. ~(f \in DOMAIN sync[s].dif)
      <4>1. NewRow(s, f).k = Len(chg[s]) + 1
        BY DEF NewRow
      <4>2. sync[s].pc # "insert" /\ Len(chg[s]) \in Nat
        BY <1>2, StoreTyped
      <4>3. ~(NewRow(s, f) \in Rec(s, f))
        BY <4>1, <4>2, RecFields
      <4> QED BY <1>1, <1>4, <4>3, PublishedMoves
    <3> QED BY <1>1, <1>4, <3>1, PublishedMoves
  <2>2. Base(s)'[f] = Base(s)[f] /\ sync[s].row[f] \in Published(f)
    BY <1>1, <1>2, <1>3, <2>1 DEF Private
  <2>3. T' = T
    BY <1>1, RecMoves
  <2>4. Edited(s, f)'
    BY <1>1, <1>2, <1>3, <2>1, <2>2, <2>3 DEF Edited
  <2>5. \A x \in Stores : Rec(x, f)' = Rec(x, f)
    BY <1>1, <1>4, RecMoves
  <2>6. \A x \in Stores : Lo(x, f)' = Lo(x, f) /\ Lo(x, f) \in Nat
    BY <1>1, <1>3, RowFacts, OthersStay DEF Lo
  <2>7. Known(u)' = Known(u) /\ Base(u)' = Base(u)
    BY <1>1, OthersStay DEF Known, Base
  <2>8. Winner(s, f)' /\ Winner(u, f)'
    <3>1. \A x \in Stores : Lo(x, f)' \in Nat /\ Lo(x, f)' <= Lo(x, f)
      BY <2>6
    <3> QED BY <1>1, <1>3, <2>2, <2>5, <2>7, <3>1, WinnerStays
  <2>9. Unique(f)'
    BY <1>1, <2>5 DEF Unique
  <2>10. Taken(s, f)'
    BY <1>1, <1>2, <1>3, <2>2, <2>3, <1>4 DEF Taken, Exist
  <2>11. Edited(u, f)' /\ Taken(u, f)'
    BY <1>1, OtherEdited, OtherTaken DEF ChangeOk
  <2> QED BY <2>4, <2>8, <2>9, <2>10, <2>11, TwoStores DEF ChangeOk
<1>5. CASE /\ f \in DOMAIN sync[s].dif
           /\ Rec(s, f)' = Rec(s, f) \cup {w}
           /\ \A r \in Rec(s, f) : r.k <= Len(chg[s])
           /\ Published(f)' = Published(f) \cup {sync[s].row[f]}
           /\ w.k = Len(chg[s]) + 1 /\ w.ts = sync[s].lts /\ w.v = sync[s].row[f]
  <2>1. snap[s] # None /\ sync[s].row[f] \notin Published(f)
    BY <1>5, ReplaceFresh
  <2>2. /\ T' = T /\ Numbered(Rec(s, f)) /\ Numbered(T)
        /\ Lo(s, f) \in Nat /\ Lo(u, f) \in Nat /\ Lo(u, f) <= Len(chg[s]) /\ Len(chg[s]) \in Nat
    BY <1>1, RecMoves, RowFacts
  <2>3. /\ \A x \in Stores : \A r \in Rec(x, f) : r.v \in Published(f)
        /\ w.v # 0
    BY <1>5, <2>1, PublishedIs
  <2>4. Unique(f)'
    <3>1. \A r \in T' : r \in T
      BY <2>2
    <3>2. \A r \in Rec(s, f)' : r \in Rec(s, f) \/ r = w
      BY <1>5
    <3>3. \A x \in Stores : \A r \in Rec(x, f) : r.v # w.v
      BY <1>5, <2>1, <2>3
    <3>4. \A x \in Stores : \A r \in Rec(x, f)' : r \in Rec(x, f) \/ (x = s /\ r = w)
      BY <3>1, <3>2, TwoStores
    <3> HIDE DEF w
    <3>5. \A x, y \in Stores : \A r \in Rec(x, f)', q \in Rec(y, f)' :
             r.v # 0 /\ (r.v = q.v => x = y /\ r = q)
      BY <1>1, <2>3, <3>3, <3>4 DEF Unique
    <3> QED BY <3>5 DEF Unique
  <2>5. Winner(s, f)'
    <3>1. \A r \in T : r.k <= Lo(s, f) => r.ts <= w.ts
      BY <1>1, <1>2, <1>5, <2>1 DEF Edited, Later
    <3>2. Lo(u, f)' = Lo(u, f)
      BY <1>1, OthersStay DEF Lo
    <3>3. w.k \in Nat /\ w.k > Lo(u, f) /\ \A r \in Rec(s, f) : r.k <= w.k
      BY <1>5, <2>2 DEF Numbered
    <3> HIDE DEF w, T
    <3>4. Wins(w.v, Rec(s, f) \cup {w}, T, Lo(s, f), Lo(u, f))
      BY <2>2, <3>1, <3>3, WinsMine
    <3> QED BY <1>3, <1>5, <2>2, <3>2, <3>4 DEF Winner, T
  <2>6. Winner(u, f)'
    <3>1. /\ Lo(u, f)' = Lo(u, f) /\ Known(u)' = Known(u) /\ Base(u)' = Base(u)
      BY <1>1, OthersStay DEF Lo, Known, Base
    <3>2. w.k \in Nat /\ w.k > Lo(u, f)
      BY <1>5, <2>2
    <3> HIDE DEF w
    <3>3. Known(u) => Wins(Base(u)[f], T, Rec(s, f), Lo(u, f), Lo(s, f))
      BY <1>1 DEF Winner
    <3>4. Known(u) => Wins(Base(u)[f], T, Rec(s, f) \cup {w}, Lo(u, f), Lo(s, f))
      BY <2>2, <3>2, <3>3, WinsTheirs
    <3> QED BY <1>1, <1>3, <1>5, <2>2, <3>1, <3>4 DEF Winner
  <2>7. Edited(s, f)'
    <3>1. sync'[s].row[f] \in Published(f)'
      BY <1>2, <1>5
    <3>2. \A r \in T : r.v # sync[s].row[f]
      BY <1>1, <2>1, <2>3
    <3>3. pos[s][f] \notin Published(f)' => pos[s][f] \notin Published(f)
      BY <1>5
    <3>4. \A ts : Later(Base(s)[f], T, Lo(s, f), ts) => Later(sync[s].row[f], T, Lo(s, f), ts)
      BY <3>2 DEF Later
    <3> QED BY <1>1, <1>2, <1>3, <2>2, <3>1, <3>3, <3>4 DEF Edited
  <2>8. Taken(s, f)'
    <3> SUFFICES ASSUME inst[s].pc = "update", f \in DOMAIN inst[s].take
                 PROVE  Taken(s, f)'
      BY <1>2 DEF Taken
    <3>1. snap'[s][f] # inst[s].c[f]
      BY <1>1, <1>2, <2>1 DEF Public
    <3> QED BY <1>1, <1>2, <2>2, <3>1 DEF Taken
  <2>9. Edited(u, f)' /\ Taken(u, f)'
    BY <1>1, OtherEdited, OtherTaken DEF ChangeOk
  <2> QED BY <2>4, <2>5, <2>6, <2>7, <2>8, <2>9, TwoStores DEF ChangeOk
<1> QED BY <1>1, <1>4, <1>5, PublishedMoves

\* No row of a field that is not missed is later than LookOwn.
LEMMA NotMissed ==
    ASSUME TypeOK, NEW s \in Stores, NEW f \in Fields, inst[s].pc = "snap", f \notin Missed(s),
           inst[s].seen \in Nat
    PROVE  \A r \in Rec(s, f) : r.k <= inst[s].seen
<1> TAKE r \in Rec(s, f)
<1>1. chg[s] \in Seq(Changes) /\ Len(chg[s]) \in Nat /\ DOMAIN chg[s] = 1..Len(chg[s])
  BY StoreTyped, LenProperties
<1>2. r.k <= Len(chg[s])
  <2>1. sync[s].pc = "insert" => f \notin DOMAIN sync[s].dif
    BY DEF Missed
  <2>2. CASE sync[s].pc = "insert"
    BY <2>1, <2>2, RecFields
  <2>3. CASE sync[s].pc # "insert"
    BY <2>3, RecFields
  <2> QED BY <2>2, <2>3
<1>3. r \in Logged(chg[s], f)
  BY <1>2, RecStored
<1>4. r.k \in 1..Len(chg[s]) /\ f \in DOMAIN chg[s][r.k].d
  BY <1>1, <1>3, LoggedFields
<1>5. r.k \notin inst[s].seen + 1 .. Len(chg[s])
  BY <1>4 DEF Missed
<1> QED BY <1>1, <1>4, <1>5

\* What a store has from the other one beat its own changes.
LEMMA WinsFrom ==
    ASSUME NEW y, NEW M, NEW T, NEW lo, NEW olo, Wins(y, M, T, lo, olo), NEW n \in T, n.v = y,
           \A r \in M, q \in T : r.v # q.v, \A q \in T : q.v # 0,
           \A r, q \in T : r.v = q.v => r = q
    PROVE  \A r \in M : r.ts < n.ts
<1>1. \E w \in T : w.v = y /\ \A r \in M : r.ts < w.ts
  BY DEF Wins
<1> QED BY <1>1

\* LookSnap passes over what loses, and takes what wins.
LEMMA LookChange ==
    ASSUME TypeOK, Plain, NEW s \in Stores, NEW f \in Fields, FieldOk(f), ChangeOk(f), Good(f)',
           LookSnap(s)
    PROVE  ChangeOk(f)'
<1> DEFINE u == Other(s)
           M == Rec(s, f)
           T == Rec(u, f)
           id == inst[s].id
           y == Base(s)[f]
           new == inst[s].new
           own == inst[s].own
<1>1. /\ Step(s) /\ Exist(s) /\ Ids(s) /\ f \in Fields \ astray' /\ u \in Stores /\ u # s /\ Other(u) = s
      /\ Edited(s, f) /\ Winner(s, f) /\ Winner(u, f) /\ Unique(f)
      /\ Fetched(s, f) /\ Found(s, f) /\ Stamps(s, f)
  BY TwoStores DEF Step, Inst, Plain, ChangeOk, Good
<1>2. /\ inst[s].pc = "snap" /\ pos[s] # None /\ inst'[s].id = id
      /\ \/ /\ inst'[s].pc = "last"
            /\ snap[s] # None => \A h \in DOMAIN new : ~Accepts(snap[s], own, new, h)
         \/ /\ inst'[s].pc = "update" /\ snap[s] # None /\ inst'[s].c = snap[s]
            /\ DOMAIN inst'[s].take = {h \in DOMAIN new : Accepts(snap[s], own, new, h)}
            /\ \A h \in DOMAIN inst'[s].take : inst'[s].take[h] = new[h].v
      /\ UNCHANGED <<pos, lastedit, journal, snap, chg, last, sync>>
  BY LookSnapDoes
<1>3. f \in DOMAIN new =>
         /\ snap[s] # None /\ f \notin Missed(s)
         /\ snap[s][f] = new[f].v \/ own[f] # new[f].ts
  BY <1>1, LookSnapDoes
<1>4. /\ Known(s) /\ Known(s)' /\ Base(s)' = Base(s) /\ Busy(s)' = Busy(s)
      /\ Lo(s, f) = last[s] /\ Published(f)' = Published(f)
      /\ \A x \in Stores : Rec(x, f)' = Rec(x, f)
  <2>1. \A x \in Stores : Rec(x, f)' = Rec(x, f)
    BY <1>2 DEF Rec, Eff
  <2>2. Published(f)' = Published(f)
    BY <2>1 DEF Published
  <2> QED BY <1>2, <2>1, <2>2 DEF Known, Base, Busy, Lo
<1>5. /\ Numbered(M) /\ Numbered(T) /\ InOrder(M) /\ InOrder(T)
      /\ \A r, q \in T : r.k = q.k => r = q
      /\ last[s] \in Nat /\ id \in Nat /\ last[s] <= id
      /\ Lo(u, f) \in Nat
      /\ lastedit[s] \in Nat /\ inst[s].seen \in Nat
      /\ Busy(s) => sync[s].lts \in Nat
  <2>1. inst[s].seen \in Nat /\ (Busy(s) => sync[s].lts \in Nat)
    BY <1>2, StoreTyped, InstFields, SyncFields, Numbers DEF Busy
  <2>2. lastedit[s] \in Nat
    BY StoreTyped, Numbers
  <2> QED BY <1>1, <1>2, <2>1, <2>2, RowFacts
<1>6. f \in DOMAIN new => \E n \in T : /\ IsTop(n, T, id) /\ n.k > last[s]
                                       /\ n.ts = new[f].ts /\ n.v = new[f].v
  BY <1>1, <1>2 DEF Fetched
<1>7. f \notin DOMAIN new => \A r \in T : r.k <= id => r.k <= last[s]
  BY <1>1, <1>2 DEF Fetched
<1>8. /\ \A r \in M, q \in T : r.v # q.v
      /\ \A q \in T : q.v # 0
      /\ \A r, q \in T : r.v = q.v => r = q
  BY <1>1 DEF Unique
<1>9. Wins(y, M, T, last[s], Lo(u, f)) /\ (Known(u) => Wins(Base(u)[f], T, M, Lo(u, f), last[s]))
  BY <1>1, <1>4 DEF Winner
<1>10. /\ Lo(u, f)' = Lo(u, f) /\ Known(u)' = Known(u) /\ Base(u)' = Base(u)
  BY <1>1, OthersStay DEF Lo, Known, Base
<1>11. Edited(u, f)' /\ Taken(u, f)' /\ Unique(f)'
  <2>1. Unique(f)'
    BY <1>1, <1>4 DEF Unique
  <2> QED BY <1>1, <2>1, OtherEdited, OtherTaken DEF ChangeOk
<1>12. f \in DOMAIN new => own[f] \in Int /\ new[f].ts \in Int
  <2> SUFFICES ASSUME f \in DOMAIN new PROVE own[f] \in Int /\ new[f].ts \in Int
    OBVIOUS
  <2>1. own \in [Fields -> Times \cup {-1}] /\ new \in Remote
    BY <1>2, StoreTyped, InstFields
  <2>2. new[f].ts \in Times
    BY <2>1, RemoteFields
  <2>3. new[f].ts \in Nat
    BY <2>2, Numbers
  <2>4. own[f] \in Int
    <3> HIDE DEF own
    <3>1. own[f] \in Times \cup {-1}
      BY <2>1
    <3>2. own[f] \in Times => own[f] \in Nat
      BY Numbers
    <3> QED BY <3>1, <3>2
  <2> QED BY <2>3, <2>4
<1>13. CASE inst'[s].pc = "update" /\ f \in DOMAIN inst'[s].take
  <2>1. Lo(s, f)' = last[s]
    BY <1>2, <1>13 DEF Lo
  <2>2. /\ f \in DOMAIN new /\ Accepts(snap[s], own, new, f)
        /\ inst'[s].take[f] = new[f].v /\ inst'[s].c = snap[s]
    BY <1>2, <1>13
  <2>3. Winner(s, f)' /\ Winner(u, f)'
    BY <1>1, <1>4, <1>9, <1>10, <2>1 DEF Winner
  <2>4. Edited(s, f)'
    BY <1>1, <1>2, <1>4, <2>1 DEF Edited
  <2>5. Taken(s, f)'
    <3>1. PICK n \in T : IsTop(n, T, id) /\ n.k > last[s] /\ n.ts = new[f].ts /\ n.v = new[f].v
      BY <1>6, <2>2
    <3>2. \A r \in M : r.k <= inst[s].seen
      BY <1>2, <1>3, <1>5, <2>2, NotMissed
    <3>3. own[f] \in Int /\ n.ts \in Nat /\ ~(own[f] >= n.ts)
      <4>1. own[f] \in Int
        BY <1>12, <2>2
      <4> QED BY <1>5, <2>2, <3>1, <4>1 DEF Accepts, Numbered
    <3>4. \A r \in M : r.ts < n.ts
      <4> TAKE r \in M
      <4>1. r.ts \in Nat
        BY <1>5 DEF Numbered
      <4>2. r.ts >= n.ts => r.ts <= own[f]
        BY <1>1, <1>2, <2>2, <3>1, <3>2 DEF Found
      <4> QED BY <3>3, <4>1, <4>2
    <3> QED BY <1>1, <1>2, <1>4, <2>2, <3>1, <3>4 DEF Taken
  <2> QED BY <1>11, <2>3, <2>4, <2>5, TwoStores DEF ChangeOk
<1>14. CASE ~(inst'[s].pc = "update" /\ f \in DOMAIN inst'[s].take)
  <2>1. Lo(s, f)' = id
    BY <1>2, <1>14 DEF Lo
  <2>2. f \in DOMAIN new => snap[s][f] = new[f].v \/ own[f] > new[f].ts
    <3> SUFFICES ASSUME f \in DOMAIN new PROVE snap[s][f] = new[f].v \/ own[f] > new[f].ts
      OBVIOUS
    <3>1. ~Accepts(snap[s], own, new, f)
      BY <1>2, <1>3, <1>14
    <3>2. own[f] \in Int /\ new[f].ts \in Int
      BY <1>12
    <3> QED BY <1>3, <3>1, <3>2 DEF Accepts
  <2>3. \/ \A r \in T : r.k <= id => r.k <= last[s]
        \/ \E n \in T : /\ IsTop(n, T, id)
                        /\ n.v = y \/ \E r \in M : r.ts > n.ts
    <3>1. CASE f \notin DOMAIN new
      BY <1>7, <3>1
    <3>2. CASE f \in DOMAIN new
      <4>1. PICK n \in T : IsTop(n, T, id) /\ n.ts = new[f].ts /\ n.v = new[f].v
        BY <1>6, <3>2
      <4>2. y = snap[s][f]
        BY <1>2, <1>3, <3>2 DEF Base
      <4>3. own[f] > new[f].ts => \E r \in M : r.ts = own[f]
        <5>1. own[f] \in Int /\ new[f].ts \in Int
          BY <1>12, <3>2
        <5>2. own[f] > new[f].ts => own[f] >= new[f].ts
          BY <5>1
        <5> QED BY <1>1, <1>2, <3>2, <5>2 DEF Found
      <4> QED BY <2>2, <3>2, <4>1, <4>2, <4>3
    <3> QED BY <3>1, <3>2
  <2>4. Winner(s, f)'
    <3> HIDE DEF M, T, y, id
    <3>1. Wins(y, M, T, id, Lo(u, f))
      BY <1>5, <1>8, <1>9, <2>3, WinsPass
    <3> QED BY <1>1, <1>4, <1>10, <2>1, <3>1 DEF Winner, M, T, y, id
  <2>5. Winner(u, f)'
    <3> HIDE DEF M, T, y, id
    <3>1. \/ \A r \in T : r.k <= id => r.k <= last[s]
          \/ \E n \in T : /\ IsTop(n, T, id)
                          /\ (\A r \in M : r.ts < n.ts) \/ (\E r \in M : r.ts > n.ts)
      BY <1>8, <1>9, <2>3, WinsFrom
    <3>2. Known(u) => Wins(Base(u)[f], T, M, Lo(u, f), id)
      BY <1>5, <1>9, <3>1, WinsSeen
    <3> QED BY <1>1, <1>4, <1>10, <2>1, <3>2 DEF Winner, M, T, id
  <2>6. Edited(s, f)'
    <3>1. ASSUME NEW ts \in Nat, Later(y, T, last[s], ts), \A r \in M : r.ts <= ts
          PROVE  Later(y, T, id, ts)
      <4>1. CASE \A r \in T : r.k <= id => r.k <= last[s]
        BY <3>1, <4>1 DEF Later
      <4>2. ASSUME NEW n \in T, IsTop(n, T, id), n.v = y \/ \E r \in M : r.ts > n.ts
            PROVE  Later(y, T, id, ts)
        <5>1. n.ts \in Nat /\ n.ts <= ts
          <6>1. n.ts \in Nat /\ \A r \in M : r.ts \in Nat
            BY <1>5 DEF Numbered
          <6>2. n.v = y => n.ts <= ts
            BY <3>1 DEF Later
          <6> QED BY <3>1, <4>2, <6>1, <6>2
        <5>2. \A r \in T : r.k <= id => r.ts <= ts
          <6> TAKE r \in T
          <6>1. r.ts \in Nat /\ (r.k <= id => r.ts <= n.ts)
            BY <1>5, <4>2 DEF Numbered, InOrder, IsTop
          <6> QED BY <5>1, <6>1
        <5> QED BY <3>1, <5>2 DEF Later
      <4> QED BY <2>3, <4>1, <4>2
    <3>2. /\ \A r \in M : r.ts <= lastedit[s]
          /\ Busy(s) => \A r \in M : r.ts <= sync[s].lts
      BY <1>1 DEF Stamps
    <3>3. /\ pos[s] # None /\ pos[s][f] \notin Published(f) => Later(y, T, last[s], lastedit[s])
          /\ Busy(s) /\ sync[s].row[f] \notin Published(f) => Later(y, T, last[s], sync[s].lts)
      BY <1>1, <1>4 DEF Edited
    <3> HIDE DEF M, T, y, id
    <3>4. /\ pos[s] # None /\ pos[s][f] \notin Published(f) => Later(y, T, id, lastedit[s])
          /\ Busy(s) /\ sync[s].row[f] \notin Published(f) => Later(y, T, id, sync[s].lts)
      BY <1>5, <3>1, <3>2, <3>3
    <3> QED BY <1>1, <1>2, <1>4, <2>1, <3>4 DEF Edited, T, y
  <2>7. Taken(s, f)'
    BY <1>14 DEF Taken
  <2> QED BY <1>11, <2>4, <2>5, <2>6, <2>7, TwoStores DEF ChangeOk
<1> QED BY <1>13, <1>14

\* UpdateSnap has the snapshot hold what was taken.
LEMMA UpdateChange ==
    ASSUME TypeOK, Plain, NEW s \in Stores, NEW f \in Fields, FieldOk(f), ChangeOk(f), Good(f)',
           UpdateSnap(s)
    PROVE  ChangeOk(f)'
<1> DEFINE u == Other(s)
           M == Rec(s, f)
           T == Rec(u, f)
           id == inst[s].id
           take == inst[s].take
<1>1. /\ Step(s) /\ Exist(s) /\ Ids(s) /\ f \in Fields \ astray' /\ u \in Stores /\ u # s /\ Other(u) = s
      /\ Edited(s, f) /\ Winner(s, f) /\ Winner(u, f) /\ Taken(s, f) /\ Unique(f)
      /\ Public(s, f) /\ Reread(s, f)
  BY TwoStores DEF Step, Inst, Plain, ChangeOk, Good, FieldOk, InHand
<1>2. /\ inst[s].pc = "update" /\ inst'[s].pc = "commit"
      /\ inst'[s].id = id /\ inst'[s].c = inst[s].c /\ inst'[s].take = take
      /\ snap[s] # None /\ snap'[s] # None /\ pos[s] # None
      /\ snap[s][f] = inst[s].c[f]
      /\ f \in DOMAIN take => snap'[s][f] = take[f]
      /\ f \notin DOMAIN take => snap'[s][f] = snap[s][f]
      /\ UNCHANGED <<pos, lastedit, journal, chg, last, sync>>
  BY <1>1, UpdateSnapDoes DEF Exist
<1>3. /\ Known(s) /\ Known(s)' /\ Busy(s)' = Busy(s)
      /\ Base(s)[f] = snap[s][f] /\ Base(s)'[f] = snap'[s][f]
      /\ Published(f)' = Published(f)
      /\ \A x \in Stores : Rec(x, f)' = Rec(x, f)
  <2>1. \A x \in Stores : Rec(x, f)' = Rec(x, f)
    BY <1>2 DEF Rec, Eff
  <2>2. Published(f)' = Published(f)
    BY <2>1 DEF Published
  <2> QED BY <1>2, <2>1, <2>2 DEF Known, Base, Busy
<1>4. /\ Numbered(M) /\ Numbered(T) /\ last[s] \in Nat /\ id \in Nat
      /\ \A r, q \in T : r.k = q.k => r = q
      /\ Lo(u, f) \in Nat /\ Lo(s, f) \in Nat
  BY <1>1, <1>2, RowFacts
<1>5. /\ Lo(u, f)' = Lo(u, f) /\ Known(u)' = Known(u) /\ Base(u)' = Base(u)
  BY <1>1, OthersStay DEF Lo, Known, Base
<1>6. Lo(s, f)' = id
  BY <1>2 DEF Lo
<1>7. CASE f \notin DOMAIN take
  <2>1. Lo(s, f)' = Lo(s, f)
    BY <1>2, <1>6, <1>7 DEF Lo
  <2>2. Edited(s, f)'
    BY <1>1, <1>2, <1>3, <1>7, <2>1 DEF Edited
  <2>3. inst'[s].pc # "update" /\ Lo(s, f)' \in Nat /\ Lo(s, f)' <= Lo(s, f)
    BY <1>2, <1>4, <2>1
  <2> QED BY <1>1, <1>2, <1>3, <1>7, <2>2, <2>3, QuietStep
<1>8. CASE f \in DOMAIN take
  <2>1. PICK n \in T : IsTop(n, T, id) /\ n.v = take[f] /\ \A r \in M : r.ts < n.ts
    BY <1>1, <1>2, <1>8 DEF Taken
  <2>2. Winner(s, f)'
    <3>1. Wins(n.v, M, T, id, Lo(u, f))
      BY <2>1, WinsTake
    <3> QED BY <1>1, <1>2, <1>3, <1>5, <1>6, <1>8, <2>1, <3>1 DEF Winner
  <2>3. Winner(u, f)'
    <3>1. Known(u) => Wins(Base(u)[f], T, M, Lo(u, f), Lo(s, f))
      BY <1>1 DEF Winner
    <3> HIDE DEF M, T, id, take
    <3>2. Known(u) => Wins(Base(u)[f], T, M, Lo(u, f), id)
      BY <1>4, <2>1, <3>1, WinsSeen
    <3> QED BY <1>1, <1>3, <1>5, <1>6, <3>2 DEF Winner, M, T
  <2>4. Edited(s, f)'
    <3>1. Ahead(s, f)' /\ pos[s][f] = inst[s].c[f]
      <4>1. Ahead(s, f)'
        BY <1>2, <1>8 DEF Ahead
      <4> QED BY <1>1, <1>2, <4>1 DEF Good, Doomed
    <3>2. pos[s][f] \in Published(f)
      BY <1>1, <1>2, <3>1 DEF Public
    <3>3. Busy(s) => sync[s].row[f] \in Published(f)
      BY <1>1, <3>2 DEF Reread
    <3> QED BY <1>2, <1>3, <3>2, <3>3 DEF Edited
  <2>5. Taken(s, f)' /\ Unique(f)'
    BY <1>1, <1>2, <1>3 DEF Taken, Unique
  <2>6. Edited(u, f)' /\ Taken(u, f)'
    BY <1>1, OtherEdited, OtherTaken DEF ChangeOk
  <2> QED BY <2>2, <2>3, <2>4, <2>5, <2>6, TwoStores DEF ChangeOk
<1> QED BY <1>7, <1>8

\* A copy has what the other store has settled on.
LEMMA CopyChange ==
    ASSUME TypeOK, Plain, NEW s \in Stores, NEW f \in Fields, FieldOk(f), ChangeOk(f), Good(f)',
           CopyRow(s)
    PROVE  ChangeOk(f)'
<1> DEFINE u == Other(s)
           T == Rec(u, f)
           id == inst[s].id
<1>1. /\ Step(s) /\ Exist(s) /\ Exist(u) /\ Ids(s) /\ f \in Fields \ astray'
      /\ u \in Stores /\ u # s /\ Other(u) = s
      /\ Winner(u, f) /\ Unique(f)
  BY TwoStores DEF Step, Inst, Plain, ChangeOk, Good
<1>2. /\ inst[s].pc = "snap" /\ pos[s] = None /\ pos[u] # None /\ snap[u] # None
      /\ inst'[s].pc = "insert" /\ inst'[s].id = id /\ inst'[s].row = pos[u]
      /\ pos[u][f] = snap[u][f]
      /\ UNCHANGED <<pos, lastedit, journal, snap, chg, last, sync>>
  BY <1>1, CopyRowDoes, NoneIsNoRow
<1>3. /\ Known(s)' /\ Base(s)'[f] = snap[u][f]
      /\ Known(u) /\ Base(u)[f] = snap[u][f]
      /\ Busy(s)' = Busy(s) /\ ~Busy(s)
      /\ Lo(s, f)' = id
      /\ \A x \in Stores : Rec(x, f)' = Rec(x, f)
  <2>1. \A x \in Stores : Rec(x, f)' = Rec(x, f)
    BY <1>2 DEF Rec, Eff
  <2>2. inst[u].pc # "insert"
    BY <1>1, <1>2 DEF Exist
  <2> QED BY <1>1, <1>2, <2>1, <2>2 DEF Known, Base, Busy, Lo, Exist
<1>4. Rec(s, f) = {}
  <2>1. chg[s] = <<>> /\ sync[s].pc # "insert"
    BY <1>1, <1>2 DEF Exist
  <2>2. Len(chg[s]) = 0
    BY <2>1, EmptySeq
  <2>3. \A r \in Rec(s, f) : r.k \in Nat \ {0} /\ r.k <= 0
    BY <2>1, <2>2, RecFields
  <2> QED BY <2>3
<1>5. /\ Numbered(T) /\ last[s] \in Nat /\ id \in Nat /\ Lo(u, f) \in Nat /\ Lo(s, f) \in Nat
  BY <1>1, <1>2, RowFacts
<1>6. /\ Lo(u, f)' = Lo(u, f) /\ Known(u)' = Known(u) /\ Base(u)' = Base(u)
  BY <1>1, OthersStay DEF Lo, Known, Base
<1>7. Wins(snap[u][f], T, {}, Lo(u, f), Lo(s, f))
  BY <1>1, <1>3, <1>4 DEF Winner
<1>8. Winner(s, f)'
  <2> HIDE DEF T, id
  <2>1. Wins(snap[u][f], {}, T, id, Lo(u, f))
    BY <1>5, <1>7, WinsCopy
  <2> QED BY <1>1, <1>3, <1>4, <1>6, <2>1 DEF Winner, T
<1>9. Winner(u, f)'
  <2> HIDE DEF T, id
  <2>1. Wins(snap[u][f], T, {}, Lo(u, f), id)
    BY <1>7 DEF Wins
  <2> QED BY <1>1, <1>3, <1>4, <1>6, <2>1 DEF Winner, T
<1>10. Edited(s, f)' /\ Taken(s, f)' /\ Unique(f)'
  BY <1>1, <1>2, <1>3 DEF Edited, Taken, Unique
<1>11. Edited(u, f)' /\ Taken(u, f)'
  BY <1>1, OtherEdited, OtherTaken DEF ChangeOk
<1> QED BY <1>8, <1>9, <1>10, <1>11, TwoStores DEF ChangeOk

\* Any step, of a field that is in order.
LEMMA ChangeKept ==
    ASSUME TypeOK, Plain, NEW s \in Stores, Step(s), NEW f \in Fields, FieldOk(f), ChangeOk(f),
           Good(f)'
    PROVE  ChangeOk(f)'
<1>1. CASE \E g \in Fields : Edit(s, g)
  BY <1>1, EditChange
<1>2. CASE SyncRead(s) \/ SyncCompare(s) \/ SyncInsert(s) \/ SyncFail(s)
  BY <1>2, SyncChange
<1>3. CASE SyncReplace(s)
  BY <1>3, ReplaceChange
<1>4. CASE \/ Fetch(s) \/ LookOwn(s) \/ Commit(s) \/ InsertRow(s) \/ SetLast(s) \/ InstFail(s)
  BY <1>4, QuietInstChange
<1>5. CASE LookSnap(s)
  BY <1>5, LookChange
<1>6. CASE UpdateSnap(s)
  BY <1>6, UpdateChange
<1>7. CASE CopyRow(s)
  BY <1>7, CopyChange
<1> QED BY <1>1, <1>2, <1>3, <1>4, <1>5, <1>6, <1>7, StepMoves DEF Moves

----------------------------------------------------------------------------
(* The theorems.                                                           *)

\* The row that no edit has changed.
Row0 == [f \in Fields |-> 0]

\* What a store has at first: a customer with a snapshot, or none.
LEMMA InitRows ==
    ASSUME Init
    PROVE  /\ snap = pos
           /\ \A s \in Stores :
                 /\ pos[s] \in {Row0, None}
                 /\ pos[s] = None => pos[Other(s)] = Row0 /\ chg[Other(s)] = <<Change(0, <<>>)>>
                 /\ chg[s] \in {<<>>, <<Change(0, <<>>)>>}
                 /\ pos[s] = None => chg[s] = <<>>
                 /\ lastedit[s] = 0 /\ ~journal[s] /\ last[s] = 0
                 /\ sync[s] = SyncIdle /\ inst[s] = InstIdle
           /\ astray = {} /\ now = 0 /\ edits = 0 /\ fails = 0
<1>1. PICK here \in (SUBSET Stores) \ {{}} :
        /\ pos = [s \in Stores |-> IF s \in here THEN Row0 ELSE None]
        /\ chg = [s \in Stores |-> IF here = {s} THEN <<Change(0, <<>>)>> ELSE <<>>]
  BY DEF Init, Row0
<1>2. ASSUME NEW s \in Stores, pos[s] = None
      PROVE  /\ pos[Other(s)] = Row0 /\ chg[Other(s)] = <<Change(0, <<>>)>>
             /\ chg[s] = <<>>
  <2>1. s \notin here
    <3>1. Row0 \in Rows
      BY Numbers DEF Row0, Rows
    <3> QED BY <1>1, <1>2, <3>1, NoneIsNoRow
  <2>2. here = {Other(s)} /\ here # {s}
    BY <2>1, TwoStores
  <2> QED BY <1>1, <2>1, <2>2, TwoStores
<1>3. \A s \in Stores : pos[s] \in {Row0, None} /\ chg[s] \in {<<>>, <<Change(0, <<>>)>>}
  BY <1>1
<1>4. /\ snap = pos /\ astray = {} /\ now = 0 /\ edits = 0 /\ fails = 0
      /\ \A s \in Stores :
            /\ lastedit[s] = 0 /\ ~journal[s] /\ last[s] = 0
            /\ sync[s] = SyncIdle /\ inst[s] = InstIdle
  BY DEF Init
<1> QED BY <1>2, <1>3, <1>4

\* It is typed.
LEMMA InitTypes == Init => TypeOK
<1> SUFFICES ASSUME Init PROVE TypeOK
  OBVIOUS
<1>1. Row0 \in Rows
  BY Numbers DEF Row0, Rows
<1>2. Change(0, <<>>) \in Changes
  BY EmptyPart, ChangeFields, Numbers
<1>3. \A c \in Changes : <<c>> \in Seq(Changes) /\ <<>> \in Seq(Changes)
  OBVIOUS
<1>4. \A s \in Stores : chg[s] \in Seq(Changes)
  BY <1>2, <1>3, InitRows
<1>5. chg \in [Stores -> Seq(Changes)]
  BY <1>4 DEF Init
<1>6. pos \in [Stores -> Rows \cup {None}] /\ snap \in [Stores -> Rows \cup {None}]
  <2>1. snap = pos /\ \A s \in Stores : pos[s] \in Rows \cup {None}
    BY <1>1, InitRows
  <2>2. pos = [s \in Stores |-> pos[s]]
    BY DEF Init
  <2> QED BY <2>1, <2>2
<1>7. /\ lastedit \in [Stores -> Times] /\ last \in [Stores -> Nat]
      /\ journal \in [Stores -> BOOLEAN]
  BY Numbers DEF Init
<1>8. sync \in [Stores -> SyncStates] /\ inst \in [Stores -> InstStates]
  BY NewSync, NewInst DEF Init
<1>9. astray \subseteq Fields /\ edits \in 0..MaxEdits /\ now \in 0..edits /\ fails \in 0..MaxFails
  BY Numbers DEF Init
<1> QED BY <1>5, <1>6, <1>7, <1>8, <1>9 DEF TypeOK

\* No field has changed yet.
LEMMA InitRec ==
    ASSUME Init, NEW s \in Stores, NEW f \in Fields
    PROVE  Rec(s, f) = {}
<1>1. Eff(s) = chg[s]
  BY InitRows, NewSync DEF Eff
<1>2. Change(0, <<>>) \in Changes /\ Change(0, <<>>).d = <<>>
  BY EmptyPart, ChangeFields, Numbers
<1>3. \A i \in 1..Len(chg[s]) : DOMAIN chg[s][i].d = {}
  <2>1. CASE chg[s] = <<>>
    BY <2>1
  <2>2. CASE chg[s] = <<Change(0, <<>>)>>
    <3>1. Len(chg[s]) = 1 /\ chg[s][1] = Change(0, <<>>)
      BY <2>2
    <3> QED BY <1>2, <3>1, EmptyPart
  <2> QED BY <2>1, <2>2, InitRows
<1> QED BY <1>1, <1>3 DEF Rec, Logged

\* So it satisfies the invariant.
LEMMA InitInv == Init => IInv
<1> SUFFICES ASSUME Init PROVE IInv
  OBVIOUS
<1>1. TypeOK
  BY InitTypes
<1>2. Row0 \in Rows /\ Row0 # None /\ \A f \in Fields : Row0[f] = 0
  BY Numbers, NoneIsNoRow DEF Row0, Rows
<1>3. \A s \in Stores :
        /\ sync[s].pc = "idle" /\ inst[s].pc = "idle" /\ snap[s] = pos[s]
        /\ lastedit[s] = 0 /\ ~journal[s] /\ last[s] = 0
  BY InitRows, NewSync, NewInst
<1>4. \A s \in Stores : chg[s] \in Seq(Changes) /\ Len(chg[s]) \in Nat
  BY <1>1 DEF TypeOK
<1>5. \A s \in Stores, f \in Fields : Rec(s, f) = {}
  BY InitRec
<1>6. \A f \in Fields : Published(f) = {0}
  <2> SUFFICES ASSUME NEW f \in Fields PROVE Published(f) = {0}
    OBVIOUS
  <2> QED BY <1>5, PublishedIs
<1>7. ASSUME NEW s \in Stores PROVE Exist(s) /\ Ids(s) /\ Clocks(s)
  <2>1. Exist(s)
    <3>1. pos[s] = None => pos[Other(s)] # None /\ snap[Other(s)] # None /\ chg[Other(s)] # <<>>
      <4>1. <<Change(0, <<>>)>> # <<>>
        OBVIOUS
      <4> QED BY <1>2, <4>1, InitRows
    <3>2. snap[s] = None => chg[s] = <<>>
      BY InitRows
    <3> QED BY <1>3, <3>1, <3>2 DEF Exist
  <2>2. Ids(s)
    BY <1>3, <1>4, TwoStores DEF Ids
  <2>3. Clocks(s)
    BY <1>3, InitRows DEF Clocks, Busy
  <2> QED BY <2>1, <2>2, <2>3
<1>8. \A s \in Stores, f \in Fields : Stamps(s, f) /\ Fetched(s, f) /\ Found(s, f)
  BY <1>3, <1>5 DEF Stamps, Fetched, Found
<1>9. ASSUME NEW f \in Fields PROVE FieldOk(f)
  <2>1. \A s \in Stores : pos[s] # None => pos[s][f] = 0
    BY <1>2, InitRows
  <2>2. \A s \in Stores : Held(s, f) \subseteq {0}
    BY <1>3, <2>1 DEF Held, Busy
  <2>3. Distinct(f)
    BY <1>6, <2>2, InitRows DEF Distinct
  <2>4. \A s \in Stores : InHand(s, f)
    BY <1>3, <1>6, <2>1 DEF InHand, Reread, Private, Pending, Public, Unread, Ahead, Busy
  <2> QED BY <2>3, <2>4 DEF FieldOk
<1>10. ASSUME NEW f \in Fields PROVE ChangeOk(f)
  <2>1. Unique(f)
    BY <1>5 DEF Unique
  <2>2. ASSUME NEW s \in Stores PROVE Winner(s, f)
    <3>1. Rec(s, f) = {} /\ Rec(Other(s), f) = {}
      BY <1>5, TwoStores
    <3>2. Known(s) => Base(s)[f] = 0
      BY <1>2, <1>3, InitRows DEF Known, Base
    <3> QED BY <3>1, <3>2 DEF Winner, Wins
  <2>3. ASSUME NEW s \in Stores PROVE Edited(s, f) /\ Taken(s, f)
    <3>1. Rec(Other(s), f) = {}
      BY <1>5, TwoStores
    <3> QED BY <1>3, <3>1 DEF Edited, Taken, Later, Busy
  <2> QED BY <2>1, <2>2, <2>3 DEF ChangeOk
<1> QED BY <1>1, <1>7, <1>8, <1>9, <1>10 DEF IInv, Plain, FieldsOk, ChangesOk

\* Nothing changes: neither does the invariant.
LEMMA StutterInv ==
    ASSUME IInv, UNCHANGED vars
    PROVE  IInv'
<1>1. UNCHANGED <<pos, lastedit, journal, snap, chg, last, sync, inst, now, edits, fails, astray>>
  BY DEF vars, posVars, myVars, boundVars
<1>2. TypeOK'
  BY <1>1 DEF IInv, TypeOK
<1>3. \A s, f : Rec(s, f)' = Rec(s, f)
  BY <1>1 DEF Rec, Logged, Eff
<1>4. \A f : Published(f)' = Published(f)
  BY <1>3 DEF Published
<1>5. Plain'
  BY <1>1, <1>3 DEF IInv, Plain, Exist, Ids, Clocks, Stamps, Fetched, Found, Busy
<1>6. FieldsOk'
  <2>1. \A f : FieldOk(f)' = FieldOk(f)
    BY <1>1, <1>4 DEF FieldOk, Distinct, InHand, Reread, Private, Pending, Public, Unread, Ahead, Busy, Held
  <2> QED BY <1>1, <2>1 DEF IInv, FieldsOk
<1>7. ChangesOk'
  <2>1. \A f : Good(f)' = Good(f)
    BY <1>1 DEF Good, Doomed, Ahead
  <2>2. \A f : ChangeOk(f)' = ChangeOk(f)
    BY <1>1, <1>3, <1>4 DEF ChangeOk, Unique, Winner, Edited, Taken, Known, Base, Lo, Busy
  <2> QED BY <2>1, <2>2 DEF IInv, ChangesOk
<1> QED BY <1>2, <1>5, <1>6, <1>7 DEF IInv

\* Every step preserves the invariant.
LEMMA NextInv ==
    ASSUME IInv, [Next]_vars
    PROVE  IInv'
<1>1. CASE UNCHANGED vars
  BY <1>1, StutterInv
<1>2. CASE Next
  <2>1. PICK s \in Stores : Step(s)
    BY <1>2, NextSteps
  <2>2. TypeOK /\ Plain
    BY DEF IInv
  <2>3. TypeOK' /\ Plain'
    BY <2>1, <2>2, PlainKept
  <2>4. astray \subseteq astray'
    BY <2>1, <2>2, Grows DEF Plain
  <2>5. ASSUME NEW f \in Fields, f \notin astray' PROVE FieldOk(f) /\ FieldOk(f)'
    <3>1. FieldOk(f)
      BY <2>4, <2>5 DEF IInv, FieldsOk
    <3> QED BY <2>1, <2>2, <2>5, <3>1, FieldKept
  <2>6. ASSUME NEW f \in Fields, Good(f)' PROVE ChangeOk(f)'
    <3>1. f \notin astray'
      BY <2>6 DEF Good
    <3>2. FieldOk(f)
      BY <2>5, <3>1
    <3>3. Good(f)
      BY <2>1, <2>2, <2>6, <3>2, GoodBefore
    <3>4. ChangeOk(f)
      BY <3>3 DEF IInv, ChangesOk
    <3> QED BY <2>1, <2>2, <2>6, <3>2, <3>4, ChangeKept
  <2>7. FieldsOk'
    BY <2>5 DEF FieldsOk
  <2>8. ChangesOk'
    BY <2>6 DEF ChangesOk
  <2> QED BY <2>3, <2>7, <2>8 DEF IInv
<1> QED BY <1>1, <1>2

\* Nothing is to come: what wins at one store wins at the other.
LEMMA QuietAgree ==
    ASSUME IInv, Quiet, NEW s \in Stores
    PROVE  /\ pos[s] # None
           /\ \A f \in Fields \ astray :
                 pos[s][f] = pos[Other(s)][f] /\ IsLatest(f, pos[s][f])
<1>1. TypeOK /\ Plain
  BY DEF IInv
<1>2. \A t \in Stores :
        /\ ~journal[t] /\ sync[t].pc = "idle" /\ inst[t].pc = "idle"
        /\ last[t] = Len(chg[Other(t)]) /\ chg[t] \in Seq(Changes)
  BY <1>1, NewSync, NewInst DEF Quiet, TypeOK
<1>3. ASSUME NEW t \in Stores PROVE pos[t] # None
  <2>1. pos[t] = None => last[t] = 0 /\ chg[Other(t)] # <<>>
    BY <1>1 DEF Plain, Exist
  <2>2. chg[Other(t)] \in Seq(Changes)
    BY <1>2, TwoStores
  <2>3. Len(chg[Other(t)]) = 0 => chg[Other(t)] = <<>>
    BY <2>2, EmptySeq
  <2> QED BY <1>2, <2>1, <2>3
<1>4. ASSUME NEW f \in Fields \ astray
      PROVE  pos[s][f] = pos[Other(s)][f] /\ IsLatest(f, pos[s][f])
  <2> DEFINE o == Other(s)
             M == Rec(s, f)
             T == Rec(o, f)
  <2>1. o \in Stores /\ Other(o) = s /\ \A t \in Stores : t = s \/ t = o
    BY TwoStores
  <2>2. FieldOk(f) /\ ChangeOk(f)
    <3>1. Good(f)
      BY <1>2 DEF Good, Doomed, Ahead
    <3> QED BY <3>1 DEF IInv, FieldsOk, ChangesOk
  <2>3. \A t \in Stores : pos[t][f] = Base(t)[f] /\ Known(t)
    BY <1>2, <1>3, <2>2 DEF FieldOk, InHand, Pending, Ahead, Busy, Base, Known
  <2>4. \A t \in Stores : Lo(t, f) = Len(chg[Other(t)])
    BY <1>2 DEF Lo
  <2>5. \A t \in Stores : Rec(t, f) = Logged(chg[t], f)
    BY <1>2 DEF Rec, Eff
  <2>6. \A t \in Stores : \A r \in Rec(t, f) : r.k <= Len(chg[t])
    BY <1>1, <1>2, RecFields
  <2>7. /\ Wins(pos[s][f], M, T, Lo(s, f), Lo(o, f))
        /\ Wins(pos[o][f], T, M, Lo(o, f), Lo(s, f))
    BY <2>1, <2>2, <2>3 DEF ChangeOk, Winner
  <2>8. /\ Numbered(M) /\ Numbered(T) /\ InOrder(M) /\ InOrder(T)
        /\ \A r, q \in M : r.k = q.k => r = q
        /\ \A r, q \in T : r.k = q.k => r = q
        /\ Lo(s, f) \in Nat /\ Lo(o, f) \in Nat
    BY <1>1, <2>1, RowFacts
  <2>9. (\A r \in T : r.k <= Lo(s, f)) /\ (\A r \in M : r.k <= Lo(o, f))
    BY <2>1, <2>4, <2>6
  <2>10. /\ pos[s][f] = pos[o][f]
         /\ \A r \in M \cup T : \E q \in M \cup T : q.ts >= r.ts /\ q.v = pos[s][f]
    <3> HIDE DEF M, T
    <3> QED BY <2>7, <2>8, <2>9, WinsAgree
  <2>11. IsLatest(f, pos[s][f])
    <3> SUFFICES ASSUME NEW t \in Stores, NEW k \in DOMAIN chg[t], f \in DOMAIN chg[t][k].d
                 PROVE  \E u \in Stores : \E n \in DOMAIN chg[u] :
                           /\ chg[u][n].ts >= chg[t][k].ts
                           /\ f \in DOMAIN chg[u][n].d /\ chg[u][n].d[f] = pos[s][f]
      BY DEF IsLatest
    <3>1. k \in 1..Len(chg[t])
      BY <1>2
    <3>2. PICK r \in Rec(t, f) : r.ts = chg[t][k].ts
      <4> DEFINE x == [k |-> k, ts |-> chg[t][k].ts, v |-> chg[t][k].d[f]]
      <4>1. x \in Rec(t, f)
        BY <1>2, <2>5, <3>1, LoggedFields
      <4> QED BY <4>1
    <3>3. r \in M \cup T
      BY <2>1, <3>2
    <3>4. PICK q \in M \cup T : q.ts >= r.ts /\ q.v = pos[s][f]
      BY <2>10, <3>3
    <3>5. PICK u \in Stores : q \in Rec(u, f)
      BY <2>1, <3>4
    <3>6. /\ q.k \in 1..Len(chg[u]) /\ f \in DOMAIN chg[u][q.k].d
          /\ q = [k |-> q.k, ts |-> chg[u][q.k].ts, v |-> chg[u][q.k].d[f]]
      BY <1>2, <2>5, <3>5, LoggedFields
    <3>7. q.ts = chg[u][q.k].ts /\ q.v = chg[u][q.k].d[f] /\ q.k \in DOMAIN chg[u]
      BY <1>2, <3>6
    <3> QED BY <3>2, <3>4, <3>6, <3>7
  <2> QED BY <2>10, <2>11
<1> QED BY <1>3, <1>4

(***************************************************************************)
(* For any fields, edits and failures: every state of service_inst_sync.py *)
(* with create_snapshots satisfies the inductive invariant.                *)
(***************************************************************************)
THEOREM Invariant == Spec => []IInv
BY InitInv, NextInv, PTL DEF Spec

(***************************************************************************)
(* The exchange service never has a row of a customer without a snapshot   *)
(* in hand, and never writes a part of a row in place of a row.            *)
(***************************************************************************)
THEOREM TypesOK == Spec => []TypeOK
<1>1. IInv => TypeOK
  BY DEF IInv
<1> QED BY <1>1, Invariant, PTL

(***************************************************************************)
(* When nobody has anything to do, the stores agree on every field of      *)
(* which no change was lost, and on its latest change: the stamps decide   *)
(* alike in both stores, in whatever order the two services of each store  *)
(* read, write, fail and begin again.                                      *)
(***************************************************************************)
THEOREM Agree == Spec => []Converged
<1>1. IInv => Converged
  BY QuietAgree DEF Converged
<1> QED BY <1>1, Invariant, PTL

=============================================================================
