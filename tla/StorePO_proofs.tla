--------------------------- MODULE StorePO_proofs ---------------------------
(***************************************************************************)
(* The proofs about StorePO: that a record is ordered once in each store,  *)
(* and that a linked record shows what was ordered - for any number of     *)
(* records, workers, saves and ends of the services.                       *)
(***************************************************************************)
EXTENDS StorePO, SequenceTheorems, TLAPS

----------------------------------------------------------------------------
(* The inductive invariant.                                                *)

\* A worker that has claimed a record has it for itself until it links it.
Owner(w) == job[w].pc \in {"remote", "local", "link"}

\* What requests and workers refer to exists.
Known ==
    /\ \A side \in Sides : \A k \in DOMAIN req[side] : req[side][k].ref \in DOMAIN po
    /\ \A w \in Workers : job[w] # Idle => job[w].id \in DOMAIN po

\* A claimed record has one owner at most, and stays claimed when it dies.
Claimed ==
    /\ \A w \in Workers : Owner(w) => po[job[w].id].api = -1
    /\ \A v, w \in Workers : Owner(v) /\ Owner(w) /\ job[v].id = job[w].id => v = w
    /\ \A id \in DOMAIN po : po[id].api \in {0, -1} => po[id].r_api = 0

\* Before it is claimed a record has no request.
NotAsked ==
    \A id \in DOMAIN po : po[id].api = 0 =>
        \A side \in Sides : \A k \in DOMAIN req[side] : req[side][k].ref # id

\* What the owner has asked for so far.
Phases ==
    \A w \in Workers :
        /\ job[w].pc = "remote" =>
               \A side \in Sides : \A k \in DOMAIN req[side] : req[side][k].ref # job[w].id
        /\ job[w].pc = "local" =>
               /\ \A k \in DOMAIN req["new_po"] : req["new_po"][k].ref # job[w].id
               /\ job[w].r_rid \in DOMAIN req["new_so"]
               /\ req["new_so"][job[w].r_rid].ref = job[w].id
               /\ req["new_so"][job[w].r_rid].list = job[w].list
        /\ job[w].pc = "link" =>
               /\ job[w].rid \in DOMAIN req["new_po"]
               /\ job[w].r_rid \in DOMAIN req["new_so"]
               /\ req["new_po"][job[w].rid].ref = job[w].id
               /\ req["new_so"][job[w].r_rid].ref = job[w].id
               /\ req["new_po"][job[w].rid].list = req["new_so"][job[w].r_rid].list

\* A worker submits what the record shows, unless it was saved since.
Shown ==
    \A w \in Workers :
        /\ job[w].pc \in {"claim", "remote", "local"} =>
               po[job[w].id].list = job[w].list \/ job[w].id \in crossed
        /\ job[w].pc = "link" =>
               po[job[w].id].list = req["new_po"][job[w].rid].list \/ job[w].id \in crossed

\* The link of a record leads to its requests.
Linked ==
    \A id \in DOMAIN po : po[id].r_api # 0 =>
        /\ po[id].api \in DOMAIN req["new_po"] /\ po[id].r_api \in DOMAIN req["new_so"]
        /\ req["new_po"][po[id].api].ref = id /\ req["new_so"][po[id].r_api].ref = id
        /\ req["new_po"][po[id].api].list = req["new_so"][po[id].r_api].list
        /\ id \in crossed \/ po[id].list = req["new_po"][po[id].api].list

\* The first two parts of OrderedOnce.
AskedOnce ==
    /\ \A side \in Sides : \A j, k \in DOMAIN req[side] :
           req[side][j].ref = req[side][k].ref => j = k
    /\ \A j \in DOMAIN req["new_po"] : \E k \in DOMAIN req["new_so"] :
           req["new_so"][k].ref = req["new_po"][j].ref

Owned == Known /\ Claimed /\ NotAsked /\ Phases /\ Shown /\ Linked /\ AskedOnce

\* A request is in POS once for every time the service ended over it, and once
\* more while it is in hand and after it is answered.
Counted ==
    \A side \in Sides :
        /\ Len(placed[side]) = Len(req[side])
        /\ svc[side] # 0 =>
               svc[side] \in DOMAIN req[side] /\ req[side][svc[side]].state = 1
        /\ \A k \in DOMAIN req[side] : placed[side][k] <=
               IF req[side][k].state = 2 \/ svc[side] = k THEN ends + 1 ELSE ends

IInv == TypeOK /\ Owned /\ Counted

----------------------------------------------------------------------------
(* Sequences.                                                              *)

\* One element of a sequence is replaced.
LEMMA Replaced ==
    ASSUME NEW S, NEW s \in Seq(S), NEW i \in DOMAIN s, NEW e \in S
    PROVE  /\ [s EXCEPT ![i] = e] \in Seq(S)
           /\ Len([s EXCEPT ![i] = e]) = Len(s)
           /\ DOMAIN [s EXCEPT ![i] = e] = DOMAIN s
           /\ [s EXCEPT ![i] = e][i] = e
           /\ \A j \in DOMAIN s : j # i => [s EXCEPT ![i] = e][j] = s[j]
<1>1. DOMAIN s = 1..Len(s)
  BY LenProperties
<1>. QED
  BY <1>1, ExceptSeq

\* An element is appended.
LEMMA Appended ==
    ASSUME NEW S, NEW s \in Seq(S), NEW e \in S
    PROVE  /\ Append(s, e) \in Seq(S)
           /\ Len(Append(s, e)) = Len(s) + 1
           /\ Len(s) \in Nat /\ Len(s) + 1 \notin DOMAIN s
           /\ DOMAIN Append(s, e) = DOMAIN s \cup {Len(s) + 1}
           /\ Append(s, e)[Len(s) + 1] = e
           /\ \A j \in DOMAIN s : Append(s, e)[j] = s[j]
<1>1. Len(s) \in Nat /\ DOMAIN s = 1..Len(s)
  BY LenProperties
<1>2. Append(s, e) \in Seq(S) /\ Len(Append(s, e)) = Len(s) + 1
  BY AppendProperties
<1>3. DOMAIN Append(s, e) = 1..(Len(s) + 1)
  BY <1>2, LenProperties
<1>. QED
  BY <1>1, <1>2, <1>3, AppendProperties

----------------------------------------------------------------------------
(* What the actions do, and types.                                         *)

\* The records a worker may hold, by what it does next.
LEMMA JobKinds ==
    ASSUME TypeOK, NEW w \in Workers
    PROVE  /\ job[w] # Idle => job[w].id \in Nat
           /\ Owner(w) => job[w] # Idle
           /\ job[w].pc = "claim" => job[w] # Idle
           /\ job[w].pc \in {"claim", "remote"} =>
                  job[w] = [pc |-> job[w].pc, id |-> job[w].id, list |-> job[w].list]
           /\ job[w].pc \in {"claim", "remote", "local"} => job[w].list \in Lists
           /\ job[w].pc \in {"local", "link"} => job[w].r_rid \in Nat
           /\ job[w].pc = "link" => job[w].rid \in Nat
<1>1. job[w] \in Jobs
  BY DEF TypeOK
<1>. QED
  BY <1>1 DEF Jobs, Idle, Owner

\* What Insert and Update share.
LEMMA SavedFacts ==
    ASSUME TypeOK, NEW w \in Workers, NEW id \in Nat, NEW l \in Lists, NEW s \in BOOLEAN,
           Saved(w, id, l, s)
    PROVE  /\ job' \in [Workers -> Jobs] /\ job[w] = Idle
           /\ job'[w] = Idle \/ job'[w] = [pc |-> "claim", id |-> id, list |-> l]
           /\ \A v \in Workers : v # w => job'[v] = job[v]
           /\ saves' \in 0..MaxSaves /\ crossed \subseteq crossed' /\ crossed' \subseteq Nat
           /\ \A v \in Workers : job[v] # Idle /\ job[v].id = id => id \in crossed'
           /\ UNCHANGED <<req, svc, ends, placed>>
<1>1. [pc |-> "claim", id |-> id, list |-> l] \in Jobs /\ Idle \in Jobs
  BY DEF Jobs
<1>2. job' \in [Workers -> Jobs]
  BY <1>1 DEF Saved, TypeOK
<1>3. saves' \in 0..MaxSaves
  BY StorePOAssumption DEF Saved, TypeOK
<1>. QED
  BY <1>2, <1>3 DEF Saved, TypeOK, Submitting

LEMMA InsertFacts ==
    ASSUME TypeOK, NEW w \in Workers, NEW l \in Lists, NEW s \in BOOLEAN, Insert(w, l, s)
    PROVE  /\ TypeOK'
           /\ Len(po) + 1 \in Nat /\ Len(po) + 1 \notin DOMAIN po
           /\ DOMAIN po' = DOMAIN po \cup {Len(po) + 1}
           /\ po'[Len(po) + 1] =
                  [list |-> l, api |-> 0, r_api |-> 0, old |-> FALSE, res |-> FALSE]
           /\ \A j \in DOMAIN po : po'[j] = po[j]
           /\ Saved(w, Len(po) + 1, l, s)
<1>. DEFINE r == [list |-> l, api |-> 0, r_api |-> 0, old |-> FALSE, res |-> FALSE]
<1>1. r \in Records /\ po \in Seq(Records) /\ po' = Append(po, r)
  BY DEF Records, TypeOK, Insert
<1>2. Saved(w, Len(po) + 1, l, s) /\ Len(po) < MaxPO
  BY DEF Insert
<1>. HIDE DEF r
<1>3. /\ po' \in Seq(Records) /\ Len(po') = Len(po) + 1
      /\ Len(po) \in Nat /\ Len(po) + 1 \notin DOMAIN po
      /\ DOMAIN po' = DOMAIN po \cup {Len(po) + 1} /\ po'[Len(po) + 1] = r
      /\ \A j \in DOMAIN po : po'[j] = po[j]
  BY <1>1, Appended
<1>4. TypeOK'
  <2>1. Len(po) + 1 \in Nat /\ Len(po') <= MaxPO
    BY <1>2, <1>3, StorePOAssumption DEF TypeOK
  <2>2. /\ job' \in [Workers -> Jobs] /\ saves' \in 0..MaxSaves /\ crossed' \subseteq Nat
        /\ UNCHANGED <<req, svc, ends, placed>>
    BY <1>2, <2>1, SavedFacts
  <2>. QED
    BY <1>3, <2>1, <2>2 DEF TypeOK
<1>. QED
  BY <1>2, <1>3, <1>4 DEF r

LEMMA UpdateFacts ==
    ASSUME TypeOK, NEW w \in Workers, NEW id \in DOMAIN po, NEW l \in Lists, NEW s \in BOOLEAN,
           Update(w, id, l, s)
    PROVE  /\ TypeOK'
           /\ id \in Nat /\ DOMAIN po' = DOMAIN po
           /\ po'[id].list = l /\ po'[id].api = po[id].api /\ po'[id].r_api = po[id].r_api
           /\ \A j \in DOMAIN po : j # id => po'[j] = po[j]
           /\ po[id].api \in {0, -1} /\ po[id].r_api = 0
           /\ Saved(w, id, l, s)
<1>. DEFINE r == [po[id] EXCEPT !.list = l, !.old = FALSE]
<1>1. po \in Seq(Records) /\ id \in Nat /\ po[id] \in Records
  BY LenProperties DEF TypeOK
<1>2. /\ r \in Records /\ r.list = l /\ r.api = po[id].api /\ r.r_api = po[id].r_api
  BY <1>1 DEF Records
<1>3. po' = [po EXCEPT ![id] = r]
  BY <1>1 DEF Update, Records
<1>. HIDE DEF r
<1>4. /\ po' \in Seq(Records) /\ Len(po') = Len(po) /\ DOMAIN po' = DOMAIN po
      /\ po'[id] = r /\ \A j \in DOMAIN po : j # id => po'[j] = po[j]
  BY <1>1, <1>2, <1>3, Replaced
<1>5. Saved(w, id, l, s) /\ po[id].api \in {0, -1} /\ po[id].r_api = 0
  BY DEF Update, MaySave
<1>6. TypeOK'
  <2>1. /\ job' \in [Workers -> Jobs] /\ saves' \in 0..MaxSaves /\ crossed' \subseteq Nat
        /\ UNCHANGED <<req, svc, ends, placed>>
    BY <1>1, <1>5, SavedFacts
  <2>. QED
    BY <1>4, <2>1 DEF TypeOK
<1>. QED
  BY <1>1, <1>2, <1>4, <1>5, <1>6

\* A claim is refused, or the worker becomes the owner.
LEMMA ClaimFacts ==
    ASSUME TypeOK, Known, NEW w \in Workers, Claim(w)
    PROVE  /\ TypeOK'
           /\ job[w] # Idle /\ job[w].id \in DOMAIN po /\ job[w].pc = "claim"
           /\ \A v \in Workers : v # w => job'[v] = job[v]
           /\ UNCHANGED <<req, svc, ends, placed, crossed>>
           /\ \/ job'[w] = Idle /\ po' = po
              \/ /\ job'[w] = [pc |-> "remote", id |-> job[w].id, list |-> job[w].list]
                 /\ po[job[w].id].api = 0 /\ po[job[w].id].r_api = 0
                 /\ DOMAIN po' = DOMAIN po
                 /\ po'[job[w].id].api = -1
                 /\ po'[job[w].id].r_api = 0 /\ po'[job[w].id].list = po[job[w].id].list
                 /\ \A j \in DOMAIN po : j # job[w].id => po'[j] = po[j]
<1>. DEFINE id == job[w].id  r == [po[id] EXCEPT !.api = -1]
<1>0. job \in [Workers -> Jobs] /\ po \in Seq(Records)
  BY DEF TypeOK
<1>1. /\ job[w].pc = "claim" /\ job[w] # Idle /\ id \in DOMAIN po /\ id \in Nat
      /\ job[w] = [pc |-> "claim", id |-> id, list |-> job[w].list] /\ job[w].list \in Lists
  BY JobKinds DEF Claim, Known
<1>2. /\ [pc |-> "remote", id |-> id, list |-> job[w].list] \in Jobs /\ Idle \in Jobs
      /\ [job[w] EXCEPT !.pc = "remote"] = [pc |-> "remote", id |-> id, list |-> job[w].list]
  BY <1>1 DEF Jobs
<1>3. po[id] \in Records
  BY <1>0, <1>1, LenProperties
<1>4. r \in Records /\ r.api = -1 /\ r.list = po[id].list /\ r.r_api = po[id].r_api
  BY <1>3 DEF Records
<1>5. UNCHANGED <<req, svc, saves, ends, placed, crossed>>
  BY DEF Claim
<1>6. CASE Changes(po[id])
  <2>1. po' = [po EXCEPT ![id] = r] /\ job' = [job EXCEPT ![w] = [job[w] EXCEPT !.pc = "remote"]]
    BY <1>0, <1>3, <1>6 DEF Claim
  <2>2. po[id].api = 0 /\ po[id].r_api = 0
    BY <1>6 DEF Changes
  <2>. HIDE DEF r, id
  <2>3. /\ po' \in Seq(Records) /\ Len(po') = Len(po) /\ DOMAIN po' = DOMAIN po
        /\ po'[id] = r /\ \A j \in DOMAIN po : j # id => po'[j] = po[j]
    BY <1>0, <1>1, <1>4, <2>1, Replaced
  <2>4. /\ job' \in [Workers -> Jobs] /\ \A v \in Workers : v # w => job'[v] = job[v]
        /\ job'[w] = [pc |-> "remote", id |-> id, list |-> job[w].list]
    BY <1>0, <1>2, <2>1
  <2>5. TypeOK'
    BY <1>5, <2>3, <2>4 DEF TypeOK
  <2>. QED
    BY <1>1, <1>4, <1>5, <2>2, <2>3, <2>4, <2>5 DEF id
<1>7. CASE ~Changes(po[id])
  <2>1. po' = po /\ job' = [job EXCEPT ![w] = Idle]
    BY <1>7 DEF Claim
  <2>2. /\ job' \in [Workers -> Jobs] /\ \A v \in Workers : v # w => job'[v] = job[v]
        /\ job'[w] = Idle
    BY <1>0, <1>2, <2>1
  <2>. QED
    BY <1>1, <1>5, <2>1, <2>2 DEF TypeOK
<1>. QED
  BY <1>6, <1>7

\* A request of the worker is appended; POS has not seen it.
LEMMA AddReqFacts ==
    ASSUME TypeOK, Counted, NEW side \in Sides, NEW w \in Workers,
           job[w].id \in Nat, job[w].list \in Lists, AddReq(side, w),
           UNCHANGED <<svc, ends>>
    PROVE  /\ req' \in [Sides -> Seq(Requests)] /\ placed' \in [Sides -> Seq(Nat)]
           /\ Len(req[side]) + 1 \in Nat /\ Len(req[side]) + 1 \notin DOMAIN req[side]
           /\ DOMAIN req'[side] = DOMAIN req[side] \cup {Len(req[side]) + 1}
           /\ req'[side][Len(req[side]) + 1] =
                  [ref |-> job[w].id, list |-> job[w].list, state |-> 1]
           /\ \A k \in DOMAIN req[side] : req'[side][k] = req[side][k]
           /\ \A other \in Sides : other # side => req'[other] = req[other]
           /\ Counted'
<1>. DEFINE r == [ref |-> job[w].id, list |-> job[w].list, state |-> 1]
            n == Len(req[side])
<1>1. /\ req \in [Sides -> Seq(Requests)] /\ placed \in [Sides -> Seq(Nat)]
      /\ req[side] \in Seq(Requests) /\ placed[side] \in Seq(Nat) /\ 0 \in Nat
      /\ ends \in Nat /\ svc \in [Sides -> Nat]
  BY StorePOAssumption DEF TypeOK
<1>2. r \in Requests /\ r.state = 1
  BY DEF Requests
<1>3. /\ req' = [req EXCEPT ![side] = Append(req[side], r)]
      /\ placed' = [placed EXCEPT ![side] = Append(placed[side], 0)]
  BY <1>1 DEF AddReq
<1>. HIDE DEF r
<1>4. /\ Append(req[side], r) \in Seq(Requests) /\ Len(Append(req[side], r)) = n + 1
      /\ n \in Nat /\ n + 1 \notin DOMAIN req[side]
      /\ DOMAIN Append(req[side], r) = DOMAIN req[side] \cup {n + 1}
      /\ Append(req[side], r)[n + 1] = r
      /\ \A j \in DOMAIN req[side] : Append(req[side], r)[j] = req[side][j]
  BY <1>1, <1>2, Appended
<1>5. /\ Append(placed[side], 0) \in Seq(Nat) /\ Len(Append(placed[side], 0)) = n + 1
      /\ Append(placed[side], 0)[n + 1] = 0
      /\ \A j \in DOMAIN req[side] : Append(placed[side], 0)[j] = placed[side][j]
  <2>1. Len(placed[side]) = n /\ DOMAIN placed[side] = DOMAIN req[side]
    BY <1>1, LenProperties DEF Counted
  <2>2. /\ Append(placed[side], 0) \in Seq(Nat)
        /\ Len(Append(placed[side], 0)) = Len(placed[side]) + 1
        /\ Append(placed[side], 0)[Len(placed[side]) + 1] = 0
        /\ \A j \in DOMAIN placed[side] : Append(placed[side], 0)[j] = placed[side][j]
    BY <1>1, Appended
  <2>. QED
    BY <2>1, <2>2
<1>6. /\ req' \in [Sides -> Seq(Requests)] /\ placed' \in [Sides -> Seq(Nat)]
      /\ req'[side] = Append(req[side], r) /\ placed'[side] = Append(placed[side], 0)
      /\ \A other \in Sides : other # side =>
             req'[other] = req[other] /\ placed'[other] = placed[other]
  BY <1>1, <1>3, <1>4, <1>5
<1>7. Counted'
  <2>. SUFFICES ASSUME NEW s \in Sides
                PROVE  /\ Len(placed'[s]) = Len(req'[s])
                       /\ svc[s] # 0 =>
                              svc[s] \in DOMAIN req'[s] /\ req'[s][svc[s]].state = 1
                       /\ \A k \in DOMAIN req'[s] : placed'[s][k] <=
                              IF req'[s][k].state = 2 \/ svc[s] = k THEN ends + 1 ELSE ends
    BY DEF Counted
  <2>1. /\ Len(placed[s]) = Len(req[s])
        /\ svc[s] # 0 => svc[s] \in DOMAIN req[s] /\ req[s][svc[s]].state = 1
        /\ \A k \in DOMAIN req[s] : placed[s][k] <=
               IF req[s][k].state = 2 \/ svc[s] = k THEN ends + 1 ELSE ends
    BY DEF Counted
  <2>2. CASE s = side
    <3>1. /\ Len(placed'[s]) = Len(req'[s])
          /\ svc[s] # 0 => svc[s] \in DOMAIN req'[s] /\ req'[s][svc[s]].state = 1
      <4>. DEFINE k == svc[s]
      <4>1. Len(placed'[s]) = Len(req'[s])
        BY <1>4, <1>5, <1>6, <2>2
      <4>2. k # 0 => k \in DOMAIN req[s] /\ req[s][k].state = 1
        BY <2>1
      <4>. HIDE DEF k
      <4>3. k \in DOMAIN req[s] => k \in DOMAIN req'[s] /\ req'[s][k] = req[s][k]
        BY <1>4, <1>6, <2>2
      <4>. QED
        BY <4>1, <4>2, <4>3 DEF k
    <3>2. ASSUME NEW k \in DOMAIN req[s]
          PROVE  placed'[s][k] <= IF req'[s][k].state = 2 \/ svc[s] = k THEN ends + 1 ELSE ends
      <4>1. placed'[s][k] = placed[s][k] /\ req'[s][k] = req[s][k]
        BY <1>4, <1>5, <1>6, <2>2
      <4>. QED
        BY <2>1, <4>1
    <3>3. placed'[s][n + 1] <= ends /\ placed'[s][n + 1] <= ends + 1
      BY <1>1, <1>5, <1>6, <2>2
    <3>4. DOMAIN req'[s] = DOMAIN req[s] \cup {n + 1}
      BY <1>4, <1>6, <2>2
    <3>. QED
      BY <3>1, <3>2, <3>3, <3>4
  <2>3. CASE s # side
    BY <1>6, <2>1, <2>3
  <2>. QED
    BY <2>2, <2>3
<1>. QED
  BY <1>4, <1>6, <1>7 DEF r

LEMMA RemoteFacts ==
    ASSUME TypeOK, Counted, Known, NEW w \in Workers, Remote(w)
    PROVE  /\ TypeOK' /\ AddReq("new_so", w) /\ UNCHANGED <<po, svc, ends, crossed>>
           /\ Owner(w) /\ job[w] # Idle /\ job[w].pc = "remote"
           /\ job[w].id \in DOMAIN po /\ job[w].id \in Nat /\ job[w].list \in Lists
           /\ \A v \in Workers : v # w => job'[v] = job[v]
           /\ job'[w] \in {Idle, [pc |-> "local", id |-> job[w].id, list |-> job[w].list,
                                  r_rid |-> Len(req["new_so"]) + 1]}
<1>. DEFINE j == [pc |-> "local", id |-> job[w].id, list |-> job[w].list,
                  r_rid |-> Len(req["new_so"]) + 1]
<1>1. /\ job[w].pc = "remote" /\ Owner(w) /\ job[w] # Idle /\ job[w].id \in DOMAIN po
      /\ job[w].id \in Nat /\ job[w].list \in Lists /\ job \in [Workers -> Jobs]
  BY JobKinds DEF Remote, Owner, Known, TypeOK
<1>2. AddReq("new_so", w) /\ UNCHANGED <<po, svc, saves, ends, crossed>> /\ "new_so" \in Sides
  BY DEF Remote, Sides
<1>3. /\ req' \in [Sides -> Seq(Requests)] /\ placed' \in [Sides -> Seq(Nat)]
      /\ Len(req["new_so"]) + 1 \in Nat
  BY <1>1, <1>2, AddReqFacts
<1>4. j \in Jobs /\ Idle \in Jobs
  BY <1>1, <1>3 DEF Jobs
<1>5. job' = [job EXCEPT ![w] = j] \/ job' = [job EXCEPT ![w] = Idle]
  BY <1>1 DEF Remote
<1>. HIDE DEF j
<1>6. /\ job' \in [Workers -> Jobs] /\ job'[w] \in {Idle, j}
      /\ \A v \in Workers : v # w => job'[v] = job[v]
  BY <1>1, <1>4, <1>5
<1>7. TypeOK'
  BY <1>2, <1>3, <1>6 DEF TypeOK
<1>. QED
  BY <1>1, <1>2, <1>6, <1>7 DEF j

LEMMA LocalFacts ==
    ASSUME TypeOK, Counted, Known, NEW w \in Workers, Local(w)
    PROVE  /\ TypeOK' /\ AddReq("new_po", w) /\ UNCHANGED <<po, svc, ends, crossed>>
           /\ Owner(w) /\ job[w] # Idle /\ job[w].pc = "local"
           /\ job[w].id \in DOMAIN po /\ job[w].id \in Nat /\ job[w].list \in Lists
           /\ \A v \in Workers : v # w => job'[v] = job[v]
           /\ job'[w] = [pc |-> "link", id |-> job[w].id, r_rid |-> job[w].r_rid,
                         rid |-> Len(req["new_po"]) + 1]
<1>. DEFINE j == [pc |-> "link", id |-> job[w].id, r_rid |-> job[w].r_rid,
                  rid |-> Len(req["new_po"]) + 1]
<1>1. /\ job[w].pc = "local" /\ Owner(w) /\ job[w] # Idle /\ job[w].id \in DOMAIN po
      /\ job[w].id \in Nat /\ job[w].list \in Lists /\ job[w].r_rid \in Nat
      /\ job \in [Workers -> Jobs]
  BY JobKinds DEF Local, Owner, Known, TypeOK
<1>2. AddReq("new_po", w) /\ UNCHANGED <<po, svc, saves, ends, crossed>> /\ "new_po" \in Sides
  BY DEF Local, Sides
<1>3. /\ req' \in [Sides -> Seq(Requests)] /\ placed' \in [Sides -> Seq(Nat)]
      /\ Len(req["new_po"]) + 1 \in Nat
  BY <1>1, <1>2, AddReqFacts
<1>4. j \in Jobs
  BY <1>1, <1>3 DEF Jobs
<1>5. job' = [job EXCEPT ![w] = j]
  BY <1>1 DEF Local
<1>. HIDE DEF j
<1>6. /\ job' \in [Workers -> Jobs] /\ job'[w] = j
      /\ \A v \in Workers : v # w => job'[v] = job[v]
  BY <1>1, <1>4, <1>5
<1>7. TypeOK'
  BY <1>2, <1>3, <1>6 DEF TypeOK
<1>. QED
  BY <1>1, <1>2, <1>6, <1>7 DEF j

LEMMA LinkFacts ==
    ASSUME TypeOK, Known, NEW w \in Workers, Link(w)
    PROVE  /\ TypeOK' /\ UNCHANGED <<req, svc, ends, placed, crossed>>
           /\ job[w].pc = "link" /\ job[w] # Idle /\ Owner(w) /\ job[w].id \in DOMAIN po
           /\ job'[w] = Idle /\ \A v \in Workers : v # w => job'[v] = job[v]
           /\ DOMAIN po' = DOMAIN po
           /\ po'[job[w].id].api = job[w].rid /\ po'[job[w].id].r_api = job[w].r_rid
           /\ po'[job[w].id].list = po[job[w].id].list
           /\ \A i \in DOMAIN po : i # job[w].id => po'[i] = po[i]
<1>. DEFINE id == job[w].id  a == job[w].rid  b == job[w].r_rid
            r == [po[id] EXCEPT !.api = a, !.r_api = b]
<1>1. /\ job[w].pc = "link" /\ Owner(w) /\ job[w] # Idle /\ id \in DOMAIN po
      /\ b \in Nat /\ a \in Int /\ job \in [Workers -> Jobs]
      /\ po \in Seq(Records) /\ Idle \in Jobs
  BY JobKinds DEF Link, Owner, Known, TypeOK, Jobs
<1>2. po[id] \in Records
  BY <1>1, LenProperties
<1>3. po' = [po EXCEPT ![id] = r] /\ job' = [job EXCEPT ![w] = Idle]
  BY <1>1, <1>2 DEF Link, Records
<1>4. /\ r \in Records /\ r.api = a /\ r.r_api = b /\ r.list = po[id].list
  <2>. HIDE DEF a, b, id
  <2>. QED
    BY <1>1, <1>2 DEF Records
<1>5. UNCHANGED <<req, svc, saves, ends, placed, crossed>>
  BY DEF Link
<1>. HIDE DEF r, id
<1>6. /\ po' \in Seq(Records) /\ Len(po') = Len(po) /\ DOMAIN po' = DOMAIN po
      /\ po'[id] = r /\ \A i \in DOMAIN po : i # id => po'[i] = po[i]
  BY <1>1, <1>3, <1>4, Replaced
<1>7. /\ job' \in [Workers -> Jobs] /\ job'[w] = Idle
      /\ \A v \in Workers : v # w => job'[v] = job[v]
  BY <1>1, <1>3
<1>8. TypeOK'
  BY <1>5, <1>6, <1>7 DEF TypeOK
<1>. QED
  BY <1>1, <1>4, <1>5, <1>6, <1>7, <1>8 DEF id

\* A worker that dies, time that passes, a result that is fetched: records keep
\* what the invariant is about.
LEMMA QuietFacts ==
    ASSUME TypeOK,
           \/ \E w \in Workers : Die(w)
           \/ \E id \in DOMAIN po : Age(id) \/ FetchResult(id)
    PROVE  /\ TypeOK' /\ UNCHANGED <<req, svc, ends, placed, crossed>>
           /\ DOMAIN po' = DOMAIN po
           /\ \A j \in DOMAIN po : /\ po'[j].api = po[j].api /\ po'[j].r_api = po[j].r_api
                                   /\ po'[j].list = po[j].list
           /\ \A v \in Workers : job'[v] \in {job[v], Idle}
<1>1. po \in Seq(Records) /\ job \in [Workers -> Jobs] /\ Idle \in Jobs
  BY DEF TypeOK, Jobs
<1>2. ASSUME NEW w \in Workers, Die(w)
      PROVE  /\ UNCHANGED <<po, req, svc, saves, ends, placed, crossed>>
             /\ job' \in [Workers -> Jobs] /\ \A v \in Workers : job'[v] \in {job[v], Idle}
  BY <1>1, <1>2 DEF Die
<1>3. ASSUME NEW id \in DOMAIN po, Age(id) \/ FetchResult(id)
      PROVE  /\ UNCHANGED <<job, req, svc, saves, ends, placed, crossed>>
             /\ po' \in Seq(Records) /\ Len(po') = Len(po) /\ DOMAIN po' = DOMAIN po
             /\ \A j \in DOMAIN po : /\ po'[j].api = po[j].api /\ po'[j].r_api = po[j].r_api
                                     /\ po'[j].list = po[j].list
  <2>1. po[id] \in Records
    BY <1>1, LenProperties
  <2>2. PICK r \in Records : /\ po' = [po EXCEPT ![id] = r]
                             /\ r.api = po[id].api /\ r.r_api = po[id].r_api
                             /\ r.list = po[id].list
    <3>. DEFINE a == [po[id] EXCEPT !.old = TRUE]  f == [po[id] EXCEPT !.res = TRUE]
    <3>1. /\ a \in Records /\ a.api = po[id].api /\ a.r_api = po[id].r_api
          /\ a.list = po[id].list
          /\ f \in Records /\ f.api = po[id].api /\ f.r_api = po[id].r_api
          /\ f.list = po[id].list
      BY <2>1 DEF Records
    <3>2. po' = [po EXCEPT ![id] = a] \/ po' = [po EXCEPT ![id] = f]
      BY <1>1, <1>3, <2>1 DEF Age, FetchResult
    <3>. HIDE DEF a, f
    <3>. QED
      BY <3>1, <3>2
  <2>3. /\ po' \in Seq(Records) /\ Len(po') = Len(po) /\ DOMAIN po' = DOMAIN po
        /\ po'[id] = r /\ \A j \in DOMAIN po : j # id => po'[j] = po[j]
    BY <1>1, <2>2, Replaced
  <2>. QED
    BY <1>3, <2>2, <2>3 DEF Age, FetchResult
<1>4. CASE \E w \in Workers : Die(w)
  BY <1>2, <1>4 DEF TypeOK
<1>5. CASE \E id \in DOMAIN po : Age(id) \/ FetchResult(id)
  BY <1>3, <1>5 DEF TypeOK
<1>. QED
  BY <1>4, <1>5

\* The service changes the state of a request at most.
LEMMA ServiceFacts ==
    ASSUME TypeOK, Counted, NEW side \in Sides,
           (\E id \in DOMAIN req[side] : Order(side, id)) \/ Answer(side) \/ End(side)
    PROVE  /\ TypeOK' /\ Counted' /\ UNCHANGED <<po, job, crossed>>
           /\ \A s \in Sides : /\ DOMAIN req'[s] = DOMAIN req[s]
                               /\ \A k \in DOMAIN req[s] : /\ req'[s][k].ref = req[s][k].ref
                                                           /\ req'[s][k].list = req[s][k].list
<1>1. /\ req \in [Sides -> Seq(Requests)] /\ placed \in [Sides -> Seq(Nat)]
      /\ \A s \in Sides : req[s] \in Seq(Requests) /\ placed[s] \in Seq(Nat)
      /\ ends \in Nat /\ svc \in [Sides -> Nat]
  BY StorePOAssumption DEF TypeOK
<1>2. \A s \in Sides : /\ Len(placed[s]) = Len(req[s]) /\ DOMAIN placed[s] = DOMAIN req[s]
                       /\ svc[s] # 0 => svc[s] \in DOMAIN req[s] /\ req[s][svc[s]].state = 1
                       /\ \A k \in DOMAIN req[s] : /\ k \in Nat \ {0} /\ req[s][k] \in Requests
                                                   /\ placed[s][k] \in Nat
                       /\ \A k \in DOMAIN req[s] : placed[s][k] <=
                              IF req[s][k].state = 2 \/ svc[s] = k THEN ends + 1 ELSE ends
  BY <1>1, LenProperties DEF Counted
<1>3. ASSUME NEW id \in DOMAIN req[side], Order(side, id)
      PROVE  TypeOK' /\ Counted' /\ UNCHANGED <<po, req, job, crossed>>
  <2>1. /\ svc[side] = 0 /\ req[side][id].state = 1 /\ svc' = [svc EXCEPT ![side] = id]
        /\ UNCHANGED <<po, req, job, saves, ends, crossed>>
    BY <1>3 DEF Order
  <2>2. svc' \in [Sides -> Nat]
    BY <1>1, <1>2, <2>1
  <2>3. /\ placed' \in [Sides -> Seq(Nat)]
        /\ \A s \in Sides : /\ Len(placed'[s]) = Len(placed[s])
                            /\ \A k \in DOMAIN placed[s] : s # side \/ k # id =>
                                   placed'[s][k] = placed[s][k]
        /\ placed'[side][id] <= ends + 1
    <3>1. placed[side][id] \in Nat /\ placed[side][id] <= ends
      BY <1>2, <2>1
    <3>2. CASE placed' = placed
      BY <1>1, <3>1, <3>2
    <3>3. CASE placed' = [placed EXCEPT ![side][id] = @ + 1]
      <4>. DEFINE n == placed[side][id] + 1  t == [placed[side] EXCEPT ![id] = n]
      <4>1. n \in Nat /\ n <= ends + 1
        BY <1>1, <3>1
      <4>2. placed' = [placed EXCEPT ![side] = t]
        BY <1>1, <3>3
      <4>. HIDE DEF n
      <4>3. /\ t \in Seq(Nat) /\ Len(t) = Len(placed[side]) /\ t[id] = n
            /\ \A k \in DOMAIN placed[side] : k # id => t[k] = placed[side][k]
        BY <1>1, <1>2, <4>1, Replaced
      <4>. HIDE DEF t
      <4>. QED
        BY <1>1, <4>1, <4>2, <4>3
    <3>. QED
      BY <1>3, <3>2, <3>3 DEF Order
  <2>4. ASSUME NEW s \in Sides
        PROVE  /\ Len(placed'[s]) = Len(req'[s])
               /\ svc'[s] # 0 => svc'[s] \in DOMAIN req'[s] /\ req'[s][svc'[s]].state = 1
    BY <1>1, <1>2, <2>1, <2>3
  <2>5. ASSUME NEW s \in Sides, NEW k \in DOMAIN req'[s]
        PROVE  placed'[s][k] <=
                   IF req'[s][k].state = 2 \/ svc'[s] = k THEN ends' + 1 ELSE ends'
    <3>1. /\ req' = req /\ ends' = ends /\ k \in DOMAIN placed[s]
          /\ s # side => svc'[s] = svc[s]
          /\ svc'[side] = id
      BY <1>1, <1>2, <2>1
    <3>2. CASE s = side /\ k = id
      BY <2>3, <3>1, <3>2
    <3>3. CASE ~(s = side /\ k = id)
      <4>1. placed'[s][k] = placed[s][k] /\ (svc[s] = k => svc'[s] = k)
        BY <1>2, <2>1, <2>3, <3>1, <3>3
      <4>2. placed[s][k] <= IF req[s][k].state = 2 \/ svc[s] = k THEN ends + 1 ELSE ends
        BY <1>2, <3>1
      <4>. QED
        BY <1>1, <1>2, <3>1, <4>1, <4>2
    <3>. QED
      BY <3>2, <3>3
  <2>. QED
    BY <2>1, <2>2, <2>3, <2>4, <2>5 DEF TypeOK, Counted
<1>4. ASSUME Answer(side)
      PROVE  /\ TypeOK' /\ Counted' /\ UNCHANGED <<po, job, crossed>>
             /\ \A s \in Sides : /\ DOMAIN req'[s] = DOMAIN req[s]
                                 /\ \A k \in DOMAIN req[s] : /\ req'[s][k].ref = req[s][k].ref
                                                             /\ req'[s][k].list = req[s][k].list
  <2>. DEFINE id == svc[side]  r == [req[side][id] EXCEPT !.state = 2]
              t == [req[side] EXCEPT ![id] = r]
  <2>1. /\ id # 0 /\ id \in DOMAIN req[side] /\ req[side][id] \in Requests
        /\ svc' = [svc EXCEPT ![side] = 0]
        /\ UNCHANGED <<po, job, saves, ends, placed, crossed>>
    BY <1>2, <1>4 DEF Answer
  <2>2. r \in Requests /\ r.ref = req[side][id].ref /\ r.list = req[side][id].list /\ r.state = 2
    <3>1. 2 \in 1..2
      OBVIOUS
    <3>. QED
      BY <2>1, <3>1 DEF Requests
  <2>3. req' = [req EXCEPT ![side] = t]
    BY <1>1, <1>4, <2>1 DEF Answer
  <2>. HIDE DEF r, id
  <2>4. /\ t \in Seq(Requests) /\ Len(t) = Len(req[side]) /\ DOMAIN t = DOMAIN req[side]
        /\ t[id] = r /\ \A k \in DOMAIN req[side] : k # id => t[k] = req[side][k]
    BY <1>1, <2>1, <2>2, Replaced
  <2>. HIDE DEF t
  <2>5. /\ req' \in [Sides -> Seq(Requests)] /\ svc' \in [Sides -> Nat]
        /\ req'[side] = t /\ svc'[side] = 0
        /\ \A s \in Sides : s # side => req'[s] = req[s] /\ svc'[s] = svc[s]
    BY <1>1, <2>1, <2>3, <2>4
  <2>6. ASSUME NEW s \in Sides
        PROVE  /\ Len(placed'[s]) = Len(req'[s])
               /\ svc'[s] # 0 => svc'[s] \in DOMAIN req'[s] /\ req'[s][svc'[s]].state = 1
    BY <1>2, <2>1, <2>4, <2>5
  <2>7. ASSUME NEW s \in Sides, NEW k \in DOMAIN req'[s]
        PROVE  placed'[s][k] <=
                   IF req'[s][k].state = 2 \/ svc'[s] = k THEN ends' + 1 ELSE ends'
    <3>1. /\ k \in DOMAIN req[s] /\ placed'[s][k] = placed[s][k] /\ ends' = ends
          /\ placed[s][k] <= IF req[s][k].state = 2 \/ svc[s] = k THEN ends + 1 ELSE ends
          /\ placed[s][k] \in Nat
      BY <1>2, <2>1, <2>4, <2>5
    <3>2. CASE s = side /\ k = id
      BY <1>1, <2>2, <2>4, <2>5, <3>1, <3>2
    <3>3. CASE ~(s = side /\ k = id)
      <4>1. svc[s] = k => svc'[s] = k
        BY <2>1, <2>5, <3>1, <3>3 DEF id
      <4>2. req'[s][k] = req[s][k]
        BY <2>4, <2>5, <3>1, <3>3
      <4>. QED
        BY <1>1, <3>1, <4>1, <4>2
    <3>. QED
      BY <3>2, <3>3
  <2>8. ASSUME NEW s \in Sides
        PROVE  /\ DOMAIN req'[s] = DOMAIN req[s]
               /\ \A k \in DOMAIN req[s] : /\ req'[s][k].ref = req[s][k].ref
                                           /\ req'[s][k].list = req[s][k].list
    BY <2>2, <2>4, <2>5
  <2>. QED
    BY <2>1, <2>5, <2>6, <2>7, <2>8 DEF TypeOK, Counted
<1>5. ASSUME End(side)
      PROVE  TypeOK' /\ Counted' /\ UNCHANGED <<po, req, job, crossed>>
  <2>1. /\ svc' = [svc EXCEPT ![side] = 0] /\ ends' = ends + 1 /\ ends < MaxEnds
        /\ UNCHANGED <<po, req, job, saves, placed, crossed>>
    BY <1>5 DEF End
  <2>2. svc' \in [Sides -> Nat] /\ ends' \in 0..MaxEnds
    BY <1>1, <2>1, StorePOAssumption
  <2>3. ASSUME NEW s \in Sides
        PROVE  /\ Len(placed'[s]) = Len(req'[s])
               /\ svc'[s] # 0 => svc'[s] \in DOMAIN req'[s] /\ req'[s][svc'[s]].state = 1
    BY <1>1, <1>2, <2>1
  <2>4. ASSUME NEW s \in Sides, NEW k \in DOMAIN req'[s]
        PROVE  placed'[s][k] <=
                   IF req'[s][k].state = 2 \/ svc'[s] = k THEN ends' + 1 ELSE ends'
    BY <1>1, <1>2, <2>1
  <2>. QED
    BY <2>1, <2>2, <2>3, <2>4 DEF TypeOK, Counted
<1>. QED
  BY <1>3, <1>4, <1>5

----------------------------------------------------------------------------
(* The invariant is kept.                                                  *)

\* Steps that leave links, lists and requests alone.
LEMMA UnmovedKeeps ==
    ASSUME Owned, DOMAIN po' = DOMAIN po, crossed' = crossed,
           \A j \in DOMAIN po : /\ po'[j].api = po[j].api /\ po'[j].r_api = po[j].r_api
                                /\ po'[j].list = po[j].list,
           \A s \in Sides : /\ DOMAIN req'[s] = DOMAIN req[s]
                            /\ \A k \in DOMAIN req[s] : /\ req'[s][k].ref = req[s][k].ref
                                                        /\ req'[s][k].list = req[s][k].list,
           \A v \in Workers : job'[v] \in {job[v], Idle}
    PROVE  Owned'
<1>1. \A v \in Workers : job'[v] = job[v] \/ (job'[v] = Idle /\ job'[v].pc = "idle")
  BY DEF Idle
<1>2. "new_po" \in Sides /\ "new_so" \in Sides
  BY DEF Sides
<1>3. Known' /\ NotAsked' /\ AskedOnce'
  BY <1>1, <1>2 DEF Owned, Known, NotAsked, AskedOnce
<1>4. Claimed'
  BY <1>1 DEF Owned, Known, Claimed, Owner, Idle
<1>5. Phases'
  <2>1. ASSUME NEW w \in Workers, job'[w].pc = "remote"
        PROVE  \A side \in Sides : \A k \in DOMAIN req'[side] : req'[side][k].ref # job'[w].id
    BY <1>1, <2>1 DEF Owned, Phases
  <2>2. ASSUME NEW w \in Workers, job'[w].pc = "local"
        PROVE  /\ \A k \in DOMAIN req'["new_po"] : req'["new_po"][k].ref # job'[w].id
               /\ job'[w].r_rid \in DOMAIN req'["new_so"]
               /\ req'["new_so"][job'[w].r_rid].ref = job'[w].id
               /\ req'["new_so"][job'[w].r_rid].list = job'[w].list
    BY <1>1, <1>2, <2>2 DEF Owned, Phases
  <2>3. ASSUME NEW w \in Workers, job'[w].pc = "link"
        PROVE  /\ job'[w].rid \in DOMAIN req'["new_po"]
               /\ job'[w].r_rid \in DOMAIN req'["new_so"]
               /\ req'["new_po"][job'[w].rid].ref = job'[w].id
               /\ req'["new_so"][job'[w].r_rid].ref = job'[w].id
               /\ req'["new_po"][job'[w].rid].list = req'["new_so"][job'[w].r_rid].list
    <3>1. job'[w] = job[w]
      BY <1>1, <2>3
    <3>2. /\ job[w].rid \in DOMAIN req["new_po"] /\ job[w].r_rid \in DOMAIN req["new_so"]
          /\ req["new_po"][job[w].rid].ref = job[w].id
          /\ req["new_so"][job[w].r_rid].ref = job[w].id
          /\ req["new_po"][job[w].rid].list = req["new_so"][job[w].r_rid].list
      BY <2>3, <3>1 DEF Owned, Phases
    <3>. QED
      BY <1>2, <3>1, <3>2
  <2>. QED
    BY <2>1, <2>2, <2>3 DEF Phases
<1>6. Shown'
  <2>1. ASSUME NEW w \in Workers, job'[w].pc \in {"claim", "remote", "local"}
        PROVE  po'[job'[w].id].list = job'[w].list \/ job'[w].id \in crossed'
    <3>1. job'[w] = job[w] /\ job[w].id \in DOMAIN po
      BY <1>1, <2>1 DEF Owned, Known, Idle
    <3>. QED
      BY <2>1, <3>1 DEF Owned, Shown
  <2>2. ASSUME NEW w \in Workers, job'[w].pc = "link"
        PROVE  \/ po'[job'[w].id].list = req'["new_po"][job'[w].rid].list
               \/ job'[w].id \in crossed'
    <3>1. job'[w] = job[w] /\ job[w].id \in DOMAIN po /\ job[w].rid \in DOMAIN req["new_po"]
      BY <1>1, <2>2 DEF Owned, Known, Phases, Idle
    <3>. QED
      BY <1>2, <2>2, <3>1 DEF Owned, Shown
  <2>. QED
    BY <2>1, <2>2 DEF Shown
<1>7. Linked'
  BY <1>2 DEF Owned, Linked
<1>. QED
  BY <1>3, <1>4, <1>5, <1>6, <1>7 DEF Owned

LEMMA InsertKeeps ==
    ASSUME TypeOK, Owned, NEW w \in Workers, NEW l \in Lists, NEW s \in BOOLEAN, Insert(w, l, s)
    PROVE  Owned'
<1>. DEFINE id == Len(po) + 1
<1>0. /\ id \in Nat /\ id \notin DOMAIN po /\ DOMAIN po' = DOMAIN po \cup {id}
      /\ po'[id] = [list |-> l, api |-> 0, r_api |-> 0, old |-> FALSE, res |-> FALSE]
      /\ \A j \in DOMAIN po : po'[j] = po[j]
      /\ Saved(w, id, l, s)
  BY InsertFacts
<1>1. po'[id].list = l /\ po'[id].api = 0 /\ po'[id].r_api = 0
  BY <1>0
<1>. HIDE DEF id
<1>2. /\ job[w] = Idle
      /\ job'[w] = Idle \/ job'[w] = [pc |-> "claim", id |-> id, list |-> l]
      /\ \A v \in Workers : v # w => job'[v] = job[v]
      /\ crossed \subseteq crossed' /\ req' = req
  BY <1>0, SavedFacts
<1>3. /\ ~Owner(w)' /\ \A v \in Workers : Owner(v)' => Owner(v) /\ job'[v] = job[v]
      /\ job'[w].pc \in {"claim", "idle"}
  BY <1>2 DEF Owner, Idle
<1>4. \A v \in Workers : job[v] # Idle => job[v].id \in DOMAIN po
  BY DEF Owned, Known
<1>5. \A v \in Workers : Owner(v) => job[v] # Idle
  BY JobKinds
<1>6. Known'
  BY <1>0, <1>1, <1>2, <1>4 DEF Owned, Known
<1>7. Claimed'
  BY <1>0, <1>1, <1>2, <1>3, <1>4, <1>5 DEF Owned, Claimed
<1>8. NotAsked'
  BY <1>0, <1>1, <1>2 DEF Owned, Known, NotAsked
<1>9. Phases'
  BY <1>2, <1>3 DEF Owned, Phases
<1>10. Shown'
  BY <1>0, <1>1, <1>2, <1>3, <1>4 DEF Owned, Shown, Idle
<1>11. Linked'
  BY <1>0, <1>1, <1>2 DEF Owned, Linked
<1>12. AskedOnce'
  BY <1>2 DEF Owned, AskedOnce
<1>. QED
  BY <1>6, <1>7, <1>8, <1>9, <1>10, <1>11, <1>12 DEF Owned

LEMMA UpdateKeeps ==
    ASSUME TypeOK, Owned, NEW w \in Workers, NEW id \in DOMAIN po, NEW l \in Lists,
           NEW s \in BOOLEAN, Update(w, id, l, s)
    PROVE  Owned'
<1>1. /\ id \in Nat /\ DOMAIN po' = DOMAIN po
      /\ po'[id].list = l /\ po'[id].api = po[id].api /\ po'[id].r_api = po[id].r_api
      /\ \A j \in DOMAIN po : j # id => po'[j] = po[j]
      /\ po[id].r_api = 0
      /\ Saved(w, id, l, s)
  BY UpdateFacts
<1>2. /\ job[w] = Idle
      /\ job'[w] = Idle \/ job'[w] = [pc |-> "claim", id |-> id, list |-> l]
      /\ \A v \in Workers : v # w => job'[v] = job[v]
      /\ crossed \subseteq crossed' /\ req' = req
      /\ \A v \in Workers : job[v] # Idle /\ job[v].id = id => id \in crossed'
  BY <1>1, SavedFacts
<1>3. /\ ~Owner(w)' /\ \A v \in Workers : Owner(v)' => Owner(v) /\ job'[v] = job[v]
      /\ job'[w].pc \in {"claim", "idle"}
  BY <1>2 DEF Owner, Idle
<1>4. \A v \in Workers : job[v] # Idle => job[v].id \in DOMAIN po
  BY DEF Owned, Known
<1>5. \A v \in Workers : Owner(v) => job[v] # Idle
  BY JobKinds
<1>6. Known'
  BY <1>1, <1>2, <1>4 DEF Owned, Known
<1>7. Claimed'
  BY <1>1, <1>2, <1>3, <1>4, <1>5 DEF Owned, Claimed
<1>8. NotAsked'
  BY <1>1, <1>2 DEF Owned, NotAsked
<1>9. Phases'
  BY <1>2, <1>3 DEF Owned, Phases
<1>10. Shown'
  <2>. SUFFICES ASSUME NEW v \in Workers
                PROVE  /\ job'[v].pc \in {"claim", "remote", "local"} =>
                              po'[job'[v].id].list = job'[v].list \/ job'[v].id \in crossed'
                       /\ job'[v].pc = "link" =>
                              \/ po'[job'[v].id].list = req'["new_po"][job'[v].rid].list
                              \/ job'[v].id \in crossed'
    BY DEF Shown
  <2>1. CASE v = w
    BY <1>1, <1>2, <2>1 DEF Idle
  <2>2. CASE v # w
    <3>1. job[v].pc \in {"claim", "remote", "local", "link"} => job[v] # Idle
      BY DEF Idle
    <3>. QED
      BY <1>1, <1>2, <1>4, <2>2, <3>1 DEF Owned, Shown
  <2>. QED
    BY <2>1, <2>2
<1>11. Linked'
  BY <1>1, <1>2 DEF Owned, Linked
<1>12. AskedOnce'
  BY <1>2 DEF Owned, AskedOnce
<1>. QED
  BY <1>6, <1>7, <1>8, <1>9, <1>10, <1>11, <1>12 DEF Owned

LEMMA ClaimKeeps ==
    ASSUME TypeOK, Owned, NEW w \in Workers, Claim(w)
    PROVE  Owned'
<1>. DEFINE id == job[w].id
<1>1. /\ job[w] # Idle /\ id \in DOMAIN po /\ job[w].pc = "claim"
      /\ \A v \in Workers : v # w => job'[v] = job[v]
      /\ UNCHANGED <<req, crossed>>
      /\ \/ job'[w] = Idle /\ po' = po
         \/ /\ job'[w] = [pc |-> "remote", id |-> id, list |-> job[w].list]
            /\ po[id].api = 0 /\ po[id].r_api = 0 /\ DOMAIN po' = DOMAIN po
            /\ po'[id].api = -1 /\ po'[id].r_api = 0 /\ po'[id].list = po[id].list
            /\ \A j \in DOMAIN po : j # id => po'[j] = po[j]
  BY ClaimFacts DEF Owned
<1>2. CASE job'[w] = Idle /\ po' = po
  BY <1>1, <1>2, UnmovedKeeps
<1>3. CASE ~(job'[w] = Idle /\ po' = po)
  <2>1. /\ job'[w] = [pc |-> "remote", id |-> id, list |-> job[w].list]
        /\ po[id].api = 0 /\ po[id].r_api = 0 /\ DOMAIN po' = DOMAIN po
        /\ po'[id].api = -1 /\ po'[id].r_api = 0 /\ po'[id].list = po[id].list
        /\ \A j \in DOMAIN po : j # id => po'[j] = po[j]
    BY <1>1, <1>3
  <2>2. /\ \A v \in Workers : job[v] # Idle => job[v].id \in DOMAIN po
        /\ \A v \in Workers : Owner(v) => job[v] # Idle
    BY JobKinds DEF Owned, Known
  <2>3. \A v \in Workers : Owner(v) => job[v].id # id
    BY <2>1 DEF Owned, Claimed
  <2>4. /\ job'[w].pc = "remote" /\ job'[w].id = id /\ job'[w].list = job[w].list
        /\ job'[w] # Idle
        /\ \A v \in Workers : v # w /\ Owner(v)' => Owner(v) /\ job'[v] = job[v]
    BY <1>1, <2>1 DEF Owner, Idle
  <2>. HIDE DEF id
  <2>5. Known'
    BY <1>1, <2>1, <2>2, <2>4 DEF Owned, Known
  <2>6. Claimed'
    BY <1>1, <2>1, <2>2, <2>3, <2>4 DEF Owned, Claimed
  <2>7. NotAsked'
    BY <1>1, <2>1 DEF Owned, NotAsked
  <2>8. Phases'
    <3>1. \A side \in Sides : \A k \in DOMAIN req[side] : req[side][k].ref # id
      BY <1>1, <2>1 DEF Owned, NotAsked
    <3>. QED
      BY <1>1, <2>4, <3>1 DEF Owned, Phases
  <2>9. Shown'
    <3>1. \A v \in Workers : job[v].pc \in {"claim", "remote", "local", "link"} => job[v] # Idle
      BY DEF Idle
    <3>2. \A v \in Workers : job[v].pc \in {"claim", "remote", "local", "link"} =>
              po'[job[v].id].list = po[job[v].id].list
      BY <2>1, <2>2, <3>1
    <3>. QED
      BY <1>1, <2>4, <3>2 DEF Owned, Shown, id
  <2>10. Linked'
    BY <1>1, <2>1 DEF Owned, Linked
  <2>11. AskedOnce'
    BY <1>1 DEF Owned, AskedOnce
  <2>. QED
    BY <2>5, <2>6, <2>7, <2>8, <2>9, <2>10, <2>11 DEF Owned
<1>. QED
  BY <1>2, <1>3

\* What an owner knows of the others, before it adds a request.
LEMMA OwnerFacts ==
    ASSUME TypeOK, Owned, NEW w \in Workers, Owner(w)
    PROVE  /\ job[w] # Idle /\ job[w].id \in DOMAIN po
           /\ po[job[w].id].api = -1 /\ po[job[w].id].r_api = 0
           /\ \A v \in Workers : v # w /\ Owner(v) => job[v].id # job[w].id
           /\ \A v \in Workers : job[v] # Idle => job[v].id \in DOMAIN po
           /\ \A v \in Workers : Owner(v) => job[v] # Idle
<1>1. \A v \in Workers : Owner(v) => job[v] # Idle
  BY JobKinds
<1>2. \A v \in Workers : job[v] # Idle => job[v].id \in DOMAIN po
  BY DEF Owned, Known
<1>. QED
  BY <1>1, <1>2 DEF Owned, Claimed

LEMMA RemoteKeeps ==
    ASSUME TypeOK, Owned, Counted, NEW w \in Workers, Remote(w)
    PROVE  Owned'
<1>. DEFINE id == job[w].id  n == Len(req["new_so"]) + 1
            so == req["new_so"]
<1>1. /\ AddReq("new_so", w) /\ UNCHANGED <<po, svc, ends, crossed>>
      /\ Owner(w) /\ job[w].pc = "remote" /\ id \in DOMAIN po /\ id \in Nat
      /\ job[w].list \in Lists /\ \A v \in Workers : v # w => job'[v] = job[v]
      /\ job'[w] \in {Idle, [pc |-> "local", id |-> id, list |-> job[w].list, r_rid |-> n]}
  BY RemoteFacts DEF Owned
<1>2. "new_so" \in Sides /\ "new_po" \in Sides /\ "new_so" # "new_po"
  BY DEF Sides
<1>3. /\ n \notin DOMAIN so /\ DOMAIN req'["new_so"] = DOMAIN so \cup {n}
      /\ req'["new_so"][n] = [ref |-> id, list |-> job[w].list, state |-> 1]
      /\ \A k \in DOMAIN so : req'["new_so"][k] = so[k]
      /\ \A other \in Sides : other # "new_so" => req'[other] = req[other]
  BY <1>1, <1>2, AddReqFacts
<1>4. /\ req'["new_so"][n].ref = id /\ req'["new_so"][n].list = job[w].list
      /\ req'["new_po"] = req["new_po"]
  BY <1>2, <1>3
<1>5. /\ po[id].api = -1 /\ po[id].r_api = 0
      /\ \A v \in Workers : v # w /\ Owner(v) => job[v].id # id
      /\ \A v \in Workers : job[v] # Idle => job[v].id \in DOMAIN po
      /\ \A v \in Workers : Owner(v) => job[v] # Idle
  BY <1>1, OwnerFacts
<1>6. \A side \in Sides : \A k \in DOMAIN req[side] : req[side][k].ref # id
  BY <1>1 DEF Owned, Phases
<1>7. /\ \A v \in Workers : v # w /\ Owner(v)' => Owner(v) /\ job'[v] = job[v]
      /\ job'[w].pc \in {"idle", "local"}
      /\ job'[w].pc = "local" =>
             job'[w].id = id /\ job'[w].list = job[w].list /\ job'[w].r_rid = n
      /\ job'[w] # Idle => job'[w].pc = "local"
  BY <1>1 DEF Owner, Idle
<1>. HIDE DEF id, n, so
<1>8. Known'
  <2>1. ASSUME NEW side \in Sides, NEW k \in DOMAIN req'[side]
        PROVE  req'[side][k].ref \in DOMAIN po
    BY <1>1, <1>3, <1>4 DEF Owned, Known, so
  <2>2. ASSUME NEW v \in Workers, job'[v] # Idle PROVE job'[v].id \in DOMAIN po
    BY <1>1, <1>5, <1>7, <2>2
  <2>. QED
    BY <1>1, <2>1, <2>2 DEF Known
<1>9. Claimed'
  <2>1. ASSUME NEW v \in Workers, Owner(v)' PROVE Owner(v) /\ job'[v].id = job[v].id
    <3>1. CASE v = w
      BY <1>1, <1>7, <2>1, <3>1 DEF Owner, id
    <3>2. CASE v # w
      BY <1>7, <2>1, <3>2
    <3>. QED
      BY <3>1, <3>2
  <2>. QED
    BY <1>1, <2>1 DEF Owned, Claimed
<1>10. NotAsked'
  <2>1. ASSUME NEW i \in DOMAIN po, po[i].api = 0, NEW side \in Sides, NEW k \in DOMAIN req'[side]
        PROVE  req'[side][k].ref # i
    BY <1>3, <1>4, <1>5, <2>1 DEF Owned, NotAsked, so
  <2>. QED
    BY <1>1, <2>1 DEF NotAsked
<1>11. Phases'
  <2>1. ASSUME NEW v \in Workers, job'[v].pc = "remote"
        PROVE  \A side \in Sides : \A k \in DOMAIN req'[side] : req'[side][k].ref # job'[v].id
    <3>1. v # w /\ job'[v] = job[v] /\ job[v].pc = "remote" /\ job[v].id # id
      BY <1>1, <1>5, <1>7, <2>1 DEF Owner
    <3>. QED
      BY <1>3, <1>4, <3>1 DEF Owned, Phases, so
  <2>2. ASSUME NEW v \in Workers, job'[v].pc = "local"
        PROVE  /\ \A k \in DOMAIN req'["new_po"] : req'["new_po"][k].ref # job'[v].id
               /\ job'[v].r_rid \in DOMAIN req'["new_so"]
               /\ req'["new_so"][job'[v].r_rid].ref = job'[v].id
               /\ req'["new_so"][job'[v].r_rid].list = job'[v].list
    <3>1. CASE v = w
      BY <1>2, <1>3, <1>4, <1>6, <1>7, <2>2, <3>1
    <3>2. CASE v # w
      <4>1. job'[v] = job[v] /\ job[v].pc = "local"
        BY <1>1, <2>2, <3>2
      <4>2. /\ \A k \in DOMAIN req["new_po"] : req["new_po"][k].ref # job[v].id
            /\ job[v].r_rid \in DOMAIN so
            /\ so[job[v].r_rid].ref = job[v].id /\ so[job[v].r_rid].list = job[v].list
        BY <4>1 DEF Owned, Phases, so
      <4>. QED
        BY <1>3, <1>4, <4>1, <4>2
    <3>. QED
      BY <3>1, <3>2
  <2>3. ASSUME NEW v \in Workers, job'[v].pc = "link"
        PROVE  /\ job'[v].rid \in DOMAIN req'["new_po"]
               /\ job'[v].r_rid \in DOMAIN req'["new_so"]
               /\ req'["new_po"][job'[v].rid].ref = job'[v].id
               /\ req'["new_so"][job'[v].r_rid].ref = job'[v].id
               /\ req'["new_po"][job'[v].rid].list = req'["new_so"][job'[v].r_rid].list
    <3>1. job'[v] = job[v] /\ job[v].pc = "link"
      BY <1>1, <1>7, <2>3
    <3>2. /\ job[v].rid \in DOMAIN req["new_po"] /\ job[v].r_rid \in DOMAIN so
          /\ req["new_po"][job[v].rid].ref = job[v].id /\ so[job[v].r_rid].ref = job[v].id
          /\ req["new_po"][job[v].rid].list = so[job[v].r_rid].list
      BY <3>1 DEF Owned, Phases, so
    <3>. QED
      BY <1>3, <1>4, <3>1, <3>2
  <2>. QED
    BY <2>1, <2>2, <2>3 DEF Phases
<1>12. Shown'
  <2>1. ASSUME NEW v \in Workers, v # w
        PROVE  /\ job'[v].pc \in {"claim", "remote", "local"} =>
                      po[job'[v].id].list = job'[v].list \/ job'[v].id \in crossed
               /\ job'[v].pc = "link" =>
                      \/ po[job'[v].id].list = req["new_po"][job'[v].rid].list
                      \/ job'[v].id \in crossed
    BY <1>1, <2>1 DEF Owned, Shown
  <2>2. po[id].list = job[w].list \/ id \in crossed
    BY <1>1 DEF Owned, Shown, id
  <2>. QED
    BY <1>1, <1>4, <1>7, <2>1, <2>2 DEF Shown
<1>13. Linked'
  <2>1. ASSUME NEW i \in DOMAIN po, po[i].r_api # 0
        PROVE  /\ po[i].r_api \in DOMAIN so /\ req'["new_so"][po[i].r_api] = so[po[i].r_api]
    BY <1>3, <2>1 DEF Owned, Linked, so
  <2>. QED
    BY <1>1, <1>3, <1>4, <2>1 DEF Owned, Linked, so
<1>14. AskedOnce'
  <2>1. ASSUME NEW side \in Sides, NEW i \in DOMAIN req'[side], NEW k \in DOMAIN req'[side],
               req'[side][i].ref = req'[side][k].ref
        PROVE  i = k
    <3>1. CASE side = "new_so"
      <4>1. \A a, b \in DOMAIN so : so[a].ref = so[b].ref => a = b
        BY <1>2 DEF Owned, AskedOnce, so
      <4>2. \A a \in DOMAIN so : so[a].ref # id
        BY <1>2, <1>6 DEF so
      <4>. QED
        BY <1>3, <1>4, <2>1, <3>1, <4>1, <4>2
    <3>2. CASE side # "new_so"
      BY <1>3, <2>1, <3>2 DEF Owned, AskedOnce
    <3>. QED
      BY <3>1, <3>2
  <2>2. ASSUME NEW i \in DOMAIN req'["new_po"]
        PROVE  \E k \in DOMAIN req'["new_so"] : req'["new_so"][k].ref = req'["new_po"][i].ref
    <3>1. PICK k \in DOMAIN so : so[k].ref = req["new_po"][i].ref
      BY <1>4 DEF Owned, AskedOnce, so
    <3>. QED
      BY <1>3, <1>4, <3>1
  <2>. QED
    BY <2>1, <2>2 DEF AskedOnce
<1>. QED
  BY <1>8, <1>9, <1>10, <1>11, <1>12, <1>13, <1>14 DEF Owned

LEMMA LocalKeeps ==
    ASSUME TypeOK, Owned, Counted, NEW w \in Workers, Local(w)
    PROVE  Owned'
<1>. DEFINE id == job[w].id  n == Len(req["new_po"]) + 1
            own == req["new_po"]  r == job[w].r_rid
<1>1. /\ AddReq("new_po", w) /\ UNCHANGED <<po, svc, ends, crossed>>
      /\ Owner(w) /\ job[w].pc = "local" /\ id \in DOMAIN po /\ id \in Nat
      /\ job[w].list \in Lists /\ \A v \in Workers : v # w => job'[v] = job[v]
      /\ job'[w] = [pc |-> "link", id |-> id, r_rid |-> r, rid |-> n]
  BY LocalFacts DEF Owned
<1>2. "new_so" \in Sides /\ "new_po" \in Sides /\ "new_so" # "new_po"
  BY DEF Sides
<1>3. /\ n \notin DOMAIN own /\ DOMAIN req'["new_po"] = DOMAIN own \cup {n}
      /\ req'["new_po"][n] = [ref |-> id, list |-> job[w].list, state |-> 1]
      /\ \A k \in DOMAIN own : req'["new_po"][k] = own[k]
      /\ \A other \in Sides : other # "new_po" => req'[other] = req[other]
  BY <1>1, <1>2, AddReqFacts
<1>4. /\ req'["new_po"][n].ref = id /\ req'["new_po"][n].list = job[w].list
      /\ req'["new_so"] = req["new_so"]
  BY <1>2, <1>3
<1>5. /\ po[id].api = -1 /\ po[id].r_api = 0
      /\ \A v \in Workers : v # w /\ Owner(v) => job[v].id # id
      /\ \A v \in Workers : job[v] # Idle => job[v].id \in DOMAIN po
  BY <1>1, OwnerFacts
<1>6. /\ \A k \in DOMAIN own : own[k].ref # id
      /\ r \in DOMAIN req["new_so"] /\ req["new_so"][r].ref = id
      /\ req["new_so"][r].list = job[w].list
  BY <1>1 DEF Owned, Phases
<1>7. /\ job'[w].pc = "link" /\ job'[w].id = id /\ job'[w].r_rid = r /\ job'[w].rid = n
      /\ job'[w] # Idle
      /\ \A v \in Workers : v # w /\ Owner(v)' => Owner(v)
  BY <1>1 DEF Owner, Idle
<1>. HIDE DEF id, n, own, r
<1>8. Known'
  <2>1. ASSUME NEW side \in Sides, NEW k \in DOMAIN req'[side]
        PROVE  req'[side][k].ref \in DOMAIN po
    BY <1>1, <1>3, <1>4 DEF Owned, Known, own
  <2>2. ASSUME NEW v \in Workers, job'[v] # Idle PROVE job'[v].id \in DOMAIN po
    BY <1>1, <1>5, <1>7, <2>2
  <2>. QED
    BY <1>1, <2>1, <2>2 DEF Known
<1>9. Claimed'
  <2>1. ASSUME NEW v \in Workers, Owner(v)' PROVE Owner(v) /\ job'[v].id = job[v].id
    <3>1. CASE v = w
      BY <1>1, <1>7, <3>1 DEF id
    <3>2. CASE v # w
      BY <1>1, <1>7, <2>1, <3>2
    <3>. QED
      BY <3>1, <3>2
  <2>. QED
    BY <1>1, <2>1 DEF Owned, Claimed
<1>10. NotAsked'
  <2>1. ASSUME NEW i \in DOMAIN po, po[i].api = 0, NEW side \in Sides, NEW k \in DOMAIN req'[side]
        PROVE  req'[side][k].ref # i
    BY <1>3, <1>4, <1>5, <2>1 DEF Owned, NotAsked, own
  <2>. QED
    BY <1>1, <2>1 DEF NotAsked
<1>11. Phases'
  <2>1. ASSUME NEW v \in Workers, job'[v].pc = "remote"
        PROVE  \A side \in Sides : \A k \in DOMAIN req'[side] : req'[side][k].ref # job'[v].id
    <3>1. v # w /\ job'[v] = job[v] /\ job[v].pc = "remote" /\ job[v].id # id
      BY <1>1, <1>5, <1>7, <2>1 DEF Owner
    <3>. QED
      BY <1>3, <1>4, <3>1 DEF Owned, Phases, own
  <2>2. ASSUME NEW v \in Workers, job'[v].pc = "local"
        PROVE  /\ \A k \in DOMAIN req'["new_po"] : req'["new_po"][k].ref # job'[v].id
               /\ job'[v].r_rid \in DOMAIN req'["new_so"]
               /\ req'["new_so"][job'[v].r_rid].ref = job'[v].id
               /\ req'["new_so"][job'[v].r_rid].list = job'[v].list
    <3>1. v # w /\ job'[v] = job[v] /\ job[v].pc = "local" /\ job[v].id # id
      BY <1>1, <1>5, <1>7, <2>2 DEF Owner
    <3>2. /\ \A k \in DOMAIN own : own[k].ref # job[v].id
          /\ job[v].r_rid \in DOMAIN req["new_so"]
          /\ req["new_so"][job[v].r_rid].ref = job[v].id
          /\ req["new_so"][job[v].r_rid].list = job[v].list
      BY <3>1 DEF Owned, Phases, own
    <3>. QED
      BY <1>3, <1>4, <3>1, <3>2
  <2>3. ASSUME NEW v \in Workers, job'[v].pc = "link"
        PROVE  /\ job'[v].rid \in DOMAIN req'["new_po"]
               /\ job'[v].r_rid \in DOMAIN req'["new_so"]
               /\ req'["new_po"][job'[v].rid].ref = job'[v].id
               /\ req'["new_so"][job'[v].r_rid].ref = job'[v].id
               /\ req'["new_po"][job'[v].rid].list = req'["new_so"][job'[v].r_rid].list
    <3>1. CASE v = w
      BY <1>3, <1>4, <1>6, <1>7, <3>1
    <3>2. CASE v # w
      <4>1. job'[v] = job[v] /\ job[v].pc = "link"
        BY <1>1, <2>3, <3>2
      <4>2. /\ job[v].rid \in DOMAIN own /\ job[v].r_rid \in DOMAIN req["new_so"]
            /\ own[job[v].rid].ref = job[v].id /\ req["new_so"][job[v].r_rid].ref = job[v].id
            /\ own[job[v].rid].list = req["new_so"][job[v].r_rid].list
        BY <4>1 DEF Owned, Phases, own
      <4>. QED
        BY <1>3, <1>4, <4>1, <4>2
    <3>. QED
      BY <3>1, <3>2
  <2>. QED
    BY <2>1, <2>2, <2>3 DEF Phases
<1>12. Shown'
  <2>1. ASSUME NEW v \in Workers, v # w
        PROVE  /\ job'[v].pc \in {"claim", "remote", "local"} =>
                      po[job'[v].id].list = job'[v].list \/ job'[v].id \in crossed
               /\ job'[v].pc = "link" =>
                      \/ po[job'[v].id].list = req'["new_po"][job'[v].rid].list
                      \/ job'[v].id \in crossed
    <3>1. job'[v] = job[v]
      BY <1>1, <2>1
    <3>2. job[v].pc = "link" => job[v].rid \in DOMAIN own
      BY DEF Owned, Phases, own
    <3>. QED
      BY <1>3, <3>1, <3>2 DEF Owned, Shown, own
  <2>2. po[id].list = job[w].list \/ id \in crossed
    BY <1>1 DEF Owned, Shown, id
  <2>. QED
    BY <1>1, <1>4, <1>7, <2>1, <2>2 DEF Shown
<1>13. Linked'
  <2>1. ASSUME NEW i \in DOMAIN po, po[i].r_api # 0
        PROVE  po[i].api \in DOMAIN own /\ req'["new_po"][po[i].api] = own[po[i].api]
    BY <1>3, <2>1 DEF Owned, Linked, own
  <2>. QED
    BY <1>1, <1>3, <1>4, <2>1 DEF Owned, Linked, own
<1>14. AskedOnce'
  <2>1. ASSUME NEW side \in Sides, NEW i \in DOMAIN req'[side], NEW k \in DOMAIN req'[side],
               req'[side][i].ref = req'[side][k].ref
        PROVE  i = k
    <3>1. CASE side = "new_po"
      <4>1. \A a, b \in DOMAIN own : own[a].ref = own[b].ref => a = b
        BY <1>2 DEF Owned, AskedOnce, own
      <4>. QED
        BY <1>3, <1>4, <1>6, <2>1, <3>1, <4>1
    <3>2. CASE side # "new_po"
      BY <1>3, <2>1, <3>2 DEF Owned, AskedOnce
    <3>. QED
      BY <3>1, <3>2
  <2>2. ASSUME NEW i \in DOMAIN req'["new_po"]
        PROVE  \E k \in DOMAIN req'["new_so"] : req'["new_so"][k].ref = req'["new_po"][i].ref
    <3>1. CASE i = n
      BY <1>4, <1>6, <3>1
    <3>2. CASE i # n
      BY <1>3, <1>4, <3>2 DEF Owned, AskedOnce, own
    <3>. QED
      BY <3>1, <3>2
  <2>. QED
    BY <2>1, <2>2 DEF AskedOnce
<1>. QED
  BY <1>8, <1>9, <1>10, <1>11, <1>12, <1>13, <1>14 DEF Owned

\* The record now leads to both requests, and its owner is gone.
LEMMA LinkKeeps ==
    ASSUME TypeOK, Owned, NEW w \in Workers, Link(w)
    PROVE  Owned'
<1>. DEFINE id == job[w].id  a == job[w].rid  b == job[w].r_rid
<1>1. /\ UNCHANGED <<req, crossed>> /\ job[w].pc = "link" /\ Owner(w) /\ id \in DOMAIN po
      /\ job'[w] = Idle /\ \A v \in Workers : v # w => job'[v] = job[v]
      /\ DOMAIN po' = DOMAIN po
      /\ po'[id].api = a /\ po'[id].r_api = b /\ po'[id].list = po[id].list
      /\ \A i \in DOMAIN po : i # id => po'[i] = po[i]
  BY LinkFacts DEF Owned
<1>2. /\ \A v \in Workers : v # w /\ Owner(v) => job[v].id # id
      /\ \A v \in Workers : job[v] # Idle => job[v].id \in DOMAIN po
      /\ \A v \in Workers : Owner(v) => job[v] # Idle
  BY <1>1, OwnerFacts
<1>3. /\ a \in DOMAIN req["new_po"] /\ b \in DOMAIN req["new_so"]
      /\ req["new_po"][a].ref = id /\ req["new_so"][b].ref = id
      /\ req["new_po"][a].list = req["new_so"][b].list
      /\ po[id].list = req["new_po"][a].list \/ id \in crossed
  BY <1>1 DEF Owned, Phases, Shown
<1>4. a \in Nat \ {0}
  BY <1>3, LenProperties DEF TypeOK, Sides
<1>5. \A v \in Workers : Owner(v)' => v # w /\ Owner(v) /\ job'[v] = job[v]
  BY <1>1 DEF Owner, Idle
<1>6. \A v \in Workers : job'[v].pc \in {"claim", "remote", "local", "link"} =>
          /\ job'[v] = job[v] /\ job[v].id \in DOMAIN po
          /\ po'[job[v].id].list = po[job[v].id].list
  BY <1>1, <1>2 DEF Idle
<1>. HIDE DEF id, a, b
<1>7. Known'
  BY <1>1, <1>2 DEF Owned, Known
<1>8. Claimed'
  BY <1>1, <1>2, <1>4, <1>5 DEF Owned, Claimed
<1>9. NotAsked'
  BY <1>1, <1>4 DEF Owned, NotAsked
<1>10. Phases'
  BY <1>1, <1>6 DEF Owned, Phases
<1>11. Shown'
  BY <1>1, <1>6 DEF Owned, Shown
<1>12. Linked'
  BY <1>1, <1>3 DEF Owned, Linked
<1>13. AskedOnce'
  BY <1>1 DEF Owned, AskedOnce
<1>. QED
  BY <1>7, <1>8, <1>9, <1>10, <1>11, <1>12, <1>13 DEF Owned

----------------------------------------------------------------------------
(* The theorems.                                                           *)

LEMMA InitInv == Init => IInv
<1>. SUFFICES ASSUME Init PROVE IInv
  OBVIOUS
<1>1. /\ po = <<>> /\ DOMAIN po = {} /\ Len(po) = 0
      /\ \A side \in Sides : /\ req[side] = <<>> /\ DOMAIN req[side] = {} /\ Len(req[side]) = 0
                             /\ placed[side] = <<>> /\ Len(placed[side]) = 0 /\ svc[side] = 0
      /\ \A w \in Workers : job[w] = Idle /\ job[w].pc = "idle"
      /\ "new_po" \in Sides /\ "new_so" \in Sides
  BY DEF Init, Idle, Sides
<1>2. TypeOK
  <2>1. <<>> \in Seq(Records) /\ <<>> \in Seq(Requests) /\ <<>> \in Seq(Nat) /\ Idle \in Jobs
    BY EmptySeq DEF Jobs
  <2>. QED
    BY <1>1, <2>1, StorePOAssumption DEF Init, TypeOK
<1>3. Owned
  BY <1>1 DEF Owned, Known, Claimed, NotAsked, Phases, Shown, Linked, AskedOnce, Owner
<1>4. Counted
  BY <1>1 DEF Counted
<1>. QED
  BY <1>2, <1>3, <1>4 DEF IInv

LEMMA StepInv == IInv /\ [Next]_vars => IInv'
<1>. SUFFICES ASSUME IInv, [Next]_vars PROVE IInv'
  OBVIOUS
<1>. USE DEF IInv
<1>1. ASSUME NEW w \in Workers, NEW l \in Lists, NEW s \in BOOLEAN, Insert(w, l, s)
      PROVE  IInv'
  <2>1. TypeOK' /\ Saved(w, Len(po) + 1, l, s) /\ Len(po) + 1 \in Nat
    BY <1>1, InsertFacts
  <2>2. Counted'
    BY <2>1 DEF Saved, Counted
  <2>. QED
    BY <1>1, <2>1, <2>2, InsertKeeps
<1>2. ASSUME NEW w \in Workers, NEW l \in Lists, NEW s \in BOOLEAN, NEW id \in DOMAIN po,
             Update(w, id, l, s)
      PROVE  IInv'
  <2>1. TypeOK' /\ Saved(w, id, l, s)
    BY <1>2, UpdateFacts
  <2>2. Counted'
    BY <2>1 DEF Saved, Counted
  <2>. QED
    BY <1>2, <2>1, <2>2, UpdateKeeps
<1>3. ASSUME NEW w \in Workers, Claim(w) PROVE IInv'
  <2>1. TypeOK' /\ UNCHANGED <<req, svc, ends, placed>>
    BY <1>3, ClaimFacts DEF Owned
  <2>2. Counted'
    BY <2>1 DEF Counted
  <2>. QED
    BY <1>3, <2>1, <2>2, ClaimKeeps
<1>4. ASSUME NEW w \in Workers, Remote(w) PROVE IInv'
  <2>1. /\ TypeOK' /\ AddReq("new_so", w) /\ UNCHANGED <<svc, ends>>
        /\ job[w].id \in Nat /\ job[w].list \in Lists /\ "new_so" \in Sides
    BY <1>4, RemoteFacts DEF Owned, Sides
  <2>2. Counted'
    BY <2>1, AddReqFacts
  <2>. QED
    BY <1>4, <2>1, <2>2, RemoteKeeps
<1>5. ASSUME NEW w \in Workers, Local(w) PROVE IInv'
  <2>1. /\ TypeOK' /\ AddReq("new_po", w) /\ UNCHANGED <<svc, ends>>
        /\ job[w].id \in Nat /\ job[w].list \in Lists /\ "new_po" \in Sides
    BY <1>5, LocalFacts DEF Owned, Sides
  <2>2. Counted'
    BY <2>1, AddReqFacts
  <2>. QED
    BY <1>5, <2>1, <2>2, LocalKeeps
<1>6. ASSUME NEW w \in Workers, Link(w) PROVE IInv'
  <2>1. TypeOK' /\ UNCHANGED <<req, svc, ends, placed>>
    BY <1>6, LinkFacts DEF Owned
  <2>2. Counted'
    BY <2>1 DEF Counted
  <2>. QED
    BY <1>6, <2>1, <2>2, LinkKeeps
<1>7. ASSUME \/ \E w \in Workers : Die(w)
             \/ \E id \in DOMAIN po : Age(id) \/ FetchResult(id)
      PROVE  IInv'
  <2>1. /\ TypeOK' /\ UNCHANGED <<req, svc, ends, placed, crossed>>
        /\ DOMAIN po' = DOMAIN po
        /\ \A j \in DOMAIN po : /\ po'[j].api = po[j].api /\ po'[j].r_api = po[j].r_api
                                /\ po'[j].list = po[j].list
        /\ \A v \in Workers : job'[v] \in {job[v], Idle}
    BY <1>7, QuietFacts
  <2>2. Counted'
    BY <2>1 DEF Counted
  <2>3. Owned'
    BY <2>1, UnmovedKeeps
  <2>. QED
    BY <2>1, <2>2, <2>3
<1>8. ASSUME NEW side \in Sides,
             (\E id \in DOMAIN req[side] : Order(side, id)) \/ Answer(side) \/ End(side)
      PROVE  IInv'
  <2>1. /\ TypeOK' /\ Counted' /\ UNCHANGED <<po, job, crossed>>
        /\ \A s \in Sides : /\ DOMAIN req'[s] = DOMAIN req[s]
                            /\ \A k \in DOMAIN req[s] : /\ req'[s][k].ref = req[s][k].ref
                                                        /\ req'[s][k].list = req[s][k].list
    BY <1>8, ServiceFacts
  <2>2. Owned'
    BY <2>1, UnmovedKeeps
  <2>. QED
    BY <2>1, <2>2
<1>9. CASE UNCHANGED vars
  <2>1. UNCHANGED <<po, req, job, svc, saves, ends, placed, crossed>>
    BY <1>9 DEF vars
  <2>2. TypeOK' /\ Counted'
    BY <2>1 DEF TypeOK, Counted
  <2>3. Owned'
    BY <2>1, UnmovedKeeps
  <2>. QED
    BY <2>2, <2>3
<1>. QED
  BY <1>1, <1>2, <1>3, <1>4, <1>5, <1>6, <1>7, <1>8, <1>9 DEF Next

\* IInv holds in every reachable state: a claimed record has one owner, whose
\* phase says what was asked for.
THEOREM Invariant == Spec => []IInv
<1>. QED
  BY InitInv, StepInv, PTL DEF Spec

\* A record, a request and a worker hold what the type invariant says.
THEOREM TypesOK == Spec => []TypeOK
<1>1. IInv => TypeOK
  BY DEF IInv
<1>. QED
  BY <1>1, Invariant, PTL

\* fn_save_store_po has each store order a record at most once, the own store
\* never alone, whatever fails and however often it is submitted; a service
\* that ends over a request adds one order at most.
THEOREM Once == Spec => []OrderedOnce
<1>1. IInv => OrderedOnce
  <2>. SUFFICES ASSUME IInv PROVE OrderedOnce
    OBVIOUS
  <2>1. ASSUME NEW side \in Sides, NEW k \in DOMAIN placed[side]
        PROVE  placed[side][k] <= 1 + ends
    <3>1. /\ req[side] \in Seq(Requests) /\ placed[side] \in Seq(Nat) /\ ends \in Nat
      BY StorePOAssumption DEF IInv, TypeOK
    <3>2. k \in DOMAIN req[side] /\ placed[side][k] \in Nat
      BY <3>1, LenProperties DEF IInv, Counted
    <3>3. placed[side][k] <= ends \/ placed[side][k] <= ends + 1
      BY <3>2 DEF IInv, Counted
    <3>. QED
      BY <3>1, <3>2, <3>3
  <2>. QED
    BY <2>1 DEF IInv, Owned, AskedOnce, OrderedOnce
<1>. QED
  BY <1>1, Invariant, PTL

\* A linked record and the orders of both stores are about the same list,
\* unless it was saved while it was being submitted.
THEOREM SameLists == Spec => []RecordIsOrdered
<1>1. IInv => RecordIsOrdered
  BY DEF IInv, Owned, Linked, RecordIsOrdered
<1>. QED
  BY <1>1, Invariant, PTL
=============================================================================
