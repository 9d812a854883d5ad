------------------------------- MODULE StorePO -----------------------------
(***************************************************************************)
(* fn_save_store_po and fn_api_insert_so of request/ts_request.py, API2 of *)
(* service_qbpos.py: a purchase order of one store and the sales order of  *)
(* the store that sells.                                                   *)
(*                                                                         *)
(* A record is saved, and submitted by the request that saves it.  The     *)
(* worker claims the record (api_req_id = -1), has the other store insert  *)
(* a request new_so into its table api_req, inserts its own request new_po *)
(* and links both.  In each store a thread of the service hands the        *)
(* requests to QuickBooks POS.  Each statement and each call between the   *)
(* stores is a step; a worker may die at any of them, and the answer of    *)
(* the other store may be lost.  The claim counts changed rows, as         *)
(* mysql.connector does unless told otherwise: a record that is claimed    *)
(* already is matched and not changed.                                     *)
(*                                                                         *)
(* The service takes ten requests at a time and answers each before the    *)
(* next; a request does not change once it is written, so taking them one  *)
(* by one is the same.  Left out: item_mapping, and the configuration.     *)
(***************************************************************************)
EXTENDS Integers, FiniteSets, Sequences

CONSTANTS
    Lists,      \* what is ordered
    Workers,    \* workers of the web server
    MaxPO,      \* bound: records
    MaxSaves,   \* bound: requests
    MaxEnds     \* bound: ends of a service

ASSUME StorePOAssumption ==
    MaxPO \in Nat /\ MaxSaves \in Nat /\ MaxEnds \in Nat

Sides == {"new_po", "new_so"}

VARIABLES
    po,         \* store_po by id; "old": cts is more than 10000 s ago
    req,        \* api_req of both stores: req["new_po"][id], req["new_so"][id]
    job,        \* workers
    svc,        \* the row a service has in hand, or 0
    saves, ends,
    placed,     \* history: orders in POS for each request
    crossed     \* history: records saved while another worker submitted them

vars == <<po, req, job, svc, saves, ends, placed, crossed>>

Idle == [pc |-> "idle"]

Init ==
    /\ po = <<>>
    /\ req = [side \in Sides |-> <<>>]
    /\ job = [w \in Workers |-> Idle]
    /\ svc = [side \in Sides |-> 0]
    /\ saves = 0 /\ ends = 0
    /\ placed = [side \in Sides |-> <<>>]
    /\ crossed = {}

Submitting(id) == {w \in Workers : job[w] # Idle /\ job[w].id = id}

Saved(w, id, list, submit) ==
    /\ job[w] = Idle /\ saves < MaxSaves
    /\ saves' = saves + 1
    /\ job' = [job EXCEPT ![w] =
           IF submit THEN [pc |-> "claim", id |-> id, list |-> list] ELSE Idle]
    /\ crossed' = IF Submitting(id) = {} THEN crossed ELSE crossed \cup {id}
    /\ UNCHANGED <<req, svc, ends, placed>>

Insert(w, list, submit) ==
    /\ Len(po) < MaxPO
    /\ po' = Append(po, [list |-> list, api |-> 0, r_api |-> 0, old |-> FALSE, res |-> FALSE])
    /\ Saved(w, Len(po) + 1, list, submit)

\* Faulty variant: a record that is linked can be saved when it is old.
MaySaveOld(r) == r.api = 0 \/ r.old

\* A record that is claimed may be saved again after 10000 s.
MaySave(r) == (r.api = 0 \/ (r.api = -1 /\ r.old)) /\ r.r_api = 0

Update(w, id, list, submit) ==
    /\ MaySave(po[id])
    /\ po' = [po EXCEPT ![id].list = list, ![id].old = FALSE]
    /\ Saved(w, id, list, submit)

\* Looked at only while the record is claimed.
Age(id) ==
    /\ ~po[id].old /\ po[id].api = -1
    /\ po' = [po EXCEPT ![id].old = TRUE]
    /\ UNCHANGED <<req, job, svc, saves, ends, placed, crossed>>

\* Faulty variant: matched rows are counted.
MatchesClaim(r) == r.api \in {0, -1} /\ r.r_api = 0

\* A record at -1 matches the where clause and is not changed.
Changes(r) == r.api = 0 /\ r.r_api = 0

Claim(w) ==
    LET id == job[w].id IN
    /\ job[w].pc = "claim"
    /\ IF Changes(po[id])
       THEN /\ po' = [po EXCEPT ![id].api = -1]
            /\ job' = [job EXCEPT ![w].pc = "remote"]
       ELSE /\ job' = [job EXCEPT ![w] = Idle]      \* unable to submit
            /\ UNCHANGED po
    /\ UNCHANGED <<req, svc, saves, ends, placed, crossed>>

\* Faulty variant: the request is inserted with the state 0.
AddReqUnsent(side, w) ==
    /\ req' = [req EXCEPT ![side] = Append(@, [ref |-> job[w].id, list |-> job[w].list, state |-> 0])]
    /\ placed' = [placed EXCEPT ![side] = Append(@, 0)]

AddReq(side, w) ==
    /\ req' = [req EXCEPT ![side] = Append(@, [ref |-> job[w].id, list |-> job[w].list, state |-> 1])]
    /\ placed' = [placed EXCEPT ![side] = Append(@, 0)]

\* fn_api_insert_so at the other store; if its answer is lost the worker's
\* request fails.
Remote(w) ==
    /\ job[w].pc = "remote"
    /\ AddReq("new_so", w)
    /\ \/ job' = [job EXCEPT ![w] = [pc |-> "local", id |-> @.id, list |-> @.list,
                                     r_rid |-> Len(req["new_so"]) + 1]]
       \/ job' = [job EXCEPT ![w] = Idle]
    /\ UNCHANGED <<po, svc, saves, ends, crossed>>

Local(w) ==
    /\ job[w].pc = "local"
    /\ AddReq("new_po", w)
    /\ job' = [job EXCEPT ![w] = [pc |-> "link", id |-> @.id, r_rid |-> @.r_rid,
                                  rid |-> Len(req["new_po"]) + 1]]
    /\ UNCHANGED <<po, svc, saves, ends, crossed>>

Link(w) ==
    /\ job[w].pc = "link"
    /\ po' = [po EXCEPT ![job[w].id].api = job[w].rid, ![job[w].id].r_api = job[w].r_rid]
    /\ job' = [job EXCEPT ![w] = Idle]
    /\ UNCHANGED <<req, svc, saves, ends, placed, crossed>>

Die(w) ==
    /\ job[w] # Idle
    /\ job' = [job EXCEPT ![w] = Idle]
    /\ UNCHANGED <<po, req, svc, saves, ends, placed, crossed>>

(***************************************************************************)
(* API2 in either store.  Whatever comes of the call, the request is       *)
(* answered; an exception after POS took the order counts as a failure.    *)
(***************************************************************************)
Order(side, id) ==
    /\ svc[side] = 0 /\ req[side][id].state = 1
    /\ svc' = [svc EXCEPT ![side] = id]
    /\ \/ placed' = [placed EXCEPT ![side][id] = @ + 1]
       \/ UNCHANGED placed
    /\ UNCHANGED <<po, req, job, saves, ends, crossed>>

Answer(side) ==
    /\ svc[side] # 0
    /\ req' = [req EXCEPT ![side][svc[side]].state = 2]
    /\ svc' = [svc EXCEPT ![side] = 0]
    /\ UNCHANGED <<po, job, saves, ends, placed, crossed>>

\* The service ends before the answer is written, and starts again.
End(side) ==
    /\ svc[side] # 0 /\ ends < MaxEnds
    /\ svc' = [svc EXCEPT ![side] = 0]
    /\ ends' = ends + 1
    /\ UNCHANGED <<po, req, job, saves, placed, crossed>>

\* fn_fetch_remote_api_res; the link it follows never changes again.
FetchResult(id) ==
    /\ po[id].r_api # 0 /\ ~po[id].res
    /\ req["new_so"][po[id].r_api].state = 2
    /\ po' = [po EXCEPT ![id].res = TRUE]
    /\ UNCHANGED <<req, job, svc, saves, ends, placed, crossed>>

Next ==
    \/ \E w \in Workers :
        \/ \E list \in Lists, submit \in BOOLEAN :
            \/ Insert(w, list, submit)
            \/ \E id \in DOMAIN po : Update(w, id, list, submit)
        \/ Claim(w) \/ Remote(w) \/ Local(w) \/ Link(w) \/ Die(w)
    \/ \E side \in Sides :
        \/ \E id \in DOMAIN req[side] : Order(side, id)
        \/ Answer(side) \/ End(side)
    \/ \E id \in DOMAIN po : Age(id) \/ FetchResult(id)

Spec == Init /\ [][Next]_vars
-----------------------------------------------------------------------------
Records == [list : Lists, api : Int, r_api : Nat, old : BOOLEAN, res : BOOLEAN]
Requests == [ref : Nat, list : Lists, state : 1..2]
Jobs ==
    {Idle} \cup [pc : {"claim", "remote"}, id : Nat, list : Lists]
    \cup [pc : {"local"}, id : Nat, list : Lists, r_rid : Nat]
    \cup [pc : {"link"}, id : Nat, r_rid : Nat, rid : Nat]

(***************************************************************************)
(* The type invariant: what a record, a request and a worker may hold.     *)
(***************************************************************************)
TypeOK ==
    /\ po \in Seq(Records) /\ Len(po) <= MaxPO
    /\ req \in [Sides -> Seq(Requests)]
    /\ placed \in [Sides -> Seq(Nat)]
    /\ job \in [Workers -> Jobs]
    /\ svc \in [Sides -> Nat]
    /\ saves \in 0..MaxSaves /\ ends \in 0..MaxEnds
    /\ crossed \subseteq Nat

(***************************************************************************)
(* A record is ordered at most once on either side, however often and by   *)
(* however many people it is submitted and whatever fails, and the order   *)
(* of the own store is never without the one of the other.  POS takes a    *)
(* request twice only if the service ended between the two.                *)
(***************************************************************************)
OrderedOnce ==
    /\ \A side \in Sides : \A j, k \in DOMAIN req[side] :
           req[side][j].ref = req[side][k].ref => j = k
    /\ \A j \in DOMAIN req["new_po"] : \E k \in DOMAIN req["new_so"] :
           req["new_so"][k].ref = req["new_po"][j].ref
    /\ \A side \in Sides : \A k \in DOMAIN placed[side] : placed[side][k] <= 1 + ends

(***************************************************************************)
(* A linked record shows what both stores ordered, unless somebody saved   *)
(* it while it was being submitted: between save and claim nothing         *)
(* protects it, and 10000 s after the claim no longer.                     *)
(***************************************************************************)
RecordIsOrdered ==
    \A id \in DOMAIN po : po[id].r_api # 0 =>
        LET own == req["new_po"][po[id].api]
            remote == req["new_so"][po[id].r_api]
        IN  /\ own.ref = id /\ remote.ref = id
            /\ own.list = remote.list
            /\ id \in crossed \/ po[id].list = own.list
=============================================================================
