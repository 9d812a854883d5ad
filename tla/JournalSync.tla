---------------------------- MODULE JournalSync ----------------------------
(***************************************************************************)
(* service_sync_db.py and sync_helper.sync(): the service that copies the  *)
(* QuickBooks POS database into the MySQL mirror tables.                   *)
(*                                                                         *)
(* POS writes a document and names it in one of three logs: the change     *)
(* journal ("cj"), the command log ("fs") or the detail of a financial     *)
(* session ("fd").  Every 1.5 s the service goes through the three logs.   *)
(* For each it reads the largest id, then the documents named after the    *)
(* last id it handled; the documents of cj are handed to the callbacks,    *)
(* one table after another, those of fs and fd are written to cj to be     *)
(* found there.  Then the last id is stored in MySQL and remembered in     *)
(* g_sync_tp.  An exception anywhere drops the round, a crash the          *)
(* remembered ids as well.                                                 *)
(*                                                                         *)
(* A document is a number of versions: row[d] is the version POS holds,    *)
(* mirror[d] the version the mirror was last written from (a deleted       *)
(* document is a version whose copy removes the mirror row).  A log entry  *)
(* is the set of documents committed together, {} a row of no interest.    *)
(* MySQL tables are MyISAM: every statement takes effect at once.          *)
(***************************************************************************)
EXTENDS Naturals, Sequences

CONSTANTS
    Docs,       \* the documents of the mirrored tables
    Customers,  \* those of the customer table, the only one fs and fd name
    NCb,        \* the number of callbacks in g_sync_cbs
    CbOf,       \* CbOf[d]: which callback mirrors d
    None,       \* a last id not read yet
    MaxVer,     \* bound: versions of each document
    MaxLog,     \* bound: entries POS writes to a log
    MaxFails    \* bound: exceptions and crashes

ASSUME DocsAssumption ==
    /\ Customers \subseteq Docs
    /\ NCb \in Nat \ {0}
    /\ CbOf \in [Docs -> 1..NCb]
    /\ None \notin Nat
ASSUME BoundsAssumption == MaxVer \in [Docs -> Nat] /\ MaxLog \in Nat /\ MaxFails \in Nat

Streams == {"cj", "fs", "fd"}

VARIABLES
    \* the point-of-sale database
    row, log, fin,
    \* MySQL
    mirror, wm,
    \* the memory of the service
    cached, pc, st, maxid, data, cb, left, buf,
    \* how many failures so far
    fails

posVars == <<row, log, fin>>
dbVars == <<mirror, wm>>
workVars == <<maxid, data, cb, left, buf>>
vars == <<posVars, dbVars, cached, pc, st, workVars, fails>>

TypeOK ==
    /\ row \in [Docs -> Nat]
    /\ mirror \in [Docs -> Nat]
    /\ log \in [Streams -> Seq(SUBSET Docs)]
    /\ fin \in Nat
    /\ wm \in [Streams -> Nat]
    /\ cached \in [Streams -> Nat \union {None}]
    /\ pc \in {"down", "idle", "max", "range", "tocj", "read", "write", "setlast"}
    /\ st \in Streams
    /\ maxid \in Nat
    /\ data \in SUBSET Docs
    /\ cb \in 1..NCb
    /\ left \in SUBSET Docs
    /\ buf \in [Docs -> Nat]
    /\ fails \in Nat

----------------------------------------------------------------------------
\* Faulty variant: the "or 0" of an empty table is missing.
MaxIdNull(s) ==
    IF Len(log[s]) = 0 THEN None ELSE IF s = "fd" THEN fin ELSE Len(log[s])

\* get_max_cj_id, get_max_fs_id; get_max_fd_id looks at finished sessions only.
MaxId(s) == IF s = "fd" THEN fin ELSE Len(log[s])

\* Faulty variant: the upper end of the range is excluded.
GetDataOpen(s, lo, hi) == UNION {log[s][i] : i \in (lo + 1)..(hi - 1)}

\* get_cj_data, get_fs_data, get_fd_data: the distinct documents of a range.
GetData(s, lo, hi) == UNION {log[s][i] : i \in (lo + 1)..hi}

NoRows == [d \in Docs |-> 0]

\* The locals of sync() go when it returns or raises.
ForgetRound ==
    /\ maxid' = 0
    /\ data' = {}
    /\ cb' = 1
    /\ left' = {}
    /\ buf' = NoRows

\* The next entry of g_sync_tp, or the end of the round.
NextStream ==
    /\ ForgetRound
    /\ IF st = "fd" THEN pc' = "idle" /\ st' = "cj"
       ELSE pc' = "max" /\ st' = (IF st = "cj" THEN "fs" ELSE "fd")

Init ==
    /\ row = [d \in Docs |-> 0]
    /\ mirror = row
    /\ log = [s \in Streams |-> <<>>]
    /\ fin = 0
    /\ wm = [s \in Streams |-> 0]
    /\ cached = [s \in Streams |-> None]
    /\ pc = "down"
    /\ st = "cj"
    /\ maxid = 0 /\ data = {} /\ cb = 1 /\ left = {} /\ buf = NoRows
    /\ fails = 0

----------------------------------------------------------------------------
(* The point-of-sale database: external, known from what sync() reads.     *)

Bump(D) ==
    /\ \A d \in D : row[d] < MaxVer[d]
    /\ row' = [d \in Docs |-> IF d \in D THEN row[d] + 1 ELSE row[d]]

Append1(s, D) == log' = [log EXCEPT ![s] = Append(@, D)]

\* A transaction writes documents and their journal rows.
Journalled(D) ==
    /\ D # {}
    /\ Bump(D)
    /\ Append1("cj", D)
    /\ UNCHANGED <<fin, dbVars, cached, pc, st, workVars, fails>>

\* A customer command: it leaves a log message but no journal row.
Command(c) ==
    /\ Bump({c})
    /\ Append1("fs", {c})
    /\ UNCHANGED <<fin, dbVars, cached, pc, st, workVars, fails>>

\* A journal row of a table nobody mirrors, a log message of another kind, or
\* the start of a financial session.
Unrelated(s) ==
    /\ Len(log[s]) < MaxLog
    /\ Append1(s, {})
    /\ UNCHANGED <<row, fin, dbVars, cached, pc, st, workVars, fails>>

\* A financial session that is still open changes a customer's balance.
SessionDetail(c) ==
    /\ Len(log["fd"]) > fin
    /\ Bump({c})
    /\ log' = [log EXCEPT !["fd"][Len(log["fd"])] = @ \union {c}]
    /\ UNCHANGED <<fin, dbVars, cached, pc, st, workVars, fails>>

FinishSession ==
    /\ Len(log["fd"]) > fin
    /\ fin' = Len(log["fd"])
    /\ UNCHANGED <<row, log, dbVars, cached, pc, st, workVars, fails>>

----------------------------------------------------------------------------
(* The service.                                                            *)

Start ==
    /\ pc = "down"
    /\ pc' = "idle"
    /\ UNCHANGED <<posVars, dbVars, cached, st, workVars, fails>>

\* 1.5 s have passed: sync(g_sync_cbs, 0) starts with the change journal.
Tick ==
    /\ pc = "idle"
    /\ pc' = "max"
    /\ UNCHANGED <<posVars, dbVars, cached, st, workVars, fails>>

ReadMax ==
    /\ pc = "max"
    /\ maxid' = MaxId(st)
    /\ pc' = "range"
    /\ UNCHANGED <<posVars, dbVars, cached, st, data, cb, left, buf, fails>>

\* The last id comes from g_sync_tp, or from MySQL the first time.
LastId == IF cached[st] = None THEN wm[st] ELSE cached[st]

\* Faulty variant: tp[5] is set before the callbacks have run.
ReadDataEarly ==
    /\ pc = "range"
    /\ cached' = [cached EXCEPT ![st] = maxid]
    /\ \/ LastId >= maxid /\ NextStream
       \/ /\ LastId < maxid
          /\ data' = GetData(st, LastId, maxid)
          /\ pc' = IF data' = {} THEN "setlast"
                   ELSE IF st = "cj" THEN "read" ELSE "tocj"
          /\ UNCHANGED <<st, maxid, cb, left, buf>>
    /\ UNCHANGED <<posVars, dbVars, fails>>

\* Faulty variant: "break" for "continue" when a log has nothing new.
ReadDataBreak ==
    /\ pc = "range"
    /\ cached' = [cached EXCEPT ![st] = LastId]
    /\ \/ LastId >= maxid /\ ForgetRound /\ pc' = "idle" /\ st' = "cj"
       \/ /\ LastId < maxid
          /\ data' = GetData(st, LastId, maxid)
          /\ pc' = IF data' = {} THEN "setlast"
                   ELSE IF st = "cj" THEN "read" ELSE "tocj"
          /\ UNCHANGED <<st, maxid, cb, left, buf>>
    /\ UNCHANGED <<posVars, dbVars, fails>>

ReadData ==
    /\ pc = "range"
    /\ cached' = [cached EXCEPT ![st] = LastId]
    /\ \/ /\ LastId >= maxid
          /\ NextStream
       \/ /\ LastId < maxid
          /\ data' = GetData(st, LastId, maxid)
          /\ pc' = IF data' = {} THEN "setlast"
                   ELSE IF st = "cj" THEN "read" ELSE "tocj"
          /\ UNCHANGED <<st, maxid, cb, left, buf>>
    /\ UNCHANGED <<posVars, dbVars, fails>>

\* fs_to_cj: journal rows for the customers of the range, in one commit.
FsToCj ==
    /\ pc = "tocj"
    /\ Append1("cj", data)
    /\ pc' = "setlast"
    /\ UNCHANGED <<row, fin, dbVars, cached, st, workVars, fails>>

\* Which callback comes next, or the end of the loop over sync_cbs.
AfterCallback ==
    IF cb < NCb THEN cb' = cb + 1 /\ pc' = "read"
    ELSE cb' = cb /\ pc' = "setlast"

\* Faulty variant: the table is emptied first, as in a full resynchronisation.
CbReadEmpty ==
    /\ pc = "read"
    /\ left' = {d \in data : CbOf[d] = cb}
    /\ buf' = [d \in Docs |-> IF d \in left' THEN row[d] ELSE 0]
    /\ mirror' = [d \in Docs |-> IF left' # {} /\ CbOf[d] = cb THEN 0 ELSE mirror[d]]
    /\ IF left' = {} THEN AfterCallback ELSE pc' = "write" /\ cb' = cb
    /\ UNCHANGED <<posVars, wm, cached, st, maxid, data, fails>>

\* A callback selects its documents of the range from POS...
CbRead ==
    /\ pc = "read"
    /\ left' = {d \in data : CbOf[d] = cb}
    /\ buf' = [d \in Docs |-> IF d \in left' THEN row[d] ELSE 0]
    /\ IF left' = {} THEN AfterCallback ELSE pc' = "write" /\ cb' = cb
    /\ UNCHANGED <<posVars, dbVars, cached, st, maxid, data, fails>>

\* ... and replaces their mirror rows, some with each statement.
CbWrite(D) ==
    /\ pc = "write"
    /\ D # {} /\ D \subseteq left
    /\ mirror' = [d \in Docs |-> IF d \in D THEN buf[d] ELSE mirror[d]]
    /\ left' = left \ D
    /\ IF left' = {} THEN AfterCallback ELSE UNCHANGED <<pc, cb>>
    /\ UNCHANGED <<posVars, wm, cached, st, maxid, data, buf, fails>>

\* Faulty variant: the max is read again when it is stored.
SetLastFresh ==
    /\ pc = "setlast"
    /\ wm' = [wm EXCEPT ![st] = MaxId(st)]
    /\ cached' = [cached EXCEPT ![st] = MaxId(st)]
    /\ NextStream
    /\ UNCHANGED <<posVars, mirror, fails>>

\* Faulty variant: the id of fd is stored under the name of fs.
SetLastName ==
    /\ pc = "setlast"
    /\ wm' = [wm EXCEPT ![IF st = "fd" THEN "fs" ELSE st] = maxid]
    /\ cached' = [cached EXCEPT ![st] = maxid]
    /\ NextStream
    /\ UNCHANGED <<posVars, mirror, fails>>

\* set_last_id, then tp[5]; the connection may break between the two.
SetLast ==
    /\ pc = "setlast"
    /\ wm' = [wm EXCEPT ![st] = maxid]
    /\ \/ /\ cached' = [cached EXCEPT ![st] = maxid]
          /\ NextStream
          /\ UNCHANGED fails
       \/ /\ fails < MaxFails
          /\ fails' = fails + 1
          /\ pc' = "idle" /\ st' = "cj"
          /\ ForgetRound
          /\ UNCHANGED cached
    /\ UNCHANGED <<posVars, mirror>>

\* Any exception out of sync(): the main loop catches it and goes on.
Raise ==
    /\ pc \notin {"down", "idle"}
    /\ fails < MaxFails
    /\ fails' = fails + 1
    /\ pc' = "idle" /\ st' = "cj"
    /\ ForgetRound
    /\ UNCHANGED <<posVars, dbVars, cached>>

\* The process ends; g_sync_tp starts from None again.
Crash ==
    /\ pc # "down"
    /\ fails < MaxFails
    /\ fails' = fails + 1
    /\ pc' = "down" /\ st' = "cj"
    /\ cached' = [s \in Streams |-> None]
    /\ ForgetRound
    /\ UNCHANGED <<posVars, dbVars>>

Environment ==
    \/ \E D \in SUBSET Docs : Journalled(D)
    \/ \E c \in Customers : Command(c) \/ SessionDetail(c)
    \/ \E s \in Streams : Unrelated(s)
    \/ FinishSession

Service ==
    \/ Start \/ Tick \/ ReadMax \/ ReadData \/ FsToCj \/ CbRead \/ SetLast
    \/ \E D \in SUBSET Docs : CbWrite(D)

Next == Environment \/ Service \/ Raise \/ Crash

Spec == Init /\ [][Next]_vars

\* The service manager restarts the service and its loop keeps running.
FairSpec == Spec /\ WF_vars(Service)

----------------------------------------------------------------------------
\* d is named by an entry after the stored last id of its log.
Owed(d) == \E s \in Streams : \E i \in (wm[s] + 1)..Len(log[s]) : d \in log[s][i]

(***************************************************************************)
(* No change is lost: a mirror row that is behind its document is named    *)
(* after a stored last id, so that some later round still finds it,        *)
(* whatever exceptions and restarts there were (sync_helper.py:157-180:    *)
(* the last id is stored after the callbacks, with the max read before).   *)
(***************************************************************************)
NothingSkipped == \A d \in Docs : mirror[d] # row[d] => Owed(d)

----------------------------------------------------------------------------
(* The inductive invariant behind NothingSkipped.                          *)

InRange == pc \in {"tocj", "read", "write", "setlast"}

\* d is named after the last id that this round is about to store.
OwedLater(d) ==
    \E s \in Streams : \E i \in ((IF s = st THEN maxid ELSE wm[s]) + 1)..Len(log[s]) :
        d \in log[s][i]

\* This round is done with d: its callback has written it, or, in a round that
\* ends in cj, its journal row is there.
Handled(d) ==
    /\ d \in data
    /\ \/ pc = "setlast"
       \/ pc \in {"read", "write"} /\ CbOf[d] < cb
       \/ pc = "write" /\ CbOf[d] = cb /\ d \notin left

\* The ids: stored ones within their logs, remembered ones within stored ones.
IdsInv ==
    /\ fin <= Len(log["fd"])
    /\ \A s \in Streams : wm[s] <= MaxId(s)
    /\ \A s \in Streams : cached[s] # None => cached[s] <= wm[s]

\* The round: its range reaches from the stored last id to its max.
RoundInv ==
    /\ pc = "range" \/ InRange => wm[st] <= maxid /\ maxid <= MaxId(st)
    /\ InRange => \A i \in (wm[st] + 1)..maxid : log[st][i] \subseteq data
    /\ pc \in {"read", "write"} => st = "cj"
    /\ pc = "tocj" => st # "cj"
    /\ pc \in {"down", "idle", "max", "range"} => cb = 1
    /\ pc = "write" => \A d \in left : d \in data /\ CbOf[d] = cb

\* The copies: rows read and rows written are current, or owed a later round.
NotAhead(d) == mirror[d] <= row[d]
ReadOk(d) ==
    /\ mirror[d] <= buf[d] /\ buf[d] <= row[d]
    /\ buf[d] = row[d] \/ OwedLater(d)
WrittenOk(d) == mirror[d] = row[d] \/ OwedLater(d)
CopyInv ==
    \A d \in Docs :
        /\ NotAhead(d)
        /\ pc = "write" /\ d \in left => ReadOk(d)
        /\ Handled(d) => WrittenOk(d)

(***************************************************************************)
(* While a round runs, each document it has read or written is current or  *)
(* is named after the id the round will store: this is what makes storing  *)
(* that id safe (sync_helper.py:162-180).                                  *)
(***************************************************************************)
IInv == TypeOK /\ IdsInv /\ RoundInv /\ CopyInv /\ NothingSkipped

(***************************************************************************)
(* The mirror never goes back to an older version of a document, although  *)
(* a callback writes what it read some statements earlier and a round is   *)
(* repeated after a failure.                                               *)
(***************************************************************************)
NeverBackwards == [][\A d \in Docs : mirror'[d] >= mirror[d]]_mirror

(***************************************************************************)
(* A stored last id never moves back and is never past what its log held   *)
(* when it was read, not even when g_sync_tp is behind it.                 *)
(***************************************************************************)
LastIdForward ==
    [][\A s \in Streams : wm'[s] >= wm[s] /\ wm'[s] <= MaxId(s)]_wm

(***************************************************************************)
(* A change that a finished log entry names between two rounds reaches the *)
(* mirror, once the failures end: the service runs the callbacks again     *)
(* until they succeed (service_sync_db.py:43-66).  An entry that a round   *)
(* is working on speaks of an older version perhaps.                       *)
(***************************************************************************)
Announced(d) == \E s \in Streams : \E i \in (wm[s] + 1)..MaxId(s) : d \in log[s][i]
CatchesUp ==
    \A d \in Docs : \A v \in 1..MaxVer[d] :
        (pc = "idle" /\ row[d] = v /\ Announced(d)) ~> (mirror[d] >= v)

(***************************************************************************)
(* The service implements the mirror's promise.                            *)
(***************************************************************************)
Mirror == INSTANCE Replica WITH owed <- {d \in Docs : Owed(d)}
ImplementsReplica == Mirror!Spec
============================================================================
