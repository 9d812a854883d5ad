------------------------- MODULE JournalSync_proofs -------------------------
(***************************************************************************)
(* The proofs about JournalSync: its type correctness, that no change is   *)
(* lost, and that it implements Replica.                                   *)
(***************************************************************************)
EXTENDS JournalSync, SequenceTheorems, TLAPS

----------------------------------------------------------------------------
(* Types.                                                                  *)

\* Appending one entry to a log keeps the logs well typed and their old entries.
LEMMA AppendLog ==
    ASSUME NEW s \in Streams, NEW D \in SUBSET Docs,
           log \in [Streams -> Seq(SUBSET Docs)], Append1(s, D)
    PROVE  /\ log' \in [Streams -> Seq(SUBSET Docs)]
           /\ \A q \in Streams : q # s => log'[q] = log[q]
           /\ Len(log'[s]) = Len(log[s]) + 1
           /\ \A i \in 1..Len(log[s]) : log'[s][i] = log[s][i]
           /\ log'[s][Len(log[s]) + 1] = D
<1>1. log[s] \in Seq(SUBSET Docs)
  OBVIOUS
<1>2. log' = [log EXCEPT ![s] = Append(log[s], D)]
  BY DEF Append1
<1>3. log'[s] = Append(log[s], D)
  BY <1>2
<1>4. Append(log[s], D) \in Seq(SUBSET Docs)
  BY <1>1
<1>. QED
  BY <1>1, <1>2, <1>3, <1>4

\* Extending the last session entry keeps every other entry.
LEMMA ExtendLast ==
    ASSUME NEW c \in Docs, log \in [Streams -> Seq(SUBSET Docs)], Len(log["fd"]) > 0,
           log' = [log EXCEPT !["fd"][Len(log["fd"])] = @ \union {c}]
    PROVE  /\ log' \in [Streams -> Seq(SUBSET Docs)]
           /\ \A q \in Streams : q # "fd" => log'[q] = log[q]
           /\ Len(log'["fd"]) = Len(log["fd"])
           /\ \A i \in 1..(Len(log["fd"]) - 1) : log'["fd"][i] = log["fd"][i]
           /\ log'["fd"][Len(log["fd"])] = log["fd"][Len(log["fd"])] \union {c}
<1>. DEFINE L == log["fd"]
            n == Len(L)
            x == L[n] \union {c}
<1>1. L \in Seq(SUBSET Docs) /\ n \in 1..Len(L)
  BY DEF Streams
<1>2. log' = [log EXCEPT !["fd"] = [L EXCEPT ![n] = x]]
  OBVIOUS
<1>3. x \in SUBSET Docs
  BY <1>1, ElementOfSeq
<1>4. /\ [L EXCEPT ![n] = x] \in Seq(SUBSET Docs)
      /\ Len([L EXCEPT ![n] = x]) = Len(L)
      /\ \A i \in 1..Len(L) : [L EXCEPT ![n] = x][i] = IF i = n THEN x ELSE L[i]
  BY <1>1, <1>3, ExceptSeq
<1>5. log'["fd"] = [L EXCEPT ![n] = x]
  BY <1>2 DEF Streams
<1>6. log' \in [Streams -> Seq(SUBSET Docs)]
  BY <1>2, <1>4
<1>. QED
  BY <1>1, <1>2, <1>4, <1>5, <1>6 DEF Streams

\* NextStream, by cases: both end in a fresh round state.
LEMMA NextStreamType ==
    ASSUME NextStream, st \in Streams, NCb \in Nat \ {0}
    PROVE  /\ pc' \in {"idle", "max"} /\ st' \in Streams
           /\ maxid' = 0 /\ data' = {} /\ cb' = 1 /\ left' = {} /\ buf' = NoRows
BY DEF NextStream, ForgetRound, Streams

\* Types are preserved; that the range of a round stays within its log is what
\* makes the documents it reads documents.
LEMMA TypeStep == TypeOK /\ IdsInv /\ RoundInv /\ [Next]_vars => TypeOK'
<1>. SUFFICES ASSUME TypeOK, IdsInv, RoundInv, [Next]_vars PROVE TypeOK'
  OBVIOUS
<1>. USE DocsAssumption, BoundsAssumption
<1>1. ASSUME NEW D \in SUBSET Docs, Journalled(D) PROVE TypeOK'
  <2>1. log' \in [Streams -> Seq(SUBSET Docs)]
    BY <1>1, AppendLog DEF Journalled, TypeOK, Streams
  <2>2. row' \in [Docs -> Nat]
    BY <1>1 DEF Journalled, Bump, TypeOK
  <2>. QED
    BY <1>1, <2>1, <2>2 DEF Journalled, TypeOK, dbVars, workVars
<1>2. ASSUME NEW c \in Customers, Command(c) PROVE TypeOK'
  <2>1. log' \in [Streams -> Seq(SUBSET Docs)]
    BY <1>2, AppendLog DEF Command, TypeOK, Streams
  <2>2. row' \in [Docs -> Nat]
    BY <1>2 DEF Command, Bump, TypeOK
  <2>. QED
    BY <1>2, <2>1, <2>2 DEF Command, TypeOK, dbVars, workVars
<1>3. ASSUME NEW s \in Streams, Unrelated(s) PROVE TypeOK'
  <2>1. log' \in [Streams -> Seq(SUBSET Docs)]
    BY <1>3, AppendLog DEF Unrelated, TypeOK
  <2>. QED
    BY <1>3, <2>1 DEF Unrelated, TypeOK, dbVars, workVars
<1>4. ASSUME NEW c \in Customers, SessionDetail(c) PROVE TypeOK'
  <2>1. Len(log["fd"]) > 0
    BY <1>4 DEF SessionDetail, TypeOK, Streams
  <2>2. log' \in [Streams -> Seq(SUBSET Docs)]
    BY <1>4, <2>1, ExtendLast DEF SessionDetail, TypeOK
  <2>3. row' \in [Docs -> Nat]
    BY <1>4 DEF SessionDetail, Bump, TypeOK
  <2>. QED
    BY <1>4, <2>2, <2>3 DEF SessionDetail, TypeOK, dbVars, workVars
<1>5. CASE FinishSession
  <2>1. Len(log["fd"]) \in Nat
    BY DEF TypeOK, Streams
  <2>. QED
    BY <1>5, <2>1 DEF FinishSession, TypeOK, dbVars, workVars
<1>6. CASE Start \/ Tick
  BY <1>6 DEF Start, Tick, TypeOK, posVars, dbVars, workVars
<1>7. CASE ReadMax
  <2>1. MaxId(st) \in Nat
    BY DEF MaxId, TypeOK
  <2>. QED
    BY <1>7, <2>1 DEF ReadMax, TypeOK, posVars, dbVars
<1>8. CASE ReadData
  <2>1. cached' \in [Streams -> Nat \union {None}]
    BY <1>8 DEF ReadData, LastId, TypeOK
  <2>2. CASE NextStream
    <3>1. UNCHANGED <<row, log, fin, mirror, wm, fails>>
      BY <1>8 DEF ReadData, posVars, dbVars
    <3>2. /\ pc' \in {"idle", "max"} /\ st' \in Streams
          /\ maxid' = 0 /\ data' = {} /\ cb' = 1 /\ left' = {} /\ buf' = NoRows
      BY <2>2, NextStreamType DEF TypeOK
    <3>3. NoRows \in [Docs -> Nat]
      BY DEF NoRows
    <3>. QED
      BY <2>1, <3>1, <3>2, <3>3 DEF TypeOK
  <2>3. CASE /\ LastId < maxid
             /\ data' = GetData(st, LastId, maxid)
             /\ pc' = IF data' = {} THEN "setlast"
                      ELSE IF st = "cj" THEN "read" ELSE "tocj"
             /\ UNCHANGED <<st, maxid, cb, left, buf>>
    <3>1. LastId \in Nat
      BY DEF LastId, TypeOK
    <3>2. maxid <= Len(log[st])
      BY <1>8 DEF ReadData, RoundInv, IdsInv, MaxId, TypeOK, Streams
    <3>3. \A i \in (LastId + 1)..maxid : log[st][i] \in SUBSET Docs
      <4>1. log[st] \in Seq(SUBSET Docs)
        BY DEF TypeOK
      <4>. QED
        BY <3>1, <3>2, <4>1, ElementOfSeq DEF TypeOK
    <3>4. data' \in SUBSET Docs
      BY <2>3, <3>3 DEF GetData
    <3>. QED
      BY <1>8, <2>1, <2>3, <3>4 DEF ReadData, TypeOK, posVars, dbVars
  <2>. QED
    BY <1>8, <2>2, <2>3 DEF ReadData
<1>9. CASE FsToCj
  <2>1. log' \in [Streams -> Seq(SUBSET Docs)]
    BY <1>9, AppendLog DEF FsToCj, TypeOK, Streams
  <2>. QED
    BY <1>9, <2>1 DEF FsToCj, TypeOK, dbVars, workVars
<1>10. CASE CbRead
  <2>1. left' \in SUBSET Docs /\ buf' \in [Docs -> Nat]
    BY <1>10 DEF CbRead, TypeOK
  <2>2. cb' \in 1..NCb /\ pc' \in {"read", "write", "setlast"}
    BY <1>10 DEF CbRead, AfterCallback, TypeOK
  <2>. QED
    BY <1>10, <2>1, <2>2 DEF CbRead, TypeOK, posVars, dbVars
<1>11. ASSUME NEW D \in SUBSET Docs, CbWrite(D) PROVE TypeOK'
  <2>1. left' \in SUBSET Docs /\ mirror' \in [Docs -> Nat]
    BY <1>11 DEF CbWrite, TypeOK
  <2>2. cb' \in 1..NCb /\ pc' \in {"read", "write", "setlast"}
    <3>1. CASE left' = {}
      BY <1>11, <3>1 DEF CbWrite, AfterCallback, TypeOK
    <3>2. CASE left' # {}
      BY <1>11, <3>2 DEF CbWrite, TypeOK
    <3>. QED
      BY <3>1, <3>2
  <2>. QED
    BY <1>11, <2>1, <2>2 DEF CbWrite, TypeOK, posVars
<1>12. CASE SetLast
  <2>1. wm' \in [Streams -> Nat]
    BY <1>12 DEF SetLast, TypeOK
  <2>2. /\ pc' \in {"idle", "max"} /\ st' \in Streams
        /\ maxid' = 0 /\ data' = {} /\ cb' = 1 /\ left' = {} /\ buf' = NoRows
    BY <1>12, NextStreamType DEF SetLast, ForgetRound, TypeOK, Streams
  <2>3. cached' \in [Streams -> Nat \union {None}] /\ fails' \in Nat
    <3>1. CASE cached' = [cached EXCEPT ![st] = maxid] /\ fails' = fails
      BY <3>1 DEF TypeOK
    <3>2. CASE cached' = cached /\ fails' = fails + 1
      BY <3>2 DEF TypeOK
    <3>. QED
      BY <1>12, <3>1, <3>2 DEF SetLast
  <2>. QED
    BY <1>12, <2>1, <2>2, <2>3 DEF SetLast, TypeOK, NoRows, posVars
<1>13. CASE Raise
  BY <1>13 DEF Raise, ForgetRound, TypeOK, NoRows, Streams, posVars, dbVars
<1>14. CASE Crash
  BY <1>14 DEF Crash, ForgetRound, TypeOK, NoRows, Streams, posVars, dbVars
<1>15. CASE UNCHANGED vars
  BY <1>15 DEF vars, TypeOK, posVars, dbVars, workVars
<1>. QED
  BY <1>1, <1>2, <1>3, <1>4, <1>5, <1>6, <1>7, <1>8, <1>9, <1>10, <1>11, <1>12, <1>13,
     <1>14, <1>15 DEF Next, Environment, Service

----------------------------------------------------------------------------
(* The environment only adds to the logs, and names what it changes.       *)

\* What every step of the point-of-sale database looks like to the service.
LEMMA EnvironmentStep ==
    ASSUME TypeOK, IdsInv, Environment
    PROVE  /\ UNCHANGED <<dbVars, cached, pc, st, workVars>>
           /\ fin' <= Len(log'["fd"])
           /\ \A s \in Streams : MaxId(s) <= MaxId(s)' /\ Len(log[s]) <= Len(log'[s])
           /\ \A s \in Streams : \A i \in 1..MaxId(s) : log'[s][i] = log[s][i]
           /\ \A s \in Streams : \A i \in 1..Len(log[s]) : log[s][i] \subseteq log'[s][i]
           /\ \A d \in Docs : row'[d] >= row[d]
           /\ \A d \in Docs : row'[d] # row[d] =>
                 \E s \in Streams : \E i \in (MaxId(s) + 1)..Len(log'[s]) : d \in log'[s][i]
<1>. USE DocsAssumption
<1>0. \A s \in Streams : Len(log[s]) \in Nat /\ MaxId(s) \in Nat /\ MaxId(s) <= Len(log[s])
  BY DEF TypeOK, IdsInv, MaxId, Streams
<1>1. ASSUME NEW D \in SUBSET Docs, NEW s \in Streams, Append1(s, D), fin' = fin
      PROVE  /\ fin' <= Len(log'["fd"])
             /\ \A q \in Streams : MaxId(q) <= MaxId(q)' /\ Len(log[q]) <= Len(log'[q])
             /\ \A q \in Streams : \A i \in 1..Len(log[q]) : log'[q][i] = log[q][i]
             /\ Len(log[s]) + 1 \in (MaxId(s) + 1)..Len(log'[s])
             /\ log'[s][Len(log[s]) + 1] = D
  <2>1. /\ \A q \in Streams : q # s => log'[q] = log[q]
        /\ Len(log'[s]) = Len(log[s]) + 1
        /\ \A i \in 1..Len(log[s]) : log'[s][i] = log[s][i]
        /\ log'[s][Len(log[s]) + 1] = D
    BY <1>1, AppendLog DEF TypeOK
  <2>2. \A q \in Streams : Len(log[q]) <= Len(log'[q])
    BY <1>0, <2>1
  <2>3. \A q \in Streams : MaxId(q) <= MaxId(q)'
    BY <1>0, <1>1, <2>2 DEF MaxId
  <2>4. fin' <= Len(log'["fd"])
    <3>1. fin \in Nat /\ fin <= Len(log["fd"]) /\ Len(log["fd"]) \in Nat /\ Len(log'["fd"]) >= Len(log["fd"])
      BY <1>0, <2>1, <2>2 DEF TypeOK, IdsInv, Streams
    <3>2. Len(log'["fd"]) \in Nat
      BY <1>0, <2>1 DEF Streams
    <3>. QED
      BY <1>1, <3>1, <3>2
  <2>5. \A q \in Streams : \A i \in 1..Len(log[q]) : log'[q][i] = log[q][i]
    BY <2>1
  <2>6. Len(log[s]) + 1 \in (MaxId(s) + 1)..Len(log'[s])
    <3>1. Len(log[s]) \in Nat /\ MaxId(s) \in Nat /\ MaxId(s) <= Len(log[s])
      BY <1>0
    <3>. QED
      BY <2>1, <3>1
  <2>. QED
    BY <2>1, <2>2, <2>3, <2>4, <2>5, <2>6
<1>2. ASSUME NEW D \in SUBSET Docs, Bump(D)
      PROVE  \A d \in Docs : row'[d] >= row[d] /\ (row'[d] # row[d] => d \in D)
  BY <1>2 DEF Bump, TypeOK
<1>3. ASSUME NEW D \in SUBSET Docs, NEW s \in Streams,
             Append1(s, D), fin' = fin, Bump(D) \/ row' = row
      PROVE  /\ fin' <= Len(log'["fd"])
             /\ \A q \in Streams : MaxId(q) <= MaxId(q)' /\ Len(log[q]) <= Len(log'[q])
             /\ \A q \in Streams : \A i \in 1..MaxId(q) : log'[q][i] = log[q][i]
             /\ \A q \in Streams : \A i \in 1..Len(log[q]) : log[q][i] \subseteq log'[q][i]
             /\ \A d \in Docs : row'[d] >= row[d]
             /\ \A d \in Docs : row'[d] # row[d] =>
                   \E q \in Streams : \E i \in (MaxId(q) + 1)..Len(log'[q]) : d \in log'[q][i]
  <2>1. \A q \in Streams : \A i \in 1..MaxId(q) : i \in 1..Len(log[q])
    BY <1>0
  <2>2. \A d \in Docs : row'[d] >= row[d] /\ (row'[d] # row[d] => d \in D)
    <3>1. CASE Bump(D)
      BY <1>2, <3>1
    <3>2. CASE row' = row
      BY <3>2 DEF TypeOK
    <3>. QED
      BY <1>3, <3>1, <3>2
  <2>3. /\ fin' <= Len(log'["fd"])
        /\ \A q \in Streams : MaxId(q) <= MaxId(q)' /\ Len(log[q]) <= Len(log'[q])
        /\ \A q \in Streams : \A i \in 1..Len(log[q]) : log'[q][i] = log[q][i]
        /\ Len(log[s]) + 1 \in (MaxId(s) + 1)..Len(log'[s])
        /\ log'[s][Len(log[s]) + 1] = D
    BY <1>1, <1>3
  <2>4. \A q \in Streams : \A i \in 1..Len(log[q]) : log[q][i] \subseteq log'[q][i]
    BY <2>3
  <2>5. \A q \in Streams : \A i \in 1..MaxId(q) : log'[q][i] = log[q][i]
    BY <2>1, <2>3
  <2>6. \A d \in Docs : row'[d] # row[d] =>
           \E q \in Streams : \E i \in (MaxId(q) + 1)..Len(log'[q]) : d \in log'[q][i]
    BY <2>2, <2>3
  <2>. QED
    BY <2>2, <2>3, <2>4, <2>5, <2>6
<1>5. CASE \E D \in SUBSET Docs : Journalled(D)
  <2>1. PICK D \in SUBSET Docs : Journalled(D)
    BY <1>5
  <2>2. Append1("cj", D) /\ Bump(D) /\ "cj" \in Streams /\ fin' = fin
    BY <2>1 DEF Journalled, Streams
  <2>. QED
    BY <1>3, <2>1, <2>2 DEF Journalled
<1>6. CASE \E c \in Customers : Command(c)
  <2>1. PICK c \in Customers : Command(c)
    BY <1>6
  <2>2. Append1("fs", {c}) /\ Bump({c}) /\ "fs" \in Streams /\ {c} \in SUBSET Docs /\ fin' = fin
    BY <2>1 DEF Command, Streams
  <2>. QED
    BY <1>3, <2>1, <2>2 DEF Command
<1>7. CASE \E s \in Streams : Unrelated(s)
  <2>1. PICK s \in Streams : Unrelated(s)
    BY <1>7
  <2>2. Append1(s, {}) /\ row' = row /\ {} \in SUBSET Docs /\ fin' = fin
    BY <2>1 DEF Unrelated
  <2>. QED
    BY <1>3, <2>1, <2>2 DEF Unrelated
<1>8. CASE FinishSession
  <2>1. fin' = Len(log["fd"]) /\ fin <= fin' /\ UNCHANGED <<row, log>>
    BY <1>0, <1>8 DEF FinishSession, TypeOK, IdsInv
  <2>2. \A s \in Streams : MaxId(s) <= MaxId(s)'
    BY <1>0, <2>1 DEF MaxId
  <2>3. \A d \in Docs : row[d] \in Nat
    BY DEF TypeOK
  <2>. QED
    BY <1>0, <1>8, <2>1, <2>2, <2>3 DEF FinishSession, MaxId, Streams
<1>9. CASE \E c \in Customers : SessionDetail(c)
  <2>1. PICK c \in Customers : SessionDetail(c)
    BY <1>9
  <2>. DEFINE n == Len(log["fd"])
  <2>2. n \in Nat /\ n > fin /\ fin \in Nat /\ "fd" \in Streams
    BY <1>0, <2>1 DEF SessionDetail, TypeOK, Streams
  <2>3. /\ \A q \in Streams : q # "fd" => log'[q] = log[q]
        /\ Len(log'["fd"]) = n
        /\ \A i \in 1..(n - 1) : log'["fd"][i] = log["fd"][i]
        /\ log'["fd"][n] = log["fd"][n] \union {c}
    BY <2>1, <2>2, ExtendLast DEF SessionDetail, TypeOK
  <2>4. fin' = fin /\ Bump({c})
    BY <2>1 DEF SessionDetail
  <2>5. \A s \in Streams : MaxId(s)' = MaxId(s) /\ Len(log'[s]) = Len(log[s])
    BY <2>3, <2>4 DEF MaxId
  <2>6. \A s \in Streams : \A i \in 1..MaxId(s) : log'[s][i] = log[s][i]
    BY <2>2, <2>3 DEF MaxId
  <2>7. \A s \in Streams : \A i \in 1..Len(log[s]) : log[s][i] \subseteq log'[s][i]
    <3>1. \A i \in 1..n : i = n \/ i \in 1..(n - 1)
      BY <2>2
    <3>. QED
      BY <2>3, <3>1
  <2>8. \A d \in Docs : row'[d] >= row[d] /\ (row'[d] # row[d] => d = c)
    BY <1>2, <2>4
  <2>9. n \in (MaxId("fd") + 1)..Len(log'["fd"]) /\ c \in log'["fd"][n]
    BY <2>2, <2>3 DEF MaxId
  <2>. QED
    BY <1>0, <2>1, <2>2, <2>4, <2>5, <2>6, <2>7, <2>8, <2>9 DEF SessionDetail, IdsInv
<1>. QED
  BY <1>5, <1>6, <1>7, <1>8, <1>9 DEF Environment

----------------------------------------------------------------------------
(* The invariant.                                                          *)

Rest == IdsInv /\ RoundInv /\ CopyInv /\ NothingSkipped

LEMMA IntervalFacts ==
    ASSUME TypeOK, IdsInv
    PROVE  /\ \A s \in Streams : /\ Len(log[s]) \in Nat /\ MaxId(s) \in Nat /\ wm[s] \in Nat
                                /\ MaxId(s) <= Len(log[s]) /\ wm[s] <= MaxId(s)
           /\ maxid \in Nat /\ st \in Streams
BY DEF TypeOK, IdsInv, MaxId, Streams

\* A change in the point-of-sale database owes a refresh beyond every id that
\* is stored or about to be.
LEMMA EnvironmentInv == IInv /\ Environment => Rest'
<1>. SUFFICES ASSUME IInv, Environment PROVE Rest'
  OBVIOUS
<1>. USE DEF IInv
<1>1. /\ UNCHANGED <<mirror, wm, cached, pc, st, maxid, data, cb, left, buf>>
      /\ fin' <= Len(log'["fd"])
      /\ \A s \in Streams : MaxId(s) <= MaxId(s)' /\ Len(log[s]) <= Len(log'[s])
      /\ \A s \in Streams : \A i \in 1..MaxId(s) : log'[s][i] = log[s][i]
      /\ \A s \in Streams : \A i \in 1..Len(log[s]) : log[s][i] \subseteq log'[s][i]
      /\ \A d \in Docs : row'[d] >= row[d]
      /\ \A d \in Docs : row'[d] # row[d] =>
            \E s \in Streams : \E i \in (MaxId(s) + 1)..Len(log'[s]) : d \in log'[s][i]
  BY EnvironmentStep DEF dbVars, workVars
<1>2. /\ \A s \in Streams : /\ Len(log[s]) \in Nat /\ MaxId(s) \in Nat /\ wm[s] \in Nat
                            /\ MaxId(s) <= Len(log[s]) /\ wm[s] <= MaxId(s)
      /\ maxid \in Nat /\ st \in Streams
  BY IntervalFacts
<1>3. TypeOK'
  BY TypeStep DEF Next
<1>4. \A s \in Streams : Len(log'[s]) \in Nat /\ MaxId(s)' \in Nat
  BY <1>3 DEF TypeOK, MaxId, Streams
<1>5. IdsInv'
  <2>1. \A s \in Streams : wm'[s] <= MaxId(s)'
    BY <1>1, <1>2, <1>4
  <2>. QED
    BY <1>1, <2>1 DEF IdsInv
<1>6. RoundInv'
  <2>1. pc = "range" \/ InRange => wm[st] <= maxid /\ maxid <= MaxId(st)'
    BY <1>1, <1>2, <1>4 DEF RoundInv
  <2>2. InRange => \A i \in (wm[st] + 1)..maxid : log'[st][i] \subseteq data
    <3>1. ASSUME InRange, NEW i \in (wm[st] + 1)..maxid PROVE i \in 1..MaxId(st)
      BY <1>2, <3>1 DEF RoundInv
    <3>. QED
      BY <1>1, <1>2, <3>1 DEF RoundInv
  <2>. QED
    BY <1>1, <2>1, <2>2 DEF RoundInv, InRange
<1>7. ASSUME NEW d \in Docs, InRange, OwedLater(d) \/ row'[d] # row[d]
      PROVE  OwedLater(d)'
  <2>. DEFINE From(s) == (IF s = st THEN maxid ELSE wm[s]) + 1
  <2>1. \A s \in Streams : From(s) \in Nat /\ From(s) >= 1 /\ From(s) <= MaxId(s) + 1
    BY <1>2, <1>7 DEF RoundInv
  <2>2. \E s \in Streams : \E i \in From(s)..Len(log'[s]) : d \in log'[s][i]
    <3>1. CASE OwedLater(d)
      <4>0. PICK s \in Streams : \E i \in From(s)..Len(log[s]) : d \in log[s][i]
        BY <3>1 DEF OwedLater
      <4>1. PICK i \in From(s)..Len(log[s]) : d \in log[s][i]
        BY <4>0
      <4>2. i \in 1..Len(log[s]) /\ i \in From(s)..Len(log'[s])
        <5>1. From(s) \in Nat /\ From(s) >= 1 /\ Len(log[s]) \in Nat
          BY <1>2, <2>1
        <5>2. Len(log[s]) <= Len(log'[s]) /\ Len(log'[s]) \in Nat
          BY <1>1, <1>4
        <5>. HIDE DEF From
        <5>. QED
          BY <4>1, <5>1, <5>2
      <4>. QED
        BY <1>1, <4>1, <4>2
    <3>2. CASE row'[d] # row[d]
      <4>0. PICK s \in Streams : \E i \in (MaxId(s) + 1)..Len(log'[s]) : d \in log'[s][i]
        BY <1>1, <3>2
      <4>1. PICK i \in (MaxId(s) + 1)..Len(log'[s]) : d \in log'[s][i]
        BY <4>0
      <4>2. i \in From(s)..Len(log'[s])
        BY <1>2, <1>4, <2>1, <4>1
      <4>. QED
        BY <4>1, <4>2
    <3>. QED
      BY <1>7, <3>1, <3>2
  <2>. QED
    BY <1>1, <2>2 DEF OwedLater
<1>8. CopyInv'
  <2>. SUFFICES ASSUME NEW d \in Docs
                PROVE  /\ NotAhead(d)'
                       /\ (pc = "write" /\ d \in left => ReadOk(d))'
                       /\ (Handled(d) => WrittenOk(d))'
    BY DEF CopyInv
  <2>1. row[d] \in Nat /\ row'[d] \in Nat /\ mirror[d] \in Nat /\ buf[d] \in Nat
    BY <1>3 DEF TypeOK
  <2>2. row'[d] >= row[d]
    BY <1>1
  <2>3. NotAhead(d)'
    BY <1>1, <2>1, <2>2 DEF CopyInv, NotAhead
  <2>4. ASSUME pc = "write", d \in left PROVE ReadOk(d)'
    <3>1. InRange /\ ReadOk(d)
      BY <2>4 DEF InRange, CopyInv
    <3>2. OwedLater(d) \/ row'[d] # row[d] => OwedLater(d)'
      BY <1>7, <3>1
    <3>. QED
      BY <1>1, <2>1, <2>2, <3>1, <3>2 DEF ReadOk
  <2>5. ASSUME Handled(d) PROVE WrittenOk(d)'
    <3>1. InRange /\ WrittenOk(d)
      BY <2>5 DEF Handled, InRange, CopyInv
    <3>2. OwedLater(d) \/ row'[d] # row[d] => OwedLater(d)'
      BY <1>7, <3>1
    <3>. QED
      BY <1>1, <3>1, <3>2 DEF WrittenOk
  <2>6. Handled(d)' <=> Handled(d)
    BY <1>1 DEF Handled
  <2>. QED
    BY <1>1, <2>3, <2>4, <2>5, <2>6
<1>9. NothingSkipped'
  <2>. SUFFICES ASSUME NEW d \in Docs, mirror[d] # row'[d] PROVE Owed(d)'
    BY <1>1 DEF NothingSkipped
  <2>1. CASE row'[d] = row[d]
    <3>0. PICK s \in Streams : \E i \in (wm[s] + 1)..Len(log[s]) : d \in log[s][i]
      BY <2>1 DEF NothingSkipped, Owed
    <3>1. PICK i \in (wm[s] + 1)..Len(log[s]) : d \in log[s][i]
      BY <3>0
    <3>2. i \in 1..Len(log[s]) /\ i \in (wm[s] + 1)..Len(log'[s])
      BY <1>1, <1>2, <1>4, <3>1
    <3>. QED
      BY <1>1, <3>1, <3>2 DEF Owed
  <2>2. CASE row'[d] # row[d]
    <3>0. PICK s \in Streams : \E i \in (MaxId(s) + 1)..Len(log'[s]) : d \in log'[s][i]
      BY <1>1, <2>2
    <3>1. PICK i \in (MaxId(s) + 1)..Len(log'[s]) : d \in log'[s][i]
      BY <3>0
    <3>2. i \in (wm[s] + 1)..Len(log'[s])
      BY <1>2, <1>4, <3>1
    <3>. QED
      BY <1>1, <3>1, <3>2 DEF Owed
  <2>. QED
    BY <2>1, <2>2
<1>. QED
  BY <1>5, <1>6, <1>8, <1>9 DEF Rest

\* A step that leaves every log, id and copy alone but starts or drops a round.
LEMMA QuietStep ==
    ASSUME IInv, UNCHANGED <<row, log, fin, mirror, wm>>,
           \A s \in Streams : cached'[s] # None => cached'[s] <= wm[s],
           pc' \in {"down", "idle", "max"}, cb' = 1
    PROVE  Rest'
<1>. USE DEF IInv
<1>1. ~ InRange' /\ pc' # "range" /\ pc' \notin {"read", "write", "tocj", "setlast"}
  BY DEF InRange
<1>2. IdsInv'
  BY DEF IdsInv, MaxId
<1>3. RoundInv'
  BY <1>1 DEF RoundInv
<1>4. \A d \in Docs : ~ Handled(d)'
  BY <1>1 DEF Handled
<1>5. CopyInv'
  BY <1>1, <1>4 DEF CopyInv, NotAhead
<1>6. NothingSkipped'
  BY DEF NothingSkipped, Owed
<1>. QED
  BY <1>2, <1>3, <1>5, <1>6 DEF Rest

LEMMA IdleInv == IInv /\ (Start \/ Tick \/ Raise \/ Crash) => Rest'
<1>1. IInv /\ (Start \/ Tick) => Rest'
  BY QuietStep DEF Start, Tick, IInv, IdsInv, RoundInv, posVars, dbVars, workVars
<1>2. IInv /\ Raise => Rest'
  BY QuietStep DEF Raise, ForgetRound, IInv, IdsInv, posVars, dbVars
<1>3. IInv /\ Crash => Rest'
  BY QuietStep DEF Crash, ForgetRound, posVars, dbVars
<1>. QED
  BY <1>1, <1>2, <1>3

LEMMA ReadMaxInv == IInv /\ ReadMax => Rest'
<1>. SUFFICES ASSUME IInv, ReadMax PROVE Rest'
  OBVIOUS
<1>. USE DEF IInv
<1>1. /\ UNCHANGED <<row, log, fin, mirror, wm, cached, st, cb>>
      /\ pc = "max" /\ pc' = "range" /\ maxid' = MaxId(st)
  BY DEF ReadMax, posVars, dbVars
<1>2. IdsInv' /\ NothingSkipped'
  BY <1>1 DEF IdsInv, MaxId, NothingSkipped, Owed
<1>3. RoundInv'
  <2>1. wm[st] <= MaxId(st) /\ MaxId(st) <= MaxId(st)
    BY IntervalFacts
  <2>. QED
    BY <1>1, <2>1 DEF RoundInv, InRange, MaxId
<1>4. CopyInv'
  BY <1>1 DEF CopyInv, NotAhead, Handled
<1>. QED
  BY <1>2, <1>3, <1>4 DEF Rest

\* The documents read for a round are all those after the stored last id, since
\* the remembered one is not ahead of it.
LEMMA ReadDataInv == IInv /\ ReadData => Rest'
<1>. SUFFICES ASSUME IInv, ReadData PROVE Rest'
  OBVIOUS
<1>. USE DEF IInv
<1>1. UNCHANGED <<row, log, fin, mirror, wm>> /\ pc = "range"
  BY DEF ReadData, posVars, dbVars
<1>2. LastId \in Nat /\ LastId <= wm[st] /\ cached' = [cached EXCEPT ![st] = LastId]
  BY DEF LastId, ReadData, TypeOK, IdsInv
<1>3. \A s \in Streams : cached'[s] # None => cached'[s] <= wm[s]
  BY <1>2 DEF TypeOK, IdsInv
<1>4. CASE NextStream
  <2>1. pc' \in {"idle", "max"} /\ cb' = 1
    BY <1>4 DEF NextStream, ForgetRound
  <2>. QED
    BY <1>1, <1>3, <2>1, QuietStep
<1>5. CASE /\ data' = GetData(st, LastId, maxid)
           /\ pc' = IF data' = {} THEN "setlast"
                    ELSE IF st = "cj" THEN "read" ELSE "tocj"
           /\ UNCHANGED <<st, maxid, cb, left, buf>>
  <2>1. IdsInv' /\ NothingSkipped'
    BY <1>1, <1>3 DEF IdsInv, MaxId, NothingSkipped, Owed
  <2>2. wm[st] <= maxid /\ maxid <= MaxId(st) /\ MaxId(st)' = MaxId(st)
    BY <1>1, <1>5 DEF RoundInv, MaxId
  <2>3. \A i \in (wm[st] + 1)..maxid : log[st][i] \subseteq data'
    <3>1. wm[st] \in Nat /\ maxid \in Nat
      BY IntervalFacts
    <3>2. \A i \in (wm[st] + 1)..maxid : i \in (LastId + 1)..maxid
      BY <1>2, <3>1
    <3>. QED
      BY <1>5, <3>2 DEF GetData
  <2>4. RoundInv'
    BY <1>1, <1>5, <2>2, <2>3 DEF RoundInv
  <2>5. \A d \in Docs : ~ Handled(d)'
    <3>1. cb' = 1 /\ \A d \in Docs : ~ (CbOf[d] < cb')
      BY <1>1, <1>5, DocsAssumption DEF RoundInv
    <3>2. pc' = "setlast" => data' = {}
      BY <1>5
    <3>3. pc' # "write"
      BY <1>5
    <3>. QED
      BY <3>1, <3>2, <3>3 DEF Handled
  <2>6. CopyInv'
    BY <1>1, <1>5, <2>5 DEF CopyInv, NotAhead
  <2>. QED
    BY <2>1, <2>4, <2>6 DEF Rest
<1>. QED
  BY <1>4, <1>5 DEF ReadData

\* What is named after the id about to be stored is named after the stored one.
LEMMA LaterIsOwed ==
    ASSUME TypeOK, IdsInv, RoundInv, InRange, NEW d \in Docs, OwedLater(d)
    PROVE  Owed(d)
<1>. DEFINE From(s) == (IF s = st THEN maxid ELSE wm[s]) + 1
<1>1. PICK s \in Streams : \E i \in From(s)..Len(log[s]) : d \in log[s][i]
  BY DEF OwedLater
<1>2. PICK i \in From(s)..Len(log[s]) : d \in log[s][i]
  BY <1>1
<1>3. i \in (wm[s] + 1)..Len(log[s])
  BY <1>2, IntervalFacts DEF RoundInv
<1>. QED
  BY <1>2, <1>3 DEF Owed

\* The journal row that fs_to_cj writes owes each of its customers a later round
\* of the change journal.
LEMMA FsToCjInv == IInv /\ FsToCj => Rest'
<1>. SUFFICES ASSUME IInv, FsToCj PROVE Rest'
  OBVIOUS
<1>. USE DEF IInv
<1>1. /\ UNCHANGED <<row, fin, mirror, wm, cached, st, maxid, data, cb, left, buf>>
      /\ pc = "tocj" /\ pc' = "setlast" /\ st # "cj" /\ InRange
      /\ data \in SUBSET Docs /\ Append1("cj", data)
  BY DEF FsToCj, dbVars, workVars, RoundInv, InRange, TypeOK
<1>2. /\ \A s \in Streams : s # "cj" => log'[s] = log[s]
      /\ Len(log'["cj"]) = Len(log["cj"]) + 1
      /\ \A i \in 1..Len(log["cj"]) : log'["cj"][i] = log["cj"][i]
      /\ log'["cj"][Len(log["cj"]) + 1] = data
  BY <1>1, AppendLog DEF TypeOK, Streams
<1>3. /\ \A s \in Streams : /\ Len(log[s]) \in Nat /\ MaxId(s) \in Nat /\ wm[s] \in Nat
                            /\ MaxId(s) <= Len(log[s]) /\ wm[s] <= MaxId(s)
      /\ maxid \in Nat /\ st \in Streams /\ "cj" \in Streams /\ "fd" \in Streams
  BY IntervalFacts DEF Streams
<1>4. \A s \in Streams : /\ MaxId(s) <= MaxId(s)' /\ (s # "cj" => MaxId(s)' = MaxId(s))
                        /\ MaxId(s)' \in Nat
  BY <1>1, <1>2, <1>3 DEF MaxId
<1>5. IdsInv'
  <2>1. \A s \in Streams : wm[s] <= MaxId(s)'
    BY <1>3, <1>4
  <2>. QED
    BY <1>1, <1>2, <1>3, <2>1 DEF IdsInv
<1>6. RoundInv'
  BY <1>1, <1>2, <1>3, <1>4 DEF RoundInv, InRange
<1>7. ASSUME NEW d \in Docs, Owed(d) PROVE Owed(d)'
  <2>1. PICK s \in Streams : \E i \in (wm[s] + 1)..Len(log[s]) : d \in log[s][i]
    BY <1>7 DEF Owed
  <2>2. PICK i \in (wm[s] + 1)..Len(log[s]) : d \in log[s][i]
    BY <2>1
  <2>3. /\ Len(log[s]) \in Nat /\ wm[s] \in Nat
        /\ log'["cj"][i] = log["cj"][i] \/ s # "cj"
    BY <1>2, <1>3, <2>2
  <2>4. Len(log'[s]) = Len(log[s]) \/ Len(log'[s]) = Len(log[s]) + 1
    BY <1>2
  <2>5. i \in (wm[s] + 1)..Len(log'[s]) /\ log'[s][i] = log[s][i]
    BY <1>2, <2>2, <2>3, <2>4
  <2>. QED
    BY <1>1, <2>2, <2>5 DEF Owed
<1>8. ASSUME NEW d \in Docs, d \in data PROVE OwedLater(d)'
  <2>1. Len(log["cj"]) + 1 \in (wm["cj"] + 1)..Len(log'["cj"])
    BY <1>2, <1>3
  <2>. QED
    BY <1>1, <1>2, <1>3, <1>8, <2>1 DEF OwedLater
<1>9. CopyInv'
  BY <1>1, <1>8 DEF CopyInv, NotAhead, Handled, WrittenOk
<1>10. NothingSkipped'
  BY <1>1, <1>7 DEF NothingSkipped
<1>. QED
  BY <1>5, <1>6, <1>9, <1>10 DEF Rest

\* Rows just read are current.
LEMMA CbReadInv == IInv /\ CbRead => Rest'
<1>. SUFFICES ASSUME IInv, CbRead PROVE Rest'
  OBVIOUS
<1>. USE DEF IInv
<1>1. /\ UNCHANGED <<row, log, fin, mirror, wm, cached, st, maxid, data>>
      /\ pc = "read" /\ InRange
      /\ left' = {d \in data : CbOf[d] = cb}
      /\ buf' = [d \in Docs |-> IF d \in left' THEN row[d] ELSE 0]
  BY DEF CbRead, posVars, dbVars, InRange
<1>2. \/ left' # {} /\ pc' = "write" /\ cb' = cb
      \/ left' = {} /\ cb < NCb /\ cb' = cb + 1 /\ pc' = "read"
      \/ left' = {} /\ ~ (cb < NCb) /\ cb' = cb /\ pc' = "setlast"
  BY DEF CbRead, AfterCallback
<1>3. IdsInv' /\ NothingSkipped'
  BY <1>1 DEF IdsInv, MaxId, NothingSkipped, Owed
<1>4. RoundInv'
  BY <1>1, <1>2 DEF RoundInv, InRange, MaxId
<1>5. \A d \in Docs : OwedLater(d)' <=> OwedLater(d)
  BY <1>1 DEF OwedLater
<1>6. ASSUME NEW d \in Docs, Handled(d)' PROVE Handled(d)
  <2>1. d \in data /\ CbOf[d] \in 1..NCb /\ cb \in 1..NCb /\ NCb \in Nat
    BY <1>1, <1>6, DocsAssumption DEF Handled, TypeOK
  <2>2. CbOf[d] < cb
    BY <1>1, <1>2, <1>6, <2>1 DEF Handled
  <2>. QED
    BY <1>1, <2>1, <2>2 DEF Handled
<1>7. CopyInv'
  <2>. SUFFICES ASSUME NEW d \in Docs
                PROVE  /\ NotAhead(d)'
                       /\ (pc = "write" /\ d \in left => ReadOk(d))'
                       /\ (Handled(d) => WrittenOk(d))'
    BY DEF CopyInv
  <2>1. NotAhead(d)' /\ row[d] \in Nat /\ mirror[d] \in Nat
    BY <1>1 DEF CopyInv, NotAhead, TypeOK
  <2>2. (d \in left => ReadOk(d))'
    BY <1>1, <2>1 DEF ReadOk, NotAhead
  <2>3. (Handled(d) => WrittenOk(d))'
    BY <1>1, <1>5, <1>6 DEF CopyInv, WrittenOk
  <2>. QED
    BY <2>1, <2>2, <2>3
<1>. QED
  BY <1>3, <1>4, <1>7 DEF Rest

\* A row written from what was read is current, or its document was changed since
\* and is owed a later round.
LEMMA CbWriteInv == ASSUME IInv, NEW D \in SUBSET Docs, CbWrite(D) PROVE Rest'
<1>. USE DEF IInv
<1>1. /\ UNCHANGED <<row, log, fin, wm, cached, st, maxid, data, buf>>
      /\ pc = "write" /\ InRange /\ D \subseteq left
      /\ left' = left \ D
      /\ mirror' = [d \in Docs |-> IF d \in D THEN buf[d] ELSE mirror[d]]
  BY DEF CbWrite, posVars, InRange
<1>2. \/ left' # {} /\ pc' = "write" /\ cb' = cb
      \/ left' = {} /\ cb < NCb /\ cb' = cb + 1 /\ pc' = "read"
      \/ left' = {} /\ ~ (cb < NCb) /\ cb' = cb /\ pc' = "setlast"
  <2>1. CASE left' = {}
    BY <2>1 DEF CbWrite, AfterCallback
  <2>2. CASE left' # {}
    BY <1>1, <2>2 DEF CbWrite
  <2>. QED
    BY <2>1, <2>2
<1>3. IdsInv'
  BY <1>1 DEF IdsInv, MaxId
<1>4. RoundInv'
  BY <1>1, <1>2 DEF RoundInv, InRange, MaxId
<1>5. \A d \in Docs : (OwedLater(d)' <=> OwedLater(d)) /\ (Owed(d)' <=> Owed(d))
  BY <1>1 DEF OwedLater, Owed
<1>6. ASSUME NEW d \in Docs, Handled(d)' PROVE d \in D \/ (Handled(d) /\ d \notin D)
  <2>1. d \in data /\ CbOf[d] \in 1..NCb /\ cb \in 1..NCb /\ NCb \in Nat
    BY <1>1, <1>6, DocsAssumption DEF Handled, TypeOK
  <2>2. d \notin D => CbOf[d] < cb \/ (CbOf[d] = cb /\ d \notin left)
    BY <1>1, <1>2, <1>6, <2>1 DEF Handled
  <2>. QED
    BY <1>1, <2>1, <2>2 DEF Handled
<1>7. \A d \in D : d \in Docs /\ d \in left /\ ReadOk(d)
  BY <1>1 DEF CopyInv, TypeOK
<1>8. CopyInv'
  <2>. SUFFICES ASSUME NEW d \in Docs
                PROVE  /\ NotAhead(d)'
                       /\ (pc = "write" /\ d \in left => ReadOk(d))'
                       /\ (Handled(d) => WrittenOk(d))'
    BY DEF CopyInv
  <2>1. NotAhead(d)'
    BY <1>1, <1>7 DEF CopyInv, NotAhead, ReadOk
  <2>2. (d \in left => ReadOk(d))'
    BY <1>1, <1>5 DEF ReadOk, CopyInv
  <2>3. ASSUME Handled(d)' PROVE WrittenOk(d)'
    <3>1. CASE d \in D
      BY <1>1, <1>5, <1>7, <3>1 DEF ReadOk, WrittenOk
    <3>2. CASE Handled(d) /\ d \notin D
      BY <1>1, <1>5, <3>2 DEF CopyInv, WrittenOk
    <3>. QED
      BY <1>6, <2>3, <3>1, <3>2
  <2>. QED
    BY <2>1, <2>2, <2>3
<1>9. NothingSkipped'
  <2>. SUFFICES ASSUME NEW d \in Docs, mirror'[d] # row[d] PROVE Owed(d)
    BY <1>1, <1>5 DEF NothingSkipped
  <2>1. CASE d \in D
    BY <1>1, <1>7, <2>1, LaterIsOwed DEF ReadOk
  <2>2. CASE d \notin D
    BY <1>1, <2>2 DEF NothingSkipped
  <2>. QED
    BY <2>1, <2>2
<1>. QED
  BY <1>3, <1>4, <1>8, <1>9 DEF Rest

\* At the end of a round every document of its range is current or owed a later
\* round, so the id may be stored.
LEMMA SetLastInv == IInv /\ SetLast => Rest'
<1>. SUFFICES ASSUME IInv, SetLast PROVE Rest'
  OBVIOUS
<1>. USE DEF IInv
<1>1. /\ UNCHANGED <<row, log, fin, mirror>>
      /\ pc = "setlast" /\ InRange
      /\ wm' = [wm EXCEPT ![st] = maxid]
      /\ pc' \in {"idle", "max"} /\ cb' = 1
      /\ cached' = cached \/ cached' = [cached EXCEPT ![st] = maxid]
  BY DEF SetLast, NextStream, ForgetRound, posVars, InRange
<1>2. /\ \A s \in Streams : /\ Len(log[s]) \in Nat /\ MaxId(s) \in Nat /\ wm[s] \in Nat
                            /\ MaxId(s) <= Len(log[s]) /\ wm[s] <= MaxId(s)
      /\ maxid \in Nat /\ st \in Streams
      /\ wm[st] <= maxid /\ maxid <= MaxId(st)
  BY <1>1, IntervalFacts DEF RoundInv
<1>3. \A s \in Streams : wm'[s] = IF s = st THEN maxid ELSE wm[s]
  BY <1>1 DEF TypeOK
<1>4. IdsInv'
  <2>1. \A s \in Streams : wm'[s] <= MaxId(s)'
    BY <1>1, <1>2, <1>3 DEF MaxId
  <2>2. \A s \in Streams : cached'[s] # None => cached'[s] <= wm'[s]
    <3>. SUFFICES ASSUME NEW s \in Streams, cached'[s] # None PROVE cached'[s] <= wm'[s]
      OBVIOUS
    <3>1. CASE s = st /\ cached'[s] = maxid
      BY <1>2, <1>3, <3>1
    <3>2. CASE cached'[s] = cached[s]
      <4>1. cached[s] \in Nat /\ cached[s] <= wm[s]
        BY <3>2 DEF IdsInv, TypeOK
      <4>2. wm[s] \in Nat /\ wm[s] <= wm'[s]
        BY <1>2, <1>3
      <4>3. wm'[s] \in Nat
        BY <1>2, <1>3
      <4>. QED
        BY <3>2, <4>1, <4>2, <4>3
    <3>. QED
      BY <1>1, <3>1, <3>2 DEF TypeOK
  <2>. QED
    BY <1>1, <2>1, <2>2 DEF IdsInv
<1>5. RoundInv'
  BY <1>1 DEF RoundInv, InRange
<1>6. CopyInv'
  BY <1>1 DEF CopyInv, NotAhead, Handled
<1>7. ASSUME NEW d \in Docs PROVE Owed(d)' <=> OwedLater(d)
  BY <1>1, <1>3 DEF Owed, OwedLater
<1>8. NothingSkipped'
  <2>. SUFFICES ASSUME NEW d \in Docs, mirror[d] # row[d] PROVE OwedLater(d)
    BY <1>1, <1>7 DEF NothingSkipped
  <2>1. PICK s \in Streams : \E i \in (wm[s] + 1)..Len(log[s]) : d \in log[s][i]
    BY DEF NothingSkipped, Owed
  <2>2. PICK i \in (wm[s] + 1)..Len(log[s]) : d \in log[s][i]
    BY <2>1
  <2>3. CASE s = st /\ i \in (wm[st] + 1)..maxid
    <3>1. d \in data
      BY <1>1, <2>2, <2>3 DEF RoundInv
    <3>. QED
      BY <1>1, <3>1 DEF CopyInv, Handled, WrittenOk
  <2>4. CASE s # st \/ i \notin (wm[st] + 1)..maxid
    <3>1. i \in ((IF s = st THEN maxid ELSE wm[s]) + 1)..Len(log[s])
      BY <1>2, <2>2, <2>4
    <3>. QED
      BY <2>2, <3>1 DEF OwedLater
  <2>. QED
    BY <2>3, <2>4
<1>. QED
  BY <1>4, <1>5, <1>6, <1>8 DEF Rest

----------------------------------------------------------------------------
(* The theorems.                                                           *)

LEMMA InitInv == Init => IInv
<1>. SUFFICES ASSUME Init PROVE IInv
  OBVIOUS
<1>1. TypeOK
  BY DocsAssumption DEF Init, TypeOK, NoRows, Streams
<1>2. \A s \in Streams : Len(log[s]) = 0 /\ MaxId(s) = 0
  BY DEF Init, MaxId, Streams
<1>3. IdsInv
  BY <1>2 DEF Init, IdsInv, Streams
<1>. QED
  BY <1>1, <1>3 DEF Init, IInv, RoundInv, InRange, CopyInv, NotAhead, Handled, NothingSkipped

LEMMA NextInv == IInv /\ [Next]_vars => IInv'
<1>. SUFFICES ASSUME IInv, [Next]_vars PROVE IInv'
  OBVIOUS
<1>1. TypeOK'
  BY TypeStep DEF IInv
<1>2. CASE UNCHANGED vars
  BY <1>2 DEF IInv, vars, posVars, dbVars, workVars, TypeOK, IdsInv, RoundInv, CopyInv,
              NothingSkipped, MaxId, InRange, NotAhead, ReadOk, WrittenOk, Handled,
              OwedLater, Owed
<1>3. CASE Next
  <2>1. Rest'
    BY <1>3, EnvironmentInv, IdleInv, ReadMaxInv, ReadDataInv, FsToCjInv, CbReadInv,
       CbWriteInv, SetLastInv DEF Next, Service
  <2>. QED
    BY <1>1, <2>1 DEF Rest, IInv
<1>. QED
  BY <1>2, <1>3

(***************************************************************************)
(* The inductive invariant of the service.                                 *)
(***************************************************************************)
THEOREM Invariant == Spec => []IInv
BY InitInv, NextInv, PTL DEF Spec

(***************************************************************************)
(* Type correctness, for any set of documents, callbacks and bounds.       *)
(***************************************************************************)
THEOREM TypeCorrect == Spec => []TypeOK
BY Invariant, PTL DEF IInv

(***************************************************************************)
(* No change of POS is lost, whatever the failures (sync_helper.py:157-180)*)
(***************************************************************************)
THEOREM Safety == Spec => []NothingSkipped
BY Invariant, PTL DEF IInv

\* A callback never writes an older version than the mirror holds.
LEMMA MirrorStep ==
    ASSUME IInv, [Next]_vars
    PROVE  \A d \in Docs : mirror'[d] >= mirror[d] /\ mirror'[d] \in Nat
<1>. USE DEF IInv
<1>0. \A d \in Docs : mirror[d] \in Nat /\ mirror'[d] \in Nat /\ buf[d] \in Nat
  BY TypeStep DEF TypeOK
<1>1. CASE mirror' = mirror
  BY <1>0, <1>1
<1>2. ASSUME NEW D \in SUBSET Docs, CbWrite(D)
      PROVE  \A d \in Docs : mirror'[d] >= mirror[d]
  <2>. SUFFICES ASSUME NEW d \in Docs PROVE mirror'[d] >= mirror[d]
    OBVIOUS
  <2>1. mirror'[d] = IF d \in D THEN buf[d] ELSE mirror[d]
    BY <1>2 DEF CbWrite
  <2>2. d \in D => mirror[d] <= buf[d]
    BY <1>2 DEF CbWrite, CopyInv, ReadOk
  <2>. QED
    BY <1>0, <2>1, <2>2
<1>3. mirror' = mirror \/ \E D \in SUBSET Docs : CbWrite(D)
  BY DEF Next, Environment, Service, vars, dbVars, Journalled, Command, SessionDetail,
         Unrelated, FinishSession, Start, Tick, ReadMax, ReadData, FsToCj, CbRead, SetLast,
         Raise, Crash
<1>. QED
  BY <1>0, <1>1, <1>2, <1>3

(***************************************************************************)
(* The mirror never goes back to an older version, whatever is retried.    *)
(***************************************************************************)
THEOREM Monotone == Spec => NeverBackwards
<1>1. IInv /\ [Next]_vars => [\A d \in Docs : mirror'[d] >= mirror[d]]_mirror
  BY MirrorStep
<1>. QED
  BY <1>1, Invariant, PTL DEF Spec, NeverBackwards

(***************************************************************************)
(* A stored last id only moves forward, within its log.                    *)
(***************************************************************************)
THEOREM Forward == Spec => LastIdForward
<1>1. ASSUME IInv, [Next]_vars
      PROVE  [\A s \in Streams : wm'[s] >= wm[s] /\ wm'[s] <= MaxId(s)]_wm
  <2>1. wm' = wm \/ SetLast
    BY <1>1 DEF Next, Environment, Service, vars, dbVars, Journalled, Command, SessionDetail,
           Unrelated, FinishSession, Start, Tick, ReadMax, ReadData, FsToCj, CbRead, CbWrite,
           Raise, Crash
  <2>2. ASSUME SetLast, NEW s \in Streams PROVE wm'[s] >= wm[s] /\ wm'[s] <= MaxId(s)
    <3>1. wm'[s] = IF s = st THEN maxid ELSE wm[s]
      BY <1>1, <2>2 DEF SetLast, IInv, TypeOK
    <3>2. wm[st] <= maxid /\ maxid <= MaxId(st)
      BY <1>1, <2>2 DEF SetLast, IInv, RoundInv, InRange
    <3>3. wm[s] \in Nat /\ maxid \in Nat /\ wm[s] <= MaxId(s)
      BY <1>1, IntervalFacts DEF IInv
    <3>. QED
      BY <3>1, <3>2, <3>3
  <2>. QED
    BY <2>1, <2>2
<1>. QED
  BY <1>1, Invariant, PTL DEF Spec, LastIdForward

----------------------------------------------------------------------------
(* The service implements Replica.                                         *)

OwedDocs == {d \in Docs : Owed(d)}

\* An entry appended to a log owes exactly its documents in addition.
LEMMA AppendOwed ==
    ASSUME IInv, NEW s \in Streams, NEW D \in SUBSET Docs, Append1(s, D), wm' = wm
    PROVE  OwedDocs' = OwedDocs \union D
<1>. USE DEF IInv
<1>1. /\ \A q \in Streams : q # s => log'[q] = log[q]
      /\ Len(log'[s]) = Len(log[s]) + 1
      /\ \A i \in 1..Len(log[s]) : log'[s][i] = log[s][i]
      /\ log'[s][Len(log[s]) + 1] = D
  BY AppendLog DEF TypeOK
<1>2. \A q \in Streams : /\ Len(log[q]) \in Nat /\ MaxId(q) \in Nat /\ wm[q] \in Nat
                        /\ MaxId(q) <= Len(log[q]) /\ wm[q] <= MaxId(q)
  BY IntervalFacts
<1>3. ASSUME NEW d \in Docs, Owed(d) PROVE Owed(d)'
  <2>1. PICK q \in Streams : \E i \in (wm[q] + 1)..Len(log[q]) : d \in log[q][i]
    BY <1>3 DEF Owed
  <2>2. PICK i \in (wm[q] + 1)..Len(log[q]) : d \in log[q][i]
    BY <2>1
  <2>3. i \in (wm[q] + 1)..Len(log'[q]) /\ log'[q][i] = log[q][i]
    BY <1>1, <1>2, <2>2
  <2>. QED
    BY <2>2, <2>3 DEF Owed
<1>4. ASSUME NEW d \in D PROVE Owed(d)'
  <2>1. Len(log[s]) + 1 \in (wm[s] + 1)..Len(log'[s])
    BY <1>1, <1>2
  <2>. QED
    BY <1>1, <1>4, <2>1 DEF Owed
<1>5. ASSUME NEW d \in Docs, Owed(d)' PROVE Owed(d) \/ d \in D
  <2>1. PICK q \in Streams : \E i \in (wm[q] + 1)..Len(log'[q]) : d \in log'[q][i]
    BY <1>5 DEF Owed
  <2>2. PICK i \in (wm[q] + 1)..Len(log'[q]) : d \in log'[q][i]
    BY <2>1
  <2>3. CASE i \in (wm[q] + 1)..Len(log[q])
    <3>1. log'[q][i] = log[q][i]
      BY <1>1, <1>2, <2>3
    <3>. QED
      BY <2>2, <2>3, <3>1 DEF Owed
  <2>4. CASE i \notin (wm[q] + 1)..Len(log[q])
    <3>1. q = s /\ i = Len(log[s]) + 1
      BY <1>1, <1>2, <2>2, <2>4
    <3>. QED
      BY <1>1, <2>2, <3>1
  <2>. QED
    BY <2>3, <2>4
<1>. QED
  BY <1>3, <1>4, <1>5 DEF OwedDocs

\* A financial session still open is after the stored last id.
LEMMA DetailOwed ==
    ASSUME IInv, NEW c \in Customers, SessionDetail(c)
    PROVE  OwedDocs' = OwedDocs \union {c}
<1>. USE DocsAssumption DEF IInv
<1>. DEFINE n == Len(log["fd"])
<1>1. \A q \in Streams : /\ Len(log[q]) \in Nat /\ MaxId(q) \in Nat /\ wm[q] \in Nat
                        /\ MaxId(q) <= Len(log[q]) /\ wm[q] <= MaxId(q)
  BY IntervalFacts
<1>2. wm' = wm /\ n \in Nat /\ n > fin /\ fin \in Nat /\ wm["fd"] <= fin /\ wm["fd"] \in Nat
      /\ "fd" \in Streams
  BY <1>1 DEF SessionDetail, dbVars, TypeOK, Streams, MaxId
<1>3. /\ \A q \in Streams : q # "fd" => log'[q] = log[q]
      /\ Len(log'["fd"]) = n
      /\ \A i \in 1..(n - 1) : log'["fd"][i] = log["fd"][i]
      /\ log'["fd"][n] = log["fd"][n] \union {c}
  BY <1>2, ExtendLast DEF SessionDetail, TypeOK
<1>4. \A q \in Streams : \A i \in (wm[q] + 1)..Len(log[q]) :
        log'[q][i] = IF q = "fd" /\ i = n THEN log[q][i] \union {c} ELSE log[q][i]
  <2>. SUFFICES ASSUME NEW q \in Streams, NEW i \in (wm[q] + 1)..Len(log[q])
                PROVE  log'[q][i] = IF q = "fd" /\ i = n THEN log[q][i] \union {c} ELSE log[q][i]
    OBVIOUS
  <2>1. q = "fd" => i = n \/ i \in 1..(n - 1)
    BY <1>1, <1>2
  <2>. QED
    BY <1>3, <2>1
<1>5. n \in (wm["fd"] + 1)..Len(log["fd"])
  BY <1>2
<1>6. \A q \in Streams : Len(log'[q]) = Len(log[q])
  BY <1>3
<1>7. ASSUME NEW d \in Docs PROVE Owed(d)' <=> Owed(d) \/ d = c
  <2>1. ASSUME Owed(d) PROVE Owed(d)'
    <3>1. PICK q \in Streams : \E i \in (wm[q] + 1)..Len(log[q]) : d \in log[q][i]
      BY <2>1 DEF Owed
    <3>2. PICK i \in (wm[q] + 1)..Len(log[q]) : d \in log[q][i]
      BY <3>1
    <3>3. d \in log'[q][i]
      BY <1>4, <3>2
    <3>. QED
      BY <1>2, <1>6, <3>2, <3>3 DEF Owed
  <2>2. ASSUME d = c PROVE Owed(d)'
    BY <1>2, <1>3, <1>5, <2>2 DEF Owed
  <2>3. ASSUME Owed(d)' PROVE Owed(d) \/ d = c
    <3>1. PICK q \in Streams : \E i \in (wm[q] + 1)..Len(log[q]) : d \in log'[q][i]
      BY <1>2, <1>6, <2>3 DEF Owed
    <3>2. PICK i \in (wm[q] + 1)..Len(log[q]) : d \in log'[q][i]
      BY <3>1
    <3>3. d \in log[q][i] \/ d = c
      BY <1>4, <3>2
    <3>. QED
      BY <3>2, <3>3 DEF Owed
  <2>. QED
    BY <2>1, <2>2, <2>3
<1>. QED
  BY <1>7 DEF OwedDocs

\* Storing an id ticks off documents, each of which the mirror shows as it is.
LEMMA SettleStep ==
    ASSUME IInv, SetLast
    PROVE  OwedDocs' \subseteq OwedDocs
           /\ \A d \in OwedDocs \ OwedDocs' : mirror[d] = row[d]
<1>. USE DEF IInv
<1>1. /\ UNCHANGED log /\ pc = "setlast" /\ InRange
      /\ wm' = [wm EXCEPT ![st] = maxid]
  BY DEF SetLast, posVars, InRange
<1>2. /\ \A s \in Streams : Len(log[s]) \in Nat /\ wm[s] \in Nat
      /\ maxid \in Nat /\ st \in Streams
  BY IntervalFacts
<1>3. \A d \in Docs : Owed(d)' <=> OwedLater(d)
  BY <1>1 DEF Owed, OwedLater, TypeOK
<1>4. OwedDocs' \subseteq OwedDocs
  BY <1>1, <1>3, LaterIsOwed DEF OwedDocs
<1>5. ASSUME NEW d \in Docs, Owed(d), ~ OwedLater(d) PROVE mirror[d] = row[d]
  <2>1. PICK s \in Streams : \E i \in (wm[s] + 1)..Len(log[s]) : d \in log[s][i]
    BY <1>5 DEF Owed
  <2>2. PICK i \in (wm[s] + 1)..Len(log[s]) : d \in log[s][i]
    BY <2>1
  <2>3. s = st /\ i \in (wm[st] + 1)..maxid
    <3>1. i \notin ((IF s = st THEN maxid ELSE wm[s]) + 1)..Len(log[s])
      BY <1>5, <2>2 DEF OwedLater
    <3>. QED
      BY <1>2, <2>2, <3>1
  <2>4. d \in data
    BY <1>1, <2>2, <2>3 DEF RoundInv
  <2>. QED
    BY <1>1, <1>5, <2>4 DEF CopyInv, Handled, WrittenOk
<1>. QED
  BY <1>3, <1>4, <1>5 DEF OwedDocs

LEMMA ReplicaInit == Init => Mirror!Init
<1>. SUFFICES ASSUME Init PROVE Mirror!Init
  OBVIOUS
<1>1. \A s \in Streams : Len(log[s]) = 0 /\ wm[s] = 0
  BY DEF Init
<1>2. \A s \in Streams : (wm[s] + 1)..Len(log[s]) = {}
  BY <1>1
<1>3. \A d \in Docs : ~ Owed(d)
  BY <1>2 DEF Owed
<1>. QED
  BY <1>3 DEF Init, Mirror!Init

LEMMA ReplicaNext == IInv /\ [Next]_vars => [Mirror!Next]_Mirror!vars
<1>. SUFFICES ASSUME IInv, [Next]_vars PROVE [Mirror!Next]_Mirror!vars
  OBVIOUS
<1>. USE DocsAssumption
<1>0. OwedDocs \in SUBSET Docs
  BY DEF OwedDocs
<1>1. ASSUME UNCHANGED <<row, mirror>>, OwedDocs' = OwedDocs PROVE UNCHANGED Mirror!vars
  BY <1>1 DEF Mirror!vars, OwedDocs
<1>2. ASSUME NEW D \in SUBSET Docs,
             row' = [d \in Docs |-> IF d \in D THEN row[d] + 1 ELSE row[d]],
             mirror' = mirror, OwedDocs' = OwedDocs \union D
      PROVE  Mirror!Next
  BY <1>2 DEF Mirror!Next, Mirror!Change, OwedDocs
<1>3. ASSUME UNCHANGED <<log, wm>> PROVE OwedDocs' = OwedDocs
  BY <1>3 DEF OwedDocs, Owed
<1>4. ASSUME NEW D \in SUBSET Docs, Journalled(D) PROVE Mirror!Next
  BY <1>2, <1>4, AppendOwed DEF Journalled, Bump, dbVars, Streams
<1>5. ASSUME NEW c \in Customers, Command(c) PROVE Mirror!Next
  <2>1. {c} \in SUBSET Docs
    OBVIOUS
  <2>. QED
    BY <1>2, <1>5, <2>1, AppendOwed DEF Command, Bump, dbVars, Streams
<1>6. ASSUME NEW c \in Customers, SessionDetail(c) PROVE Mirror!Next
  <2>1. {c} \in SUBSET Docs
    OBVIOUS
  <2>. QED
    BY <1>2, <1>6, <2>1, DetailOwed DEF SessionDetail, Bump, dbVars
<1>7. ASSUME NEW s \in Streams, Unrelated(s) PROVE UNCHANGED Mirror!vars
  <2>1. OwedDocs' = OwedDocs \union {}
    BY <1>7, AppendOwed DEF Unrelated, dbVars
  <2>. QED
    BY <1>1, <1>7, <2>1 DEF Unrelated, dbVars
<1>8. CASE FsToCj
  <2>1. data \in SUBSET Docs /\ OwedDocs' = OwedDocs \union data
    BY <1>8, AppendOwed DEF FsToCj, dbVars, Streams, IInv, TypeOK
  <2>. QED
    BY <1>8, <2>1 DEF FsToCj, dbVars, Mirror!Next, Mirror!Reannounce, OwedDocs
<1>9. ASSUME NEW D \in SUBSET Docs, CbWrite(D) PROVE Mirror!Next
  <2>1. UNCHANGED <<row, log, wm>>
    BY <1>9 DEF CbWrite, posVars
  <2>2. mirror' \in [Docs -> Nat]
    BY TypeStep DEF IInv, TypeOK
  <2>3. IInv'
    BY NextInv
  <2>4. \A d \in Docs : mirror[d] <= mirror'[d] /\ mirror'[d] <= row[d]
    <3>1. \A d \in Docs : mirror'[d] <= row[d]
      BY <2>1, <2>3 DEF IInv, CopyInv, NotAhead
    <3>2. \A d \in Docs : mirror[d] \in Nat
      BY DEF IInv, TypeOK
    <3>. QED
      BY <3>1, <3>2, MirrorStep
  <2>. QED
    BY <1>3, <2>1, <2>2, <2>4 DEF Mirror!Next, Mirror!Refresh, OwedDocs
<1>10. CASE SetLast
  <2>. DEFINE D == OwedDocs \ OwedDocs'
  <2>1. /\ D \in SUBSET Docs /\ OwedDocs' = OwedDocs \ D
        /\ \A d \in D : mirror[d] = row[d]
    BY <1>0, <1>10, SettleStep
  <2>2. UNCHANGED <<row, mirror>>
    BY <1>10 DEF SetLast, posVars
  <2>. QED
    BY <2>1, <2>2 DEF Mirror!Next, Mirror!Settle, OwedDocs
<1>11. CASE FinishSession \/ Start \/ Tick \/ ReadMax \/ ReadData \/ CbRead \/ Raise \/ Crash
            \/ UNCHANGED vars
  <2>1. UNCHANGED <<row, mirror, log, wm>>
    BY <1>11 DEF FinishSession, Start, Tick, ReadMax, ReadData, CbRead, Raise, Crash, vars,
                 posVars, dbVars
  <2>. QED
    BY <1>1, <1>3, <2>1
<1>. QED
  BY <1>4, <1>5, <1>6, <1>7, <1>8, <1>9, <1>10, <1>11 DEF Next, Environment, Service

(***************************************************************************)
(* The service keeps the promise of the mirror: every step of it is a step *)
(* of Replica, or one that a reader of the mirror does not see.            *)
(***************************************************************************)
THEOREM Implementation == Spec => ImplementsReplica
BY ReplicaInit, ReplicaNext, Invariant, PTL DEF Spec, ImplementsReplica, Mirror!Spec
============================================================================
