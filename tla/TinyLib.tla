------------------------------- MODULE TinyLib -----------------------------
(***************************************************************************)
(* web/js/jquery-tinylibv3.js: what the models of its two widgets, the     *)
(* grid and the list, have in common.                                      *)
(***************************************************************************)
EXTENDS Integers, Sequences, FiniteSets, SequencesExt

CONSTANT None   \* null: no page, no request, no answer, no token

Smaller(a, b) == IF a <= b THEN a ELSE b
CeilDiv(a, b) == (a + b - 1) \div b

\* The elements of s that are in S, in their order.  By position and not with
\* SelectSeq, so that it can be reasoned about.
Sifted(s, S) ==
    LET K == {i \in DOMAIN s : s[i] \in S}
        Before(i) == Cardinality({j \in K : j < i})
    IN  [k \in 1 .. Cardinality(K) |-> s[CHOOSE i \in K : Before(i) = k - 1]]
============================================================================
