------------------------------ MODULE Booking ------------------------------
(***************************************************************************)
(* What a schedule record promises, one indivisible step at a time.  A     *)
(* booking is pending until the delivery manager accepts it.  While it is  *)
(* pending its day is free to move; once accepted its day moves only when  *)
(* she confirms the day that is wished for at that moment, and it goes     *)
(* away only after a cancellation was asked for.  Whether it is for a part *)
(* of the document may be changed until then.  A booking that a delivery   *)
(* uses does not go away at all, and one that is gone never comes back.    *)
(***************************************************************************)
EXTENDS Naturals

CONSTANTS Ids, Days, NoDay

VARIABLES
    stage,   \* stage[i] : "none", "pending", "accepted", "cancelling", "gone"
    day,     \* day[i]   : the day of the delivery
    wish,    \* wish[i]  : the day it is to be moved to, NoDay if it is not
    partial, \* partial[i]: a part of the document is delivered
    used     \* the bookings that deliveries refer to

vars == <<stage, day, wish, partial, used>>

Init ==
    /\ stage = [i \in Ids |-> "none"]
    /\ day = [i \in Ids |-> NoDay]
    /\ wish = [i \in Ids |-> NoDay]
    /\ partial = [i \in Ids |-> FALSE]
    /\ used = {}

Book(i, d, m) ==
    /\ stage[i] = "none"
    /\ stage' = [stage EXCEPT ![i] = "pending"]
    /\ day' = [day EXCEPT ![i] = d]
    /\ partial' = [partial EXCEPT ![i] = m]
    /\ UNCHANGED <<wish, used>>

Move(i, d, m) ==
    /\ stage[i] = "pending"
    /\ day' = [day EXCEPT ![i] = d]
    /\ partial' = [partial EXCEPT ![i] = m]
    /\ UNCHANGED <<stage, wish, used>>

Accept(i) ==
    /\ stage[i] = "pending"
    /\ stage' = [stage EXCEPT ![i] = "accepted"]
    /\ UNCHANGED <<day, wish, partial, used>>

\* The mode changes at once, the day only when it is confirmed.
Wish(i, d, m) ==
    /\ stage[i] = "accepted"
    /\ d # day[i]
    /\ wish' = [wish EXCEPT ![i] = d]
    /\ partial' = [partial EXCEPT ![i] = m]
    /\ UNCHANGED <<stage, day, used>>

Switch(i, m) ==
    /\ stage[i] = "accepted"
    /\ partial' = [partial EXCEPT ![i] = m]
    /\ UNCHANGED <<stage, day, wish, used>>

Confirm(i) ==
    /\ stage[i] = "accepted"
    /\ wish[i] # NoDay
    /\ day' = [day EXCEPT ![i] = wish[i]]
    /\ wish' = [wish EXCEPT ![i] = NoDay]
    /\ UNCHANGED <<stage, partial, used>>

Cancel(i) ==
    /\ stage[i] = "accepted" /\ i \notin used
    /\ stage' = [stage EXCEPT ![i] = "cancelling"]
    /\ UNCHANGED <<day, wish, partial, used>>

Remove(i) ==
    /\ stage[i] \in {"pending", "cancelling"} /\ i \notin used
    /\ stage' = [stage EXCEPT ![i] = "gone"]
    /\ day' = [day EXCEPT ![i] = NoDay]
    /\ wish' = [wish EXCEPT ![i] = NoDay]
    /\ partial' = [partial EXCEPT ![i] = FALSE]
    /\ UNCHANGED used

Use(i) ==
    /\ stage[i] # "none"
    /\ used' = used \union {i}
    /\ UNCHANGED <<stage, day, wish, partial>>

Release(i) ==
    /\ used' = used \ {i}
    /\ UNCHANGED <<stage, day, wish, partial>>

Edit(i, m) == Switch(i, m) \/ \E d \in Days : Book(i, d, m) \/ Move(i, d, m) \/ Wish(i, d, m)

Next ==
    \E i \in Ids :
        \/ Accept(i) \/ Confirm(i) \/ Cancel(i) \/ Remove(i) \/ Use(i) \/ Release(i)
        \/ \E m \in BOOLEAN : Edit(i, m)

Spec == Init /\ [][Next]_vars
============================================================================
