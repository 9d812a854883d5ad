------------------------------ MODULE TinyList -----------------------------
(***************************************************************************)
(* web/js/jquery-tinylibv3.js, tinylist: the endless list of notes on the  *)
(* pages of a customer, an item and a project, with the server that feeds  *)
(* it (fn_get_cust_note of request/hist.py).                               *)
(*                                                                         *)
(* A note has an id; the list shows them newest first.  Scrolling over an  *)
(* edge, writing a note and refresh start a timer that asks for the next   *)
(* notes above or below; requests overlap, and answers come in any order   *)
(* or not at all.  The token of an answer says where the list ends, the    *)
(* next request hands it back.                                             *)
(*                                                                         *)
(* Left out: drawing and the scroll position, so scrolling is an event     *)
(* that may come whenever load_data is set.                                *)
(***************************************************************************)
EXTENDS TinyLib

CONSTANTS
    PageLen,    \* len: notes in an answer
    MaxNotes,   \* bound: notes
    MaxSeq      \* bound: loads and refreshes

ASSUME TinyListAssumption ==
    PageLen \in Nat \ {0} /\ MaxNotes \in Nat /\ MaxSeq \in Nat

VARIABLES
    notes,    \* ids of the notes on the server are 1..notes
    list,     \* the ids on the page, from top to bottom
    data,     \* seq, token, direction, load_data, load_timer, hint of the list
    out       \* requests that are out

listVars == <<notes, list, data, out>>

Up == -1
Down == 1

Tokens == [t : 1..MaxNotes, b : 1..MaxNotes] \union {None}
Replies == [token : Tokens, lst : SeqOf(1..MaxNotes, PageLen)]

ASSUME NoneInList == None \notin [t : 1..MaxNotes, b : 1..MaxNotes] \union Replies

ListTypeOK ==
    /\ notes \in 0..MaxNotes
    /\ list \in Seq(1..MaxNotes)
    /\ data \in [seq : 0..MaxSeq, token : Tokens, direction : {Up, Down},
                 loads : BOOLEAN, timer : BOOLEAN, hint : 0..MaxNotes]
    /\ \A r \in out :
        /\ r.seq \in 1..MaxSeq /\ r.direction \in {Up, Down}
        /\ r.token \in Tokens /\ r.hint \in 0..MaxNotes
        /\ r.ans = None \/ r.ans \in Replies

ListInit ==
    /\ notes \in 0..MaxNotes
    /\ list = <<>>
    /\ data = [seq |-> 0, token |-> None, direction |-> Down, loads |-> FALSE,
               timer |-> FALSE, hint |-> 0]
    /\ out = {}

----------------------------------------------------------------------------
(* The server.                                                             *)

\* Faulty variant: as many ids as asked for, whether they exist or not.
BelowAny(m) == [i \in 1..PageLen |-> m - i + 1]

\* At most PageLen ids from m downwards.
Below(m) ==
    LET k == IF m < PageLen THEN m ELSE PageLen
    IN  [i \in 1..k |-> m - i + 1]

\* At most PageLen ids from m upwards, the newest first.
Above(m, n) ==
    LET k == IF n - m + 1 < PageLen THEN n - m + 1 ELSE PageLen
    IN  [i \in 1 .. (IF k > 0 THEN k ELSE 0) |-> m + k - i]

First(hint, n) == IF hint # 0 THEN Below(IF hint <= n THEN hint ELSE n) ELSE Below(n)

TokenOf(l) == IF l = <<>> THEN None ELSE [t |-> Head(l), b |-> Last(l)]

\* fn_get_cust_note
Reply(token, direction, hint, n) ==
    IF token = None THEN [token |-> TokenOf(First(hint, n)), lst |-> First(hint, n)]
    ELSE LET l == IF direction = Down THEN Below(token.b - 1) ELSE Above(token.t + 1, n)
         IN  [lst |-> l,
              token |-> IF l = <<>> THEN token
                        ELSE IF direction = Down THEN [token EXCEPT !.b = Last(l)]
                        ELSE [token EXCEPT !.t = Head(l)]]

Serve(r) ==
    /\ r.ans = None
    /\ out' = (out \ {r}) \union
                  {[r EXCEPT !.ans = Reply(r.token, r.direction, r.hint, notes)]}
    /\ UNCHANGED <<notes, list, data>>

SomebodyWrites ==
    /\ notes < MaxNotes
    /\ notes' = notes + 1
    /\ UNCHANGED <<list, data, out>>

----------------------------------------------------------------------------
(* The page.                                                               *)

\* setup_timer
SetupTimer(d) == data' = [data EXCEPT !.timer = TRUE, !.direction = d]

Scroll(d) ==
    /\ data.loads
    /\ SetupTimer(d)
    /\ UNCHANGED <<notes, list, out>>

\* The user has written a note, the page calls tinylist('load', -1).
Write ==
    /\ notes < MaxNotes
    /\ notes' = notes + 1
    /\ SetupTimer(Up)
    /\ UNCHANGED <<list, out>>

\* Faulty variant: refresh keeps the sequence number.
RefreshSameSeq(hint) ==
    /\ data.seq < MaxSeq
    /\ list' = <<>>
    /\ data' = [data EXCEPT !.token = None, !.direction = Down,
                            !.loads = TRUE, !.timer = TRUE, !.hint = hint]
    /\ UNCHANGED <<notes, out>>

\* refresh: the first visible note, another one or none becomes the hint.
Refresh(hint) ==
    /\ data.seq < MaxSeq
    /\ list' = <<>>
    /\ data' = [data EXCEPT !.seq = @ + 1, !.token = None, !.direction = Down,
                            !.loads = TRUE, !.timer = TRUE, !.hint = hint]
    /\ UNCHANGED <<notes, out>>

Load ==
    /\ data.timer /\ data.seq < MaxSeq
    /\ data' = [data EXCEPT !.timer = FALSE, !.seq = @ + 1]
    /\ out' = out \union {[seq |-> data.seq + 1, direction |-> data.direction,
                           token |-> data.token, hint |-> data.hint, ans |-> None]}
    /\ UNCHANGED <<notes, list>>

\* Faulty variant: answers of earlier loads are taken too.
CurrentAny(r) == TRUE

Current(r) == r.seq = data.seq

\* The notes go on top or below; update_ui's own scrolling starts no timer.
LoadCallback(r) ==
    /\ r.ans # None
    /\ out' = out \ {r}
    /\ IF Current(r)
       THEN /\ data' = [data EXCEPT !.token = r.ans.token]
            /\ list' = IF r.direction = Up THEN r.ans.lst \o list ELSE list \o r.ans.lst
       ELSE UNCHANGED <<data, list>>
    /\ UNCHANGED notes

Fail(r) ==
    /\ out' = out \ {r}
    /\ UNCHANGED <<notes, list, data>>

ListNext ==
    \/ SomebodyWrites \/ Write \/ Load
    \/ \E d \in {Up, Down} : Scroll(d)
    \/ \E h \in 0..notes : Refresh(h)
    \/ \E r \in out : Serve(r) \/ LoadCallback(r) \/ Fail(r)

ListSpec == ListInit /\ [][ListNext]_listVars

----------------------------------------------------------------------------
(* Properties.                                                             *)

\* The page shows a stretch of the notes without a gap or a repetition, in
\* whatever order answers of overlapping loads and refreshes arrive.
Contiguous ==
    \A i \in 1 .. Len(list) - 1 : list[i + 1] = list[i] - 1

\* The token is about what the page shows, so that the next answer continues it.
TokenOfList == data.token = TokenOf(list)
============================================================================
