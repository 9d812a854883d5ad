------------------------------ MODULE TinyGrid -----------------------------
(***************************************************************************)
(* web/js/jquery-tinylibv3.js, tinygrid: the scrolled tables of the pages. *)
(*                                                                         *)
(* A grid shows the rows from..to-1 of a list of len rows that the server  *)
(* keeps, and holds some pages of it.  Whatever happens to the view starts *)
(* a timer; when it fires, load_data asks for the visible pages that are   *)
(* missing, unless a request is out already; the answer is merged into the *)
(* cache, which tells the length of the list too and starts the timer      *)
(* again.  The user scrolls, reloads, seeks a row, edits a cell (the view   *)
(* is locked) and resizes the window at any time; the list changes on the  *)
(* server.                                                                 *)
(*                                                                         *)
(* A row is one unit high, the scroll position counts half units; of a     *)
(* page, the number of its rows is kept.  Left out: which rows they are    *)
(* (after another sort or search an answer under way still shows the old   *)
(* ones), drawing, hovering and the selected row; lists that the page      *)
(* itself holds; dataseq, which no server of the program sends; remove;    *)
(* screens of fifty rows and more, whose requests the servers turn down -  *)
(* with an answer that says the list is empty, as it may well be here, or  *)
(* with one the browser takes for an error.                                *)
(***************************************************************************)
EXTENDS TinyLib

CONSTANTS
    Lens,      \* lengths the list of the server takes
    Tops,      \* positions the user scrolls to, in half rows
    Heights,   \* heights of the grid, in rows
    MaxPage    \* buf.maxpage: pages kept beside the visible ones

ASSUME TinyGridAssumption ==
    /\ Lens \subseteq Nat /\ Tops \subseteq Nat
    /\ Heights \subseteq Nat \ {0} /\ MaxPage \in Nat
    /\ \E n \in Lens : \A m \in Lens : m <= n
    /\ \E h \in Heights : \A i \in Heights : i <= h

VARIABLES
    srv,   \* length of the server's list
    g,     \* the grid: ctx.view, ctx.data and its scroll bar
    req,   \* reqs: the request that is out
    lost   \* history: a load was given up, or its answer thrown away

vars == <<srv, g, req, lost>>

\* pop_rows: rows on the screen, and pagesize_mul times as many on a page
NumRows(h) == h + 1
PageSizes == {2 * NumRows(h) : h \in Heights}
MaxLen == CHOOSE n \in Lens : \A m \in Lens : m <= n
PageNos == 0 .. CeilDiv(MaxLen, 4)
Pages == 0 .. CHOOSE s \in PageSizes : \A t \in PageSizes : t <= s
NoPages == [p \in PageNos |-> None]

\* lock is data.lockview, 2 stands for 2 and more; want is data.pagesize.
Grids ==
    [len : 0..(MaxLen + 1), from : Nat, to : Nat,
     top : Nat, scrolled : BOOLEAN, high : Heights, want : PageSizes,
     pagesize : PageSizes \union {0}, pages : [PageNos -> Pages \union {None}],
     cachelist : Seq(PageNos), timer : BOOLEAN, lock : 0..2]

\* rows is how long the list was when the server read the rows of the pages, len
\* when it read the length: None before.  size is the pagesize of the request.
Requests == [kind : {"load"}, s : Nat, e : Nat, size : PageSizes,
             rows : Lens \union {None}, len : Lens \union {None}]
            \union {[kind |-> "seek"]}

ASSUME NoneInGrid ==
    None \notin Pages /\ None \notin Nat \X Nat /\ None \notin Lens /\ None \notin Requests

TypeOK ==
    /\ srv \in Lens
    /\ g \in Grids
    /\ req = None \/ req \in Requests
    /\ lost \in BOOLEAN

----------------------------------------------------------------------------
(* The view.                                                               *)

Clear(v) == [v EXCEPT !.pages = NoPages, !.cachelist = <<>>]

\* The browser keeps the position inside the table; the handler hears of it.
ScrollTo(v, t) ==
    LET last == IF v.len > v.high THEN 2 * (v.len - v.high) ELSE 0
        new == Smaller(t, last)
    IN  [v EXCEPT !.top = new, !.scrolled = @ \/ new # v.top]

Change(v, dontLoad) ==
    [v EXCEPT !.want = 2 * NumRows(v.high),
              !.from = v.top \div 2,
              !.to = Smaller(CeilDiv(v.top + 2 * v.high, 2), v.len),
              !.timer = @ \/ ~dontLoad]

SetLen(v, n) ==
    LET gone == IF v.pagesize = 0 THEN {}
                ELSE CeilDiv(n, v.pagesize) .. CeilDiv(v.len, v.pagesize) - 1
    IN  ScrollTo([v EXCEPT !.len = n,
                           !.pages = [p \in PageNos |-> IF p \in gone THEN None ELSE @[p]]],
                 v.top)

\* update: n rows, or -1 for as many as before.  An edited cell puts it off.
Update(v, n, force, invCache, dontLoad) ==
    IF v.lock > 0 THEN [v EXCEPT !.lock = 2]
    ELSE LET refresh == n >= 0 /\ n # v.len
             sized == IF refresh THEN SetLen(v, n) ELSE v
             kept == IF invCache THEN Clear(sized) ELSE sized
         IN  IF refresh \/ force
             THEN Change(kept, n = 0 \/ (n < 0 /\ v.len = 0 /\ dontLoad))
             ELSE kept

----------------------------------------------------------------------------
(* The cache.                                                              *)

Enlarged(v) ==
    IF v.pagesize < v.want THEN [Clear(v) EXCEPT !.pagesize = v.want] ELSE v

\* Faulty variant: the last page counts as loaded whatever its length.
LastLoadedAny(v, e) == v.pages[e - 1] # None

\* "p.length == buf.pagesize || p.length >= view.to % buf.pagesize"
LastLoaded(v, e) ==
    LET p == v.pages[e - 1]
    IN  p # None /\ (p = v.pagesize \/ p >= v.to % v.pagesize)

FirstLoaded(v, s) == v.pages[s] # None /\ v.pages[s] = v.pagesize

\* The visible pages to ask for, first and behind the last; <<0, 0>> asks for
\* the length alone; None is nothing to ask for.
Missing(v) ==
    LET s == v.from \div v.pagesize
        e == CeilDiv(v.to, v.pagesize)
        s2 == IF FirstLoaded(v, s) THEN s + 1 ELSE s
        e2 == IF LastLoaded(v, e) THEN e - 1 ELSE e
    IN  IF v.len = 0 THEN <<s, e>>
        ELSE IF s = e - 1 THEN IF LastLoaded(v, e) THEN None ELSE <<s, e>>
        ELSE IF s2 >= e2 THEN None ELSE <<s2, e2>>

\* Faulty variant: "limit" is not applied.
RowsOfRest(p, n, size) == IF p * size >= n THEN 0 ELSE n - p * size

\* The rows of page p, of a list of n.
RowsOf(p, n, size) ==
    IF p * size >= n THEN 0 ELSE Smaller(size, n - p * size)

\* The rows of page p in the answer to r.
PageOf(r, p) == RowsOf(p, r.rows, r.size)

Upto(s, e) == [i \in 1 .. (IF e > s THEN e - s ELSE 0) |-> s + i - 1]

\* The pages that the grid has, of a list of max pages.
Live(v, max) == {p \in PageNos : v.pages[p] # None /\ p < max}

\* Faulty variant: a page of the answer counts as another one too.
OthersAny(v, shown, got, max) ==
    LET live == Sifted(v.cachelist, Live(v, max) \ shown)
    IN  SubSeq(live, 1, Smaller(MaxPage, Len(live)))

\* The other pages that stay, the longest kept first.
Others(v, shown, got, max) ==
    LET live == Sifted(v.cachelist, Live(v, max) \ (shown \union got))
    IN  SubSeq(live, 1, Smaller(MaxPage, Len(live)))

Asked(v, r, max) == Upto(r.s, Smaller(r.e, max))
Seen(v, max) == Upto(v.from \div v.pagesize, Smaller(CeilDiv(v.to, v.pagesize), max))

\* Faulty variant: visible pages that were not asked for are not carried over.
CachedDropping(v, r, max) ==
    LET asked == Asked(v, r, max)
    IN  asked \o Others(v, ToSet(Seen(v, max)), ToSet(asked), max)

\* The list of pages after an answer: visible ones, those of the answer, others.
Cached(v, r, max) ==
    LET asked == Asked(v, r, max)
        seen == Seen(v, max)
        kept == Sifted(seen, Live(v, max) \ ToSet(asked))
    IN  Reverse(kept) \o asked \o Others(v, ToSet(seen), ToSet(asked), max)

\* A page of the answer has fewer rows than its length tells.
Short(v, r, max) ==
    \E p \in r.s .. Smaller(r.e, max) - 1 :
        /\ PageOf(r, p) # v.pagesize
        /\ p + 1 # max \/ PageOf(r, p) < r.len % v.pagesize

\* load_data_cb
Merge(v, r, list, asked) ==
    [v EXCEPT !.cachelist = list,
              !.pages = [p \in PageNos |-> IF p \in asked THEN PageOf(r, p)
                                           ELSE IF p \in ToSet(list) THEN @[p] ELSE None]]

----------------------------------------------------------------------------
(* What the user does.                                                     *)

ScrollBar(t) ==
    /\ g' = ScrollTo(g, t)
    /\ g' # g
    /\ UNCHANGED <<srv, req, lost>>

\* A header is clicked, or the page asks for other rows: with update(-1),
\* update(1), or update(0) which is to leave the grid empty.
Ask(n) ==
    /\ g' = Update(g, n, TRUE, TRUE, FALSE)
    /\ UNCHANGED <<srv, req, lost>>

\* seek aborts the request that is out; the error handler runs at once.
Seek ==
    /\ req' = [kind |-> "seek"]
    /\ lost' = (lost \/ (req # None /\ req.kind = "load"))
    /\ UNCHANGED <<srv, g>>

\* A second click on a selected cell opens its editor, for a row with data.
Edit ==
    /\ g.lock = 0
    /\ \E r \in g.from .. g.to - 1 :
        /\ g.pagesize > 0 /\ g.pages[r \div g.pagesize] # None
        /\ g.pages[r \div g.pagesize] > r % g.pagesize
    /\ g' = [g EXCEPT !.lock = 1]
    /\ UNCHANGED <<srv, req, lost>>

\* ctrl_focusout: what was put off is made good by loading all again.
Leave ==
    /\ g.lock > 0
    /\ g' = IF g.lock > 1 THEN Update([g EXCEPT !.lock = 0], -1, TRUE, TRUE, FALSE)
            ELSE [g EXCEPT !.lock = 0]
    /\ UNCHANGED <<srv, req, lost>>

Resize(h) ==
    /\ h # g.high
    /\ g' = Update(ScrollTo([g EXCEPT !.high = h], g.top), -1, TRUE, FALSE, TRUE)
    /\ UNCHANGED <<srv, req, lost>>

User ==
    \/ \E t \in Tops : ScrollBar(t)
    \/ \E n \in {-1, 0, 1} : Ask(n)
    \/ Seek \/ Edit
    \/ \E h \in Heights : Resize(h)

----------------------------------------------------------------------------
(* What the browser and the server do.                                     *)

\* i_scroll
ScrollEvent ==
    /\ g.scrolled
    /\ g' = Update([g EXCEPT !.scrolled = FALSE], -1, TRUE, FALSE, FALSE)
    /\ UNCHANGED <<srv, req, lost>>

\* load_data: nothing while a request is out.
LoadData ==
    LET v == Enlarged([g EXCEPT !.timer = FALSE])
        m == Missing(v)
    IN  /\ g.timer
        /\ \/ /\ req # None
              /\ g' = [g EXCEPT !.timer = FALSE]
              /\ lost' = (lost \/ req.kind = "seek")
              /\ UNCHANGED req
           \/ /\ req = None
              /\ g' = v
              /\ req' = IF m = None THEN None
                        ELSE [kind |-> "load", s |-> m[1], e |-> m[2], size |-> v.pagesize,
                              rows |-> None, len |-> None]
              /\ lost' = FALSE
        /\ UNCHANGED srv

\* The server reads the rows, then the length of the list: two statements, between
\* which the list may change.  (Some servers take both from one statement.)
GetRows ==
    /\ req # None /\ req.kind = "load" /\ req.rows = None
    /\ req' = [req EXCEPT !.rows = srv]
    /\ UNCHANGED <<srv, g, lost>>

GetLen ==
    /\ req # None /\ req.kind = "load" /\ req.rows # None /\ req.len = None
    /\ req' = [req EXCEPT !.len = srv]
    /\ UNCHANGED <<srv, g, lost>>

\* load_data_cb.  An answer with a page that is too short is thrown away.  That a
\* load was lost is noted only if the list has changed between its statements.
LoadDataCallback ==
    /\ req # None /\ req.kind = "load" /\ req.len # None
    /\ req' = None
    /\ \E max \in {CeilDiv(req.len, g.pagesize)} :
       \E list \in {Cached(g, req, max)}, asked \in {ToSet(Asked(g, req, max))} :
       \E v \in {Merge(g, req, list, asked)} :
          IF req.len = 0 /\ g.len = 0 THEN UNCHANGED <<g, lost>>
          ELSE IF Short(g, req, max) THEN /\ lost' = (lost \/ req.rows # req.len)
                                          /\ UNCHANGED g
          ELSE /\ g' = Update(v, req.len, TRUE, FALSE, FALSE)
               /\ UNCHANGED lost
    /\ UNCHANGED srv

\* The row that was sought, or none.  gotorow makes it the first row.
SeekCallback ==
    /\ req # None /\ req.kind = "seek"
    /\ req' = None
    /\ LET v == Update(g, -1, FALSE, FALSE, FALSE)
       IN  \E r \in -1 .. (MaxLen - 1) :
               g' = IF r \in 0 .. v.len - 1 THEN ScrollTo(v, 2 * r) ELSE v
    /\ UNCHANGED <<srv, lost>>

\* ajax_on_error: the server cannot be reached, or its answer is not to be read.
AjaxError ==
    /\ req # None
    /\ req' = None
    /\ lost' = (lost \/ req.kind = "load")
    /\ UNCHANGED <<srv, g>>

ListChanges ==
    /\ srv' \in Lens \ {srv}
    /\ UNCHANGED <<g, req, lost>>

Init ==
    /\ srv \in Lens
    /\ \E n \in {0, 1}, h \in Heights :
        g = Change([len |-> n, from |-> 0, to |-> 0, top |-> 0,
                    scrolled |-> FALSE, high |-> h, want |-> 2 * NumRows(h), pagesize |-> 0,
                    pages |-> NoPages, cachelist |-> <<>>, timer |-> FALSE, lock |-> 0],
                   n = 0)
    /\ req = None /\ lost = FALSE

Browser == ScrollEvent \/ LoadData \/ GetRows \/ GetLen \/ LoadDataCallback \/ SeekCallback \/ AjaxError

Next == User \/ Leave \/ Browser \/ ListChanges

Spec == Init /\ [][Next]_vars

Environment == Browser \/ Leave

\* Timers fire, events are handled, requests are answered or fail, and nobody
\* stays in an editor for ever: as long as one of these is due, one happens.
FairSpec == Spec /\ WF_vars(Environment)

----------------------------------------------------------------------------
(* Properties.                                                             *)

Due == g.timer \/ g.scrolled \/ req # None \/ g.lock > 0

\* LastLoaded asks nothing of the length of the last visible page when the view
\* ends with that page: it may be from a time when the list was shorter.
Overlooked(p) == g.to % g.pagesize = 0 /\ p = g.to \div g.pagesize - 1

\* No row stays blank: when nothing is under way any more, each visible row is
\* in the cache, unless a load was given up (it failed, or a seek took its
\* place), or its answer was thrown away because the list had changed between the
\* server's two statements, or its page was overlooked.  An answer whose rows
\* and length belong together is never thrown away.
IdleShowsAll ==
    ~Due /\ ~lost /\ g.len > 0 => g.pagesize > 0 /\
        \A r \in g.from .. g.to - 1 :
            LET p == r \div g.pagesize
            IN  g.pages[p] # None /\ (r % g.pagesize < g.pages[p] \/ Overlooked(p))

\* The list of cached pages and the pages are in step, although pages go in
\* three places: no page is listed twice, and none is kept that the list does
\* not know, which could never be dropped.
CacheInStep ==
    /\ IsInjective(g.cachelist)
    /\ {p \in PageNos : g.pages[p] # None} \subseteq ToSet(g.cachelist)

\* The grid comes to rest when the user leaves it alone and the list no longer
\* changes: loading does not lead to loading for ever.
ComesToRest ==
    <>[][Environment]_vars => <>[](~g.timer /\ req = None)
============================================================================
