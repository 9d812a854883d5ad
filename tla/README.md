# A verification project for POSX

POSX extends QuickBooks Point of Sale with a delivery schedule, delivery logs,
purchasing, cycle counts and an exchange between stores.  It consists of web
request handlers (`request/*.py`, run by several workers of `dep/tinywsgi4.py`)
and Windows services (`service_*.py`, `x_sync_qbpos.py`).  They meet in MySQL
tables and in the database of QuickBooks POS.  All MySQL tables are MyISAM
(`dep/posx.sql`): each statement is indivisible, no two are grouped, nothing is
rolled back.  Concurrency control is whatever the `where` clauses say.  That is
what this project is about: which promises survive when the statements of
several workers and services interleave, fail half-way and are repeated.

## The system

| | Part | State | Operations | Talks to |
|-|------|-------|------------|----------|
| A | Delivery schedule, `request/schedulev2.py` | `schedule`: document, day, new day, revision, flags, packing lists, checksums | create, edit, delete (sales staff); accept, confirm rescheduling, delete cancelled, clear mark (manager) | reads the mirror tables (E), is read by B |
| B | Delivery log, `request/delivery.py` | `deliveryv2` (header with a list in `js`), `deliveryv2_receipt` | save, delete | checks `schedule` (A), reads receipts (E) |
| C | Outbox to POS, `request/ts_request.py`, `request/purchasing.py`, `service_qbpos.py` | `inv_request`, `qbpos` | save, delete, send, adjust; the worker's fetch, order, record | POS over XML and SQL; K uses the same outbox |
| D | Store purchase orders, `request/ts_request.py:301`, `service_qbpos.py` | `store_po`, `api_req` on both sides | save and submit, remote insert, worker | another store over HTTP |
| E | Journal replication, `service_sync_db.py`, `sync_*.py` | the mirror tables, three last ids in MySQL, `g_sync_tp` in memory | a round every 1.5 s over three logs of POS | reads POS, writes the mirror, feeds H and F |
| F | Customer exchange, `service_inst_sync.py` | `sync_customer_snapshots`, `sync_customer_chg`, a last id | fetch the other store's changes, merge them by field and time | POS, the other store through G |
| G | Message server, `TinyServer.py` | sockets, buffers, queues, idle times | select loop, packets, responses from another thread | F |
| H | Maintenance, `service_maintenance.py` | `sync_chg`, `address` | read the feed, insert addresses, geocode | E feeds it, A reads `address` |
| I | Financial data, `x_sync_qbpos.py` | `qblinks`, `qbdocs`, `qbcustomers`, watermarks | poll QuickBooks and POS | C's reports |
| J | Web server, `dep/tinywsgi4.py` | loaded handler modules | load, reload when a file changed, dispatch | all handlers |
| K | Cycle count, `request/cycle_count.py` | `phycount_*` | count, compare, send | C |
| L | Problem tracker, `request/problemtracker.py` | `tracker` | new, reply, close, delete | |
| M | Service loops, `service_base*.py`, `dep/pysrv.cpp` | connections | run, catch, wait, run again | all services |
| N | Request base, `basehandler.py` | sessions, configuration | | all handlers |
| O | Reports, labels | none of their own | read | |
| P | Grids and lists of the pages, `web/js/jquery-tinylibv3.js` | the view, cached pages, a token, requests that are out | scroll, reload, seek, edit, resize; load, merge | the look-ups and `request/hist.py` |
| Q | Other pages, mobile application, vendored code | | | |

What is hard in it: handlers read a row, decide, and write it some statements
later while others do the same (A, B, C, K, L); the mirror under them changes at
any time (A, B); services read a largest id, then data, then store the id, and
may fail in between (E, F, H, I); an external system acts and the answer is lost
(C, D).  `PROJECT.json` lists each such place with its line under `hazards`.

What makes the parts correct:

* E: no change is lost, whatever fails; the mirror never goes back in time;
  announced changes arrive.
* A: a record's columns fit together; nothing that a delivery will do differently
  from what the manager saw goes unmarked; an accepted record moves or goes away
  only by her confirmation; complete deliveries come before partial ones.
* C: a request is ordered as it is written, at most once unless the service dies
  over it; only the row that a request is linked to is processed; a done row is
  final; a pending row is answered.
* B: the list in a delivery's header and its receipt rows are the same list; nobody
  saves over a list he has not seen; a receipt is counted in one delivery and does
  not go out twice without a reason.
* D: a record is ordered once in each store, never in the own store alone, and both
  order the same list.
* F: two stores end with the same customers, and with the latest change of each field.
* K: after an adjustment POS says what is in the store; what is sent is the list as
  it stands.
* P: when nothing is under way every visible row is there; a list has no gap and no
  repetition.
* H, I: nothing in a feed is passed over.

## Modules

| Module | Models |
|--------|--------|
| `Replica` | what the mirror promises: rows move forward towards POS, a document owed a refresh stays owed until it is current |
| `JournalSync` | part E, statement by statement; refines `Replica` |
| `Booking` | what a schedule record promises, as indivisible steps |
| `Schedule` | part A, statement by statement; refines `Booking` |
| `Delivery` | part B, statement by statement, composed with `Booking` |
| `QbposQueue` | part C, statement by statement |
| `CycleCount` | part K with its use of the outbox and the adjustment in POS |
| `StorePO` | part D, both stores |
| `InstSync` | part F, both stores with both services |
| `TinyGrid`, `TinyList` | part P with the server's side of it |
| `TinyLib` | what the models of the two widgets have in common |
| `JournalSync_proofs`, `Schedule_proofs`, `Delivery_proofs`, `QbposQueue_proofs`, `CycleCount_proofs`, `StorePO_proofs`, `InstSync_proofs`, `TinyLib_proofs` | the theorems about them |
| `MC...` | values for small instances |

### JournalSync

`row[d]` is the version of document `d` in POS, `mirror[d]` the version the
mirror was written from, `log[s]` one of the three logs as a sequence of sets of
documents, `fin` the finished part of the session log, `wm[s]` the id stored in
MySQL, `cached[s]` the one in `g_sync_tp[..][5]`.  The locals of `sync()` are
`maxid`, `data`, `cb` (which callback), `left` and `buf` (its rows not yet
replaced).  `ReadMax` and `ReadData` are lines 163 and 165-169, `FsToCj` is
`fs_to_cj`, `CbRead` the `select` of a callback, `CbWrite` one `replace`
statement (a callback splits its rows over several, so any part of them may be
written first), `SetLast` lines 179-180 with the broken connection between them.
`Raise` is an exception anywhere in the round, `Crash` the end of the process.
POS itself is external: transactions with journal rows, customer commands that
leave only a log message, balances changed by financial sessions.

Each callback is modelled by reading all its documents of the range at once and
replacing them.  A deleted document is a version whose copy removes the row
(`sync_customers` does; `sync_receipts` never meets one, POS cancels receipts by
another document).

### Schedule

`sched` is the table, `doc` the mirrored documents with a head and an item list,
`used` the records deliveries refer to.  A worker `w` has `pc[w]`, the request
`op[w]`, the record `at[w]`, what it has read (`got[w]`, `ver[w]`), what was asked
(`req[w]`) and the records still to come (`todo[w]`).  One action is one SQL
statement with the Python up to the next one.  Flags are sets of names.  A day
is a number, checksums are the content they are taken from: for a sales order
everything, for a receipt everything but the items (`data_helper.py:46-68`), so
that the model tells apart what the program does.  `DocChanges` lets the
replication replace a sales order entirely and of a receipt all but its items,
because a completed receipt is never edited in POS.  `Booking` is told of a record its
stage, its days and its mode (`partial`), which an edit switches at once.

Left out, in the module's header too: `sc_prio`, which every statement treats as
it treats `sc_note`; flags that are shown and never tested; the notes and the
sequence number written after a change; the refusal to delete records of past days.

### QbposQueue

`req` is `inv_request` (bit 1 of `flg` is `sent`), `q` is `qbpos` (`state` 2 with
errno -99 is "unsent"), `made[p]` what POS has ordered for request `p`.  Web
workers step through `fn_send` and `fn_adjust_po`, saving and deleting are single
statements.  The service is `Fetch`, `Process` (the external call) and `Record`.
`LoseBatch`, and the lost answers inside `Process`, are the exceptions and crashes that end
`worker()`: the branch for errno -111 calls `del_pos_conn`, which is defined nowhere, so
"no answer from POS" is one of them.

### Delivery

`head[d]` is the row of `deliveryv2` with its list `js`, `rows[d][n]` the row of
`deliveryv2_receipt`. A worker opens a page (`Open`, `LoadRows`), the user changes it
(`Submit`), and `fn_save_delivery_record` runs one statement per action: the schedule
records of the receipts, the checks against other deliveries, the header under its
revision, which receipts are elsewhere, one insert per receipt, the delete of those
taken off. A check whose receipt went out before under a partial record ends with a
second read, of the mode of its own record (`AskMode`). `fn_delete` is two deletes.
`Crash` ends a worker between them. The schedule is a second actor: it takes the steps
of `Booking` with `used` defined from the receipt rows, so the two components share
the very interface that `Schedule` is proved to implement. Part of it is `partial[s]`,
the mode of a record, which an edit switches whether or not deliveries have the
record; `completed` is history: the records that were made complete while a delivery
or a save had them. `tear[d]` is history: two writers at one delivery (`mixed`), a
write that stopped (`torn`), the first complete save after it (`mended`). `RowsMatch`
and `NoRedeliverySameDay` are about deliveries that nobody is writing (`Settled`):
between the header and the rows of a save the two disagree, and a receipt that is
moved from one day to another is for a moment on both.

### CycleCount

`rec`, `items`, `hist` are the three tables of a list, `q` its rows of the outbox,
`inv`, `mirror` and `stock` the quantity of an item in POS, in `sync_items` and in the
store. Saving a list is three statements, a count two looks and an insert, sending
three looks (`LookRecord`, `LookItems`, `LookHist`), a row, a link and the counts. A
user may count an item in parts, each a row of `hist`, and remove rows again
(`DelHist`); `Tally` is what `count_cmp` makes of the rows: their sum, with the
mirror's quantity of the last one. `insert_qty_adj` reads the inventory, hands new
absolute quantities to POS and records the answer. Sales happen at any moment. History
marks what no statement could know: whether a row was `fresh`, stored against an up to
date mirror, and what was in the store then (`at`), so that a tally is `true` when its
last row was fresh and the rows came to what was in the store at that row; whether a
look met a list half-way through its save (`torn`), how often POS took an adjustment
and whether a sale `slipped` in between its read and its change.

### StorePO

`po` is the table `store_po`, `req[side]` the table `api_req` of either store,
`job[w]` a worker in `fn_save_store_po`, `svc[side]` the row API2 has in hand.  The
claim is an update whose count is the changed rows, not the matched ones, which is
what makes it exclusive; it also means that a record whose submission died can
be saved again after 10000 s and never submitted again.  The page says a
submitted order cannot be modified (`store_po.html:297`): true once it is linked.

### InstSync

Each store has a customer in POS (`pos`), a snapshot (`snap`) and change rows
(`chg`).  `Sync...` is `create_snapshots` and `sync_customers`, `Fetch`, `LookOwn`,
`LookSnap`, `UpdateSnap`, `Commit`, `SetLast` are `inst_sync_customer`, `CopyRow` and
`InsertRow` its branch for a customer that is not here.  A field holds the number
of the edit that wrote it.  `astray` collects the fields of which a change can be
lost, each at the step where the code loses it: a snapshot stored before the commit
or before the change row, when the service fails in between; two changes with the
same stamp; a change recorded between `LookOwn` and `LookSnap`; an edit in POS that
the snapshot does not show yet; a change of the snapshot between `LookSnap` and
`UpdateSnap`, which stores the whole row it has read
(`service_inst_sync.py:317-325`) and so puts the snapshot of other fields back.  The
last one takes four edits to show, more than the run has: it was met in the search for an
inductive invariant.  `Converged` says there is no other way.

### TinyGrid and TinyList

`g` holds the view, the cached pages with the number of their rows and the list of
cached pages, `req` the one request that is out. `LoadData` is `load_data`,
`LoadDataCallback` is `load_data_cb` with `update_cachelist`, `Update` is `update`;
`GetRows` and `GetLen` are the two statements of the server, the list may change
between them; the pages `update_cachelist` keeps are selected by position (`Sifted`),
which the provers can treat where they cannot treat `SelectSeq`. A seek replaces a
load that is out and may leave blank rows until the next scroll, and so may an answer
that `load_data_cb` throws away because a page is shorter than the length calls for
(`Short`), which happens when the list has grown between the two statements (`lost`,
both); the test `p.length >= view.to % pagesize` is true of every page when the view
ends with it, so that a page that was short when it was loaded is not loaded again
(`Overlooked`). `TinyList` has any number of requests out, whose answers arrive in any
order or not at all; `seq` drops those that are late, and the token goes from answer
to request.

## Runs

Bounds are CONSTANTS named `Max...`, and every one appears in a guard.

| Run | Instance | Shows |
|-----|----------|-------|
| `journal_sync` | a customer and a purchase order under two callbacks, two versions of the one and one of the other beside the first, one unrelated row per log, one failure, fairness | `TypeOK`, `NothingSkipped`, `NeverBackwards`, `LastIdForward`, `ImplementsReplica`, `CatchesUp` |
| `schedule_races` | two workers, one record of a sales order with two item lists and packing lists, two days, all requests, revisions to 3 | `TypeOK`, `RecordsCoherent`, `ChangeShown`, `ReadsValid`, `ImplementsBooking` |
| `schedule_order` | one worker, two records, three days | violation of `CompleteBeforePartial` |
| `delivery_race` | two workers, two receipts, one record, one delivery, revisions to 2, one stopped request | `TypeOK`, `RowsMatch`, `MissingRestored`, `SavedFromLatest` |
| `delivery_ship` | one worker, a receipt with problems, two records of either mode of which one is edited again or removed, two days, two deliveries of which one is saved again | `CountedOnce`, `NoRedeliverySameDay` |
| `delivery_order` | one worker, a receipt without problems, two records that are edited, two days | violation of `PreviousMarked` |
| `qbpos_queue` | two web workers, two requests, two rows, one list and the empty one, three revisions of the first, two sends, one lost batch, fairness | `TypeOK`, `LiveRowsLinked`, `OrderedAsWritten`, `NoNeedlessOrder`, `DoneIsOrdered`, `DoneIsFinal`, `RowsAnswered` |
| `count` | two workers, one user, two items of which one is counted, in up to two rows, and sold, POS two above the store, two rows of the outbox, two revisions, one sale or lost answer | `TypeOK`, `Corrected`, `LiveRowsLinked`, `ListSent` |
| `store_po` | three workers, one record, two lists, five saves, one end of a service | `TypeOK`, `OrderedOnce`, `RecordIsOrdered` |
| `exchange` | two stores, two fields, two edits, one failure | `TypeOK`, `Converged` |
| `grid` | lists of 0, 5 and 8 rows, grids of 1 and 2 rows, one cached page besides the visible ones, fairness | `TypeOK`, `IdleShowsAll`, `CacheInStep`, `ComesToRest` |
| `list_order` | four notes, two per answer, four loads | `ListTypeOK`, `Contiguous`, `TokenOfList` |

Why the bounds are enough. Two documents and two callbacks are needed to have one
table written and the next one not when a round fails; two versions to have a change
during a copy; a second failure adds only a repeated round. Two workers make every
race of two requests, and three revisions a read, the other worker's update and one's
own. One schedule record is enough for the races about a record; the checks of other
records matter for `schedule_order` alone, and requests over several records, like
receipts, are covered by the proofs. In `delivery_race` one delivery with three
savings is the smallest instance in which a save meets a save, a delete, or a save
that stopped; `delivery_ship` needs two deliveries and two days. The part of the
outbox that `CycleCount` uses needs two rows for two managers; one sale is enough to
move the quantities between any two statements, two rows of an item for a count in
parts with a sale between them; each list has the item that is counted and sold
(`Counted`), the other is there for lists that change and makes a list incomplete. A
record that is edited or removed and one that is not (`Fickle`) meet in
`delivery_ship`, and a delivery that is saved again and one that is not (`Revised`).
`store_po` needs three workers for a claim against a claim against a save. `exchange`
needs two edits for a conflict and two fields for a merge that takes one and leaves
the other. In `grid` the longest list has more pages than the cache holds. Wider
instances were run by hand without a violation and are too long for the table: two
records with three saves (`StorePO`, nine million states), and three edits and two
fields, or one field and a failure (`InstSync`, twenty and twelve million states).

Symmetry is used for workers, receipts, items, lists, stores and fields where nothing
orders them and no liveness is checked.  Deadlock is checked for `Schedule` and
`TinyGrid`, whose users can always do something; elsewhere everybody is idle when
the bounds are used up.

Fairness is assumed of services and browsers, never of users, of POS or of failures.
`WF_vars(Service)` of `JournalSync` and `QbposQueue`: `service_sync_db.main` and
`thread_srv` loop until the process is stopped and go on after every exception, and
the service manager restarts the process.  `CatchesUp` and `RowsAnswered` are about
runs with finitely many failures; a document or row whose handling always raises
would block the others, which is listed as a hazard.  `WF_vars(Environment)` of
`TinyGrid`: timers fire, requests are answered or fail, and nobody stays in an
editor for ever.

### Findings

`schedule_order`.  `fn_set_doc` refuses a partial delivery on or before the day of
a complete one of the same document, and the reverse (its messages "Partial
Delivery Is Not Allowed!" and "Completed Delivery Is Not Allowed!").  The check is
about the requested day.  An edit of an accepted record changes its mode at once,
while its day waits for the manager's confirmation, so the record is for that time
in its new mode on its old day, where it was never checked.  The run reaches two
deliveries of one document on one day, one complete and one partial, with a single
user at a time.

`delivery_order`.  "No Redelivery Is Allowed. *** Except all previous shipments are
marked with problems!" (`delivery.py:286`) is checked against deliveries of the same
day and of earlier ones.  A delivery that is entered, or moved, to a day before one
that exists already escapes the check, and afterwards the later one has a previous
shipment that is not marked.

## Proofs

Every theorem is for all values of the constants.  The assumptions are the named
ones of the modules: what is a number, what is finite or a subset of what, that
`None` is not a value.

`JournalSync_proofs`: `NothingSkipped` (a stale mirror row is named after a stored
id) is not inductive: it does not say why storing the id of a round is safe.
`IInv` adds

* `IdsInv`: stored ids lie within their logs, remembered ids are not ahead of them;
* `RoundInv`: `data` holds all documents between the stored id and `maxid`, and the
  callback numbers and documents agree;
* `CopyInv`: each row that was read is current or named after `maxid`
  (`ReadOk`), and so is each mirror row that this round has handled
  (`WrittenOk`).

A document that POS changes during the round gets a log entry after `maxid`,
which makes `OwedLater` true; a document handled when the id is stored is
current or `OwedLater`, and everything else named up to `maxid` is in `data` and
handled.  `NeverBackwards` follows from `mirror <= buf <= row`.  The refinement maps
the owed documents to those named after a stored id; `SetLast` is `Settle`, and
its precondition is `Handled` for all of `data`.

`Schedule_proofs`: the invariant rests on `ReadsValid`: with the revision that was
read goes the row that was read, because every rewrite raises the revision, a
record that is gone does not come back and no id is given out twice (`FreshIds`).
An update guarded by the revision is therefore a function of the row as it is, and
what has to be shown is that each such function keeps one row in order: `Coherent`
and `SeenRow`, which says that the list stored at acceptance is what an unmarked
record would deliver if its checksum is that of the document.  For receipts, whose
checksum leaves the items out, `ReceiptsStay` says that the items a worker has read
are still there.  `JobOk` says what each worker has at hand when it comes to its
update.  Steps are then treated in two halves: what they do to the jobs (`JobsGo`)
and what they do to the table (`TableGo`: nothing, one record rewritten along
`Progress`, one gone, one opened).  `StepKeeps` derives the invariant from these
alone, and so does the refinement: each case of `Progress` is one step of
`Booking` or none.  The theorems cover what the runs leave out: receipts, any number
of records in one request, any number of workers and revisions.

`QbposQueue_proofs`: `NoNeedlessOrder` is not inductive, because nothing in it says
why a row that is pending may be ordered once more.  `IInv` counts: a request was
ordered more often than batches were lost only when its row is `Settled`, that is
done, or answered "ok" and about to be recorded (`MadeOk`).  A row the service takes
is pending and not the one it has just answered, so it is not settled, and one more
order is within the count.  A lost batch unsettles a row and raises the count.
The other parts say why a settled row stays so and why orders match: only the
row a request is linked to is ever pending (`LiveOk`); a request with orders is
sent and linked, hence neither edited nor deleted nor linked again (`MadeOk`,
`ReqOk`); a worker about to make a row pending holds the linked one, and
a worker that adjusts an order has a request and a row nobody else can touch
(`JobOk`, `OwnJobs`); fetched rows are pending (`ServiceOk`).  The proof first
lists what a step can do to a row and to a request (`RowChange`, `ReqChange`) and
then treats one part of the invariant at a time.

`StorePO_proofs`: a claimed record has at most one owner among the workers; the
phase of the owner, or the link, says how many requests each store has for it
(`Owned`).  A record that is not claimed has none.  As a claim is never given back,
`OrderedOnce` follows, and what POS has ordered is bounded by the ends of the
services because a row with an answer is not taken again (`Counted`).

`TinyLib_proofs`, on `TinyGrid`: `IdleShowsAll` is about a grid with nothing under
way, so it says nothing of the states that lead there.  `GridIInv` is about all of them:

* `GridOk`: the scroll bar is inside the table (`Inside`), the view is inside the list
  and shows something of a list that is not empty (`Placed`), the list of cached pages
  names no page twice and names every page there is (`InStep`);
* a load that is out was sent when pages had a length (`LoadSized`);
* a grid that rests, without a timer, a scroll event, a load, or a lock that has put an
  update off (`Resting`), shows all rows of its view or their page was overlooked
  (`Shows`), unless a load was given up or its answer thrown away, or the list is empty.

Nearly every step keeps the last part by leaving the grid busy: an `update` that is
forced sets a timer or empties the grid (`ForcedUpdate`). The one that lets it rest is
`LoadData`, when it finds no page missing. It looks at the page of the first row and
the page of the last and passes over each that is loaded, so with nothing left to ask
for there is no page between the two (`MissingNone`); which rows these pages hold is
division (`DivLeast`, `CeilDivMore`). `CacheInStep` comes from what `update_cachelist`
does with the list: the pages near the view go to one end, the others are kept in
their order until there are enough (`CachedFacts`). `LoadDataCallback` may also rest
by throwing the answer away; `NotShort` shows that it never does with rows and a
length of one and the same list: each page of a list but the last is full, and the
last has the rest (`WholePage`). This rests on lemmas about selecting by position: the
number of selected positions before one is its place in the result (`Ranks`), so
`Sifted` has the elements asked for, each as often as it was (`SiftedFacts`). Lists,
windows, pages and caches are of any size.

`TinyLib_proofs`, on `TinyList`: `Contiguous`, `TokenOfList` and the types, for any number
of notes and of loads and any length of an answer.  A page is described by the two ends
of a stretch (`Desc(t, b)`, the ids from t down to b), and the inductive invariant
`ListIInv` has three parts: the list is the stretch of its token (`Shown`), the last load
carries the token of the page and has its number to itself, and an answer continues the
token of its own request at one end (`Continues`).  The step that matters is
`LoadCallback`: an answer is taken only when it belongs to the last load, so it continues
the stretch that is shown, and two stretches that meet are one (`DescConcat`).  Without
the last-load part the invariant is not inductive: an overtaken answer would continue a
stretch the page no longer has.

`Delivery_proofs`: nothing in `RowsMatch` says why a save may leave out rows. `IInv`
says what a request can rely on between its statements: a page shows the header of the
revision it names (`Aware`), and the rows it vouches for are there as long as that
header is (`Present`); a save has the rows up to where it has come as its list says
(`Saved`), a delete has removed them (`Deleted`); and a delivery that is not `mixed`
has one writer (`AloneOk`). A header is replaced only at the revision that was read,
so the rows a page vouches for are those of that header unless two writers overlapped
or a save stopped, which is what `mixed` and `torn` record. `CountsOnce` and
`ShipsOncePerDay` have the hypothesis `OneWorker`: requests follow one another. The
checks of a save are reads, and no lock or condition ties the header it then writes to
what they saw, so two saves of different deliveries can pass each other; the run
`delivery_ship` is of one worker for the same reason. Requests may still stop between
any two statements, and users may hold pages of any age. The invariant `OneInv`
carries the checks through a save: receipts that were `Passed` are on no conflicting
delivery, one that was nowhere else still is (`First`), and once the header is written
the `Promise` holds for all of its receipts, which is the property when the last
statement is done. Modes of records may switch in the middle of this, so the invariant
does not speak of the modes as they are but of `Parts`, the records that are partial
or were when a delivery or a save had them: an edit can add to it and takes nothing of
what a delivery relies on away (`completed` keeps it). A check that asks for the mode
of its own record has that answer still to come (`asks`), and `Passed` says what it
knows before.

`CycleCount_proofs`: `Corrected` compares POS with the store through a mirror, a count
and an outbox. Its heart is that a sale changes POS and the store alike: a row that
was stored against an up to date mirror says, by what was in the store then and the
mirror's quantity, by how much POS is wrong, until POS has taken an adjustment
(`FreshRows`). A tally is the sum of the rows with the quantity of the last one, so it
says the same if the rows come to what was in the store then (`TallyEntry`), wherever
it is on its way, in a look or in a row of the outbox (`TrueCounts`). Rows that are
removed or added leave the others as they were (`RowsStep`). What a worker has read of
a list is no newer than the list (`NoNewer`), has its items unless the look was torn
(`FromList`), and the user it chose has counted them all (`Covers`). What the service
will tell POS comes from the counts of a pending row and what it has read (`SvcOk`),
and a row that POS has taken and that was neither sold past nor taken twice made POS
right (`SettledOk`).

`InstSync_proofs`: `Converged` speaks of a state in which nothing is left to do, so
the invariant has to say of every other state which value will win.  It has three
layers.  `Plain` is about numbers alone and holds of all fields: ids in hand are ids
of rows, later rows have later stamps, what `Fetch` and `LookOwn` found stays true of
the rows up to the ids they saw.  `FieldOk` holds of a field of which no change was
lost: what two stores both hold has been recorded (`Distinct`), and what POS has and
the snapshot lacks is nowhere else and will be found by the sync service, with every
row in hand accounted for (`InHand`).  `ChangeOk` is about the merge: a store has
settled on the value that `Wins` among the changes it knows, where a tie goes to the
own change unless the other store has a later one; an edit that is not recorded yet is
no earlier than what the store has (`Edited`), and what is about to be taken still wins
(`Taken`).  A field may still turn out to be lost when the commit comes (`Doomed`), so
the third layer is about the others (`Good`).  The lemmas `Wins...` are about two sets
of numbered changes without any state; `WinsAgree` is the heart: if each store has
settled on what wins and nothing is to come, they have settled on the same value and no
change is later.  `Stores` has two members, as `config.inst_sync_cfg` names one
`remote`; fields, edits and failures are any number.  Proving it corrected the model:
the snapshot that `update` puts back (see above) was missing from `astray`, and the run
is too small to show it.

Only model-checked: liveness (`CatchesUp`, `RowsAnswered`, `ComesToRest`), which the
prover cannot treat. Every other property of a passing run is stated by a theorem.
`PreviousMarked` and `CompleteBeforePartial` do not hold, which is what their runs
show. The inductive invariants of `Schedule`, `StorePO`, `CycleCount`, `Delivery`,
`InstSync` and `TinyGrid` were checked by TLC too (instances of half a million states
for `CycleCount` and of up to 1.9 million for `Delivery`, 700,000 for `InstSync`, all
states of the run `grid`); none of them is in a run, as the theorems say more.

## Not modelled, and the plan

The modules stand for Python handlers and services and for two JavaScript
widgets.  Counted in lines the repository is something else: its 46 `.js` files that
are not minified have 130,231 lines, of which jQuery, jQuery UI in five editions,
Semantic UI, Bootstrap and the like are all but some 5,300.  Of these,
`jquery-tinylibv3.js` holds the two widgets with a state worth a model (`TinyGrid`,
`TinyList`), `jquery-tinygrid.js` and `jquery-tinygridv2.js` are earlier editions of
the same grid, and the rest opens dialogs and draws.  Vendored libraries are not
modelled, so no model of this program comes near a third of those lines.

Not modelled for good: vendored code; reports, labels, pages and the mobile
application (read-only, I/O or drawing); HTTP and XML parsing; `mode` 1 of the
replication (a manual refill of emptied tables while nothing else runs); the
Windows service wrapper.

Known gaps inside the models, each named in its module's header: a grid that is sorted
while a load is out shows the rows of the former order until it is scrolled far
enough; one user in the instance of `CycleCount`; screens of fifty rows and more,
whose requests the servers turn down (`hist.py:581` and `642`, `purchasing.py:146`),
in `TinyGrid`; one customer in `InstSync`.

What the code does get wrong and a property therefore leaves out, each said in its
comment: a record made complete while a delivery or a save has it
(`NoRedeliverySameDay` takes it as partial); a sale between two parts of a count
(`Corrected`); an answer whose rows and length are of two lists (`IdleShowsAll`);
overlapping saves of one delivery (`RowsMatch`), requests that overlap at all
(`CountedOnce`); a record saved across another's claim (`RecordIsOrdered`); the changes
that the exchange loses (`Converged`).  `hazards` lists each with the line.

What could follow, in this order:

1. `CustomerFeed`: the customers of many stores, `create_snapshots` for all rows.
2. `Maintenance` and `Financial`: consumers with a watermark over logs whose ids
   become visible out of order, with `JournalSync`'s scheme as the yardstick.
3. `TinyServer`: framing and the idle sweep.  `WsgiLoader`, `Tracker`: small.
