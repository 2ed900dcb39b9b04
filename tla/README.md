# DUCKtective in TLA+

DUCKtective is a desktop program that downloads gzipped log files from Google
Cloud Storage, parses them, and keeps them in DuckDB files to be searched.  A
*wiretap* is one configured source: a row in the catalog `ducktective.duckdb`, and a DuckDB
file of its own with a table of log lines and a table of the files already loaded.
The directory holds TLA+ models of the parts of the program where goroutines,
transactions and failures meet, TLC configurations that check them on small
instances, and TLAPS proofs for instances of every size.

    tlc -workers 2 -config handles_shared.cfg MCWiretapHandles     # one run
    tlapm WiretapHandles_proofs.tla                                # one module's proofs

`PROJECT.json` lists every run, what each definition translates (`map`), the
hazards of the code at their lines, the disagreements found between the code
and its comments, and for every property a change of the code that breaks it.

## The system

| part | code | state | operations | hard because |
|---|---|---|---|---|
| handles and locks | `store/db.go` | `handles[id]` (instance, `writeMu`, `mu`, `lastUsed`), under `DB.mu` | `handle`, `createHandle`, `lockRead`, `lockWrite`, `heal`, `CloseIdle`, `removeWiretapFiles`, `Close` | instances are opened on demand and closed under goroutines that have them |
| compaction | `store/compact.go` | the wiretap's file, a `.compact` copy | copy under the shared lock, swap under the exclusive one | goes down and up between two lock modes; a failed swap leaves a closed instance |
| ingestion | `store/ingest.go` | rows, `_meta_ingested_files` | `IsFileLoaded`, `PrepareFile`, `CommitFile` | several transactions per file, failure after each, overlapping loads |
| load pipeline | `app/app.go` `downloadAll`, `loadPipeline`; `store/ingest.go` `read` | three channels, a parse slot, files in flight | open, scan, parse, hand over, commit | bounded pool, channels and a lock that could wait for each other; memory |
| catalog | `store/wiretap.go` | row with `fields_json`; the table's columns | `CreateWiretap`, `UpdateWiretap`, `DeleteWiretap`, reads | two databases, no transaction over both; values are appended by position |
| retention | `store/retention.go` | rows | age delete, size cap in passes with compaction | boundary arithmetic, repeated passes |
| scheduler | `app/scheduler.go` | `last_polled_at`, one tick a minute | poll, retention, re-encode, `CloseIdle` | retries; runs next to the window's calls |
| legacy migration | `store/migrate_legacy.go` | the old single database, the new files | split, two renames | a crash between any two steps |
| search | `store/search.go` | none | one page of one query | reader of a handle |
| window | `frontend/src/main.js` | view, filters, offset, polling | search, next page, load, forms | overlapping answers, paging over rows that move |
| parser, GCS and credential clients, start-up | `parse`, `source`, `gcs`, `gcp`, `appdir`, `main.go` | none or a client | single calls | |

The window calls methods of `App`, each on a goroutine of its own; the scheduler is
one more.  They share the catalog connection and, per wiretap, its handle.  A load
is `IsFileLoaded` for each name, `loadPipeline`, and in it one `CommitFile` per file
under the wiretap's write lock.  Retention and compaction take the same lock, a
search the shared one; `CloseIdle` tries both and leaves if it must wait; a deletion
takes both; `createWiretapTable`, `heal` and `Close` take neither.

What makes each part correct:

* handles: one open instance per file, on the file that is at the path; nobody
  loses an instance between the lock and the unlock; one writer; exclusive
  sections alone; every call ends.
* ingestion: no line twice; a marked file is complete; a file that is not marked
  gets marked.
* pipeline: a file is reported as loaded only when all of it is in the database;
  bounded memory; every load ends, reports every file and leaves nothing behind.
* catalog: a row has a file; its fields have columns; values go into their columns.
* files on disk: whatever is interrupted, a start finds every wiretap's settings, rows
  and marks as the last completed call left them, and gets through.
* compaction's copy and the parser: each row, and each line, exactly once.
* retention: takes the oldest, no more than announced, goes on while the file is over its
  cap, and gives the space back.
* scheduler: passes keep their distance; a failing wiretap starves no one.
* search view: the newest matching rows of the selected wiretap, each once, and no others but
  those of a late answer.

## The modules

**`WiretapHandles`** (`db.go`, `compact.go`, and the callers' lock use).  State: the
row and the file (`row`, `file`), which handles have their instance open on the
file now at the path (`live`), which are closed or invalidated, `DB.handles[id]`
(`map`), the locks of every handle, and for each goroutine
its place `pc`, operation `op` and the handle it was given.  Wiretaps share nothing
but `DB.mu`, so one id is enough.  `DB.mu`'s critical sections are single steps,
except `openHandle`, which is two (`BeginOpen`, `OpenFile`): `os.Remove` runs without
`DB.mu`.  A step per lock, unlock, close, rename and open follows the code:
`Start` … `FindHandle`/`OpenFile` … `LockWriteMu`, `LockMu`, `Begin`, `Finish` for searches,
loads and alterations; `Copied`, `LockMuExclusive`, `SwapClose`, `SwapRename`, `SwapReopen`,
`Relock`, `CompactDone`/`CompactFails` for compaction; `Lookup`, `Drop`, `Remove` for
deletion; `NextPass` for the passes of the size cap.  A waiting exclusive locker
keeps new readers out, as in `sync.RWMutex`.  What statements do to data is left out.
**`SharedFile`** says what the handles are for: one file that many search and one
changes, and that is replaced while nobody searches.  `File!Spec` is the refinement of it; who
has statements running (`Searching`, `Changing`) and who swaps (`Replacing`) is all that shows.

**`FileIngest`** (`ingest.go`, the loaders of `app.go` and `scheduler.go`).  State: how
many committed copies the table has of each chunk of each file, the marks, the write
lock, and each loader's place.  `Check`, `Lock`, `DeleteRows`, `DeleteMark`, `Append`, `Mark`
are the transactions of a load in the code's order; `Fail` and `Crash` may follow any of
them.  `Retain` is the age delete.  `expired` and `torn` are history variables.
**`WholeFiles`** is what the marks promise: a load is one step that puts a whole file into the
table, a reload one that takes it out, and between them only retention takes parts.
`Whole` maps the marks to it: a mark counts until its file's rows are deleted, and not again
before the next `Mark`, also when the commit breaks off before the mark itself is deleted.

**`LoadPipeline`** (`app.go`, `ingest.go`).  State: the download pool, the results
channel, the main loop and its files in flight, the write lock, and per file its
reader, channel, body, context and outcome.  One action per channel operation, lock
or return.  The two defer'd closes and the cancel of a failed commit are there; the
window's context is never cancelled by the program.  `FileIngest` has what these
commits do to the database, `LoadPipeline` how they are fed.  **`SerialLoad`** is what
callers see of it: one file after another is written, each from its first chunk on, and
reported once, as loaded when all of it is written.  The head of the write lock's
holder's queue is the file being written (`Serial`); pools and channels do not show.

**`WiretapCatalog`** (`wiretap.go`, `appendChunk`).  State: the row's fields, the file
and its table's columns, the write lock, and what each call has read and still
wants.  An ALTER, the row's UPDATE, each statement of `CreateWiretap` and of its
clean-up are steps that may fail.  Fields stand for the user's columns; the
bookkeeping columns come first in every table.  `crossed`, `cut` and `misplaced` are history.

**`DiskLayout`** (`migrate_legacy.go`, `db.go` `OpenAt`, `compact.go` `copyWiretapTo` and
`swapWiretapFile`) and **`DurableStore`**.  State: the database and the write-ahead log at
each path the code uses (the catalog, `.new` and `.legacy`; a wiretap's file and its
`.compact`), where a start is (`pc`) and where a copy of each wiretap is (`copy`).  Each
`os.Rename`, `os.Remove`, `Close`, `DETACH` and statement of the start, the split and the swap
is an action, and `Crash` may come between any two; loads, expiries and updates run
meanwhile.  `DurableStore` says what the calls promise: only a load, an expiry and an
update change what is stored.  `Store!Spec` is `DiskLayout`'s refinement of it: `Found` and
`Rows` map the files to what the next start would find in them.

**`CopySpans`** (`compact.go`) and **`ParseLines`** (`parse.go`, `ingest.go`) are the algorithms:
the bisection of time spans and of rowid ranges, each a body over the function `copied` that
gives the two halves, with the INSERT that runs out of memory; the chunks of a file, the slices of a chunk, and what
a line becomes.  A number is seconds or milliseconds by its size; a text in one of
the layouts keeps its digits.  **`Retention`** (`retention.go`) runs both on a table:
`ExpireByAge`, `Trim`, `CompactPass`, `CompactLast` and `Finish` are the stages of
`ApplyRetention`, with its variables, `Load` and `CompactWiretap` the calls in between, and a
stage may fail (`Return`).  The size of file and log is read before each pass (`retention.go:107`)
and says nothing of the rows, whose lines have any length: each reading is any of `Sizes`.
What the rows decide, how many a pass takes and keeps, is exact.  `dead` is history: the rows
deleted and not yet copied away.
**`LineStore`** is what is left of all this for a caller: a load adds the rows of a file's
lines, the age limit takes those before a day, a pass of the cap takes a row and all older
ones, at most half before it, and a compaction nothing.  `Store!Spec` in `Retention` takes the
table as a set of rows; that it has none twice is `RowsOnce`.

**`SearchView`** (`main.js`, `search.go`).  State: the tables, the window's variables
(`currentOffset`, `hasMoreResults`, `loadingMore`, the rows shown), and the calls under way.
A handler is split at its `await`: `Search` and `Scroll` send a call with the wiretap, form
and offset of that moment, `Run` is the query at some later one, `Answer` and `Fail` are
the rest of the handler, in any order with others.

**`Scheduler`** (`scheduler.go`).  State: each wiretap's settings, `last_polled_at` and
whether its file is of the old format, the rows a tick has listed, and
`reencodeFailed`.  A tick works by the listed row while the user changes the real
one.  All times the code compares are those of ticks, so they are kept as ages.
What a pass does is in the other modules; here it succeeds or fails.

`MC*` modules name the values that configurations use; `*_proofs` hold the proofs.

## The runs

| run | instance | shows |
|---|---|---|
| `handles_shared` | 3 goroutines, 3 handles; search, load, alter, compact, idle sweep | one instance (`OneInstance`), the mapped handle serves the current file (`ServedCurrent`), searches, changes and swaps exclude each other on the file as `SharedFile` says (`Implements`), through failing opens and swaps |
| `handles_all` | 2 goroutines, 2 handles; also create, delete, shutdown, invalidation | locks are held exactly where the code says (`LockDiscipline`), the swap and the removal are alone on their handle (`ExclusiveAlone`), every operation ends (`EveryOpEnds`) |
| `ingest_loads` | 2 loaders, 2 files of 2 chunks, 2 faults | no line twice, a load is one step of `WholeFiles` (`Implements`), so that a mark means complete but for a torn commit, every file gets marked |
| `pipeline` | 2 loads, of 3 files and of an empty one; 2 in flight, 1 fault | the pipeline implements `SerialLoad` (`Implements`), so that a file reported as loaded is complete; parsed chunks in memory stay bounded; both loads end and report every file; nothing is leaked |
| `catalog` | 3 calls, one failing statement, one crash or failing clean-up | fields have columns, rows have files, values are in their columns, with overlapping creations, updates, deletions and loads, a failing clean-up or a crash |
| `disk` | 2 wiretaps, 1 load, 2 faults; old or new layout, with or without a log | the files implement `DurableStore` (`Implements`), a log is beside its own file (`DiskInv`), the old database goes only when it is split completely, and is kept (`SplitComplete`), a later start always gets through (`StartsAgain`) |
| `retention` | 2 files of up to 5 lines: equal times, epoch numbers, no time, no JSON; spans of 3 rows, 3 limits of memory | counts agree with the rows; each line once and none lost through chunks, slices and copies; a trim takes the oldest and is bounded; whatever sizes are read, a call has read one within the cap when it ends, or taken more than a tenth of what was left three times; no deleted row stays in the file after a compaction; a copy copes with an INSERT that is too large; all of it implements `LineStore` (`Implements`) |
| `search` | 2 wiretaps, 4 rows, pages of 1, 2 calls under way, 2 changes | without interference pages are right, and complete at the end; rows are the selected wiretap's or a late answer's; one page is loaded at a time, and loading ends |
| `scheduler` | 2 wiretaps, 2 changes of the user, 1 restart or error of the list | passes keep their distance, the user's settings survive a tick, every wiretap gets its turn |

Some statements are theorems and no run lists them, since what it checks implies them:
`BusyOpen`, a conjunct of `SharedDiscipline` for those whose statements run, and `OneWriter` (which
`handles_heal` refutes without `OnlyShared`); `MarkedUnlessTorn`, from `WholeFiles`; `LoadedMeansComplete`,
from `SerialLoad`.

Three more runs end in a counterexample, each to a sentence of the repository:

| run | sentence | what happens |
|---|---|---|
| `handles_heal` | `writeMu` serializes writers (`db.go:34`) | two calls met the invalidated instance; the second heals away the handle opened after the first one's heal, under its writer, and the next call opens a third, with a lock of its own |
| `ingest_torn` | a mark is that of a completed `CommitFile` (`ingest.go:301`) | a reload stops between deleting the rows and deleting the mark |
| `catalog_agree` | the fields and the table's columns must agree (`wiretap.go:205`) | an update fails after an ALTER; the column stays, and every later load is refused |

Some statements hold only with a reservation, which the properties name.
`RowHasFileUncrossed`, `FieldsHaveColumns` and `ValuesInPlace` leave out two kinds of
creation.  One is *crossed* by a call on an earlier wiretap of the same name: the old
removal can take the new file, and an old load appends by position into other
columns.  The other is *cut* short by a crash, or by a clean-up that fails itself; over
a file that a deletion left behind, the row then gets another wiretap's table.  With
neither, a file without a row is indeed harmless: the next creation fails on
its table, clears it away, and the one after succeeds.
`EventuallyLoaded` promises that a mark is reached, not that it stays.
`Spaced` needs the first of two passes to be marked: when `MarkPolled` fails, or the program ends
before it, the next tick polls again.  Of re-encodes it says nothing.  `OwnRows` allows the rows
of calls that were under way when the view was cleared, whose answers `main.js` appends.

Behaviour seen in the models, that a reader of the comments may not expect, with no
run of its own:

* a search or a load that is opening a wiretap while it is deleted makes the file
  again (`openHandle` looks for it with `os.Stat` first), contrary to `db.go:213`;
* `CreateWiretap` that dies after its INSERT leaves a row without a file, which
  `wiretap.go:356` calls not harmless;
* with two rows, or with many of one microsecond, a pass of the size cap can delete the whole
  table, contrary to `retention.go:20`: the boundary row and its equals go, too.
  `TrimBounded` counts the rows before them, `CapPursued` ends with what is then left;
* three passes for the cap may end with the file over it and up to 73% of its rows left: each
  takes a share of the rows, and the oldest may hold few of the bytes;
* the first pass measures a file that still has the space of the rows the age limit has
  just deleted, and may trim although the live rows are under the cap;
* an out-of-memory `CHECKPOINT` of the copy (`compact.go:153`) ends a compaction and is not tried with
  less, as an INSERT is: `CopyCopes` is about the INSERTs;
* of two searches that overlap, both answers are appended, in the order they come
  (`main.js:441`); a search answered after another wiretap was selected shows the old one's rows
  under it (`main.js:454`), and the line fetched for such a row is looked for in the wrong
  wiretap; a page fetched after rows have moved, or among rows of one time,
  may repeat or miss some: `Settled` leaves these cases out;
* a re-encode that failed is tried again at the first tick after a restart, not after the hour
  of `scheduler.go:89`: `reencodeFailed` is in memory;
* a tick that is under way when a wiretap is deleted and created again loads it by the
  old row and marks the new one as polled; one that is under way when the
  settings are saved still applies the old retention limits.

### Bounds, and why they are enough

* Two goroutines meet in every pair of operations, and the third of `handles_shared`
  is the one that comes upon what two others left: a waiting locker behind a
  holder, a handle closed and opened anew.  A goroutine holds at most one handle,
  and one that opens has none, so as many handles as goroutines suffice.  Handles and
  goroutines are symmetric; symmetry is used in runs without liveness only.
* Two chunks are the least with a place between them, two loaders the number there is
  (the scheduler's and a call from the window).  Two faults allow a repair that
  fails.
* `maxInFlightFiles` is 2 for 4, the channel's depth 1 for 2, and the pool 1 for
  `NumCPU() + 2`: each of them still fills, empties and blocks, with three files for
  the places of two.  `BoundedMemory` is stated in the constants.
* Field lists overlap in one field and differ in order, so that updates meet in the
  same ALTER and positions can be confused.
* `disk`: two wiretaps, so that a split can stop between them; one load, since rows are told
  apart only by being there; two faults, so that a recovery is itself cut short.  Two
  wiretaps never share a file, and a copy of one does not depend on the other.
* `retention`: spans of at most 3 rows and a floor of 2, an INSERT that fails with more than
  1, 2 or 9 rows, 8 units in a microsecond: tables of up to 10 rows are halved in
  time to a single microsecond and below, and then by rowid.  Chunks of 3 lines for 2
  workers have slices of every kind, a short last one among them.  With a cap of 20 the sizes
  read are 10, 21, 30 and 99: under it, and over it by a tenth, by a share between, and by the
  half that a pass takes at most.
* `search`: pages of one row for `PageSize`: the row after the page, the last page and the
  empty one all occur within four rows, two of which have one time and one has none.
* `scheduler`: intervals of 1 and 2 minutes, a retry after 2 instead of 60, up to 2 minutes
  between ticks: each comparison is met from below, at the boundary and above.
* `MaxFaults`, `MaxFails`, `MaxStops`, `MaxChanges` and `MaxCalls` are the only caps on behaviour.  Runs
  without deadlock checking are those where the program may stop: a shut-down
  store, or a fault budget that ends with every load over.

### Fairness

`handles_all` has strong fairness for each goroutine's next step: `sync.Mutex` and
`sync.RWMutex` are starvation free, and a DuckDB statement or a system call ends, in
success or in an error.  Nothing makes an operation start, an instance become
idle, or DuckDB fail.  `ingest_loads` has the same for a commit under way, and strong
fairness for the scheduler's check of each file: a tick comes back to every file
that is listed and not marked, and failures end.  It has none for calls from the
window.  `pipeline` has weak fairness for goroutines that wait alone for their
channel, and strong for those that compete for the write lock or the parse slot.
It assumes that the network answers in the end, with data or with an error: the
program sets no timeout.  `disk` has weak fairness for a start that is under way and for
starting the program again, with finitely many crashes and errors.  `search` has weak
fairness for a page's query and for its answer or error, none for anything the user does.
`scheduler` has weak fairness for the steps of a tick, whose calls end, and strong fairness
for a tick that comes a minute or more after the last: the ticker's clock goes on.

## The proofs

TLAPS checks the following for every value of the constants that satisfies the
assumptions in the modules.  They say what the code gives: that limits are positive,
that `None` is no goroutine, field or file, that there are finitely many rows, wiretaps
and settings, that what is read as a time, a limit or a size is a whole number.  Each `*_proofs` module goes the same way: a lemma that `Init` establishes the
invariant, lemmas for the actions or the conjuncts, and theorems that combine them.

**Handles.**

* `LocksCorrect`: `Spec => []LockDiscipline`.  `LockDiscipline` is type correctness and, for
  each lock of each handle, the exact set of places in the code at which a goroutine
  holds it.  It is inductive as it stands: each action moves one goroutine between
  places and changes that goroutine's locks accordingly, and a shared lock
  is given only with no exclusive holder, and the other way round.
* `ExclusiveSections`: `Spec => []ExclusiveAlone`, from `LockDiscipline`.
* `OneInstancePerFile`, `CurrentServed`, `InstancesStay` and `WritersExcluded`: under `OnlyShared`
  (nobody creates or deletes the wiretap, DuckDB does not invalidate an instance),
  `OneInstance`, `ServedCurrent`, `BusyOpen` and `OneWriter` hold.  `OneWriter` is not inductive:
  that two writers have one lock needs that they have one handle, that nobody closes the
  mapped handle while someone is between lock and unlock, and that a handle closed by a
  failing swap leaves the map before its lock is free.  `SharedDiscipline` says so, place by
  place (`SharedCorrect`).  Without `OnlyShared` the statements are false: `handles_heal` is
  the counterexample.
* `HandlesImplement`: under `OnlyShared`, `Spec => Implements`.  This says more than the exclusions on
  each handle: a goroutine may have got its handle long before, and another have been
  opened since.  `BeginMaps` is the step that matters: the first statement runs on an open
  instance only, the open instance is the mapped handle's, and so is the handle of whoever
  changes or swaps the file, with the lock that keeps the goroutine out.

**Ingestion.**  `IngestCorrect`, and from it `NoDuplicates` and `MarksKept`, for any files,
loaders and numbers of chunks and faults.  `IngestInv` adds what a commit under the lock
knows of the table: nothing of its file after the first delete, and each chunk below
`next` once after the second.  `IngestImplements`: `Spec => Implements`, `FileIngest` implements
`WholeFiles`.  `DeleteRows` is the abstract reload, `Mark` the load, `Retain` the expiry, and no
other step shows.  It needs that the file being appended is not `torn` any more, and that
`Retain` waits for the lock, so that a file is whole when its mark comes.

**Pipeline.**  `PipelineCorrect`, `LoadedComplete` and `MemoryBounded`, for any number of
loads, files of any number of chunks, and all limits.  That a loaded file is complete
needs to know where each chunk is (`ChunksHeld`), for which each file must be in one place
(`InOrder`: in the pool, once in the results channel, once in the queue, or reported) so
that no two loads, and no two places of a queue, commit it.  `Received`, `ReturnOrder`,
`HandOrder` and `CloseOrder` are the moves between these places.  `FlightBounded` counts the
files a load has taken from the channel and not committed; that each of them has at most
`Depth + 1` parsed chunks gives `BoundedMemory` by the cardinality of a product.
`PipelineImplements`: `Spec => Implements`, `LoadPipeline` implements `SerialLoad`.  That a commit
begins with nothing of its file written is `UnbegunEmpty`; that it is reported once follows
from `InOrder`, and that nothing is written beyond the end from `ChunksHeld`.

**Catalog.**  `CatalogCorrect`, and from it `RowsHaveFiles`, `FieldsSearchable` and
`ValuesKept`.  The invariant's core is `Fits`: of a list of fields and the table's columns,
every field has a column no further to the front than its own place, and none too far
behind.  An ALTER appends a column and keeps this, an update that fails halfway
leaves it for the old row, and an append by position either is refused or, when the
lengths agree, finds every field at its own place.  `RowCurrent` has it for the row and for
every call that has read the row, unless the creation is `crossed` or `cut`.

**Files on disk.**  `DiskCorrect`, `SplitKept`, and `DiskImplements`: `Spec => Implements`, that is,
`DiskLayout` implements `DurableStore` under the mapping `Found` and `Rows`.  The step lemmas
prove `DiskInv'` and either `Kept` (what the next start would find is what it was) or the
abstract step of a load, an expiry or an update.  `DiskInv` says which files exist, with
which content, at every place of a start and of a copy, and that a log is beside the version
of the file it belongs to (`LogsMatch`); the last is what makes the crash between two steps
of a swap harmless.

**Search view.**  `ViewCorrect`, and from it `PagesInOrder`, `EndIsEnd` and `RowsOwn`, for every
table, every filter, and pages of any size.  `PagesRight` is about every order in which the
query may give the matching rows; while times are distinct there is one only
(`OneOrder`), and `Paging` says that the one call under way asks for the rows that follow in
it.  `RowsOwn` holds in every order of answers, since it allows those of the calls (`late`) that
were under way when the view was cleared; `OwnCalls` says that no other call under way is
another wiretap's.  `Numbered` needs a free number for each call, which is a pigeonhole argument.

**Scheduler.**  `TicksCorrect`: `Spec => []SchedulerInv`, and `PassesSpaced`: `Spec => Spaced`, with
the reservation above: a pass that was not marked does not count.
`TimesKept` relates the ages the code stores to those of the passes really made, through
marks that fail and wiretaps deleted and created again meanwhile; `DueStill` says that what
was due when the tick listed it has not been passed over since, which needs that a tick
has each wiretap once (`OnceEach`).

**Retention.**  `RetentionCorrect`: `Spec => []IInv`, where `IInv` is what the run checks,
all of it together, in two parts: `Data` (the rows, what was loaded and what was deleted)
and `Counters` (what `ApplyRetention`'s variables say of the file).  From it `PassesCounted`,
`NoRowTwice`, `NoRowLost`, `CopyEnds`, `PassesPursueCap`, `SpaceGivenBack` and `TrimsOldest`, for any files,
policies, batch sizes, memory limits, workers and chunks.  Three arguments carry them:

* A copy (`CopyRight`).  `copySpan` and `copyRowidRange` are functions that call
  themselves for their halves.  `FixedPoint` shows that such a function exists when each
  call is decided by calls of smaller measure, `HalvesCopied` that a property of both halves
  that the whole inherits holds of every span; the measure is the width, which halving makes
  smaller down to a microsecond or a single rowid.  The property is `Copies`: a result
  without a failed INSERT has every rowid of the span once, and no INSERT fails where one
  of `MinBatch` rows fits.
* A load (`FileRowsAre`, `LinesParsed`): chunks and slices cover the lines and do not
  overlap, whatever the number of workers, so a file's rows are those of its lines.
* A pass (`OffsetBounds`, `CutoffIs`): for any size read, the offset is at most half of the rows,
  and with the row at the boundary more than a tenth of them go.  `PassesTake` is the
  strengthening that carries this over the three passes to `PassesPursueCap`; what it does to the
  file's bytes is not known, so nothing is said of the cap itself.  `SpaceKnown` says that after the
  first pass the file holds no deleted row, and before it when a compaction is asked for.

`RetentionImplements`: `Spec => Implements`, `Retention` implements `LineStore`.  `LoadMaps` needs what is
said of a load, `TrimMaps` that the cutoff is a row's time with at most half of the rows
before it, and the compactions that a copy's result has the rows it was given.

The provers have no induction over an operator.  Where one is needed it is put as the
least element of a set of numbers (`LeastNumber`, from the well-foundedness of `<`).

Only model-checked:

* liveness (`EveryOpEnds`, `EventuallyLoaded`, `EveryFileReported`, `NothingLeaks`, `StartsAgain`,
  `LoadingEnds`, `EveryoneServed`), which is out of the prover's reach;
* the three counterexamples.

## Not modelled

SQL text, JSON, file names, progress events, logging and the layout of the window.
Filters are sets of matching rows; of a line's fields only the time is looked at.
Authentication and listing of projects, buckets and folders are single calls of
a library; the race of two first calls in `ensureGCS` is listed as a hazard.
`DistinctLevels` and `RawLine` are readers of a handle and nothing more; the window's forms
and dialogs have no state the store depends on.  The generated Wails bindings, the packaging
scripts and the site under `docs` hold no logic.  `PROJECT.json` gives the reason for each
part.

Assumed of DuckDB: a committed transaction survives a crash; a statement is atomic; a
`Close` that reports no error has folded the log into the file (`swapWiretapFile` removes the
log without looking); a log beside a file that is not its own is not replayed.  Of the clock:
stored times and the retention cutoff are on one scale, although `parse.go:94` keeps a line's
local digits and `ApplyRetention` compares them with UTC.  `float64` is exact.

Simplified where no property depends on it: an error of `CommitFile` is noted in the step in which
it unlocks, before the body is closed; whether an `INSERT` runs out of memory depends on the
number of its rows only, although it is tried again at other moments, and the copy's
`CHECKPOINT` does not run out.

## Plan

In this order:

1. That `DurableStore`'s promise holds for a `Retention` call cut short, as a theorem that
   joins the two modules' rows.
2. The two first calls of `ensureGCS`, a race that is listed as a hazard and not modelled, and
   the slices that `valuesPool` passes from one line to another.
3. `HandlesImplement` with creations and deletions, whose files come and go under old handles:
   what is then left of `SharedFile` has to be found first.
