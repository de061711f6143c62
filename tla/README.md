# EmberScanner in TLA+

EmberScanner receives recordings of radio calls, stores them, and plays them to listeners over
websockets. This directory holds TLA+ models of its server and of the parts of its pages that decide
what the server is asked, the TLC runs that check them on small instances, and proofs, checked by
TLAPS, of what holds on every instance.

    tlc -config MCListeners.cfg MCListeners      # one of the runs below
    tlapm ListenersProofs.tla                    # the proofs of one module

`PROJECT.json` lists the runs, the mutants that show each property can fail, the source lines each
definition models, the hazards of the code and the findings.

## 1. The system

| Component | State | Operations | Talks to | Module |
|---|---|---|---|---|
| Listeners (`client.go`, the loop in `controller.go`) | per connection: socket, reader, writer, authentication timer, `Send` buffer; `Clients.Map`, `Clients.active`, channels `Register`, `Unregister` | accept, read a frame, reply, write, ping, time out, register, unregister, broadcast | authentication, ingestion, administration | `Listeners` |
| Authentication (`auth_limiter.go`, `access.go`) | failures per address with expiry; codes; the access each client holds | PIN, lock, reset, limits, expiry | listeners, administration | `Pin` |
| Ingestion (`controller.go`, `call.go`, `system.go`, `talkgroup.go`) | `Ingest` channel, systems in memory; tables `systems`, `talkgroups`, `calls` | resolve, populate, detect duplicates, store, emit | uploads, watched folders, delayer, listeners, downstreams | `Ingest` |
| Delayed calls (`delayer.go`) | timers; table `delayed` | delay, release, restore at start | ingestion | `Delayer`, `DelayedRelease` |
| Archive (`call.go` Search and Prune, `activity.go`, `scheduler.go`, the search page) | table `calls`; the listing of a page | search, load the next page, count, prune | delayed calls, listeners, scheduler | `Archive` |
| Administration (`admin.go` PUT, and FromMap, Write and Read of every list) | each list in memory and its table; options | load the page, save it list by list, add and remove a user | every list of the server, ingestion | `AdminSave` |
| Watched folders (`dirwatch.go`) | watcher, timers per file, directories, goroutines of events and of the first walk | start, stop, event, walk, ingest and delete a file | ingestion, administration, the recorder | `Dirwatch` |
| Database upgrade (`database.go`, `migrations.go`, `seeds.go`) | old and new tables, a transaction | migrate a table, drop it, commit, seed | the start of the process | `Migrations` |
| Sessions of administrators (`admin.go`) | tokens, connections, login attempts | login, logout, broadcast | administration | none |
| Live feed and scoping (`livefeed.go`, HasAccess, GetScopedSystems) | the selection of each client | select, is enabled | listeners, archive | a constant of `Archive` |
| Downstreams (`downstream.go`) | list | forward a call | ingestion | its list in `AdminSave` |
| Web client (`ember-scanner.service.ts`) | queue, current call, pause, holds, playback list | play, skip, hold, avoid, reconnect | listeners | its search page in `Archive` |

What interacts, and how:

- Uploads and folder watchers send calls to the channel `Ingest`; one goroutine takes them from it
  and does everything up to the database row. It then calls `EmitCall`, which either hands the call
  to the delayer or starts two goroutines, one for downstreams and one for listeners.
- `Clients.EmitCall`, `EmitConfig` and `EmitListenersCount` walk a snapshot of `Clients.Map` and push
  on each client's `Send`, which blocks when it is full. `EmitConfig` runs in the ingest goroutine.
- A client's reader answers on the same `Send`; its writer drains it and, on the first configuration,
  asks to be registered; its reader asks for the contrary when the socket fails.
- The administrator replaces lists in memory and writes them over their tables while all of that goes
  on; populating writes and reads back groups, tags and systems in the same way. A save stops and
  restarts the watched folders.
- Searches and activity read the tables that ingestion, the delayer and the scheduler change.

What makes each component correct, and what is hard about it:

- *Listeners*: slots come back exactly once; only configured clients hear broadcasts; nobody blocks
  everybody. Hard: three goroutines per client, two unordered channels, and buffers that fill behind a
  writer that has gone.
- *Authentication*: failures are bounded, locks last and end. Hard: check and update are separate
  steps of concurrent readers.
- *Ingestion*: no duplicates, no rows twice, every call settled. Hard: memory and database disagree
  after any failure, the process stops between any two steps, and the one goroutine that ingests may
  wait for a listener.
- *Delayed calls*: once, and not early, through restarts. Hard: the time is stored and computed again.
- *Archive*: nothing delayed is shown; a count is exact; a listing comes to its end. Hard: its
  answers are taken while calls are stored, delayed and pruned, and a page remembers only how many
  results it has.
- *Administration*: what was saved is what is there, in memory, in the tables and after a restart;
  stored calls go only with what was removed. Hard: three accesses per list without a lock that the
  other writers share, foreign keys that cascade, and failures between them.
- *Watched folders*: what the recorder finished is ingested whole; no file goes that was not. Hard:
  timers that have fired while they are being replaced, a walk beside the events.
- *Database upgrade*: nothing is dropped that was not moved, restarts make no difference. Hard: thirteen
  transactions, an engine that commits at a DROP, and errors that are taken for "nothing to do" or only
  logged.

## 2. Modules

| Module | What it is |
|---|---|
| `Listeners`, `MCListeners`, `ListenersProofs` | the life of a listener's websocket |
| `DelayedRelease` | what delaying promises: an abstract specification |
| `Delayer`, `MCDelayer`, `DelayerProofs` | delayed calls, refining `DelayedRelease` |
| `Archive`, `MCArchive`, `ArchiveProofs` | searching, counting and pruning; extends `Delayer`, so both run together |
| `Ingest`, `MCIngest`, `IngestProofs` | the ingestion of calls, with memory and database apart |
| `AdminSave`, `MCAdminSave`, `AdminSaveProofs` | saving the configuration while a call populates and users come and go |
| `Pin`, `MCPin`, `PinProofs` | authentication of listeners |
| `Dirwatch`, `MCDirwatch`, `DirwatchProofs` | watched folders |
| `Migrations`, `MCMigrations`, `MigrationsProofs` | the upgrade of a database of version 6 |

An MC module only gives constants their values. In the modules a definition marked *Mutant* (or *a
plausible mistake*) changes the next one in the way a bug in that code would; no behaviour of a
specification uses it.

### Listeners

One action per step of a goroutine that another can see: `Accept` and `Refuse` (TryReserve), `Read`
(a frame and ProcessMessage up to the push), `Reply` (the push), `Release` and `PushUnregister` (the
two statements of the reader's deferred function), `Write`, `WriteFails`, `PingFails`, `TimerFires`
(writer), `Add` and `Remove` (the select of the controller), `EmitCall`, `EmitConfig`,
`EmitListenersCount` (snapshots) and `Push` (one push of a broadcast).

- The order of a snapshot is any order: Go iterates maps in no order.
- `register` and `unregister` are sets: each channel has room for 8192 clients, each client is in each
  at most once, and the order within one channel does not matter to a set of clients. The capacity is
  not modelled.
- A message is a configuration or something else. Which clients a call reaches (access and live feed)
  is any subset of the map.
- `Send` has capacity 1 in the runs instead of 8192, so that it fills. The capacity of the model is a
  constant, and the proofs are for all of them.

### Delayer and DelayedRelease

`DelayedRelease` knows a clock and, for each call, whether it is absent, held, broadcast or lost and
when it is due. `Delayer` has the process, its timers, the table and the delays as configured.
`at[c]` is the goroutine that has the call, `delayed` the table, `todo` what `Delayer.Start` has read
from it, `held` the delay the call was resolved with. A held call of the promise is one a goroutine, a
row or `Start` has (`Pending`). `StackOverflow` is the end of the mutual recursion of `EmitCall` and
`Delay`, which otherwise lasts until the clock reaches the timestamp.

A crash may come at any step. `Fault` names the database failures that may happen: `push` and `pop`
(writing, removing a row) and `getcall` (reading a call back).

### Archive

Extends `Delayer` by the calls table and its readers. `Search(options, access)` is the set of calls a
search finds, `Page` the pages it may return of them: the query orders by timestamp alone, so calls of
one timestamp come in any order. `listing` is what the search page has shown; `SearchCalls` asks for
the next page at the offset of the results it has and adds those it does not have yet. A change of the
form begins another listing, so one is enough. `PruneDatabase` is the scheduler's, with the cascade to
`delayed`; when it finds nothing it is no step. A call that it took is refused its row
(`PushRefused`).

`ReadScopedActivity` is what a request for activity counts, `Buckets`, `BucketOf`, `BucketStart` and
`BucketEnd` the arithmetic of its buckets; `now + Epoch` is the clock in the unit of the buckets, so
that the division by the width meets every position of the range, round or not.

An access is a set of talkgroups and whether it is a list; a selection is a set of talkgroups, which is
what the system, the group, the tag, the talkgroup and the live feed of a form come to. Two things are
left out: that a call is released between the count of a search and its page, and an access with an
empty list, whose search is refused by the database. Retrieving one call (`GetCall`) is not here: it
does not look at `delayed` at all.

### Ingest

The database and memory are separate variables. A row is `[ref, by]`: the reference it stands for and
the call that inserted it (0 for the administrator), so two rows for one talkgroup can be told apart
and a row can be told from an object in memory that has lost its row. `systems` is `Systems.List`;
an object whose `by` is `New` has no id, and one whose row is not in the table has the id of an
insertion that was rolled back.

One action per database access and what surrounds it: `RejectBlacklisted`, `Populate`, `GroupFails`,
`Resolve`, `Unmatched` up to the first; `WriteSystems`, `WriteFails`; `ReadBack`, `ReadBackUnmatched`,
`ReadFails`; `EmitConfig` or `EmitConfigBlocks`; `RejectDuplicate`, `CheckFails`, `NoDuplicate`;
`Store`, `StoreFails`; then `Broadcast(i)` for each emitted call. `EmitConfig` is what follows populating
(`controller.go:437`): the ingest goroutine itself pushes on the `Send` of every client. What one listener
may do to it is the fault `client`: with its buffer full and its writer gone the push never returns, `pc` is
`stuck`, and nothing more is taken from the channel until the process stops. How a client comes to that
is in `Listeners`, so here it may happen at any time. `fate` tells an end by a failed reading (`unread`)
from one by another failure (`error`).
`KeptSystems` and `WrittenTalkgroups` follow the two removal rules of the code, which differ: no system
is removed while one of the list is new; a talkgroup is removed whenever no object has its id.

Assumptions: ids are not used again (true of PostgreSQL and MySQL sequences, which do not roll back;
SQLite may reuse the id of a rolled back insertion); no administrator saves during ingestion, which is
`AdminSave`; calls are found by reference, system ids and labels leading to the same lookups; duplicate
detection is on. `EmitCall` is immediate here: delaying is in `Delayer`. The direct calls of test mode
are left out.

### AdminSave

Every list (`access`, `apikeys`, `dirwatch`, `downstreams`, `groups`, `tags`, `systems` and their
`sites`, `talkgroups` and `units`) is in memory (`mem`) and in its table (`tab`, with the last id
given). An element is an id, the system it belongs to, a key (reference or label) and, for a talkgroup,
its tag. `LoadPage` takes the page as `SendConfig` gives it and makes one edit of it, of any list; the
PUT then goes through the lists in the order of `ConfigHandler`, `pc` saying where it is. `FromMap`, `WriteStep` and
`ReadStep` are the three accesses to a list that another writes too; a list that only the save changes
(`SaveList`) is saved in one step. `Written`, `Removed` and `Upsert` are the Write of every list:
nothing is removed while one element is new, a row keeps its system, an unknown id is inserted under
another. `Cascade` is the foreign keys.

Beside it run the ingestion of one call (`Arrive` to `StoreCall`, with the write and the reading back
of groups, tags and systems) and the handlers that add and remove a user. A transaction fails as a
whole; a reading fails after any part of the list (`ReadPart`, `ReadSystemsPart`), and what it has read
is then the list. `Restart` is a stop of the process anywhere. The links of talkgroups to groups are
left out.

`Sane` says which tables a behaviour may start from: finitely many rows, told apart by ids, whose
foreign keys exist, and of which only sites, talkgroups and units have a system. What is nested names
its system by id. An id in memory that has no row (`Unsaved`) is 0 or that of an insertion that was
rolled back; `Given` are the ids that the insertions of a Write may get, and `IdOf` the id of a system
once systems are written. Two unsaved systems of one id could not be told apart by what is nested in
them, hence the bound in `Fresh`: a system is added only to a page that has no new one.

### Pin

One action per critical section of `ProcessMessageCommandPin`: `Pin`, `PinLocked` or `PinUndecoded`
(RetryAfter, and then a text that is not base64, which is an error and counts as no failure),
`Unrestricted` or `Restricted` (IsRestricted), `Found` or `NotFound` (GetAccess), `PinFails` (Failed),
`CheckLimit` (AccessCount), `Accept` (Reset and SendConfig). `Config` is a request for the
configuration; `Register` and `Leave` are `Listeners` in one step each. An access is its code and the
number of the save that made its object, since the code compares pointers. Codes have systems, as the
administration pages give them. Options do not change during a behaviour. Time is a number of ticks
until an entry expires; the window is 2 ticks for 15 minutes.

### Dirwatch

One action per step that another goroutine can see: of the recorder (`Create`, `WritePiece`,
`MakeFolder`, `RemoveFolder`), of the goroutine of events (`HandleFile`, `HandleMade`, `HandleRemoved`,
`Fail`, `Exit`), of timers (`Fire`, then `RunTimer` under the mutex), of the first walk (`WalkRoot`,
`WalkList`, `WalkFolder`, `WalkFile`, `WalkDone`) and of ingesting a file by either (`Read`, `Remove`).
A folder that goes between its listing and its visit ends the whole walk: `broken`, with what it had not
come to in `left`. `orphans` are the timers that nothing can stop any more: a timer deletes the entry of
its path when it runs, also when that has become the entry of a later one.
A save stops the object and starts another for the folder (`Stop`, `Start`): timers, walk and events of
the old one may still run. A timer is named by its object, path and number, so a timer that has fired
and waits for the mutex is told from its successor. Time is in the guards: the recorder does not pause
for as long as the delay, so a timer runs out only on a file that is finished or was written since.
Of the four kinds of folder two are modelled, dsdplus and sdr-trunk treating files as default does.
That `dirs` is shared by two goroutines without a lock (`dirwatch.go:812`) is left at: each access is a
step.

### Migrations

The start of the process on a database of version 6. A migration is `Begin`, `MigrateRow` for each row,
`DropTable` and `Commit`, or `Absent` when its table is gone; `migrateGroup` and its like say what
becomes of a row, in the order of the code and with what it insists on. On SQLite the DROP is in the
transaction, on MySQL it commits. What fails, at any point, and what the code makes of it:

- `CountFails`: the SELECT COUNT that asks for the table. Any error of it means "no old table", and the
  next migration begins (`misread`).
- `RowFails`: an INSERT, which is logged (`spoiled`).
- `DropFails`: a DROP, which is logged too; the transaction commits, and the next start finds the old
  table beside the rows it has moved (`kept`). That of "meta" is one statement, whose error is fatal.
- `CommitFails` and `Crash`, which end the process. A BEGIN, or seeding, that fails is `log.Fatal` as
  well, and so is a `Crash`. The process is started again until it serves.

Left out: a result that ends early without an error being looked at; the ids that the database gives
to rows inserted without one (they are 0, or 1 for the defaults of `seed`); that such an INSERT of an
option, repeated after a DROP that failed, makes a second row of that key; what a server that went on
to serve writes between two starts.

## 3. Runs

Runs whose inputs are bounded come to a stop and say `CHECK_DEADLOCK FALSE`; `Pin` never stops and is
checked for deadlock. Each passing run has a type invariant beside what is listed, except `delayer_faults` and
`ingest_systems`, whose modules have it in another run.

| Run | Bounds | Shows |
|---|---|---|
| `listeners` | 2 connections, 1 slot, buffer of 1, 1 request each, 1 broadcast | `SlotsAccounted`, `BroadcastToConfigured`, `StaysOut`, `ConfiguredOrClosed`, `SlotReturned`, `BroadcastAdvances` |
| `listeners_count` | 1 connection | **violated**: `DepartedNotCounted` |
| `delayer` | 2 calls, delays 0 to 2, time 3, 2 crashes, 1 change of delay | `AtMostOnce`, `TableIsTimers`, `OnlyStopLoses`, `KeepsPromise` (the refinement), `EventuallyBroadcast` |
| `delayer_faults` | delays 1 and 2; rows that cannot be written or removed, calls that cannot be read | `RepeatsNeedRestart` |
| `archive` | 3 calls of 2 talkgroups, 1 of them patched, pages of 1, delays 0 and 3, 1 change of delay, time 3, pruning after 1 day of 1, 3 ranges | `ActivityExact`, `ActivityHidesDelayed`, `ListingCompletes` |
| `archive_delayed` | 2 calls, accesses that are lists, dates and selections | **violated**: `SearchHidesDelayed` |
| `ingest` | 4 calls, 1 system, 2 talkgroups, all failures but reading back, a listener that blocks the configuration, 1 crash | `NoDuplicates`, `BlacklistedNotPatchedIn` |
| `ingest_systems` | 3 calls, 2 systems of which one populates, a call with only a label; failures of groups, of writing and of reading back, a listener that blocks the configuration, 1 crash | `RowsUnique`, `EveryCallSettled`, `StoredIsHeard` |
| `adminsave` | 1 system, one save with one edit, one call that populates or one user added or removed, one failure or stop | `Agreement`, `SaveExact`, `CallsKept` |
| `pin` | 3 connections of 2 addresses, 1 code with a limit of 1, 1 attempt, window of 2, 1 save | `FailuresBounded`, `LockLasts`, `Unlocks` |
| `dirwatch` | 1 recording of 2 pieces, which with trunk-recorder is 2 files, in the watched folder or in one inside it, or beside that one; 1 save; 1 trouble: the save, an error of the watcher, the inner folder made or removed | `DeletedAfter`, `ExitStopsTimers`, `EventuallyIngested` |
| `migrations` | 3 databases (one with two systems whose talkgroups share the reference 100, one with a talkgroup without group, one unused), 2 stops, 2 failures of a SELECT COUNT, an INSERT, a DROP or a commit | `DroppedWhenMoved`, `RestartsMakeNoDifference`, `EventuallyServes` |

Why the bounds are enough to be of interest.

- *listeners*: two connections and a buffer of one give every order of registration and removal, a
  broadcast blocked behind one client, a reader blocked on its own buffer, and with one slot a
  connection that is refused or takes the slot of the one that went.
- *delayer*: two crashes give a crash during the restart after a crash, with a second call under way.
- *archive*: three calls and pages of one are a list with a middle; a change of the delay meets calls
  that are stored and armed; a delay longer than calls are kept prunes calls that are shown, armed, or
  about to be delayed. Ranges of 2,
  4 and 6 with buckets of 2 and 3 begin and end at a round hour and beside one.
- *ingest*: two calls of one talkgroup near in time, in the wrong order of time, one patched to the
  second talkgroup, and two of that one; a queue of two fills.
- *adminsave*: one edit is a removal, an addition, both, or a change of a key, in any list, or a list
  that is not sent; what matters is what the other list writers do between its accesses, and one of
  them is enough for each pair. A page has at most one system that is not saved (`Fresh`): the model
  tells new systems apart by that. Two overlapping saves cannot be: `admin.mutex` keeps them apart.
- *pin*: two connections that race and one that must not matter.
- *dirwatch*: a recording of two pieces is the least that can be seen half written; one save is two
  objects at work on it. A recording of the watched folder with an inner folder beside it is what a walk
  that ends early leaves behind. `SomeSetups` has that for trunk-recorder only, whose two files differ; for
  default it would add states and no other order of steps. The inner folder is made later only for what is
  recorded in it.
- *migrations*: two stops fall into any two of thirteen transactions or into one and its repetition; two
  failures are a table that is misread and one that is kept, or a row lost in one of them.

The proofs have no bounds.

### Fairness

`Listeners`: goroutines that can run are scheduled and armed timers fire (weak fairness). Pushing on a
channel is strongly fair: Go queues the senders of a channel, so one that waits while the buffer is
drained again and again gets its turn. `PingFails` is fair only on a closed socket. Nothing is assumed
of peers (`Accept`, `Drop`, `Read`) or of when broadcasts start.
`Delayer`, `Ingest`: the same for goroutines; the clock runs; a process that ended is started again, as
by a service manager. Crashes and failures are never required. `Ingest` needs only that the first of
the broadcasting goroutines runs; of a push on a listener's buffer nothing is assumed, `EmitConfig` and
`EmitConfigBlocks` being one choice.
`Archive`: as `Delayer`, and the end of the list stays in sight, so the page keeps asking.
`Pin`: time passes. Nothing is assumed of readers: `Unlocks` holds whatever they do.
`Dirwatch`: goroutines run, timers fire, and the recorder finishes a file that exists. What takes the
mutex is strongly fair: Go's mutex hands itself to a waiter that has waited long.
`Migrations`: the process runs on, and one that is down is started.
`AdminSave` has none, and no liveness.

### Findings

Two runs are refuted by TLC; `PROJECT.json` quotes the sentence of the repository each contradicts.

- `DepartedNotCounted`: removal overtakes registration, and a closed connection stays in the map.
- `SearchHidesDelayed`: the condition that hides delayed calls is replaced by the scopes of an access
  that is a list of systems (`call.go:431`), so that listener finds calls whose delay has not passed.

### Disagreements without a run of their own

These are in the models as the code has them; the properties above are stated so that they hold
beside them, and comments say where.

- *Delayer*: `Start` empties the table before it has restored the calls (`delayer.go:119`): a stop in
  between loses them. `OnlyStopLoses` allows that.
- *Ingest*: calls are emitted by goroutines that may overtake one another (`controller.go:165`;
  `CHANGELOG.md:135` says otherwise). With a failed reading, `Systems.Read` leaves part of the list and
  the next automatic population removes the rest, with its calls; with automatic population of systems,
the next call of a system that was not read creates it once more (`RowsUnique` and `NoDuplicates` are
stated for when that cannot be: no failed readings in `ingest`, no such population in
`ingest_systems`). A call that matches nothing ends the
  process instead of being logged (`Unmatched`, `ReadBackUnmatched`). The first call of a blacklisted
  talkgroup that is unknown creates it and is stored. The configuration is pushed by the goroutine that
  ingests (`controller.go:437`, `client.go:320`): one listener whose buffer is full and whose writer has
  gone stops ingestion until the process is restarted. `EveryCallSettled` names these ends: a panic only for
  a call that matches nothing (`Unmatchable`), the end of the process, and waiting behind that listener.
- *Pin*: a code is used by one listener more than its limit, or by more when several are accepted
  before any is registered (`controller.go:597`; `access.component.html:82` says otherwise), and those
  who hold an access of before a save are not counted.
- *AdminSave*: the page is sent a unit's reference as its id (`unit.go:87`), and what it sends back is
  taken for the id of a row (`unit.go:46`): units overwrite those of another system. `audioConversion`
  is never written, and the time frame of duplicates is written under one name and read under another
  (`options.go:311`): both are lost by a restart. A PUT without `dirwatch` stops every folder. While an
  element is new nothing is removed, and the reading that follows brings it back; with a new system,
  that leaves two of one reference. A read of tags by a save that overlaps populating can drop the tag
  being created, and every later population then fails until a whole save or a restart. A reading that fails
  in part is then what the next save or population keeps: rows go, and with them calls.
  Outside the model: the page blacklists the id of a talkgroup's row where the server expects its
  reference (`system.component.ts:102`); which links of talkgroups to groups are kept depends on
  numbers of another sequence (`talkgroup.go:402`).
- *Dirwatch*: with "Delete After" the first walk ingests a file that is still being written
  (`dirwatch.go:815`), whatever the delay; `EventuallyIngested` is what holds. A watcher that died does
  not restart (`738`). A timer that waited for the mutex while it was replaced deletes the entry of its
  successor, which then escapes `Stop` (`763`) and may leave its own successor in the same way:
  `ExitStopsTimers` allows just these. A folder that is removed while the first walk comes to it ends the
  walk (`819`): files after it in the listing stay, though they are to be deleted after, until something
  is written to them or the configuration is saved; `EventuallyIngested` excepts what the walk had not
  come to (`Missed`).
- *Migrations*: a dirwatch without a system is lost (`migrations.go:597`; `CHANGELOG.md:626` promises the
  upgrade), every unit is moved with the reference 0 (`1462`), a call with a single source is told it
  only when its unit cannot be inserted (`428`), a talkgroup without a group ends every start (`1359`),
  and a join without a condition takes no call when there are no talkgroups (`249`); MySQL refuses it.
  `Fit` names the rows that are moved. An error of the SELECT COUNT of a table, whatever it is, is taken
  for a table that is not there (`50`, `143`, `875`, `1275`, ...): the tables that need its rows are then
  passed over row by row and dropped, and with default groups or tags seeded meanwhile its own rows may be
  refused at the next start. `WellRead` is the exception that `DroppedWhenMoved` makes for that. A DROP
  that fails is logged and committed (`113`), which leaves the old table and moves it again at the next
  start. That of the dirwatches has another spelling than the query before it (`603`): on MySQL with
  case-sensitive names it would always fail, but there the process does not get past this migration.
- *Archive*: with as many new calls before a listing as a page has, every further page is one it
  already has, and it asks for ever (`search.component.ts:411`); `Steady` excludes it. Between storing
  a call and writing its row a search shows it, also to accesses that are not lists.

## 4. Proofs

Each `*Proofs` module extends a module of the model. A theorem holds for every value of the constants
that the assumption of that module allows, and for behaviours of any length.

| Theorem | Assumed besides | Argument |
|---|---|---|
| `ListenersProofs!TypeCorrect` | | one step per action; the shape of the pushes of a broadcast is `PushesType` and `StartType` |
| `ListenersProofs!SlotsSafe` | | inductive with `Unstarted`: a connection whose socket was never opened has no reader, so `Accept` adds exactly one |
| `ListenersProofs!BroadcastSafe` | | inductive by itself: the timer is nil before registration and stays nil |
| `ListenersProofs!StaysOutSafe` | | from types: only the first configuration registers |
| `DelayerProofs!TypeCorrect` | | one step per action |
| `DelayerProofs!AtMostOnceSafe`, `TableIsTimersSafe` | rows can be removed | from `Located` |
| `DelayerProofs!OnlyStopLosesSafe` | no failures | from `Located` |
| `DelayerProofs!Refinement` | rows can be removed | every step is a step of `DelayedRelease` or a stutter |
| `DelayerProofs!RepeatsSafe` | no delay is 0, or rows can be removed | from `Repeatable` |
| `PinProofs!TypeCorrect` | | one step per action |
| `PinProofs!FailuresSafe` | | `FailuresBounded` is inductive: it counts the PINs under way beside those that failed, so that a failure only moves one from the one to the other |
| `PinProofs!LockSafe` | | from types: what a step may do to the entry of a locked address |
| `IngestProofs!TypeCorrect` | | lemmas for what the accesses to the database make of lists and tables |
| `IngestProofs!SoundAlways` | | `Sound` is inductive |
| `IngestProofs!BlacklistedSafe` | | from `Sound` and `Blacklists` |
| `IngestProofs!RowsUniqueSafe` | `ReadsWhole` | from `Sound` and `Whole` |
| `IngestProofs!NoDuplicatesSafe` | `ReadsWhole` | from `RowsUnique` and `Filed` |
| `ArchiveProofs!ArchiveTypeCorrect` | | from `ArchiveInv` |
| `ArchiveProofs!ActivityExactSafe` | | arithmetic: no step matters, only how a range is divided into buckets |
| `ArchiveProofs!ActivityHidesSafe` | | from `ArchiveInv` |
| `DirwatchProofs!TypeCorrect`, `DeletedAfterSafe`, `ExitStopsTimersSafe` | | from `Inv` |
| `MigrationsProofs!TypeCorrect`, `DroppedWhenMovedSafe` | | from `Inv`; the exception for misread tables is part of the property |
| `MigrationsProofs!RestartsSafe` | | from `Inv` and `Restarted`; no order of the rows matters (`TogetherStep`) |
| `AdminSaveProofs!TypeCorrect` | | from `Held` and `Linked`; an induction over the elements that are written |
| `AdminSaveProofs!AgreementSafe` | | from these, `Settled` and `SavedSoFar` |
| `AdminSaveProofs!CallsKeptSafe` | | from these, `Reached`, `PageTagged` and `TagsSent` |
| `AdminSaveProofs!SaveExactSafe` | | from these, but `Reached`, with `Plain` and `Copies` |

The inductive invariants, and why the properties need them:

- *Delayer*. `Located(c)` says where a call can be: in one of a goroutine, a row, `Start`'s list, with
  the row and the timer of an armed call at the same time, and a call that was broadcast in none.
  `AtMostOnce` is not inductive without it: a state with a broadcast call and a stale row satisfies it
  and has a step that violates it. With rows that stay, `Repeatable(c)` counts instead: a call that the
  process can still broadcast has been broadcast at most once by each process that ended. A talkgroup
  without a delay is excluded there because the recursion of `EmitCall` and `Delay` may then end the
  process without a crash being counted.
- *Ingest*. `Sound` is what memory and tables keep to through every failure: the foreign keys, one row
  per talkgroup of a system, and no two objects for a system unless they are those of two rows.
  `Whole` adds that a system has one row, that its object has the id of that row, and that none is
  missing where a missing one would be created. `ReadsWhole` excludes what breaks that: a failing
  reading where systems populate (see *Disagreements*). `Blacklists` is about objects as well as rows,
  because an object that a patch put in memory becomes a row later; what an administrator configured
  keeps its row as long as it is in memory, so that it is never inserted as something else.
- *Archive*. A listener is shown what has no row in `delayed`; `Filed(c)` ties that row to the timer of
  the call, an armed call having one unless pruning took both row and call, and to the foreign key: a
  row, and what `Start` has read of one, is about a call of the archive.
- *Dirwatch*. `Inv` has the types, what belongs to the object started last (`Objects`), whom a timer
  belongs to (`Timers`) and why a job was given to a worker (`Jobs`). `ExitStopsTimers` is not inductive:
  `Exit` stops what has an entry, so `Timers` says that an armed timer, the first of its file or any later
  one, has the entry of its file in the table of a goroutine that has not ended, or is an orphan; and that
  an orphan has not the entry, so that replacing or stopping a timer never takes one for the other.
- *Migrations*. A row that could be moved when its migration began must be able to be moved while it
  lasts: what decides that are tables moved before, and those are gone, kept by a DROP that failed, or misread
  (`InOrder`, `Needs`). `Taken` says what a transaction has moved of what it has read so far, in a table
  whose needs were all `WellRead`: a misread table takes away the rows that depend on it and no others, and
  a kept one is read again without losing what was moved. `RestartsMakeNoDifference` compares a
  behaviour with `Outcome`, two folds. `Together` is what any set of rows adds at once; `TogetherStep`
  shows that one row more, after the others, makes the same (also for two calls that want the same
  unit), so that a migration does not depend on the order of its rows (`MovedTogether`), and
  `After(l)[k]`, what the first k migrations leave, has the next table empty (`Stages`). `Restarted` says
  that the tables that are gone are the first k for some k, that the new tables are `After(l)[k]`, and
  that a transaction has what it read so far `Together`, as long as no table was misread or kept (`Calm`); a
  later start may otherwise move what an earlier one passed over. TLC checked it on the instance of
  `migrations` before it was proved.
- *AdminSave*. Writing a list is a fold, so what it leaves is found by induction over the elements. The
  induction is stated once for each fold (`FoldBy`, `WrittenBy`, `WrittenIn`, `NestedIn`), over sets of
  tables such as `Grown`, which keep some ids and otherwise have new ones only. `Becomes` and
  `NestedIs` are the result: which row each element became and which rows are left; everything later
  is proved from these two without unfolding a fold.
  `Held` is the tables' order, and the shape of what lists, page and call in hand may hold. It is not
  inductive alone: a list with two elements of one id would be written to one row. `Linked` adds
  that an id in a list, on the page or with the call in hand is that of one element and was given by
  its table, and that what is nested is in the system of its row.
  `Settled` says which lists may differ from their tables while ingestion and the handler of users are
  where they are, `SavedSoFar` which lists a save has passed and so brought into step; `Agreement` is
  what they say when nobody is at work.
  For `CallsKept`, `Reached` follows a call to the lists: its talkgroup, and the tag of that, are in
  memory unless a save is where it has just replaced them by those of the page and not yet written
  them. `PageTagged` (the page insists that a talkgroup has a tag it knows) and `TagsSent` (the rows
  have got it when tags are written) exclude that a save loses calls with a tag although their
  talkgroup was sent.
  For `SaveExact`, `Copies` says list by list which tables an undisturbed save has made equal to the
  page. The Write of tags comes after that of systems and cascades to talkgroups, so those stay copied
  only by `PageTagged` (`TalkgroupsCopied`). `Plain` says that what belongs to no system has none, so that
  a row that keeps its system keeps what the page sent.
  TLC checked each of them on the instance of `adminsave` before it was proved, and `Copies` also with
  two systems.

Only model-checked:

- liveness, which needs reasoning about `ENABLED` that the installed backends cannot do:
  `EventuallyBroadcast`, `ListingCompletes`, `EveryCallSettled`, `StoredIsHeard`, `Unlocks`,
  `EventuallyIngested`, `EventuallyServes`, and of `Listeners` the last three in the table of runs.

Every invariant and action property that a run checks is a theorem, except those of the two runs that
are refuted.

`DelayerProofs` is about `Delayer` without `PruneDatabase`; `ArchiveProofs` has it.

## 5. Not modelled, and the plan

Not modelled for want of behaviour: parsers, alerts, sounds, daemon, command line, test mode, audio
conversion (an external program whose failure keeps the audio), downstream requests (one each, without
retry), logs, and the presentation of the web client's pages.

Not modelled though they have behaviour: sessions of administrators (tokens, their connections and the
login limiter, which is `Pin`'s with another key), the player of the web client (its order is that of
the browser's audio callbacks), which configuration a listener ends with when two are pushed, the pool
of database connections with transactions that are not ended (`call.go:292`), and the links of
talkgroups to groups.

Worth proving next:

1. `Pin`: how many listeners may hold a code beyond its limit.
2. `AdminSave`: what a save leaves of a list when a reading failed in part.
