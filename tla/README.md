# Formal model of xray-monitor

The repository holds two implementations of one program, a terminal monitor of an
Xray server: a Python one (`src/src/xray_monitor`, with the collector script
`src/scripts/xray_log_collector.py`) and a Go one (`src/go`). Both poll Xray's
statistics over gRPC, tail its access log, keep traffic per user and per address,
and start, stop and update the Xray service. This directory models their core in
TLA+, checks it with TLC and proves its safety properties with TLAPS. Paths below are relative
to the repository (`src/`).

The repository has no tests and no design documents; what the code promises is
said in its comments and docstrings, and the properties are taken from there and
from what the code is for.

## 1. The system

### 1.1 Components of the Python monitor

| Component | State | Operations | Used by |
|---|---|---|---|
| `modules/traffic_log.py`, daily accounting | `_last_abs`, `_today_base`, `_today_date`, `_tick_n`; tables `daily_traffic`, `today_base`, `meta` | `update`, `_load_today`, `_save_today_base`, `close` | tick worker |
| `modules/ip_registry.py` and tables `ip_traffic`, `ip_sni` | `_records`, `_online`, `_client_ips`, `_sni_flush`, `_dirty_ips` under one lock | `update_traffic`, `update_connections`, `update_online`, `update_sni`, `flush_to_db`, `_evict_stale`, `delete_ip`, `load_from_db` | tick worker, UI thread, loading thread |
| `modules/log_tail.py` | `_last_pos`, `_last_size`, `client_ips`, block statistics, `_sni_flush` | `update_block_stats`, `flush_new_sni` | tick worker, collector |
| `modules/stats.py` | `_prev`, `_prev_t`, speeds, histories, connection events under one lock | `fetch`, `reset`, `_track`, `_prune_stale` | tick worker, UI thread |
| `app.py` | `_fetch_lock`, `_system_lock`, `_pool` (3 threads), `_critical_threads` | `_tick`, `_tick_worker`, actions, `on_mount`, `on_unmount` | Textual's event loop |
| `modules/xray_manager.py` | the systemd service, the binary, its `.bak`, a temporary directory | start, stop, restart, enable, `update_xray_core` | pool threads, update threads |
| `modules/config.py` with the backup code of `app.py` | the configuration file, its cache, the `.bak_*` files | reload, delete client, edit, roll back | UI thread |
| `modules/geoip.py` | LRU cache, pending table, semaphore | `lookup`, `_fetch_api` | UI thread, daemon threads |
| `scripts/xray_log_collector.py` | its own `LogTail` and buffers | main loop | a separate process, same database |
| `sys_stats`, `grpc_client`, `proto`, `crypto`, `sni_radar`, panels, widgets | readings, codecs, layout | | |

### 1.2 Components of the Go monitor

| Component | State | Operations |
|---|---|---|
| `internal/storage` | `Bases`, `Daily`, `todayDate`, `tickN`, one JSON file | `Update`, `rotateDay`, `save`, load |
| `internal/stats` | `prevAbs`, `prevT`, `IPTraffic`, events | `Fetch`, `Reset` |
| `internal/logtail` | `lastPos`, `lastSize`, statistics | `UpdateBlockStats` |
| `internal/tui` | bubbletea model; commands run concurrently | `Update` on ticks, messages, keys |
| `internal/xray` | service, binary, `.bak` | lifecycle, `doUpdate` |
| `internal/geoip` | cache map and eviction queue | `Lookup`, `cacheSet` |
| `config`, `sysinfo`, `sni`, `xcrypto`, `xrpc`, `cmd` | parsers, readers, codecs | |

### 1.3 How they interact

Textual's event loop schedules a tick every few seconds; the tick runs on a pool
thread: `LogTail.update_block_stats`, `XrayStats.fetch` (which feeds the registry),
`TrafficLog.update`, `IPRegistry.update_connections`, and every tenth time the flush
to SQLite. It reports with `call_from_thread`, which blocks until the event loop has
run the function. The user's commands run on the same pool and take `_system_lock`;
an update of Xray runs on a daemon thread of its own and reports with
`call_from_thread` too. The collector process writes the same tables.

### 1.4 What is hard

* samples taken before a midnight, a restart or a reset and used after it;
* counters that return to zero, with a base saved only every thirtieth tick;
* a snapshot taken under a lock and written to the database after it;
* a table that one writer overwrites (bytes) and two processes add to (hits);
* a thread pool, two locks and an event loop that all wait for each other;
* an update of a binary in several steps, any of which may fail or be cut off;
* a log that is renamed or truncated between two system calls of its reader, and in the
  Go monitor readers that overtake each other;
* a configuration that the program, nano and others write, with backups named by the
  second, pruned, listed from a cache and read by a second thread;
* marks, permits and caches of address lookups whose answers come late or never.

`PROJECT.json` lists each of these as a hazard at its line, with the properties that cover
it. Where the bad case itself is excepted by a property, because the code does nothing
against it, the hazard says so.

### 1.5 What makes each component correct

* accounting: no byte charged twice, no recorded total lowered, none lost before its
  retention is over;
* registry: hits neither multiplied nor lost before their retention is over, no byte
  invented, totals in the table only grow, a deletion is final;
* application: no command, tick or quit blocked for ever; an update leaves the
  service as it was and always a complete binary on the disk;
* log readers: an incremental feed, no line twice and none left out while the log is not
  rotated, the new log from its start after that, and in the end the whole log;
* configuration: the cache is the file, no replaced configuration is lost, and a
  rollback installs the newest backup;
* statistics client: the journal ends with a connect at every address that is online, whoever
  leaves can still be reported, and a client that was reconnected stays connected;
* GeoIP: no permit disappears, no address is fetched twice at once, the cache stays
  within its limit, and an address is located in the end;
* Go storage and collector: as for the Python accounting.

## 2. Modules

| Module | Models |
|---|---|
| `TrafficLog`, `MCTrafficLog` | daily accounting with Xray, midnight, crashes, database errors |
| `IPRegistry`, `MCIPRegistry` | registry, tables, all threads and processes that touch them |
| `AppThreads`, `MCAppThreads` | event loop, locks, pool, lifecycle commands, update, quit |
| `GoMonitor`, `MCGoMonitor` | the Go monitor's accounting: collector, storage, tick and message loop |
| `DailyLedger` | abstract specification: what daily accounting promises; both monitors implement it |
| `ConfigBackups`, `MCConfigBackups` | the configuration file, its cached reader, backups, rollback |
| `LogFile` | the access log with logrotate, the environment of the readers |
| `LineFeed` | abstract specification: what a reader of the log promises |
| `LogTail`, `GoLogTail` | the Python and the Go reader of the log |
| `LogReaders`, `MCLogReaders` | the log with either reader; the readers implement `LineFeed` |
| `GeoIP`, `GoGeoIP` | the Python and the Go address lookups |
| `GeoLookups`, `MCGeoLookups` | either of them with the interface that draws addresses |
| `ConnEvents`, `MCConnEvents` | the client's connection to Xray and its journal of connections |
| `TrafficLogProofs`, `IPRegistryProofs`, `AppThreadsProofs`, `GoMonitorProofs`, `ConfigBackupsProofs`, `LogReadersProofs`, `GeoLookupsProofs`, `ConnEventsProofs` | theorems about the module of that name |

### 2.1 TrafficLog

`counter` is what Xray would answer now; `Fetch` copies it into `sample`, and one of
the `Update` actions consumes the sample: `OpenDay` (first tick of a day; closes the
old day with the last accounted sample and prunes), `Record` (restart detection,
rows, periodic save), each with the variants in which a transaction fails at one of
the places where it can. `Start`, `Close`, `Crash` are the life of the process;
`StartLoadFails` is the swallowed error of `_load_today`. A dict keyed by user is a
function whose domain is the set of keys, so that "not there" and zero differ as in
the code. The history variables `reach` and `since` say how many bytes may rightly
be charged to a date: the bytes moved on it, and, for a day that opens while a sample
is pending, the bytes moved since that sample. `faults` tells a restart of Xray (`restart`)
from a reset of the counters by the user (`zeroed`), so that what a lowered total is blamed
on is what happened.

The code's 100 KB threshold, 30 ticks and 90 days are the constants `RestartFloor`,
`SaveEvery` and `KeepDays`.

### 2.2 IPRegistry

One action is one critical section of the registry's lock, one transaction or one
read of the database. The two threads that may be in `flush_to_db` at once (tick
worker, unmounting UI thread) each have their own copy of its local variables
(`flush`). Of a record its bytes are kept, both directions together; of the SNI data
its number of hits. `save_ip_sni` removes, in the transaction that adds hits, the rows
last seen more than 30 days ago: as a row is one domain of an address, any part of the
hits in the table may go with any save (`SaveHits`, `Kept`), and the history `expired`
counts them. The addresses that fetch charges are those Xray reported in the last one
(`prevIps`) or those of the log. The collector saves connections whether or not it had hits
to save. `moved` and `fed` count what was attributed and read; `events`
names the exceptional things that have happened, and the properties say which of
them they allow.

### 2.3 AppThreads

`calls` is the set of threads blocked in `call_from_thread`; only `Serve`, which
needs the event loop, lets them go on. `job` and `queue` are the pool; `update` is
the program counter of each update thread, stage by stage. Opening the binary for
writing is refused while Xray runs it (`CanCopy`), a start with a torn binary fails,
and the process ends when the pool is idle, killing update threads.

### 2.4 GoMonitor

A fetch is a goroutine with three places: it has read Xray's counters without a lock
(`Query`), it has brought the collector up to date under the mutex (`Account`), its
message has been taken by the program, which hands the counters to the storage
(`Update`). Any number in `Fetches` may be under way, and the steps of different
fetches happen in any order: Go starts one per tick, and bubbletea runs each in a
goroutine of its own. `Update` contains the day change (`Rotated`), the detection of a
restart (`Carried`), the rows (`Updated`) and the periodic save, which may fail;
the file is replaced by a rename, so it is either the old or the new one. `Start`
ignores a file it cannot read, as the code does. Uplink and downlink are accounted
alike and independently of each other, so one is modelled; what the addresses of a
user are given is one sum per user, since the shares add up to it. `events` names
the exceptional things that have happened, and the properties say which they allow.
`moved[d]` is what a user has moved by the end of day `d`; until then it grows with every
day from `d` on.

`DailyLedger` is what both accountings promise. It has three kinds of step: an account moves
bytes today (`Move`), a day begins (`NextDay`), and the table is written (`Write`), where a
total may not exceed the bytes that may be charged to its day, may not be lowered, and may
return to nothing only when its day is older than `KeepDays`. How a monitor comes to its
totals (samples, bases, restarts, saves) is not part of it. `doubled` and `disturbed` are the
conditions under which the code does not keep the promise, and every instance says what they
are. `TrafficLog` maps an account to a user and a direction, `total` to the table
`daily_traffic` and `moved` to `reach`; it is `doubled` by the fault `torn`, and `disturbed`
once the counters have returned to zero, by a restart of Xray or by a reset, and by a failed
load or opening save. `GoMonitor` maps `total` to
the rows in the file, since a kill takes those in memory, and `moved` to its history of that
name for the days that have begun; it is `doubled` by overlapping fetches, and `disturbed`
by every event but `late`.

### 2.5 ConfigBackups

Everything the program does to the configuration happens on the UI thread, so a command
is a sequence of steps (`ui`) between which the clock goes on and somebody else may write
the file (`External`). The one exception is the hint that a failed restart shows: a pool
thread reads the directory (`HintLists`) and stores the list (`HintKeeps`) without a lock.
A version is a configuration with its modification time; `copy2` copies both, so that a
rollback brings an old time back, which is why the code resets `_mtime` and why the
reader compares for inequality. `ReloadStat` and `ReloadRead` are the two system calls of
`reload`; redrawing the keys tab runs `reload` for its left half, then the list of
backups, then `reload` again. Whether a version is valid stands for both "is JSON" and
"passes `xray -test`": a text that only one of the two accepts is not told apart.
`DeleteClient` is modelled although nothing in the repository calls it. A reload whose
result is only displayed elsewhere adds nothing to those of `OpenKeys`.

### 2.6 LogFile, LogTail, GoLogTail, LineFeed, LogReaders

`LogFile` is a sequence of generations: a rename begins one with a new inode, a
truncation one with the same inode, and what is read through an open file is the latest
generation of its inode. Positions count lines, as Xray writes a line with one call; half
a line at the end of a read, which either reader would parse as two, does not occur.
The moment in which a renamed log has no successor yet is not modelled: a scan that finds
no file returns and changes nothing. `MaxLines` bounds the lines of all generations
together, and therefore those of each; `Write` states both, since only the second can be
used in a proof without a lemma about sums.

`LogTail` splits a scan where the log can change: `Stat` (inode), `OpenFile` (size) and
`Read` (everything else). Its scans never overlap. In `GoLogTail` the command of each tick
is a goroutine: `Open` without the mutex, `UpdateBlockStats` with it, `FlushNewSNI`, and
`LogMsg` when the message is taken by the interface, in any order.

`LineFeed` is the promise: `Deliver` hands out the next lines from a cursor, each once and
without gaps; after a rotation it begins at the start of the new generation, or at the
documented window of 2 MB, or, if the reader cannot tell that the log is another one
(`KnowsInodes`), goes on at its old position. Both readers are shown to refine it, with a
history variable as the cursor. The promise is suspended (`shaken`) during a scan that
meets a rotation, or overlaps another one in Go, and for the one after it: there the code
does count lines again or skip some. `AtMostTwice` bounds what the Python reader does then;
the Go reader has no such bound, since with overlapping scans a stale size is taken for a
rotation again and again.

`blockTotal` counts the blocks by the generation they were read from. `BlocksOfThisFile` says
of it what the code can keep: no line twice, and, unless the last scan met a rotation,
nothing of another inode. It does not say "of the present log only", which is false: a log that
is truncated and has grown beyond its old size by the next scan keeps the counter.

### 2.7 GeoIP, GoGeoIP, GeoLookups

A Python lookup is the sequence of its critical sections (`Hit` or `Miss`, `MaxMind`,
`AlreadyPending` or `MarkPending`, `NoPermit` or `StartFetch`), between which fetches end;
a fetch releases its permit (`Answer`) before it takes the lock to store (`Store`). A
Go lookup is one critical section, and the goroutine it starts waits for `sem`. Time is
abstract: entries expire and marks become overdue at any moment. `unmarked` says of a
fetch that its mark is gone, `lost` counts the permits of threads that could not be
started; `drifted` says that the eviction queue of the Go cache no longer lists just what is
in the cache: an expired entry has been looked up, which removes it from the cache only, or
an address has been stored twice. Answer and failure are cached alike, so an entry is only its address. The Python
model lets the local database answer or not at each lookup, so that it covers a monitor
with, without and with a broken one.

A permit whose thread could not be started is never given back. `Located` is about monitors
that have one left: when the last one is lost, which the run reaches, no address is ever
asked for again.

### 2.8 ConnEvents

The steps of a fetch are the requests of `XrayStats.fetch`: the copy of the log's addresses
and the test of `connected` (`BeginFetch`), the counters and those who are online as far as there are
statistics of it (`QueryStats`, any part of them, as Xray need not keep such statistics), the
users that `GetAllOnlineUsers` adds (`AllOnlineUsers`), the addresses of one user
after the other (`OnlineIps`), and `_track` under the lock (`Track`). The first request that
fails ends the fetch and sets `connected`; a later one is taken for an empty answer. Between
any two of them clients come and go, Xray stops, and the UI thread closes the channel
(`Disconnect`) and opens another (`Connect`), as `action_reconnect` does.

Time and the contents of the journal are abstract. An address may have a line in the log at
any moment, or one again after the 30 seconds in which `_track` does not repeat a connect;
which of a user's addresses is the latest is open. Of the journal, which keeps 200 events,
the last event of each address (`lastAt`) and of each user (`lastOf`) are kept as history.
`missed` is the users of whom a fetch once got addresses without learning that they are
online: they came between its requests, or they are not in the statistics and
`GetAllOnlineUsers` failed. `_prev_ips` has them then and `_prev_online` has not, and neither
of the two properties holds for them. Speeds and histories of `XrayStats` are not modelled.

`_track` does not promise, and no property says, that a connect is reported once: if the log
and Xray tell of an address at different ticks there are two. A user whose address is in the
log has no user-level connect. And a monitor that has been connected does not reconnect by
itself: `connect` runs at the start, at the user's request, and in a fetch only as long as there
is no stub, that is until it has succeeded for the first time (`stub`).

## 3. Runs

| Run | Expect | Question | Answer |
|---|---|---|---|
| `traffic_log` | pass | can any order of events charge a byte twice or, while the counters do not return to zero, lower or lose a total? | no |
| `restart_detection` | violation | does restart detection keep recorded totals over a restart of Xray? | not for users whose counters were small when the day opened |
| `ip_registry` | pass | are hits and bytes conserved across threads, processes and failures? | yes, with the named exceptions |
| `delete_vs_flush` | violation | is a deletion final? | not while a flush is under way |
| `app_threads` | pass | are service, binary and progress safe under the threads? | yes, unless updates overlap, a step fails or the user quits |
| `quit_during_update` | violation | is an update waited for on quitting? | no: the two threads wait for each other |
| `go_monitor` | pass | can the Go monitor charge more than was moved, or lower or lose a saved total? | not unless fetches overlap (too much), Xray restarts or the file is unreadable (lowered) |
| `go_day_change` | violation | is today's total today's? | no: bytes of the day before are charged again after midnight |
| `config_backups` | pass | is the cache the file, is every replaced configuration kept, does a rollback take the newest backup? | yes, unless two backups share a second, a backup fails, or the list was stored too late by the pool thread |
| `log_readers` | pass | is a reader an incremental feed, and does it get to the end of the log? | yes, but for scans that meet a rotation or overlap, and for a new log that looks like the old one |
| `geo_lookups` | pass | are permits, marks and caches kept in order, and is an address located in the end? | yes, while a permit is left; the Go cache may outgrow its limit once an expired entry is looked up or an address is stored twice |
| `conn_events` | pass | does the journal agree with who is online, and does a reconnect last? | yes, but for users of whom a fetch got addresses without learning that they are online |

### 3.1 Bounds, and why they are enough

* `traffic_log`: two users (one in restart detection, one never), two days, two
  bytes a day, `SaveEvery` 2, at most one kind of fault beside crashes, which are
  free. Two days show the day change with everything before and after it; one byte
  per transfer distinguishes charged once from charged twice. With `KeepDays` 1 the closed
  day is kept, so that its rows can be compared; a retention that deletes a day too early is
  noticed, and one that deletes in time is left to the proof (4.1). `restart_detection` needs
  a positive floor. Its counterexample goes through `XrayRestart`: the property excepts a
  reset by the user.
* `ip_registry`: one address, one log line, two bytes or none in the table before the start
  and one more to be attributed (`LastTotals`), so that memory may hold less than the table,
  one start, one deletion, one kind of exceptional event, the collector present, and
  `MaxRecords` 0 so that any offline address may be evicted.
  Addresses do not interact except through the number of records.
* `app_threads`: one command of each kind, one update, endless ticks, the editor
  opened any number of times, two pool threads. `events` is not bounded. A second
  command only queues behind the first; updates that overlap are excused by the
  properties and are left to a hazard's note.
* `go_monitor`: one user, two fetches, two days, three bytes, a save every second
  update and one kind of exceptional event beside kills and failed saves, which are
  free. Users do not interact. Two fetches are enough for an overtaking; three bytes
  give a base, a growth and a restart with new bytes. `KeepDays` 0 lets the day
  change prune. `go_day_change` allows no exceptional event at all.

* `config_backups`: three seconds with a list that is old after more than one, so that it
  can be fresh and stale in one behaviour; three versions (before, edited, torn or
  foreign); two backups kept, so that the third second prunes; one kind of exceptional
  event, with which every exception is seen alone.
* `log_readers`: three lines, two rotations of either kind, a window of two lines, so that
  a log can be longer than the window, shorter and equal to the part already read; two
  Go scans, enough for an overtaking. A generation that is rotated away unread and a
  second one that looks like the first both occur.
* `geo_lookups`: two addresses, one of which is on the screen all the time; room for one
  entry in either cache, so that every store evicts; three fetches for two permits, so that
  the semaphore is full; as many threads that cannot be started as there are permits, so that
  the last one may be lost; four queue entries, which
  suffice for an eviction queue with an entry twice. Addresses beyond two only compete for the
  same permits and places.
* `conn_events`: one user, since `_track` treats each user apart from the others (its only
  shared state is the flag of the first copy of the log), and two addresses, so that one
  stays while the other comes or goes. No counter is bounded; the state space is finite.

Deadlock checking is off in the runs whose program can end (`IPRegistry`,
`AppThreads`) and on elsewhere.

### 3.2 Fairness

`AppThreads`: every thread that can take a step does
(weak fairness per thread): the operating system schedules them, and every blocking
call the code makes has a timeout (systemctl 15 s, downloads 60 s, join 30 s). The
event loop serves a waiting call even if the user keeps opening the editor (strong
fairness), because the call is queued in the loop ahead of the next key. A command
waiting for `_system_lock` gets it if it is free again and again (strong fairness):
the lock is free between two ticks, which are seconds apart. Nothing is assumed of
the user, so the two properties about commands and ticks except an editor that is
never closed.

`LogReaders`: ticks go on and a scan that can take a step does (weak fairness of the
Python scan and of each Go command). Nothing is assumed of Xray and logrotate;
`ReaderCatchesUp` speaks of the time when they rest, which the bounds bring about.

`GeoLookups`: an address in `Drawn` is looked up if that is possible again and again
(strong fairness): the panels redraw with every tick and call `lookup` for each address
on the screen. Its mark becomes overdue as time passes; threads run and requests end, as
they have time-outs (5 s in Python, 8 s in Go). A goroutine waiting for `sem` gets a place
if one is free again and again (strong fairness): a Go channel serves its waiting senders
in order. `Located` further assumes that from some moment on nothing leaves the cache,
since a full cache may evict an address as often as it is stored, and that not all permits
are lost with threads that could not be started: `lost < MaxConcurrent` throughout.

`ConnEvents`: ticks go on and a request ends with its answer or its timeout (weak fairness
of `Fetch`); the second half of `action_reconnect` is carried out (weak fairness of `Connect`
or its failure), and opening a channel, which sends nothing, does not fail for ever (strong
fairness of `Connect`). Nothing is assumed of Xray and of the user; `Reconnects` states its
assumptions about them: Xray stays up, and the user reconnects whenever, and only when, the
monitor is offline.

## 4. Proofs

Every invariant, every action property and every refinement of a passing run is proved as a
theorem of the specification, for any sets of users, addresses, threads and commands and any
values of the bounds. The only assumptions are the `ASSUME`s of the modules, which say that
bounds are natural numbers, that limits the code divides by or counts down from are
positive, and that names for "nobody" name nobody. `LogReaders` assumes that the scans of a
behaviour are finitely many, as goroutines are; without it their hits could not be added up. `ConfigBackups` further assumes `Keep` at
least 2 (10 in the code; with 1, the backup that a rollback makes would push out the one it chose) and a clock that
runs at least one second beyond `ListAge`.

Each proof has the same frame: `Init => IInv`, one lemma per action (or per group of actions
that leave the same things alone) for `IInv /\ [Next]_vars => IInv'`, and `IInv` implies the
property. Every `IInv` was an invariant of a TLC run before it was proved. Below is what it
adds to the property, which is never inductive by itself, and why.

### 4.1 TrafficLogProofs

* `TypeCorrect` (`TypeOK`): in particular no total is negative.
* `ChargedAtMostOnce` (`NoOvercount`): the property speaks of the rows only, while the next
  row is computed from the base, the last sample and the pending one. `ChargedOnce` adds for
  each user and direction: a base of today, in memory or saved, would charge no byte twice if
  the counters were accounted now (`BaseOK`); the last accounted sample can be folded into its
  day (`LastOK`); the bytes moved since the pending sample are still free to be charged after
  it (`SampleOK`). `RebaseSound` is the lemma about restart detection: folding the last sample
  into `pre` and starting from the new one charges no more than the two separately.
* `RecordedOnlyGrow` (`TotalsOnlyGrow`): `Growing` says that, as long as the counters have not
  returned to zero and no save or load of a base has failed, the base in memory is the saved
  one, so that a killed monitor continues where it was; the rows of the open day are not ahead of what accounting the counters, the
  pending sample or the last one would write; and these three follow each other, from which
  `NoFalseRestart` concludes that no restart is detected that was none.
* `KeepsLedger` (`ImplementsLedger`): initial states map to initial states, `Traffic` to
  `Move`, `Midnight` to `NextDay` and every other step to `Write` or a stutter. `Write` needs
  the two invariants above and `RowsKept`: closing a day, accounting a tick and every failure
  keep the rows of all days that have not expired. `NextDay` needs `SinceBehind`: what was
  moved since the last sample, which a new day may still be charged with, is part of what was
  moved today. `TotalsOnlyGrow` compares rows that are there before and after a step; the
  ledger also says that they are there, so it is the ledger that the run checks.

### 4.2 IPRegistryProofs

* `TypeCorrect`, `HitsConserved` (`SniConserved`), `NoByteInvented` (`BytesNotInvented`):
  `Shape` says which thread may be where (a flush under way belongs to the thread that is at
  its flush, the UI thread flushes only when quitting, a thread outside `flush_to_db` holds
  no snapshot) and that no reader is ahead of the log. Without it a hit could be counted both in
  a stale snapshot and in the table. `HitsConserved` counts what the 30-day retention removed
  (`expired`) as placed: a hit is in a buffer, in a snapshot, in the table, or it was in the table
  and grew too old.
* `TableOnlyGrows` (`TotalsOnlyGrow`): `Covered` says that what is about to be stored, in a
  load that is under way, in the records, or in the snapshot of a flush, is at least what the
  table has.

### 4.3 AppThreadsProofs

* `TypeCorrect`: `Pooled`, which includes that a job is in the queue once and that the pool
  never runs more jobs than it has threads.
* `ServiceAsWanted` (`ServiceKept`) and `BinaryOnDisk` (`RecoverableBinary`): an update that is
  alone owns the temporary files and the copy of the binary from its first step to its last.
  `Recoverable` ties a torn binary to the one stage that may leave it, `Kept` a stopped
  service to an update that will start it again.

### 4.4 GoMonitorProofs

* `TypeCorrect`, `DayBounded` (`DailyBounded`), `GivenBounded` (`AddressesBounded`): `Bounded`
  says, while fetches have not overlapped, that the next charge against a base, by a sample
  that is under way or by one yet to be taken, is for bytes that have been moved. It speaks of
  one fetch only, and with two it is false.
* `SavedOnlyGrow` (`SavedTotalsOnlyGrow`): `Growing` says that the program is at least as far
  as the file and that the counters are beyond every base by what was charged.
* `KeepsLedger` (`ImplementsLedger`): the same ledger as in Python, for the file. `LedgerInv`
  says that there are no rows of days to come, and that a running program has every row of
  the file that has not expired (`KeepsRows`): so the next save, whenever it succeeds, loses
  none. `Calm` makes a new day begin with what was moved by the end of the last. The run
  checks the ledger, of which `SavedTotalsOnlyGrow` is a part.

### 4.5 ConfigBackupsProofs

* `TypeCorrect` and `CacheIsFresh` (`CacheIsFile`).
* `NothingReplacedIsLost` (`ReplacedIsSaved`): no backup is newer than the clock (`Clocked`),
  what a command has saved is in its backup while it runs (`Saved`), and pruning leaves either
  the backup of a replaced version or only newer ones, `Keep` of them (`KeptIn`).
* `NewestIsInstalled` (`RollsBackToNewest`): the list is what is in the directory, and the
  backup chosen is the one that was the newest and has passed the check (`Rolling`).

### 4.6 LogReadersProofs

* `TypeCorrect`, `NoThirdCount` (`AtMostTwice`).
* `BlocksOfOneFile` (`BlocksOfThisFile`): the counter may only hold what was read since
  `_last_pos` was last zero. `PyBlocks` says of a generation with counted lines that they are no more
  than its lines and than the position, and that its inode is the remembered one, once the scan
  has seen the inode and is not about to begin at the start.
* `NoHitLost` (`HitsConserved`, the Go reader): the hits in the reader's map, with a message
  and in the table of the interface are together as many as the lines counted.
* `PyRefines` (`PyImplementsFeed`), `GoRefines` (`GoImplementsFeed`): each reader implements
  `LineFeed`; the initial states map to its initial states, and every step of the log or of a
  scan to a step of the feed or to a stutter.

A scan that no rotation meets knows the log it reads when it ends: its size was measured in
this generation and its inode is remembered. So what the next such scan takes for the same
log is the same log (`PyCursor`, `GoCursor`: the position is the cursor's, or the log will be
seen to be shorter or another one). `PyTwice` says that a line counted twice belongs to a
log whose inode is known by then.

`NoHitLost` compares a count with sums over all lines and over all scans, and what a sum over
a set of unknown size does is a matter of induction, for which the provers cannot use the
library's theorems. The proof goes around it: `SumIsCount` shows that a sum of numbers over
a finite set is the number of elements of an area (one element for each unit of each number),
by taking a set that is a counterexample with the fewest elements; `CountChanges` and
`CountGrows` then follow from the theorems on cardinality. `HitsInv` adds
to the property that a scan carries hits only between `FlushNewSNI` and its message, so that
none are dropped or counted again when a goroutine's place is used by the next scan.

### 4.7 GeoLookupsProofs

* `TypeCorrect`, `NoPermitLost`, `NeverFetchedTwice` (Python): `Marked` says that a fetch whose
  mark is not known to be gone has one, and that no other fetch relies on the mark the
  UI thread has just set.
* `EvictionReaches`, `CacheBounded`, `MarksHaveFetches` (Go): `Listed` says that the queue lists
  the cache, each address once, until it has drifted (an expired entry was looked up or an
  address stored twice; of the time after that `CacheBounded` says nothing), and that `fetches` leave room in the
  bounded queue. Lemmas on sequences without repetition count the entries.

### 4.8 ConnEventsProofs

* `TypeCorrect`, `OnlineIsConnected` (`OnlineHasConnect`), `NobodyForgotten` (`LeftIsReported`):
  of the users that are not `missed`, whoever has addresses in what is remembered of the last
  fetch is online in it (`Known`): the fetch in which that was not so has put the user into
  `missed`. So a user who departs at the user level has no address left that should be online.
  How complete the lists are plays no part in the proof.

### 4.9 Only model-checked

* Liveness (`CommandsFinish`, `TicksGoOn`, `QuitEnds`, `ReaderCatchesUp`, `Located`, `MarksEnd`,
  `Reconnects`): the provers know neither fairness nor `ENABLED`.
* The four findings are counterexamples; TLC finds them.

Some forms of expression in the modules are chosen for the provers: maps with one more key
are written out instead of with `:>` and `@@`, and greatest elements are found by `Max` of a
bounded set, whose existence the proofs derive from the well-ordering of the numbers.

## 5. Findings

The four violation runs are disagreements between a comment and the code; each is
quoted with its line in `PROJECT.json` ("findings").

Other behaviours the model has shown, which the properties except by name:

* An address evicted from memory keeps its row, and when it comes back it counts from zero and
  overwrites the row with the smaller total (`ip_registry.py:186`; event `evict`).
* A user who comes between two requests of one fetch, or who is not in the statistics while
  `GetAllOnlineUsers` fails, is recorded with addresses but not as online; if it leaves before
  the next fetch no disconnect is reported, or one is reported although it is there
  (`stats.py:319-326`; `missed`).
* Every thread that cannot be started costs the Python lookups a permit for good, and with the
  last one nothing is looked up any more (`geoip.py:185-187`; `lost`).
* A write that fails on the very tick that detects a restart of Xray leaves `_last_abs`
  as it was, so the next tick detects the same restart and folds the same bytes into `pre`
  again (`traffic_log.py:309-317`; fault `torn` of `TrafficLog`).
* A restarted monitor, and the collector beside it, read the last 2 MB of the log again
  and add its SNI hits to the table again (`log_tail.py:100`, `traffic_log.py:418-446`).
* Two backups in one second are one file; a rollback in the second of a backup
  overwrites the backup it has chosen (`app.py:532`; event `same_second`).
* The list of backups stored by the pool thread can be older than the last backup, so that
  a rollback within thirty seconds takes an older one (`app.py:652`; event `stale_list`).
* A log that is truncated and grows back to a size between the size measured and the
  position reached is taken for unchanged (`LooksUnchanged`); in Go so is any log that has
  grown back exactly to the old position. A log that has grown past its old size keeps the
  block counter, too.
* Overlapping scans in Go read the log again from its start when the later one took its
  size earlier (`logtail.go:109`).
* Expired entries of the Go cache stay in its eviction queue: evicting "the oldest" may
  remove nothing, and the cache outgrows `cacheMax` (`geoip.go:244-250`).

## 6. Plan

Done: the modules and runs above, and the proof of every safety property and every refinement
they check. Left, in this order:

1. `GoUpdate`: the update of Xray in the Go monitor, as the code would run it if it were
   called.
2. The Go counterpart of `ConnEvents` (`trackEvents`).
3. Two updates of Xray at once in the properties of `AppThreads`.

## 7. Not modelled

Drawing, formatting and translation; system statistics; key generation and share
links; classification of server names; the gRPC transport and the varint codec; the
ranking of blocked targets, block rates and the last lines of the log; speeds and their
histories, and the connection events of the Go monitor; what an address lookup answers;
installers and build files. They hold no state that the modelled parts read, or are pure string
work.

The migration of totals from an older JSON file (`traffic_log.py:166-187`) is left out. It runs
at a start, before the first tick, in one transaction that adds rows only where there are none, and
`TrafficLog` starts with an empty table.

The update of Xray in the Go monitor is not modelled either: `UpdateAsync` has no caller.
The key that should start it only sets `updating` and asks for the newest version, and if
there is one no message ever clears the flag (`management.go:161-175`, `app.go:260`).

Two updates of Xray at once (Python) are in the model of the threads, but its properties
except them: the code does nothing against them.
