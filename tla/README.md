# simple-torrent: a TLA+ verification project

The repository is a web front end for the torrent library
`github.com/anacrolix/torrent`.  A Go process keeps a list of torrent tasks,
limits how many of them run at once, queues the others, restores them from
cache files, and feeds the state to web clients.  The interesting part of the
program is what its goroutines do to each other: every HTTP request, every
torrent (`torrentEventProcessor`), every expiry, every look at the wait list
and every web client is a goroutine, and most of what they share is guarded by
a lock that some of them do not take, or release too early.

This directory holds TLA+ modules translated from the source, the TLC
configurations that check them on small instances, and TLAPS proofs for every
value of the constants.

## 1. Inventory

| component | source | state | operations | correct when |
|---|---|---|---|---|
| task engine | `engine/engine.go`, `engineUtil.go` | `e.ts`, `e.client`, `e.taskMutex`, `MaxConcurrentTask`, one processor goroutine per added torrent | `NewMagnet`, `NewTorrentByReader`, `newTorrentBySpec`, `upsertTorrent`, `DeleteTorrent`, `NextWaitTask`, `PushWaitTask`, `taskRoutine`, `stopRemoveTask`, `torrentEventProcessor` | no slot too many, no slot lost, every waiting task gets its turn, the entries say what the client does |
| wait list | `engine/waitList.go` | a mutex and a list of (infohash, type) | `Push`, `Pop`, `Remove`, `Len` | FIFO; a deleted task waits no longer |
| cache files | `engine/engineCache.go` | `<ih>.info`, `<ih>.torrent`, the trash directory | `new*CacheFile`, `remove*Cache`, `RestoreTask`, `RestoreCacheDir` | a task that waits or runs can be restored, a deleted one is not |
| engine lock and notification | `engine/engine.go`, `engineUtil.go`, `server/server_bg.go`, `server_api.go` | `e.RWMutex`, the channel `TsChanged` (one signal) | upsert, delete, start, stop, push to clients | nobody waits for ever, the map is never read while written, changes reach the clients |
| live sync ticker | `server/server_http.go`, `server_bg.go` | `syncConnected`, `syncSemphor`, `syncWg`, a `tickerRoutine` | connect, disconnect, start and end of the ticker | one ticker while somebody is connected, none otherwise |
| torrent status | `engine/torrent.go`, `engine.go` 310-489 | `Started`, `Done`, `DoneCmdCalled`, `ManualStarted`, the same per file | start, stop, update, done command | the done command runs once; a started task downloads |
| runtime configuration | `engine/config.go`, `engine.go` 65-165, `server_api.go` 207-287 | the file, viper's values, the server's and the engine's copy, the client | `Validate`, `apiConfigure`, `Configure` | saved and used configuration agree; tasks survive |
| start-up, watcher | `server.go`, `server_bg.go`, `engineUtil.go` 112-171 | the watched and the cache directory | `RestoreCacheDir`, `RestoreTask`, `StartTorrentWatcher` | no added task is lost, no deleted one comes back |
| RSS reader | `server/server_rss.go` | `rssMark`, `rssCache` | `updateRSS`, `serveRSS` | each item once, newest first, none missed |
| tracker list | `engineUtil.go` 60-93 | `e.Trackers` | `ParseTrackerList` | the list is the configured one |
| REST API | `server/server_api.go` | none of its own | dispatch of requests | – |
| files, search, statistics, logger, middleware, front end | `server/*`, `static/*` | caches of one value | – | – |

How they interact.  Requests run in goroutines of `net/http` and call the engine
directly.  The engine starts one `torrentEventProcessor` per `AddTorrentSpec`,
which waits for metadata, for the closing of the entry's `dropWait` (by
`DeleteTorrent`) or of `closeSync` (by `Configure`), and calls `NextWaitTask` when
its task is dropped.  `NextWaitTask` pops the wait list and goes through the
same path as a request, by way of the cache file.  Every change of the map
sends on `TsChanged`, whose only receiver pushes the state to the web clients
under `e.RLock`.  `taskMutex` makes the decision "is there a slot" and the taking
of it one; it is *not* held by `NextWaitTask` when it pops, by `PushWaitTask`, or
by the processor that drops a torrent.

What is hard here: check-then-act across two locks, a wake-up that looks at the
queue before the waiter is in it, a task that is deleted while it is being added
or whose previous incarnation is still being dropped, a file that is created by
one call and written by the next, a configuration that is kept in five places, a bounded channel sent on
with a lock held, a wait group that is incremented after the event that starts
its waiter.  `PROJECT.json` lists each of these hazards at its line.

## 2. Modules

| module | models | its abstraction |
|---|---|---|
| `WaitList` | `syncList`, as operators on sequences | – |
| `TaskEngine` | the task engine, the wait list and the cache files with every goroutine interleaved | `SlotPool` |
| `SlotPool` | what the engine promises about slots: list, delete, start, stop | |
| `EngineLock` | `e.RWMutex`, `taskMutex`, `TsChanged` and all who use them | |
| `SyncTicker` | web connections, background loop, ticker, its waiter | |
| `TorrentStatus` | one torrent: start, stop, files, completion, `DoneCmd`, its processors | |
| `Reconfigure` | `apiConfigure`, `Configure`, saving, starting from what was saved, trackers | |
| `EngineRestart` | cache files, watched directory, `RestoreCacheDir`, crashes | |
| `RSSFeed` | `updateRSS` and its callers over feeds that go on publishing | |
| `MC*` | model-checking instances: symmetry and bounds | |
| `TaskEngineProofs`, `TaskCalmProofs`, `EngineLockProofs`, `SyncTickerProofs`, `TorrentStatusProofs`, `ReconfigureProofs`, `EngineRestartProofs`, `RSSFeedProofs` | theorems | |

`TaskEngine` EXTENDS `WaitList` and instantiates `SlotPool` with a refinement
mapping.  `EngineLock` and `SyncTicker` are separate views of the same program:
`TaskEngine` treats a critical section of `e.RWMutex` as one step and a send on
`TsChanged` as something that does not block; `EngineLock` is where both take
several steps.  `SyncTicker` leaves out the lock for the same reason.
`TorrentStatus` looks inside one `Torrent`, which `TaskEngine` knows only as listed,
queueing or running.  `EngineRestart` looks inside a cache file, which is there or
not in `TaskEngine`, and lets the process stop; of the queue it keeps that a task
runs or waits.  `Reconfigure` has the configuration, whose limit is the variable
`maxTask` of `TaskEngine` and whose feeds are the variable `urls` of `RSSFeed`.

### TaskEngine

State: `ts` is the map `e.ts`, for each infohash `"absent"` or the `IsQueueing` flag of
its entry; `client` the set of torrents in the library's client, the thing
`isReadyAddTask` counts; `waitList`; `cacheDir`, a set of (infohash, type) records, one
per cache file; `taskMutex`; `maxTask`.  Per goroutine: `pc`, the task it works on, and
`ref`, the `*Torrent` it holds.  A pointer is told apart by what the map knows of
it: the entry itself (`"listed"`), an entry that `DeleteTorrent` took out after
closing its `dropWait` (`"closed"`), an entry that a second `upsertTorrent` overwrote
(`"orphan"`), which nothing can close any more.  This is why one `DeleteTorrent`
wakes all processors of a task and none of an overwritten one.

One action per access to shared state.  `newTorrentBySpec` becomes `LockTask`
(lock and `isReadyAddTask`), `IsTaskInList`, `PushPretask`, `UpsertLookup`,
`UpsertInsert` or `UpsertMark`, then `QueuedReturn` or `AddSpec`.  The processor is
`GotInfo`, `CacheInfo`, `TaskRoutine`, `DropTask`; deletion is `ApiDelete`,
`ApiRemoveCache`; expiry `ExpireRemoveCache`, `ExpireDelete` in the order of
`stopRemoveTask`; `NextWaitTask` is `NextCheck`, `NextPop`, `NextStat`, `NextLoad`, `NextCache`
and then `LockTask` again.  A goroutine that serves `apiConfigure`'s loop
(`looping`) goes back to `NextCheck` after every result the loop does not break on.

`Ops` names what the environment does in an instance.  `Calm` describes a
disciplined use: nobody makes a request before the previous one has settled, and
nobody adds a task that is listed.  Some properties hold only then; section 5
says what happens otherwise.

### EngineLock

`writer` is who has asked for `e.Lock` (a writer keeps new readers out while it waits
for those inside, as `sync.RWMutex` does), `readers` who holds `e.RLock`, `signals` the
content of `TsChanged`, `shown` the map as the clients last saw it.  A critical
section is a step to ask, a step to enter when the readers have gone, and the
send on `TsChanged` where the code has it: after the unlock in `upsertTorrent`
(deferred), before the unlock in `deleteTorrent`.

### SyncTicker

`conn` is where each `/sync` handler is: before the send on `syncConnected`, between
it and `syncWg.Add(1)`, or counted.  A `tickerRoutine` and the goroutine inside it
that calls `syncWg.Wait` are two state machines.  `Wait` sleeps and is woken at zero;
if the counter has been raised before the sleeper runs, the wait group panics,
and so does the process (`panicked`).

### TorrentStatus

One `Torrent` struct and the processors that share it (a task that is added again
gets a second one).  `started`, `manual`, `done`, `allFilesDone`, `fileStarted`, `called` are the
flags of the structs; `made` says which files have a struct yet; `wanted` is what
`DownloadAll`, `CancelPieces` and `SetPriority` last told the library to fetch, `have` what it
has completed, `reports` how often `callDoneCmd` was started.  Requests,
`AutoStart` and `stopRemoveTask` hold `Torrent.Lock`, so each of their critical sections
is a step; `ManualStartTorrent` and `stopRemoveTask` are two.  A processor holds no lock:
`BeginRound`, one `LookFile` per file, `Report`, `EndFiles`, `LookTorrent`, `TaskRoutine` are steps
of their own, first within `updateOnGotInfo` (`boot`), then on every tick.  Panics
of a request are steps as far as it got: `StartTorrent` without metadata leaves
`Started` set, `StopTorrent` meets a file that is not made.  The order of the files is left open.
The real library combines priorities of pieces and of files; the model takes
the last call for the decisive one, as the code does.  `Calm` means that users send
requests only when the page shows all files.  (The page offers to delete a
torrent sooner; that is the one request `Calm` rules out without need.)

### Reconfigure

The configuration is in five places: `disk`, `viper`, `srv` (`*s.engineConfig`), `eng`
(`e.config`), and what was made from it (`client`, `watcher`, `trackers`).  A
configuration has one field per reaction of `Validate` and per place that rewrites it:
`port`, `dir`, `rate` and `debug` stand for the twelve fields that need a new client
(`rate` for both rates), then `watch`, `trackers`, `done` for `DoneCmd`, `allow`.  A port
of 0 is refused by `Configure`, a directory in `Unusable` by `Run` alone (`detectDiskStat`),
a rate in `Unrecognised` is emptied by `UploadLimiter` and `DownloadLimiter`, an empty tracker
list is replaced by the default one, and `Run` puts the command line's `DebugTorrent` into
`EngineDebug`.  `disk` is `Torn` between the truncation of the file and its being written.

`apiConfigure` takes no lock, so every access is a step: `Ask`, `Validate`,
`RestartWatch`, `SyncViper`, `Publish`, `Truncate`, `Write` or `SaveFails`, then `SetConfig`, or
`Configure`, `CloseClient`, `OpenClient` or `OpenFails` with `e.Lock` held, and
`CheckConfigured` after a failure; `After` starts `ParseTrackerList`.  `Configure` writes
through the pointer it was given, which is `s.engineConfig` until another request
publishes: `shared` says of which requests it still is, so that the default list and the
corrected rates go into `srv` or only into the request's own copy.  `ParseTrackerList` reads
`e.config` and loses what it cannot fetch (`ParseRead`), then appends tracker by tracker, each
time reading the slice (`AppendRead`) and writing it back (`AppendWrite`); if another call
has appended in between, any part of what the two have may be left (`Survivors`).

`Stop` may happen at any time; `Start` reads the file again and fails, as `Run` does, on
an unusable directory or a port that `Configure` refuses (a `NewClient` that fails at
the start leaves the server down, and it is started again).  A request
carries what the page showed, with up to `MaxEdits` fields changed (`Edited`).
`trouble` is a history of what went wrong since the start; properties that hold only
without it name the part they mean.

### EngineRestart

`info[t]` and `torrent[t]` are the two cache files of a task: `"none"`, `"full"`, or the name
of who has created it and not written it (a writer whose file was removed and created again
by somebody else does not complete that one); `watch` is the watched directory and `event`
what fsnotify has still to tell.  `mode` is `"down"`, `"up"`, or `"closed"` while `Configure` has no
client.  A task may be added, listed or not, by a magnet link, by a `.torrent` file that is
sent, and from the watched directory at the same time (`job[t][k]` for `k` of `Kind`), while a
deletion or expiry of it is under way (`removal[t]`), its processor runs (`proc`) and the one
`RestoreCacheDir` looks at it: `ReadDir` takes the names, `RestoreLoad` reads a file, `RestoreAdd`
puts it back if it is gone by then and adds the task.
`CreateFile` and `WriteFile`, `GotInfo`, `CacheInfo` and `WriteInfo` (the `.info` file is replaced
by the `.torrent` file), `ApiDelete`, `RemoveInfo` and `RemoveTorrent`, or `Expire` and at the end
`ExpireDelete`, are steps of their own, and `Crash`
may come between any two.  Creating and writing may fail: `CacheFails`, `CacheInfoFails`.
`phase` is what the user was told last: a task is `"owed"` from the answer to the
request that added it, `"out"` from the answer to the one that deleted it if nothing is
adding it by then.
Three histories name what the properties except: `broken`, a cache file of the task
could not be written or the process stopped before; `late`, the task was cached or
listed again after its deletion had begun; `raced`, who adds the task had looked for its
cache file when a deletion had yet to remove that.

### RSSFeed

`site` is what each feed lists, `mark` and `cache` are `s.rssMark` and `s.rssCache`.  An
update is `Begin` (the subscription is read once), per feed `Fetch` or `FetchFails`, `Compare`
(the items above the mark; the mark moves), `Prepend` (in front of the cache,
which is cut), and `Finish` (sorted by date, the head is announced).  The timer,
requests and changes of the subscription call it at the same time, without a
lock.  An item is its feed and its place in the order of publication; a site lists the
last `Window` ones, more or fewer than the cache holds.  `taken` is a history: how many items
an update has put into the cache since it was called.

## 3. Runs

| run | what it asks | result |
|---|---|---|
| `live` | adds, deletions, expiries race for one slot: `SlotLimit`, `NoSlotLeak`, `WaitingListed`, types; every call ends; the engine implements `SlotPool` with its fairness | holds |
| `everything` | the same with `move2wait`, changes of the limit and a failing library: `EveryTorrentWatched` | holds |
| `calm` | disciplined use: entries, client, wait list and cache agree at rest, no slot idle | holds |
| `lock_safe` | `upsertTorrent` overwrites nothing; the only way to stop is a deletion that signals under the lock | holds |
| `lock_live` | if a deletion has `TsChanged` to itself until it has signalled, calls return and changes are shown | holds |
| `ticker` | one ticker, clients let in, ticker stops | holds |
| `status` | what is started is fetched, what is stopped is stopped, `DoneCmd` at most once per processor and not missed | holds |
| `reconfigure` | `DoneCmdFixed` and `ClientOrExit` whatever races or fails; `SavedIsUsed` after requests that came one by one, but for what the program replaces; `StartsAgain`: nothing but the troubles it names leaves a file behind that `Run` does not start from | holds |
| `restart` | `Kept`: no added task is lost but by a file that was not written or by being added while it is deleted; `Gone`: no deleted one comes back but those it names; `Restored`: what is cached is listed again | holds |
| `rss` | items once (`NoRepeats`), none below the mark passed over (`MarkedIsShown`), no older item announced unless one update fills the list (`NeverBack`), what is listed is shown (`Shown`) | holds |
| `stranded` | `QueuedIsWaiting` without discipline | violated |
| `ticker_lost` | `ClientTicked` | violated |

### Bounds

* `TaskEngine`: two tasks (three in `calm` and `stranded`): one runs, one waits or
  interferes; the third makes the wait list longer than one element.  At limit
  1 the second task is already "one too many".
* `Goroutine` is the number of goroutines alive at once: four let two processors
  of one task, a request and a `NextWaitTask` overlap, which is what every
  counterexample below needs.  In `live` and `everything` three are enough for a
  processor, a request and a third party, and keep liveness checkable.
  `SlotLimit`, `NoSlotLeak` and `WaitingListed` are proved for any number (section 4).
* `Room`: a goroutine is only spawned while another one stays free.  Without
  it the model could fill up with processors and stop where the program would
  not.  In `live` deadlock is checked with this bound.  In the runs with
  `configure`, `move2wait` or `Calm` the requests that need two free goroutines
  may all be ruled out, so these say `CHECK_DEADLOCK FALSE`.
* `WaitBound` (`everything` and `stranded`): wait lists of length up to 2, because
  `move2wait` can put one task into the list any number of times.
* `Limits` are the values the administrator sets: 1 and 2.
* `lock_safe` uses four goroutines: `taskMutex`, a waiting writer, a reader and the
  background loop can all be busy.  The program really stops there (that is
  what `OnlyDeleteBlocks` is about), hence `CHECK_DEADLOCK FALSE`.  `lock_live`
  has two goroutines besides the background loop and checks deadlock.
* `ticker`: four clients of which one never leaves, two ticker goroutines, so
  that a second ticker could be started if the semaphore failed.  The process
  stops when the wait group panics: `CHECK_DEADLOCK FALSE`.

* `status`: two files, so that one may be complete and the other not, and two
  processors; one `stopRemoveTask` at a time.  Files, and processors, are symmetric.
  A deleted task comes to rest when its processors have ended: `CHECK_DEADLOCK FALSE`.
* `reconfigure`: two requests (`MaxRequests`), which overlap or follow each other, with
  one edited field each (`MaxEdits`), and a start before, between and after; a good port
  and one that is refused, a directory that can be used and one that cannot, a rate
  that can be read and one that cannot, `EngineDebug` overridden by the command line, a watched
  directory that is there and one that is not, an empty tracker list and two others, of
  which one tracker is remote and may not be fetched.  With a file that is refused
  the server does not start again: `CHECK_DEADLOCK FALSE`.
* `restart`: one task, three million states in two minutes.  Two ways of adding it are
  under way at a time (`MaxAdding`), next to one deletion or expiry, one processor and the
  restorer.  Tasks share only `mode` and the place where `RestoreCacheDir` is, and the proofs
  are for any set of them and any `MaxAdding`.  Deadlock is checked.
* `rss`: two feeds, a window of three items, a cache of three and four items
  published, so that a mark can leave its feed, the cache can overflow, and one update can
  take in as many items as the cache holds; the timer and one other caller; one change
  of the subscription, from nothing or to nothing.  Deadlock is checked.

### Fairness

`Run(g)` of `TaskEngine`, `Proceed(g)` of `EngineLock`, the routines of `SyncTicker`: weak
fairness, because the Go scheduler runs every runnable goroutine.  Taking
`taskMutex`, `e.RWMutex` or room in a channel: strong fairness.  A `sync.Mutex` goes
into starvation mode after a millisecond and is then handed over in turn;
`sync.RWMutex` alternates readers and writers; channels queue their senders in
order.  No fairness is assumed for the network, the clock or users: metadata may
never arrive, nobody need ever delete a task.  `RSSFeed` has weak fairness of the
updates, which are goroutines whose fetch times out after 60 seconds, and of the
timer; that sites go on answering is a premise of `Shown` (`Answered`), not a
fairness condition.

## 4. Proofs

All for any finite sets of tasks and goroutines, any limits, any requests.

* **`TaskEngineProofs!SlotLimitHolds`** — the client never runs more torrents than
  the largest limit.  `SlotLimit` alone is not inductive: `AddSpec` adds a torrent
  on the strength of a check made several steps before.  The invariant says
  that a goroutine between the check and the library holds `taskMutex` (`LockInv`),
  and that the check still holds for it: the client has one torrent fewer than
  some limit (`AddInv`), since others can only drop torrents meanwhile.
* **`TaskEngineProofs!EveryTorrentWatchedHolds`** — a torrent in the client has a
  processor, because `AddSpec` leaves one behind and each `DropTask` drops by
  infohash.
* **`TaskEngineProofs!NoSlotLeakHolds`, `WaitListSound`, `PoolImplements`** — without
  `move2wait`.  The assumption is needed: `PushWaitTask` upserts without `taskMutex`, which
  can overwrite an entry (hazard list).  The invariants: a goroutine
  between lookup and insertion owns the place of its task (`PlaceInv`, so that
  insertion overwrites nothing), no pointer is an orphan and a listed pointer
  belongs to a listed task (`RefInv`), every torrent is watched by a processor that
  is told or can be told to drop it (`WatchInv`), the wait list has no duplicates and
  each of its tasks is listed or about to be (`WaitInv`, of which only `WaitingListed` is also a property of a run).  The lemmas about
  `Push`, `Pop` and `Remove` are at the head of the module.  `PoolImplements` maps `listed` to the
  tasks with an entry, `running` to the client, `doomed` to the torrents with a
  processor whose `dropWait` is closed, and shows each action to be a step of
  `SlotPool` or a stutter.
* **`TaskCalmProofs!ActiveIsRunningHolds`, `QueuedIsWaitingHolds`,
  `WaitingIsCachedHolds`** — under `CalmUse`: a request is made when the last one is settled,
  and nobody moves tasks back, no task expires and the library takes every specification,
  which is how run `calm` is used.  What holds at rest says nothing of the steps between,
  so the invariant follows a task through them (`CalmInv`): one goroutine at a time changes which
  tasks run (`OneInv`), and next to it one may be removing the files of a deleted task, which
  stays deleted meanwhile (`GoneInv`); each torrent has one processor (`ProcInv`); what is shown
  as active or queueing runs, waits, or is in the hands of somebody who has come
  that far (`ShownInv`, `StepInv`); who waits, or is on the way into or out of the wait list,
  has its file (`CacheInv`).
* **`TaskCalmProofs!NoIdleSlotHolds`** — the same, with limits other than 0 (0 means no limit, and
  the property is then false, see section 5).  `SlotsInv`: while tasks wait and nobody is in the
  loop of `NextWaitTask`, at most one slot is free, and somebody is about to fill it.
* **`EngineLockProofs!CheckStillHoldsAlways`** — without `move2wait` the check
  under `RLock` still holds under `Lock`: everybody between the two holds
  `taskMutex`, so there is one at a time, and deletions only help.
* **`EngineLockProofs!OnlyDeleteBlocksHolds`** — for any number of goroutines and all
  requests.  `Waits` spells out the guards of the actions, one line for each thing waited
  for, because the prover cannot look into ENABLED; it also says more, since it does not
  count on idle goroutines to be used up.  `HolderInv` says who holds the three locks and at which places of
  the code; a holder of `e.RLock` never waits, so a chain of waiting ends with a
  deletion, or with somebody who can go on.
* **`SyncTickerProofs!OneTickerHolds`** — the semaphore is set exactly while a ticker
  exists.  (Type correctness needs that the wait group is the number of counted connections,
  `CountInv`, hence never negative.)
* **`TorrentStatusProofs!ReportedOnceHolds`, `CompletionNotMissedHolds`** — for any number of
  files and processors.  A flag is set with the first report, and the
  processors that are about to report something are among those that have
  not yet done so (`ReportInv`, by cardinality); a processor whose round has found no
  unfinished file has seen to the report of what it has looked at (`CleanInv`).
* **`TorrentStatusProofs!StartedWantedHolds`, `StoppedStopsFilesHolds`** — under `Calm`.  The
  invariant says that a processor leaves a round, and a task expires, only when all
  files are made (`MadeInv`), and that a torrent that is started while some are not
  fetches everything (`ShownInv`).
* **`ReconfigureProofs!DoneCmdFixedHolds`** — a request is checked against an `s.engineConfig`
  that others replace before it publishes its own.  The check is still good,
  because the invariant (`DoneInv`) says that every request that got through
  carries the `DoneCmd` of the server, so none of them has changed it.
* **`ReconfigureProofs!ClientOrExitHolds`** — inductive as it stands, with type
  correctness.
* **`ReconfigureProofs!SavedIsUsedHolds`** — `SavedInv`: without trouble there is one request at a
  time, and `Carried` says how far it has brought its configuration, from viper to the
  server, the file, the engine and the client, in this order; a part it does not need to
  touch is equal already, because the request was compared with what all agreed on.  What
  `Configure` rewrites after the file was saved, and `Run` after it was read, is
  what `Agree` lets differ, and nothing else.
  `Known` follows the tracker lists through `ParseTrackerList`, which may still be at work;
  a single one appends to what it has read (`ParseAlone`).
* **`ReconfigureProofs!StartsAgainHolds`** — `BadInv`: a port of 0 or an unusable directory gets
  into viper, the server and the file only by a request that carries it and has to open a
  new client (`BadCarried`), and from there on the only way is into `Configure`, which notes
  it as `"refused"` or `"unusable"`.  The theorem thus lists exhaustively what keeps a
  server from starting again; it does not say that these do not happen.
* **`EngineRestartProofs!KeptHolds`** — for any set of tasks.  `KeptInv` says what a request or event
  owes its task while under way (`Safe` once it is past its file), that a file
  from the watched directory is still there until then, and who is going to
  complete a torn file: the one that has created it, or the processor
  that has removed the `.info` file.  The race of deletion and addition has a conjunct of its
  own: while a deletion has yet to remove a file, nobody who adds the task relies on one,
  and the task is owed at most for a file in the watched directory, unless it is in `raced`.
  `broken` and `raced` thus name everything that loses a task.
* **`EngineRestartProofs!GoneHolds`** — `GoneInv` says what a deletion leaves behind at
  each of its steps: unless the task is `late`, what it has removed stays removed,
  and its processor, if it lives, is past writing or has been told to end.
  `ModeInv`: `RestoreCacheDir` runs only while there is a client.
* **`EngineRestartProofs!RestoredHolds`** — `RestoredInv`: while there is a client and nobody works on a
  task, each whole file of it has been restored, or its name is among those
  `RestoreCacheDir` has still to look at.
* **`RSSFeedProofs!NoRepeatsHolds`, `MarkedIsShownHolds`, `NeverBackHolds`** — for any feeds, subscriptions,
  lengths of the feeds and size of the cache.  None of the three is inductive.  What a
  site lists goes down in date (`ListInv`); while updates do not overlap, the cache holds
  nothing of a feed above its mark, so that what is new is newer than all it has
  (`MarkInv`); what a site lists up to the mark is in the cache or in the hand of the update
  (`ShownInv`).  `NeverBack` is about the end of an update, but what it needs happens
  before: the cache is cut while it is unsorted.  `LatestInv` says that an item as new as the
  announced one is either the first, or behind no more items than the update at work has put in
  front of it (`taken`, which `TakenInv` keeps at 0 between updates), so that fewer than `Cap`
  cannot push it over the end.  No assumption on the number or the length of the feeds is
  made.  The sort is defined by places (`Sorted`), as the prover does not
  know TLC's `SortSeq`; lemmas say that it permutes the list and puts a newest item first.
* Type correctness of all modules.

Every safety property and action property that a run with an expected pass checks is
proved, some under the hypotheses named above (no `move2wait`, `Calm`), which are also
those of the runs.  Left to TLC: everything about liveness and fairness (`OneCallReturns`,
the fairness part of `ImplementsFairPool`, `CallsReturn`, `ChangesShown`, `ClientLetIn`,
`TickerStops`, `Shown`), which is beyond the prover, and the choice of constants that makes the
hazards happen.

## 5. Findings and observations

The violation runs show disagreements between the code and what the repository
says of it; `PROJECT.json` quotes the lines.

* `stranded`: two requests add the same task.  The first takes the only slot; the second
  finds the limit reached and, in `e.ts`, the task, which it takes for a queued one, so that it
  pushes nothing.  Before it looks again in `upsertTorrent` the task is deleted and
  its processor, dropping it, finds nothing to wait for; the second request then inserts an
  entry that queues.  It is shown as queueing, is not in the wait list, and no slot that
  is freed will ever start it.
* `ticker_lost`: `syncWg.Wait` may run before the `Add` of the client that started the
  ticker, which then ends at once; or a client arrives between the end of
  the ticker and the reset of the semaphore.

Further observations made while modelling, without a run of their own:

* 0 means no limit, but `Validate` (`config.go` 188) compares it as a number, so the
  wait list is not loaded when the limit is lifted: with 0 among the `Limits` of a run with
  `configure`, `NoIdleSlotWhileWaiting` fails.
* `GET /api/torrents` and some requests read the map `e.ts` without the lock
  (`server_api.go` 56) while it may be written.
* `move2wait` of the only running task: the `NextWaitTask` of its drop may look at the
  wait list before `PushWaitTask` has pushed, and the task waits beside a free slot.
  Of a magnet without metadata it leaves an element that has no `.torrent`
  file; the task is gone from the list until a restart.
* Two processors of a task that was added twice may each report its completion,
  once.
* `DeleteTorrent` sends on a full `TsChanged` under `e.Lock` while the only receiver may
  wait for `e.RLock`: both stop, and every call that needs the lock.  `OnlyDeleteBlocks` says
  that nothing else stops the engine; without the premise of `lock_live` `ChangesShown` fails.
* A start request before the metadata sets `Started` and panics on the missing torrent;
  `AutoStart` then finds the task "already started" and never tells the library to
  download (`StartedWanted` fails in run `status` without `Calm`).
* `NoIdleSlotWhileWaiting` fails in racing use at a fixed limit too: a slot freed between
  the failed `isReadyAddTask` and `pushWaitTask` wakes a `NextWaitTask` that finds the list
  empty.
* A task that is deleted and added again before its processor has dropped the torrent is,
  in the client, the same torrent, and is dropped with it: the new entry has no torrent.
  `ActiveIsRunning` is for users who wait.
* `NextWaitTask` looks for the cache file of a popped task with `os.Stat` and reads it later; if
  it is deleted in between, the popped element is lost and the slot stays
  free until the next drop.
* Adding a running task again while the limit is reached marks its entry as
  queueing; nothing resets the flag.  `move2wait` can end in the same state.
* With `move2wait` an entry can be overwritten by a concurrent `upsertTorrent`; its
  processor can never be told to drop the torrent.
* The wait group panics if a client is counted between the last `Done` and the
  return of the sleeping `Wait`.

About the configuration:

* It is saved and published before `Configure` looks at the port.  A refused one stays in
  the file, and the next start fails (the exception `"refused"` of `StartsAgain`).  A download directory that is empty, has no parent or
  is nearly full is not refused at all, by `Validate` or by `Configure`; `Run` refuses it, so
  that the server works until it is next started (`"unusable"`).  It is also
  what the next request is compared with: the same request sent again differs in
  nothing, is accepted, and the client keeps its old settings; a correction that
  leaves the new tracker list as it is does not load it.
* `UploadLimiter` and `DownloadLimiter` write an empty string over a rate they cannot read, through the
  pointer to `s.engineConfig`, after the file was saved: file and page differ from then on.
  `Run` does the same with `EngineDebug`, which the file can thus not set.
* The file watcher is restarted before `e.config` is replaced (`server_api.go` 229): it
  watches the old directory until the next change or start.
* `reflect.DeepEqual(s.engineConfig, c)` compares a pointer with a struct, so "configure
  unchanged" is never reached.  `WriteDefault` compares the extension with `yml`, without the
  dot it has, and always uses `viper.WriteConfig`.
* The file is truncated and then written.  After a crash in between the next start has
  the defaults, `DoneCmd` included.
* Requests that overlap mix their changes in viper, in the file and in the engine.
* When no client can be opened the process exits in ten seconds, even if another request
  has opened one by then.
* `ParseTrackerList` ignores a remote list that it cannot fetch, and does not try again.
  Two calls at once append to the same slice without a lock and may lose each other's trackers.
* `ParseTrackerList` appends to `e.Trackers` without forgetting the old list, and drops duplicates
  only within a list.  An emptied list is replaced by the default one in the engine, which is
  loaded only if the request changed the list.
* `DisableUTP`, `NoDefaultPortForwarding` and `MuteEngineLog` go into the client but are not in `Validate`'s
  list; a change has no effect before another change opens a new client.

About cache files and restarts:

* An add that looks for the cache file between `DeleteTorrent` and `RemoveCache`, or while
  `stopRemoveTask` is at work, keeps the old file; it is answered, and the file is then removed:
  the task is listed and is gone at the next restart.  This loses an acknowledged task
  without a crash or a failed write (history `raced` of `Kept`, which without it fails in run
  `restart`).
* The processor of a deleted task may write its `.torrent` file after `RemoveCache` has looked
  for it, and `RestoreCacheDir` may add a task that is being deleted (history `late` of `Gone`).
* A file that was created and not written is never written again, as `os.IsNotExist` looks at
  its existence only (history `broken` of `Kept`).
* Files put into the watched directory while the server is down are not picked up
  before they are written again; they stay where they are.
* `NewTorrentByFilePath` recovers from panics and returns nil: the watcher removes a file whose task
  was not started (while `Configure` has no client); its cache file restores it.
* `Configure` keeps the wait list, into which `RestoreCacheDir` pushes the same tasks again.

About the feeds:

* If the item after which a feed is read on has left it, nothing of the feed is new ever
  after (`Stuck`).
* The timer is not started if nothing is subscribed at the start, and not by a
  change of the subscription either.
* Updates that overlap may take the same items for new and list them twice, or write a mark
  or a cache over each other's and lose items.
* The cache is cut before it is sorted: an update that takes in as many items as it holds
  pushes out newer ones than it keeps, and an older item is announced (excepted by `NeverBack`,
  and reached in run `rss`).
* An item without a date makes the sort panic (`server_rss.go` 154), and with it the process if
  the update is the timer's.

## 6. Not modelled, and the plan

Possible further steps:

1. Which of the theorems under `CalmUse` survive expiring tasks and a failing library.
2. The safety half of the progress properties: the measure that goes down while a
   call waits for its locks.
3. The composition of `EngineLock` with the long critical section of `Configure`.

Not modelled: the sizes, rates and percentages of `torrent.go` and `utils.go` (functions of one or two
numbers or a string, without a state), the parsing of feed items (`findFromFeedItem`), command-line
arguments and listeners, file listing, search, statistics, logging, middleware and
the web front end.  They keep no shared state beyond a cached value, or do only I/O.
The torrent library, the Go runtime and the file system are modelled from how
the code uses them.
