----------------------------- MODULE TaskEngine -----------------------------
(***************************************************************************)
(* The task engine of simple-torrent (engine/engine.go, engineUtil.go,     *)
(* engineCache.go, waitList.go): how a torrent task is added, started      *)
(* under the limit MaxConcurrentTask, queued behind it, deleted, moved     *)
(* back to the queue, and how a slot that becomes free is handed to the    *)
(* next waiting task.                                                      *)
(*                                                                         *)
(* Every API request, every torrentEventProcessor, every stopRemoveTask    *)
(* and every NextWaitTask is a goroutine of its own.  A goroutine takes    *)
(* one step per access to what it shares with the others: a critical       *)
(* section of e.RWMutex or of the wait list's mutex is one step, and so is *)
(* one use of a cache file.  taskMutex is held across several steps and is    *)
(* modelled as a lock.                                                     *)
(*                                                                         *)
(* Abstracted: what a task downloads and its statistics, the trackers, the *)
(* blocking of a send on TsChanged (module EngineLock), the replacement of *)
(* the client by Configure, and the restart of the process.  The calls by  *)
(* which a cache file is looked for, created and written are one step, and *)
(* so are the two removals of RemoveCache.                                 *)
(***************************************************************************)
EXTENDS WaitList, FiniteSets

CONSTANTS
    Task,       \* infohashes
    Goroutine,  \* bound: goroutines alive at the same time
    Limits,     \* values of MaxConcurrentTask the administrator may set; 0 = no limit
    Ops,        \* what the environment does, see AllOps
    Calm,       \* TRUE: users wait until all is settled and re-add no listed task
    NoOwner,    \* taskMutex is free
    NoJob       \* the goroutine works on no task

(* Requests and events the environment produces.  "magnet" and "torrent"   *)
(* add a task, "configure" saves a MaxConcurrentTask, "expire" lets a      *)
(* seeding task reach SeedRatio or SeedTime, "specfail" lets the torrent   *)
(* library refuse a specification.                                         *)
AllOps == {"magnet", "torrent", "delete", "move2wait", "configure", "expire", "specfail"}

TaskElem == Elem(Task)

ASSUME LimitsAssumption == Limits \subseteq Nat /\ Limits # {}
ASSUME OpsAssumption == Ops \subseteq AllOps /\ Calm \in BOOLEAN
ASSUME NullAssumption == NoOwner \notin Goroutine /\ NoJob \notin TaskElem
ASSUME FiniteAssumption == IsFiniteSet(Task) /\ IsFiniteSet(Goroutine)

VARIABLES
    ts,         \* e.ts: "absent", or the IsQueueing flag of the listed Torrent
    client,     \* infohashes the torrent client runs (e.client.Torrents())
    waitList,   \* e.waitList
    cacheDir,   \* cache files: [ih, "torrent"] is ih.torrent, [ih, "magnet"] is ih.info
    taskMutex,  \* the goroutine that holds e.taskMutex
    maxTask,    \* e.config.MaxConcurrentTask
    pc,         \* where each goroutine is
    job,        \* the task a goroutine works on
    ref,        \* the *Torrent a goroutine holds, see Ref
    queueing,   \* the isQueueing argument of the goroutine's upsertTorrent
    looping     \* goroutines that run apiConfigure's loop over NextWaitTask

shared == <<ts, client, waitList, cacheDir, taskMutex, maxTask>>
local  == <<pc, job, ref, queueing, looping>>
vars   == <<shared, local>>

(* A Torrent struct is told apart by how the map e.ts refers to it:         *)
(* "listed" is the entry of its infohash, "closed" was taken out by         *)
(* DeleteTorrent, which closed its dropWait, and "orphan" was overwritten   *)
(* by a second entry, so that nothing can close its dropWait any more.      *)
Ref == {"none", "listed", "closed", "orphan"}

Entry == {"queueing", "active"}

(* The places of a newTorrentBySpec that holds taskMutex. *)
Queueing == {"inList", "push"}
Upserting == {"lookup", "insert", "mark"}
Processor == {"waitInfo", "gotInfo", "loop"}
PC == {"idle", "lock", "spec", "return",
       "rmCache", "pushWait", "loadMeta", "expCache", "expDelete",
       "next", "pop", "stat", "load", "cache"}
      \cup Queueing \cup Upserting \cup Processor

TypeOK ==
    /\ ts \in [Task -> {"absent"} \cup Entry]
    /\ client \subseteq Task
    /\ waitList \in Seq(TaskElem)
    /\ cacheDir \subseteq TaskElem
    /\ taskMutex \in Goroutine \cup {NoOwner}
    /\ maxTask \in Limits
    /\ pc \in [Goroutine -> PC]
    /\ job \in [Goroutine -> TaskElem \cup {NoJob}]
    /\ ref \in [Goroutine -> Ref]
    /\ queueing \in [Goroutine -> BOOLEAN]
    /\ looping \subseteq Goroutine

(* A server that has just been configured on an empty cache directory. *)
Init ==
    /\ ts = [ih \in Task |-> "absent"]
    /\ client = {}
    /\ waitList = <<>>
    /\ cacheDir = {}
    /\ taskMutex = NoOwner
    /\ maxTask \in Limits
    /\ pc = [g \in Goroutine |-> "idle"]
    /\ job = [g \in Goroutine |-> NoJob]
    /\ ref = [g \in Goroutine |-> "none"]
    /\ queueing = [g \in Goroutine |-> FALSE]
    /\ looping = {}

-----------------------------------------------------------------------------
(* Goroutines. *)

At(g, place) == pc[g] = place
Goto(g, place) == pc' = [pc EXCEPT ![g] = place]

Idle(g) == pc[g] = "idle"

(* Bound: a goroutine is spawned only while another slot stays free, which  *)
(* is left for a delete request.                                            *)
Room == \E g, h \in Goroutine : g # h /\ Idle(g) /\ Idle(h)

(* Nothing is left to run: only processors whose dropWait is still open.    *)
Settled(g) == Idle(g) \/ (pc[g] \in {"waitInfo", "loop"} /\ ref[g] # "closed")
Quiescent == \A g \in Goroutine : Settled(g)

(* A request finds goroutine g to serve it. *)
Admit(g, op) == op \in Ops /\ Idle(g) /\ (Calm => Quiescent)

(* The goroutine ends and its stack is gone. *)
End(g) ==
    /\ Goto(g, "idle")
    /\ job' = [job EXCEPT ![g] = NoJob]
    /\ ref' = [ref EXCEPT ![g] = "none"]
    /\ queueing' = [queueing EXCEPT ![g] = FALSE]
    /\ looping' = looping \ {g}

(* A call of NextWaitTask returns nil or an error that apiConfigure's loop  *)
(* does not break on: the loop calls it again, any other caller ends.       *)
Again(g) ==
    /\ Goto(g, IF g \in looping THEN "next" ELSE "idle")
    /\ job' = [job EXCEPT ![g] = NoJob]
    /\ ref' = [ref EXCEPT ![g] = "none"]
    /\ UNCHANGED <<queueing, looping>>

-----------------------------------------------------------------------------
(* Adding a task. *)

(* isReadyAddTask *)
IsReadyAddTask == maxTask = 0 \/ Cardinality(client) < maxTask

(* Mutant of AddTask: a magnet link gets no cache file. *)
AddTaskUncached(g, elem) ==
    /\ Admit(g, elem.tp) /\ Room
    /\ Calm => ts[elem.ih] = "absent"
    /\ job' = [job EXCEPT ![g] = elem]
    /\ cacheDir' = IF elem.tp = "magnet" THEN cacheDir ELSE cacheDir \cup {elem}
    /\ Goto(g, "lock")
    /\ UNCHANGED <<ts, client, waitList, taskMutex, maxTask, ref, queueing, looping>>

(* NewMagnet and NewTorrentByReader up to newTorrentBySpec: the cache file  *)
(* is created unless it exists.                                             *)
AddTask(g, elem) ==
    /\ Admit(g, elem.tp) /\ Room
    /\ Calm => ts[elem.ih] = "absent"
    /\ job' = [job EXCEPT ![g] = elem]
    /\ cacheDir' = cacheDir \cup {elem}
    /\ Goto(g, "lock")
    /\ UNCHANGED <<ts, client, waitList, taskMutex, maxTask, ref, queueing, looping>>

(* Mutant of LockTask: does not wait for taskMutex. *)
LockTaskUnguarded(g) ==
    /\ At(g, "lock")
    /\ taskMutex' = g
    /\ queueing' = [queueing EXCEPT ![g] = ~IsReadyAddTask]
    /\ Goto(g, IF IsReadyAddTask THEN "lookup" ELSE "inList")
    /\ UNCHANGED <<ts, client, waitList, cacheDir, maxTask, job, ref, looping>>

(* newTorrentBySpec takes taskMutex and asks isReadyAddTask. *)
LockTask(g) ==
    /\ At(g, "lock") /\ taskMutex = NoOwner
    /\ taskMutex' = g
    /\ queueing' = [queueing EXCEPT ![g] = ~IsReadyAddTask]
    /\ Goto(g, IF IsReadyAddTask THEN "lookup" ELSE "inList")
    /\ UNCHANGED <<ts, client, waitList, cacheDir, maxTask, job, ref, looping>>

(* Mutant of IsTaskInList: the answer is inverted. *)
TaskInListInverted(g) ==
    /\ At(g, "inList")
    /\ Goto(g, IF ts[job[g].ih] = "absent" THEN "lookup" ELSE "push")
    /\ UNCHANGED <<shared, job, ref, queueing, looping>>

(* isTaskInList: a listed task is taken to be in the queue already. *)
IsTaskInList(g) ==
    /\ At(g, "inList")
    /\ Goto(g, IF ts[job[g].ih] = "absent" THEN "push" ELSE "lookup")
    /\ UNCHANGED <<shared, job, ref, queueing, looping>>

PushPretask(g) ==
    /\ At(g, "push")
    /\ waitList' = Push(waitList, job[g])
    /\ Goto(g, "lookup")
    /\ UNCHANGED <<ts, client, cacheDir, taskMutex, maxTask, job, ref, queueing, looping>>

(* Mutant of UpsertLookup: an existing entry is not looked for. *)
UpsertAlwaysInserts(g) ==
    /\ At(g, "lookup")
    /\ Goto(g, "insert") /\ UNCHANGED ref
    /\ UNCHANGED <<shared, job, queueing, looping>>

(* upsertTorrent, the read under e.RLock. *)
UpsertLookup(g) ==
    /\ At(g, "lookup")
    /\ IF ts[job[g].ih] = "absent"
       THEN Goto(g, "insert") /\ UNCHANGED ref
       ELSE Goto(g, "mark") /\ ref' = [ref EXCEPT ![g] = "listed"]
    /\ UNCHANGED <<shared, job, queueing, looping>>

AfterUpsert(g) == Goto(g, IF queueing[g] THEN "return" ELSE "spec")

(* Mutant of EntryOf: the flag is inverted. *)
EntryOfInverted(g) == IF queueing[g] THEN "active" ELSE "queueing"

EntryOf(g) == IF queueing[g] THEN "queueing" ELSE "active"

(* upsertTorrent, the write under e.Lock: whatever entry is there by then   *)
(* is overwritten, and a goroutine that holds it keeps an orphan.           *)
UpsertInsert(g) ==
    /\ At(g, "insert")
    /\ ts' = [ts EXCEPT ![job[g].ih] = EntryOf(g)]
    /\ ref' = [h \in Goroutine |->
                 IF h = g THEN "listed"
                 ELSE IF ref[h] = "listed" /\ job[h].ih = job[g].ih THEN "orphan"
                 ELSE ref[h]]
    /\ AfterUpsert(g)
    /\ UNCHANGED <<client, waitList, cacheDir, taskMutex, maxTask, job, queueing, looping>>

(* upsertTorrent on an existing entry sets IsQueueing without a lock; the   *)
(* write shows only while the struct is still the listed one.               *)
UpsertMark(g) ==
    /\ At(g, "mark")
    /\ ts' = IF ref[g] = "listed" THEN [ts EXCEPT ![job[g].ih] = EntryOf(g)] ELSE ts
    /\ AfterUpsert(g)
    /\ UNCHANGED <<client, waitList, cacheDir, taskMutex, maxTask, job, ref, queueing, looping>>

(* Mutant of QueuedReturn: returns with taskMutex held. *)
QueuedReturnLocked(g) ==
    /\ At(g, "return")
    /\ End(g)
    /\ UNCHANGED <<ts, client, waitList, cacheDir, taskMutex, maxTask>>

(* The queued task has its entry: newTorrentBySpec unlocks and returns      *)
(* ErrMaxConnTasks, which ends apiConfigure's loop; PushWaitTask returns.   *)
QueuedReturn(g) ==
    /\ At(g, "return")
    /\ taskMutex' = IF taskMutex = g THEN NoOwner ELSE taskMutex
    /\ End(g)
    /\ UNCHANGED <<ts, client, waitList, cacheDir, maxTask>>

(* AddTorrentSpec returns the torrent of this infohash, a new one only if   *)
(* the client has none.  newTorrentBySpec spawns torrentEventProcessor and  *)
(* unlocks; the goroutine that is done continues as the processor, except   *)
(* in apiConfigure's loop, which calls NextWaitTask again.                  *)
AddSpec(g) ==
    /\ At(g, "spec")
    /\ client' = client \cup {job[g].ih}
    /\ taskMutex' = NoOwner
    /\ \/ /\ g \notin looping
          /\ Goto(g, "waitInfo")
          /\ UNCHANGED <<job, ref>>
       \/ /\ g \in looping /\ Room
          /\ \E h \in Goroutine :
               /\ Idle(h)
               /\ pc' = [pc EXCEPT ![h] = "waitInfo", ![g] = "next"]
               /\ job' = [job EXCEPT ![h] = job[g], ![g] = NoJob]
               /\ ref' = [ref EXCEPT ![h] = ref[g], ![g] = "none"]
    /\ UNCHANGED <<ts, waitList, cacheDir, maxTask, queueing, looping>>

(* Mutant of AddSpecFails: the client keeps the torrent it refused. *)
AddSpecFailsKeeps(g) ==
    /\ "specfail" \in Ops /\ At(g, "spec")
    /\ client' = client \cup {job[g].ih}
    /\ taskMutex' = NoOwner
    /\ Again(g)
    /\ UNCHANGED <<ts, waitList, cacheDir, maxTask>>

(* AddTorrentSpec fails: the error is returned, the entry stays. *)
AddSpecFails(g) ==
    /\ "specfail" \in Ops /\ At(g, "spec")
    /\ taskMutex' = NoOwner
    /\ Again(g)
    /\ UNCHANGED <<ts, client, waitList, cacheDir, maxTask>>

-----------------------------------------------------------------------------
(* torrentEventProcessor. *)

(* The metadata arrives: removeMagnetCache deletes the .info file ... *)
GotInfo(g) ==
    /\ At(g, "waitInfo")
    /\ cacheDir' = cacheDir \ {[ih |-> job[g].ih, tp |-> "magnet"]}
    /\ Goto(g, "gotInfo")
    /\ UNCHANGED <<ts, client, waitList, taskMutex, maxTask, job, ref, queueing, looping>>

(* ... and newTorrentCacheFile writes the .torrent file. *)
CacheInfo(g) ==
    /\ At(g, "gotInfo")
    /\ cacheDir' = cacheDir \cup {[ih |-> job[g].ih, tp |-> "torrent"]}
    /\ Goto(g, "loop")
    /\ UNCHANGED <<ts, client, waitList, taskMutex, maxTask, job, ref, queueing, looping>>

(* Mutants of DropTask: the torrent stays in the client, or the slot is not *)
(* passed on.                                                               *)
DropTaskForgets(g) ==
    /\ pc[g] \in {"waitInfo", "loop"} /\ ref[g] = "closed"
    /\ Goto(g, "next")
    /\ job' = [job EXCEPT ![g] = NoJob]
    /\ ref' = [ref EXCEPT ![g] = "none"]
    /\ UNCHANGED <<shared, queueing, looping>>

DropTaskEnds(g) ==
    /\ pc[g] \in {"waitInfo", "loop"} /\ ref[g] = "closed"
    /\ client' = client \ {job[g].ih}
    /\ End(g)
    /\ UNCHANGED <<ts, waitList, cacheDir, taskMutex, maxTask>>

(* dropWait is closed: the processor drops the client's torrent of this     *)
(* infohash, whichever it is by now, and goes on as go e.NextWaitTask().    *)
DropTask(g) ==
    /\ pc[g] \in {"waitInfo", "loop"} /\ ref[g] = "closed"
    /\ client' = client \ {job[g].ih}
    /\ Goto(g, "next")
    /\ job' = [job EXCEPT ![g] = NoJob]
    /\ ref' = [ref EXCEPT ![g] = "none"]
    /\ UNCHANGED <<ts, waitList, cacheDir, taskMutex, maxTask, queueing, looping>>

(* A tick of the main loop on which taskRoutine finds the seeding task over *)
(* SeedRatio or SeedTime: go e.stopRemoveTask(ih).                          *)
TaskRoutine(g, h) ==
    /\ "expire" \in Ops /\ At(g, "loop") /\ Idle(h) /\ Room
    /\ Goto(h, "expCache")
    /\ job' = [job EXCEPT ![h] = job[g]]
    /\ UNCHANGED <<shared, ref, queueing, looping>>

-----------------------------------------------------------------------------
(* Deleting a task. *)

FilesOf(ih) == {[ih |-> ih, tp |-> tp] : tp \in TaskType}

(* Mutant of DeleteTorrent: the wait list keeps the task. *)
DeleteKeepsWaiting(ih) ==
    /\ ts[ih] # "absent"
    /\ ref' = [h \in Goroutine |->
                 IF ref[h] = "listed" /\ job[h].ih = ih THEN "closed" ELSE ref[h]]
    /\ ts' = [ts EXCEPT ![ih] = "absent"]
    /\ UNCHANGED waitList

(* DeleteTorrent, all of it under e.Lock, for a task that is listed. *)
DeleteTorrent(ih) ==
    /\ ts[ih] # "absent"
    /\ ref' = [h \in Goroutine |->
                 IF ref[h] = "listed" /\ job[h].ih = ih THEN "closed" ELSE ref[h]]
    /\ waitList' = RemoveTask(waitList, ih)
    /\ ts' = [ts EXCEPT ![ih] = "absent"]

(* API torrent "delete:ih" *)
ApiDelete(g, ih) ==
    /\ Admit(g, "delete")
    /\ DeleteTorrent(ih)
    /\ job' = [job EXCEPT ![g] = [ih |-> ih, tp |-> "torrent"]]
    /\ Goto(g, "rmCache")
    /\ UNCHANGED <<client, cacheDir, taskMutex, maxTask, queueing, looping>>

(* RemoveCache after the delete request *)
ApiRemoveCache(g) ==
    /\ At(g, "rmCache")
    /\ cacheDir' = cacheDir \ FilesOf(job[g].ih)
    /\ End(g)
    /\ UNCHANGED <<ts, client, waitList, taskMutex, maxTask>>

(* stopRemoveTask removes the cache files first ... *)
ExpireRemoveCache(g) ==
    /\ At(g, "expCache")
    /\ cacheDir' = cacheDir \ FilesOf(job[g].ih)
    /\ Goto(g, "expDelete")
    /\ UNCHANGED <<ts, client, waitList, taskMutex, maxTask, job, ref, queueing, looping>>

(* ... and deletes the task, unless somebody else has. *)
ExpireDelete(g) ==
    /\ At(g, "expDelete")
    /\ Goto(g, "idle")
    /\ job' = [job EXCEPT ![g] = NoJob]
    /\ \/ DeleteTorrent(job[g].ih)
       \/ ts[job[g].ih] = "absent" /\ UNCHANGED <<ts, waitList, ref>>
    /\ UNCHANGED <<client, cacheDir, taskMutex, maxTask, queueing, looping>>

-----------------------------------------------------------------------------
(* Moving a task back to the queue: DeleteTorrent, then PushWaitTask. *)

ApiMove2Wait(g, ih) ==
    /\ Admit(g, "move2wait")
    /\ DeleteTorrent(ih)
    /\ job' = [job EXCEPT ![g] = [ih |-> ih, tp |-> "torrent"]]
    /\ Goto(g, "pushWait")
    /\ UNCHANGED <<client, cacheDir, taskMutex, maxTask, queueing, looping>>

PushWait(g) ==
    /\ At(g, "pushWait")
    /\ waitList' = Push(waitList, job[g])
    /\ Goto(g, "loadMeta")
    /\ UNCHANGED <<ts, client, cacheDir, taskMutex, maxTask, job, ref, queueing, looping>>

(* PushWaitTask needs the .torrent file for the name of the entry. *)
LoadMeta(g) ==
    /\ At(g, "loadMeta")
    /\ \/ /\ job[g] \in cacheDir
          /\ Goto(g, "lookup")
          /\ queueing' = [queueing EXCEPT ![g] = TRUE]
          /\ UNCHANGED <<job, ref, looping>>
       \/ /\ job[g] \notin cacheDir
          /\ End(g)
    /\ UNCHANGED shared

-----------------------------------------------------------------------------
(* NextWaitTask and the saved configuration. *)

(* Mutant of NextCheck: waits for a free slot instead of giving up. *)
NextCheckWaits(g) ==
    /\ At(g, "next") /\ IsReadyAddTask
    /\ Goto(g, "pop")
    /\ UNCHANGED <<shared, job, ref, queueing, looping>>

(* isReadyAddTask, here without taskMutex *)
NextCheck(g) ==
    /\ At(g, "next")
    /\ \/ /\ IsReadyAddTask
          /\ Goto(g, "pop")
          /\ UNCHANGED <<job, ref, queueing, looping>>
       \/ /\ ~IsReadyAddTask
          /\ End(g)
    /\ UNCHANGED shared

NextPop(g) ==
    /\ At(g, "pop")
    /\ \/ /\ waitList # <<>>
          /\ job' = [job EXCEPT ![g] = PopElem(waitList)]
          /\ waitList' = PopRest(waitList)
          /\ Goto(g, "stat")
          /\ UNCHANGED <<ref, queueing, looping>>
       \/ /\ waitList = <<>>
          /\ End(g)
          /\ UNCHANGED waitList
    /\ UNCHANGED <<ts, client, cacheDir, taskMutex, maxTask>>

(* os.Stat: an element without its cache file is skipped. *)
NextStat(g) ==
    /\ At(g, "stat")
    /\ Goto(g, IF job[g] \in cacheDir THEN "load" ELSE "pop")
    /\ UNCHANGED <<shared, job, ref, queueing, looping>>

(* RestoreTask reads the file; if it is gone by now the element is lost. *)
NextLoad(g) ==
    /\ At(g, "load")
    /\ \/ /\ job[g] \in cacheDir
          /\ Goto(g, "cache")
          /\ UNCHANGED <<job, ref, queueing, looping>>
       \/ /\ job[g] \notin cacheDir
          /\ Again(g)
    /\ UNCHANGED shared

(* Mutant of NextCache: names the cache file after the infohash only. *)
NextCacheUntyped(g) ==
    /\ At(g, "cache")
    /\ cacheDir' = cacheDir \cup {job[g].ih}
    /\ Goto(g, "lock")
    /\ UNCHANGED <<ts, client, waitList, taskMutex, maxTask, job, ref, queueing, looping>>

(* NewMagnet or NewTorrentByFilePath puts the cache file back if need be.  *)
NextCache(g) ==
    /\ At(g, "cache")
    /\ cacheDir' = cacheDir \cup {job[g]}
    /\ Goto(g, "lock")
    /\ UNCHANGED <<ts, client, waitList, taskMutex, maxTask, job, ref, queueing, looping>>

(* apiConfigure with another MaxConcurrentTask: Validate asks for the wait  *)
(* list to be loaded only when the number grows.                            *)
ApiConfigure(g, m) ==
    /\ Admit(g, "configure") /\ m # maxTask
    /\ maxTask' = m
    /\ \/ /\ maxTask < m /\ Room
          /\ looping' = looping \cup {g}
          /\ Goto(g, "next")
       \/ /\ ~(maxTask < m)
          /\ UNCHANGED <<looping, pc>>
    /\ UNCHANGED <<ts, client, waitList, cacheDir, taskMutex, job, ref, queueing>>

-----------------------------------------------------------------------------
Request ==
    \E g \in Goroutine :
        \/ \E elem \in TaskElem : AddTask(g, elem)
        \/ \E ih \in Task : ApiDelete(g, ih) \/ ApiMove2Wait(g, ih)
        \/ \E m \in Limits : ApiConfigure(g, m)

(* What the network or the clock decides. *)
Event ==
    \E g \in Goroutine :
        \/ GotInfo(g)
        \/ \E h \in Goroutine : TaskRoutine(g, h)

(* The steps a goroutine takes without waiting for anybody. *)
Run(g) ==
    \/ IsTaskInList(g) \/ PushPretask(g)
    \/ UpsertLookup(g) \/ UpsertInsert(g) \/ UpsertMark(g)
    \/ QueuedReturn(g) \/ AddSpec(g) \/ AddSpecFails(g)
    \/ CacheInfo(g) \/ DropTask(g)
    \/ ApiRemoveCache(g) \/ ExpireRemoveCache(g) \/ ExpireDelete(g)
    \/ PushWait(g) \/ LoadMeta(g)
    \/ NextCheck(g) \/ NextPop(g) \/ NextStat(g) \/ NextLoad(g) \/ NextCache(g)

Next == Request \/ Event \/ \E g \in Goroutine : LockTask(g) \/ Run(g)

Spec == Init /\ [][Next]_vars

(* The Go scheduler runs every runnable goroutine, and a sync.Mutex in its *)
(* starvation mode is handed to a goroutine that has waited for long.      *)
Fairness == \A g \in Goroutine : WF_vars(Run(g)) /\ SF_vars(LockTask(g))

FairSpec == Spec /\ Fairness
-----------------------------------------------------------------------------
(* Properties. *)

(* The limits that may have been in force so far. *)
InForce == IF "configure" \in Ops THEN Limits ELSE {maxTask}

(* taskMutex makes isReadyAddTask and AddTorrentSpec one decision: whatever *)
(* is added, dropped, moved or configured at the same time, the client      *)
(* never runs more torrents than the largest MaxConcurrentTask in force     *)
(* (newTorrentBySpec, engine.go 219-252).                                   *)
SlotLimit == 0 \in InForce \/ \E m \in InForce : Cardinality(client) <= m

(* Every torrent in the client has a processor that will drop it by its     *)
(* infohash when told to (torrentEventProcessor, engine.go 254-308).        *)
Watches(g, ih) == pc[g] \in Processor /\ job[g].ih = ih
EveryTorrentWatched == \A ih \in client : \E g \in Goroutine : Watches(g, ih)

(* Without move2wait, one of these processors listens to a dropWait that    *)
(* DeleteTorrent has closed or is able to close: no slot leaks.             *)
NoSlotLeak ==
    \A ih \in client : \E g \in Goroutine :
        Watches(g, ih) /\ (ref[g] = "closed" \/ (ref[g] = "listed" /\ ts[ih] # "absent"))

(* Without move2wait, a task waits in the list at most once, although a     *)
(* request, a popped element and a deletion of the same task may be under   *)
(* way together (isTaskInList and pushWaitTask, engine.go 226-232).         *)
WaitingOnce == AtMostOnce(waitList)

(* The goroutine that has pushed an element and not yet inserted its entry. *)
Enlisting(ih) == \E g \in Goroutine : pc[g] \in {"lookup", "insert"} /\ job[g].ih = ih

(* Without move2wait, no task waits that its users cannot see and delete:   *)
(* DeleteTorrent takes the element out together with the entry.             *)
WaitingListed ==
    \A ih \in Task : Waits(waitList, ih) => ts[ih] # "absent" \/ Enlisting(ih)

(* When everything has settled, a task shown as queueing that does not run  *)
(* is in the wait list: "reached max task %d, task already in queue"        *)
(* (engine.go 231).                                                         *)
QueuedIsWaiting ==
    Quiescent => \A ih \in Task :
        ts[ih] = "queueing" /\ ih \notin client => Waits(waitList, ih)

(* When everything has settled, no slot is free while a task waits for one: *)
(* the option is there "to limit and queue up download task"                *)
(* (example-cloud-torrent.yaml 69).                                         *)
NoIdleSlotWhileWaiting ==
    Quiescent => waitList = <<>> \/ ~IsReadyAddTask

(* When everything has settled, the tasks shown as active are those the     *)
(* client runs.                                                             *)
ActiveIsRunning ==
    Quiescent => \A ih \in Task : ts[ih] = "active" => ih \in client

(* When everything has settled, a waiting task still has the cache file it  *)
(* is to be restored from (NextWaitTask skips it otherwise, engineCache.go  *)
(* 177-180).                                                                *)
WaitingIsCached ==
    Quiescent => \A i \in 1..Len(waitList) : waitList[i] \in cacheDir

(* A request, a stopRemoveTask or a NextWaitTask comes to an end, although  *)
(* it may wait for taskMutex and skip over elements of the wait list.       *)
CallReturns(g) == pc[g] \notin Processor \cup {"idle"} ~> pc[g] \in Processor \cup {"idle"}

(* Tasks their users see, and tasks of the client that a processor is about  *)
(* to drop.                                                                 *)
Listed == {ih \in Task : ts[ih] # "absent"}
Doomed == {ih \in client : \E g \in Goroutine : Watches(g, ih) /\ ref[g] = "closed"}

(* Without move2wait the engine implements the slot pool: slots are bounded *)
(* and the slot of a deleted task is given back.                            *)
Pool == INSTANCE SlotPool WITH
            listed <- Listed,
            running <- client,
            doomed <- Doomed

ImplementsPool == Pool!PoolSpec
ImplementsFairPool == Pool!PoolFairSpec
=============================================================================
