--------------------------- MODULE EngineRestart ---------------------------
(***************************************************************************)
(* What outlives the process: the cache files of the tasks                 *)
(* (engine/engineCache.go), the watched directory (engine/engineUtil.go)   *)
(* and how the list of tasks is restored from them, when the server starts *)
(* and after Configure has replaced the torrent client.                    *)
(*                                                                         *)
(* A file is created by one step and written by the next, and the process  *)
(* may stop between any two steps.  On one task there may work at a time a *)
(* request that adds its magnet link, one that adds its .torrent file, the *)
(* watcher, a deletion or expiry, its torrentEventProcessor and the one    *)
(* RestoreCacheDir, whether the task is listed or not.  (Bounds: one       *)
(* request of a kind, MaxAdding of all kinds, and one deletion or expiry,  *)
(* of a task at a time.)                                                   *)
(*                                                                         *)
(* Abstracted: MaxConcurrentTask (a task that is added runs or queues),    *)
(* the order of the queue and move2wait, all in TaskEngine; of the         *)
(* processors of one task all but one; a deletion between the steps of     *)
(* NextWaitTask.  DownloadDirectory, and with it the cache directory,      *)
(* stays, and RestoreCacheDir puts a file that has gone back in one step.  *)
(* The three seconds that Configure sleeps after closing the client are    *)
(* taken to be longer than a processor needs to write one cache file.      *)
(***************************************************************************)
EXTENDS Naturals, FiniteSets

CONSTANTS
    Task,      \* infohashes
    MaxAdding, \* bound: how many requests and events may add a task at a time
    Nothing    \* the restorer reads no file

File == [task : Task, kind : {"info", "torrent"}]

ASSUME NothingAssumption == Nothing \notin File

VARIABLES
    info,     \* <ih>.info: "none", "full" or who created it and has not written it
    torrent,  \* <ih>.torrent
    watch,    \* tasks with a .torrent file in the watched directory
    event,    \* tasks of whose file there the watcher has yet to hear
    mode,     \* "down", "up", or "closed": Configure has closed the client
    entry,    \* e.ts: "absent", "queued" or "active"
    proc,     \* where the torrentEventProcessor of each task is
    dropped,  \* tasks whose dropWait is closed while their processor lives
    job,      \* where each request or watcher event that adds a task is
    removal,  \* where the deletion or expiry of each task is
    pending,  \* files RestoreCacheDir has listed and not yet restored
    listing,  \* RestoreCacheDir has yet to read the directory
    loading,  \* the file it has read and is about to add
    phase,    \* what the user was told last, see Phase
    broken,   \* history: tasks of which a cache file was not written: it could
              \* not be, or the process stopped before
    late,     \* history: tasks that were cached or listed again after their
              \* deletion had begun
    raced     \* history: tasks of which a request or the watcher had looked for
              \* the cache file when a deletion had yet to remove it

(* The directories, the engine in memory, RestoreCacheDir, the users. *)
files == <<info, torrent, watch>>
engine == <<mode, entry, proc, dropped>>
restorer == <<pending, listing, loading>>
user == <<event, job, removal>>
history == <<broken, late, raced>>
vars == <<files, engine, restorer, user, phase, history>>

(* What a task is added from: a magnet link, a .torrent file that is sent,  *)
(* or one that lies in the watched directory.                               *)
Kind == {"info", "torrent", "watch"}

(* States of a file; places of a processor, of an add and of a removal. *)
FileState == {"none", "full", "proc"} \cup Kind
Proc == {"none", "wait", "got", "writing", "loop"}
Job == {"none", "create", "write", "add", "rmWatch"}
Removal == {"none", "rmInfo", "rmTorrent", "expInfo", "expTorrent", "expDelete"}

(* "owed": added, or handed over in the watched directory; "out": deleted,  *)
(* or never added; "open": a request to add or delete has not been answered.*)
Phase == {"out", "owed", "open"}

(* The ranges of the variables; engine.go 56-63, engineCache.go 21-57. *)
TypeOK ==
    /\ info \in [Task -> FileState] /\ torrent \in [Task -> FileState]
    /\ watch \subseteq Task /\ event \subseteq Task
    /\ mode \in {"down", "up", "closed"}
    /\ entry \in [Task -> {"absent", "queued", "active"}]
    /\ proc \in [Task -> Proc]
    /\ dropped \subseteq Task
    /\ job \in [Task -> [Kind -> Job]]
    /\ removal \in [Task -> Removal]
    /\ pending \subseteq File /\ listing \in BOOLEAN
    /\ loading \in File \cup {Nothing}
    /\ phase \in [Task -> Phase]
    /\ broken \subseteq Task /\ late \subseteq Task /\ raced \subseteq Task

(* A first start: the directories are empty. *)
Init ==
    /\ info = [t \in Task |-> "none"] /\ torrent = [t \in Task |-> "none"]
    /\ watch = {} /\ event = {}
    /\ mode = "down"
    /\ entry = [t \in Task |-> "absent"]
    /\ proc = [t \in Task |-> "none"] /\ dropped = {}
    /\ job = [t \in Task |-> [k \in Kind |-> "none"]]
    /\ removal = [t \in Task |-> "none"]
    /\ pending = {} /\ listing = FALSE /\ loading = Nothing
    /\ phase = [t \in Task |-> "out"]
    /\ broken = {} /\ late = {} /\ raced = {}

-----------------------------------------------------------------------------
(* Adding a task. *)

(* Where what adds t from a k is. *)
At(t, k, place) == job[t][k] = place
Goto(t, k, place) == job' = [job EXCEPT ![t][k] = place]
Up == mode # "down"

(* Something is adding t; it has looked for the cache file of t; it has     *)
(* created that and not written it.                                         *)
Adding(t) == \E k \in Kind : ~At(t, k, "none")
Relying(t) == \E k \in Kind : job[t][k] \in {"write", "add", "rmWatch"}
Writing(t) == \E k \in Kind : At(t, k, "write")

(* A deletion or expiry of t is under way; it has yet to remove files.      *)
Deleting(t) == removal[t] # "none"
Doomed(t) == removal[t] \in {"rmInfo", "rmTorrent", "expInfo", "expTorrent"}

(* A history in which t is noted if something holds now. *)
Note(hist, t, when) == IF when THEN hist \cup {t} ELSE hist

(* A request or event begins to add t, listed or not; what is owed stays    *)
(* owed, anything else is open until the answer.                            *)
BeginAdd(t, k) ==
    /\ Up /\ At(t, k, "none")
    /\ Cardinality({j \in Kind : ~At(t, j, "none")}) < MaxAdding
    /\ Goto(t, k, "create")
    /\ phase' = [phase EXCEPT ![t] = IF @ = "owed" THEN @ ELSE "open"]

(* A magnet link or the contents of a .torrent file. *)
AddRequest(t, k) ==
    /\ BeginAdd(t, k)
    /\ UNCHANGED <<files, engine, restorer, event, removal, history>>

(* A user puts a .torrent file into the watched directory, or writes it     *)
(* again; a server that is down will not hear of it.                        *)
DropFile(t) ==
    /\ watch' = watch \cup {t}
    /\ event' = IF Up THEN event \cup {t} ELSE event
    /\ phase' = [phase EXCEPT ![t] = "owed"]
    /\ UNCHANGED <<info, torrent, engine, restorer, job, removal, history>>

(* StartTorrentWatcher's goroutine: a write event for a file that is there. *)
WatchEvent(t) ==
    /\ t \in event /\ At(t, "watch", "none")
    /\ event' = event \ {t}
    /\ IF t \in watch THEN BeginAdd(t, "watch") ELSE UNCHANGED <<job, phase>>
    /\ UNCHANGED <<files, engine, restorer, removal, history>>

(* newMagnetCacheFile, newTorrentCacheFile: os.Create, unless the file is   *)
(* there, whatever is in it ...                                             *)
Created(file, t, who) == [file EXCEPT ![t] = IF @ = "none" THEN who ELSE @]
Own(t, k) == IF k = "info" THEN info[t] ELSE torrent[t]

(* Mutant of CreateFile: what comes from the watched directory is not cached. *)
CreateFileAtHome(t, k) ==
    /\ At(t, k, "create")
    /\ Goto(t, k, IF k = "watch" \/ Own(t, k) # "none" THEN "add" ELSE "write")
    /\ info' = IF k = "info" THEN Created(info, t, k) ELSE info
    /\ torrent' = IF k = "torrent" THEN Created(torrent, t, k) ELSE torrent
    /\ late' = Note(late, t, Deleting(t))
    /\ raced' = Note(raced, t, Doomed(t))
    /\ UNCHANGED <<watch, engine, restorer, event, removal, phase, broken>>

(* The file of the kind that is added. *)
CreateFile(t, k) ==
    /\ At(t, k, "create")
    /\ Goto(t, k, IF Own(t, k) = "none" THEN "write" ELSE "add")
    /\ \/ k = "info" /\ info' = Created(info, t, k) /\ UNCHANGED torrent
       \/ k # "info" /\ torrent' = Created(torrent, t, k) /\ UNCHANGED info
    /\ late' = Note(late, t, Deleting(t))
    /\ raced' = Note(raced, t, Doomed(t))
    /\ UNCHANGED <<watch, engine, restorer, event, removal, phase, broken>>

(* The file cannot be created, or what was created cannot be written: this  *)
(* is logged.                                                               *)
CacheFails(t, k) ==
    /\ At(t, k, "write") \/ (At(t, k, "create") /\ Own(t, k) = "none")
    /\ Goto(t, k, "add")
    /\ broken' = broken \cup {t}
    /\ raced' = Note(raced, t, Doomed(t))
    /\ UNCHANGED <<files, engine, restorer, event, removal, phase, late>>

(* ... and the writing of what was created, which may have been removed     *)
(* since, and created again by somebody else.                               *)
Written(file, t, who) == [file EXCEPT ![t] = IF @ = who THEN "full" ELSE @]

WriteFile(t, k) ==
    /\ At(t, k, "write")
    /\ Goto(t, k, "add")
    /\ \/ k = "info" /\ info' = Written(info, t, k) /\ UNCHANGED torrent
       \/ k # "info" /\ torrent' = Written(torrent, t, k) /\ UNCHANGED info
    /\ UNCHANGED <<watch, engine, restorer, event, removal, phase, history>>

(* newTorrentBySpec: the task queues, or runs with a processor; if it runs  *)
(* already, another processor begins, and of the two the one that is not    *)
(* yet past GotInfo is followed.  (Bound: a processor that has been told to *)
(* drop the task has done so.)                                              *)
List(t, as) ==
    /\ t \notin dropped
    /\ entry' = [entry EXCEPT ![t] = as]
    /\ proc' = [proc EXCEPT ![t] = IF as = "active" /\ @ \in {"none", "loop"} THEN "wait" ELSE @]
    /\ UNCHANGED <<mode, dropped>>

(* The request is answered; a file that was taken over from the watched     *)
(* directory is removed from there if the task could be started.  While the *)
(* client is closed newTorrentBySpec panics: NewTorrentByFilePath recovers  *)
(* and returns no error either, and a request is taken to be answered.      *)
AddSpec(t, k, as) ==
    /\ At(t, k, "add")
    /\ \/ mode = "up" /\ List(t, as)
       \/ mode = "closed" /\ as = "active" /\ UNCHANGED engine
    /\ Goto(t, k, IF k = "watch" /\ as = "active" THEN "rmWatch" ELSE "none")
    /\ phase' = [phase EXCEPT ![t] = "owed"]
    /\ late' = Note(late, t, Deleting(t))
    /\ UNCHANGED <<files, restorer, event, removal, broken, raced>>

(* The watcher removes the file it has added. *)
RemoveWatched(t) ==
    /\ At(t, "watch", "rmWatch")
    /\ watch' = watch \ {t}
    /\ Goto(t, "watch", "none")
    /\ UNCHANGED <<info, torrent, engine, restorer, event, removal, phase, history>>

(* NextWaitTask starts a queued task from its cache file. *)
NextWaitTask(t) ==
    /\ mode = "up" /\ entry[t] = "queued"
    /\ info[t] = "full" \/ torrent[t] = "full"
    /\ List(t, "active")
    /\ late' = Note(late, t, Deleting(t))
    /\ UNCHANGED <<files, restorer, user, phase, broken, raced>>

-----------------------------------------------------------------------------
(* torrentEventProcessor. *)

(* It is replacing the .info file by the .torrent file. *)
Converting(t) == proc[t] \in {"got", "writing"}

(* GotInfo, first half: the select may choose it although dropWait or       *)
(* closeSync is closed as well.  removeMagnetCache ...                      *)
GotInfo(t) ==
    /\ proc[t] = "wait"
    /\ info' = [info EXCEPT ![t] = "none"]
    /\ proc' = [proc EXCEPT ![t] = "got"]
    /\ UNCHANGED <<torrent, watch, mode, entry, dropped, restorer, user, phase, history>>

(* The processor ends, or goes on; it ends if the client has been closed.   *)
End(t) ==
    /\ proc' = [proc EXCEPT ![t] = "none"]
    /\ dropped' = dropped \ {t}
Proceed(t) ==
    IF mode = "up" THEN proc' = [proc EXCEPT ![t] = "loop"] /\ UNCHANGED dropped ELSE End(t)

(* ... and newTorrentCacheFile: created, ... *)
CacheInfo(t) ==
    /\ proc[t] = "got"
    /\ torrent' = Created(torrent, t, "proc")
    /\ IF torrent[t] = "none"
       THEN proc' = [proc EXCEPT ![t] = "writing"] /\ UNCHANGED dropped
       ELSE Proceed(t)
    /\ late' = Note(late, t, t \in dropped \/ Deleting(t))
    /\ UNCHANGED <<info, watch, mode, entry, restorer, user, phase, broken, raced>>

(* ... and written, ... *)
WriteInfo(t) ==
    /\ proc[t] = "writing"
    /\ torrent' = Written(torrent, t, "proc")
    /\ Proceed(t)
    /\ UNCHANGED <<info, watch, mode, entry, restorer, user, phase, history>>

(* ... or not. *)
CacheInfoFails(t) ==
    /\ proc[t] = "writing" \/ (proc[t] = "got" /\ torrent[t] = "none")
    /\ Proceed(t)
    /\ broken' = broken \cup {t}
    /\ UNCHANGED <<files, mode, entry, restorer, user, phase, late, raced>>

(* dropWait or closeSync is closed. *)
DropTask(t) ==
    /\ proc[t] \in {"wait", "loop"}
    /\ t \in dropped \/ mode = "closed"
    /\ End(t)
    /\ UNCHANGED <<files, mode, entry, restorer, user, phase, history>>

-----------------------------------------------------------------------------
(* Deleting a task. *)

(* Mutant of DeleteTorrent: the processor is not told to drop the torrent. *)
DeleteTorrentOnly(t) ==
    /\ entry' = [entry EXCEPT ![t] = "absent"]
    /\ UNCHANGED <<mode, proc, dropped>>

(* The entry is removed and its dropWait closed. *)
DeleteTorrent(t) ==
    /\ entry' = [entry EXCEPT ![t] = "absent"]
    /\ dropped' = IF proc[t] = "none" THEN dropped ELSE dropped \cup {t}
    /\ UNCHANGED <<mode, proc>>

(* A deletion begins: what was late or raced before is no longer.           *)
BeginRemoval(t, place) ==
    /\ mode = "up" /\ ~Deleting(t)
    /\ removal' = [removal EXCEPT ![t] = place]
    /\ phase' = [phase EXCEPT ![t] = "open"]
    /\ late' = late \ {t}
    /\ raced' = Note(raced \ {t}, t, Relying(t))
    /\ UNCHANGED <<files, restorer, event, job, broken>>

(* The delete request: the entry first, ... *)
ApiDelete(t) ==
    /\ entry[t] # "absent"
    /\ DeleteTorrent(t)
    /\ BeginRemoval(t, "rmInfo")

(* stopRemoveTask of a task that has seeded enough: the files first, ... *)
Expire(t) ==
    /\ proc[t] = "loop"
    /\ BeginRemoval(t, "expInfo")
    /\ UNCHANGED engine

(* ... RemoveCache, whichever came first: removeMagnetCache ... *)
RemoveInfo(t) ==
    /\ removal[t] \in {"rmInfo", "expInfo"}
    /\ info' = [info EXCEPT ![t] = "none"]
    /\ removal' = [removal EXCEPT ![t] = IF @ = "rmInfo" THEN "rmTorrent" ELSE "expTorrent"]
    /\ UNCHANGED <<torrent, watch, engine, restorer, event, job, phase, history>>

(* The task is out, unless it has been added since or is just being added.  *)
Out(t) ==
    phase' = [phase EXCEPT ![t] = IF @ = "open" /\ ~Adding(t) THEN "out" ELSE @]

(* ... and removeTorrentCache, after which the delete request is answered.  *)
RemoveTorrent(t) ==
    /\ removal[t] \in {"rmTorrent", "expTorrent"}
    /\ torrent' = [torrent EXCEPT ![t] = "none"]
    /\ removal' = [removal EXCEPT ![t] = IF @ = "rmTorrent" THEN "none" ELSE "expDelete"]
    /\ IF removal[t] = "rmTorrent" THEN Out(t) ELSE UNCHANGED phase
    /\ broken' = IF t \in raced THEN broken ELSE broken \ {t}
    /\ UNCHANGED <<info, watch, engine, restorer, event, job, late, raced>>

(* ... the entry last, if nobody was faster. *)
ExpireDelete(t) ==
    /\ removal[t] = "expDelete"
    /\ IF entry[t] = "absent" THEN UNCHANGED engine ELSE DeleteTorrent(t)
    /\ removal' = [removal EXCEPT ![t] = "none"]
    /\ Out(t)
    /\ UNCHANGED <<files, restorer, event, job, history>>

-----------------------------------------------------------------------------
(* Stopping, starting, configuring. *)

(* e.ts is a new map. *)
NoTasks == entry' = [t \in Task |-> "absent"]

(* The process stops; the files stay as they are. *)
Crash ==
    /\ Up
    /\ mode' = "down"
    /\ NoTasks
    /\ proc' = [t \in Task |-> "none"] /\ dropped' = {}
    /\ job' = [t \in Task |-> [k \in Kind |-> "none"]]
    /\ removal' = [t \in Task |-> "none"]
    /\ event' = {} /\ pending' = {} /\ listing' = FALSE /\ loading' = Nothing
    /\ broken' = broken \cup {t \in Task : Writing(t) \/ Converting(t)}
    /\ UNCHANGED <<files, phase, late, raced>>

(* Run: Configure, then go RestoreCacheDir. *)
Start ==
    /\ mode = "down"
    /\ mode' = "up"
    /\ listing' = TRUE
    /\ UNCHANGED <<files, entry, proc, dropped, pending, loading, user, phase, history>>

(* RestoreCacheDir has finished. *)
RestorerIdle == ~listing /\ pending = {} /\ loading = Nothing

(* Configure at run time closes the client and forgets the tasks.  (Bound:  *)
(* not before an earlier RestoreCacheDir has finished.)                     *)
CloseClient ==
    /\ mode = "up" /\ RestorerIdle
    /\ mode' = "closed"
    /\ NoTasks
    /\ UNCHANGED <<files, proc, dropped, restorer, user, phase, history>>

(* Three seconds later there is a new client, and RestoreCacheDir runs. *)
OpenClient ==
    /\ mode = "closed"
    /\ \A t \in Task : proc[t] = "none"
    /\ mode' = "up"
    /\ listing' = TRUE
    /\ UNCHANGED <<files, entry, proc, dropped, pending, loading, user, phase, history>>

-----------------------------------------------------------------------------
(* RestoreCacheDir. *)

(* What is in a file. *)
FileOf(f) == IF f.kind = "info" THEN info[f.task] ELSE torrent[f.task]

(* Mutant of ReadDir: .info files are not looked for. *)
ReadDirTorrents ==
    /\ listing
    /\ listing' = FALSE
    /\ pending' = {f \in File : f.kind = "torrent" /\ FileOf(f) # "none"}
    /\ UNCHANGED <<files, engine, loading, user, phase, history>>

(* The names that are there now. *)
ReadDir ==
    /\ listing
    /\ listing' = FALSE
    /\ pending' = {f \in File : FileOf(f) # "none"}
    /\ UNCHANGED <<files, engine, loading, user, phase, history>>

(* Mutant of RestoreLoad: the task is kept, not the file. *)
RestoreLoadName(f) ==
    /\ f \in pending /\ loading = Nothing
    /\ pending' = pending \ {f}
    /\ loading' = IF FileOf(f) = "full" THEN f.task ELSE Nothing
    /\ UNCHANGED <<files, engine, listing, user, phase, history>>

(* RestoreTask reads the file; one that is gone or torn is passed over. *)
RestoreLoad(f) ==
    /\ f \in pending /\ loading = Nothing
    /\ pending' = pending \ {f}
    /\ loading' = IF FileOf(f) = "full" THEN f ELSE Nothing
    /\ UNCHANGED <<files, engine, listing, user, phase, history>>

(* NewMagnet or NewTorrentByFilePath put the file back if it is gone by     *)
(* now, and add the task.                                                   *)
RestoreAdd(as) ==
    /\ loading # Nothing
    /\ LET t == loading.task IN
       /\ List(t, as)
       /\ IF loading.kind = "info"
          THEN info' = Created(info, t, "full") /\ UNCHANGED torrent
          ELSE torrent' = Created(torrent, t, "full") /\ UNCHANGED info
       /\ late' = Note(late, t, FileOf(loading) # "full" \/ Deleting(t))
    /\ loading' = Nothing
    /\ UNCHANGED <<watch, pending, listing, user, phase, broken, raced>>

-----------------------------------------------------------------------------
Next ==
    \/ Crash \/ Start \/ CloseClient \/ OpenClient \/ ReadDir
    \/ \E f \in File : RestoreLoad(f)
    \/ \E as \in {"queued", "active"} :
         RestoreAdd(as) \/ \E t \in Task, k \in Kind : AddSpec(t, k, as)
    \/ \E t \in Task, k \in Kind : CreateFile(t, k) \/ CacheFails(t, k) \/ WriteFile(t, k)
    \/ \E t \in Task :
         \/ AddRequest(t, "info") \/ AddRequest(t, "torrent")
         \/ DropFile(t) \/ WatchEvent(t) \/ RemoveWatched(t) \/ NextWaitTask(t)
         \/ GotInfo(t) \/ CacheInfo(t) \/ WriteInfo(t) \/ CacheInfoFails(t) \/ DropTask(t)
         \/ ApiDelete(t) \/ Expire(t)
         \/ RemoveInfo(t) \/ RemoveTorrent(t) \/ ExpireDelete(t)

Spec == Init /\ [][Next]_vars
-----------------------------------------------------------------------------
(* Properties. *)

(* One of its cache files is there and whole. *)
Cached(t) == info[t] = "full" \/ torrent[t] = "full"

(* At every moment, whether the process runs or not, a task that the user   *)
(* was told is added can be restored from a cache file, or still lies in    *)
(* the watched directory, or its .info is just being replaced by its        *)
(* .torrent file, or somebody else who adds it is just writing a file       *)
(* (engineCache.go 21-57, engine.go 266-271, engineUtil.go 150-152): it is  *)
(* lost only if a file could not be written, or the process stopped in the  *)
(* middle of one of two writes, or if it was added while it was being       *)
(* deleted.  This last is a race the code has: DeleteTorrent and            *)
(* RemoveCache are two steps (server_api.go 167-170, in the other order in  *)
(* stopRemoveTask), and whoever looks for the cache file before RemoveCache *)
(* has removed it keeps the old file, is told that the task is added, and   *)
(* loses the file.  raced holds those tasks, until they are deleted again,  *)
(* and no other.                                                            *)
Kept ==
    \A t \in Task : phase[t] = "owed" /\ t \notin broken /\ t \notin raced =>
        Cached(t) \/ t \in watch \/ Converting(t) \/ Writing(t)

(* A deleted task that nobody is adding has no cache file and is not        *)
(* listed, neither now nor after a restart, unless it was cached or         *)
(* restored when its deletion had begun (server_api.go 166-170, engine.go   *)
(* 254-271, 335-339).                                                       *)
Gone ==
    \A t \in Task : phase[t] = "out" /\ t \notin late =>
        info[t] = "none" /\ torrent[t] = "none" /\ entry[t] = "absent"

(* Once RestoreCacheDir has been through, after a start as after a change   *)
(* of the configuration, every task that can be restored is listed again,   *)
(* unless it was added, or restored, while it was being deleted             *)
(* (engineCache.go 138-157, server_api.go 253, server_bg.go 46).            *)
Restored ==
    mode = "up" /\ RestorerIdle => \A t \in Task :
        phase[t] = "owed" /\ Cached(t) /\ ~Adding(t) /\ ~Deleting(t) /\ t \notin late =>
            entry[t] # "absent"
=============================================================================
