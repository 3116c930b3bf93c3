------------------------ MODULE EngineRestartProofs ------------------------
(***************************************************************************)
(* Proofs about EngineRestart, for any set of tasks: type correctness,     *)
(* that no task is lost (Kept), that no deleted task comes back (Gone) and *)
(* that RestoreCacheDir leaves no task out (Restored).  All are proved     *)
(* task by task: what a task is preserved by does not depend on the others.*)
(***************************************************************************)
EXTENDS EngineRestart, TLAPS

USE DEF At, Goto, Up, Note

LEMMA TypeInit == Init => TypeOK
<1>. SUFFICES ASSUME Init PROVE TypeOK
  OBVIOUS
<1>1. listing \in BOOLEAN
  BY Zenon DEF Init
<1>. QED  BY <1>1 DEF Init, TypeOK, FileState, Proc, Job, Removal, Kind, Phase

LEMMA FileFields ==
    ASSUME NEW f \in File PROVE f.task \in Task /\ f.kind \in {"info", "torrent"}
BY DEF File

(* Listing a task gives it an entry and perhaps a processor. *)
LEMMA ListTypes ==
    ASSUME TypeOK, NEW t \in Task, NEW as \in {"queued", "active"}, List(t, as)
    PROVE  /\ entry' \in [Task -> {"absent", "queued", "active"}]
           /\ proc' \in [Task -> Proc]
           /\ mode' = mode /\ dropped' = dropped
           /\ \A u \in Task :
                /\ entry'[u] = entry[u] \/ (u = t /\ t \notin dropped)
                /\ proc'[u] = proc[u] \/ (u = t /\ proc[u] \in {"none", "loop"} /\ proc'[u] = "wait")
BY DEF List, TypeOK, Proc

(* RestoreAdd puts one whole file there and lists its task. *)
LEMMA RestoreTypes ==
    ASSUME TypeOK, NEW as \in {"queued", "active"}, RestoreAdd(as)
    PROVE  /\ loading \in File /\ loading.task \in Task
           /\ List(loading.task, as)
           /\ info' \in [Task -> FileState] /\ torrent' \in [Task -> FileState]
           /\ \A u \in Task :
                /\ info'[u] = info[u] \/ (u = loading.task /\ info[u] = "none" /\ info'[u] = "full")
                /\ torrent'[u] = torrent[u] \/ (u = loading.task /\ torrent[u] = "none" /\ torrent'[u] = "full")
<1>1. loading \in File /\ loading.task \in Task
  BY FileFields DEF RestoreAdd, TypeOK
<1>2. CASE loading.kind = "info"
  BY <1>1, <1>2 DEF RestoreAdd, Created, TypeOK, FileState
<1>3. CASE loading.kind # "info"
  BY <1>1, <1>3 DEF RestoreAdd, Created, TypeOK, FileState
<1>. QED  BY <1>1, <1>2, <1>3

LEMMA TypeNext == TypeOK /\ [Next]_vars => TypeOK'
<1>. SUFFICES ASSUME TypeOK, [Next]_vars PROVE TypeOK'
  OBVIOUS
<1>a. ASSUME NEW as \in {"queued", "active"}, NEW t \in Task, List(t, as)
      PROVE  /\ entry' \in [Task -> {"absent", "queued", "active"}] /\ proc' \in [Task -> Proc]
             /\ mode' = mode /\ dropped' = dropped
  BY <1>a, ListTypes
<1>b. ASSUME NEW as \in {"queued", "active"}, RestoreAdd(as)
      PROVE  /\ loading.task \in Task /\ List(loading.task, as)
             /\ info' \in [Task -> FileState] /\ torrent' \in [Task -> FileState]
  BY <1>b, RestoreTypes
<1>c. ASSUME NEW t \in Task, NEW k \in Kind, NEW place \in Job, Goto(t, k, place)
      PROVE  job' \in [Task -> [Kind -> Job]]
  BY <1>c DEF TypeOK
<1>. USE NothingAssumption DEF TypeOK, FileState, Proc, Job, Removal, Kind, Phase, files, engine, restorer, user, history
<1>1. CASE Crash \/ Start \/ CloseClient \/ OpenClient
  <2>1. listing' \in BOOLEAN
    BY <1>1, Zenon DEF Crash, Start, CloseClient, OpenClient
  <2>. QED  BY <1>1, <2>1 DEF Crash, Start, CloseClient, OpenClient, NoTasks
<1>2. CASE ReadDir
  <2>1. listing' \in BOOLEAN
    BY <1>2, Zenon DEF ReadDir
  <2>. QED  BY <1>2, <2>1 DEF ReadDir
<1>3. ASSUME NEW f \in File, RestoreLoad(f) PROVE TypeOK'
  BY <1>3 DEF RestoreLoad
<1>4. ASSUME NEW as \in {"queued", "active"}, RestoreAdd(as) PROVE TypeOK'
  <2>1. /\ loading.task \in Task /\ List(loading.task, as)
        /\ info' \in [Task -> FileState] /\ torrent' \in [Task -> FileState]
    BY <1>4, <1>b
  <2>2. /\ entry' \in [Task -> {"absent", "queued", "active"}] /\ proc' \in [Task -> Proc]
        /\ mode' = mode /\ dropped' = dropped
    BY <2>1, <1>a
  <2>3. late' \subseteq Task
    BY <1>4, <2>1 DEF RestoreAdd
  <2>4. loading' = Nothing /\ UNCHANGED <<watch, pending, listing, user, phase, broken, raced>>
    BY <1>4 DEF RestoreAdd
  <2>. QED  BY <2>1, <2>2, <2>3, <2>4
<1>5. ASSUME NEW as \in {"queued", "active"}, NEW t \in Task, NEW k \in Kind, AddSpec(t, k, as)
      PROVE  TypeOK'
  <2>0. job' \in [Task -> [Kind -> Job]]
    BY <1>5, <1>c DEF AddSpec
  <2>1. CASE List(t, as)
    <3>1. /\ entry' \in [Task -> {"absent", "queued", "active"}] /\ proc' \in [Task -> Proc]
          /\ mode' = mode /\ dropped' = dropped
      BY <2>1, <1>a
    <3>. QED  BY <1>5, <2>0, <3>1 DEF AddSpec
  <2>2. CASE UNCHANGED engine
    BY <1>5, <2>0, <2>2 DEF AddSpec
  <2>. QED  BY <1>5, <2>1, <2>2 DEF AddSpec
<1>6. ASSUME NEW t \in Task, AddRequest(t, "info") \/ AddRequest(t, "torrent") \/ WatchEvent(t)
      PROVE  TypeOK'
  <2>1. job' \in [Task -> [Kind -> Job]]
    BY <1>6, <1>c DEF AddRequest, BeginAdd, WatchEvent
  <2>. QED  BY <1>6, <2>1 DEF AddRequest, BeginAdd, WatchEvent
<1>7. ASSUME NEW t \in Task, DropFile(t) \/ RemoveWatched(t) PROVE TypeOK'
  <2>1. job' \in [Task -> [Kind -> Job]]
    BY <1>7, <1>c DEF DropFile, RemoveWatched
  <2>. QED  BY <1>7, <2>1 DEF DropFile, RemoveWatched
<1>8. ASSUME NEW t \in Task, NEW k \in Kind, CreateFile(t, k) \/ CacheFails(t, k) \/ WriteFile(t, k)
      PROVE  TypeOK'
  <2>1. job' \in [Task -> [Kind -> Job]]
    BY <1>8, <1>c DEF CreateFile, CacheFails, WriteFile
  <2>2. info' \in [Task -> FileState] /\ torrent' \in [Task -> FileState]
    BY <1>8 DEF CreateFile, CacheFails, WriteFile, Created, Written
  <2>3. late' \subseteq Task /\ raced' \subseteq Task /\ broken' \subseteq Task
    BY <1>8 DEF CreateFile, CacheFails, WriteFile
  <2>. QED  BY <1>8, <2>1, <2>2, <2>3 DEF CreateFile, CacheFails, WriteFile
<1>9. ASSUME NEW t \in Task, NextWaitTask(t) PROVE TypeOK'
  BY <1>9 DEF NextWaitTask, List
<1>10. ASSUME NEW t \in Task, GotInfo(t) \/ CacheInfo(t) PROVE TypeOK'
  <2>1. CASE GotInfo(t)
    BY <2>1 DEF GotInfo
  <2>2. CASE CacheInfo(t)
    <3>1. torrent' \in [Task -> FileState] /\ late' \subseteq Task
      BY <2>2 DEF CacheInfo, Created
    <3>2. proc' \in [Task -> Proc] /\ dropped' \subseteq Task
      BY <2>2 DEF CacheInfo, Proceed, End
    <3>. QED  BY <2>2, <3>1, <3>2 DEF CacheInfo
  <2>. QED  BY <1>10, <2>1, <2>2
<1>11. ASSUME NEW t \in Task, WriteInfo(t) \/ CacheInfoFails(t) \/ DropTask(t) PROVE TypeOK'
  <2>1. /\ proc' \in [Task -> Proc] /\ dropped' \subseteq Task
        /\ mode' = mode /\ entry' = entry
    BY <1>11 DEF WriteInfo, CacheInfoFails, DropTask, Proceed, End
  <2>2. torrent' \in [Task -> FileState]
    BY <1>11 DEF WriteInfo, CacheInfoFails, DropTask, Written
  <2>3. /\ broken' \subseteq Task
        /\ UNCHANGED <<info, watch, restorer, user, phase, late, raced>>
    BY <1>11 DEF WriteInfo, CacheInfoFails, DropTask
  <2>. QED  BY <2>1, <2>2, <2>3
<1>12. ASSUME NEW t \in Task, ApiDelete(t) \/ Expire(t) PROVE TypeOK'
  BY <1>12 DEF ApiDelete, DeleteTorrent, Expire, BeginRemoval
<1>13. ASSUME NEW t \in Task, RemoveInfo(t) \/ RemoveTorrent(t) \/ ExpireDelete(t) PROVE TypeOK'
  <2>1. removal' \in [Task -> Removal] /\ phase' \in [Task -> Phase]
    BY <1>13 DEF RemoveInfo, RemoveTorrent, ExpireDelete, Out
  <2>2. CASE RemoveInfo(t)
    BY <2>1, <2>2 DEF RemoveInfo
  <2>3. CASE RemoveTorrent(t)
    BY <2>1, <2>3 DEF RemoveTorrent
  <2>4. CASE ExpireDelete(t)
    BY <2>1, <2>4 DEF ExpireDelete, DeleteTorrent
  <2>. QED  BY <1>13, <2>2, <2>3, <2>4
<1>14. CASE UNCHANGED vars
  BY <1>14 DEF vars
<1>. QED  BY <1>1, <1>2, <1>3, <1>4, <1>5, <1>6, <1>7, <1>8, <1>9, <1>10, <1>11, <1>12, <1>13, <1>14 DEF Next

(* Type correctness of the files, the engine and the restorer (engine.go    *)
(* 118-308, engineCache.go 21-187).                                         *)
THEOREM TypeCorrect == Spec => []TypeOK
BY TypeInit, TypeNext, PTL DEF Spec

-----------------------------------------------------------------------------
(* No task is lost. *)

(* A whole file is there, or whoever has created it is about to have        *)
(* written it, or the processor is about to create it.                      *)
Safe(t) ==
    \/ info[t] = "full" \/ torrent[t] = "full"
    \/ proc[t] = "got"
    \/ proc[t] = "writing" /\ torrent[t] = "proc"
    \/ At(t, "info", "write") /\ info[t] = "info"
    \/ At(t, "torrent", "write") /\ torrent[t] = "torrent"
    \/ At(t, "watch", "write") /\ torrent[t] = "watch"

(* Whoever adds a task does so from one of three kinds.                     *)
LEMMA RelyingKinds ==
    ASSUME NEW t
    PROVE  Relying(t) <=> \/ job[t]["info"] \in {"write", "add", "rmWatch"}
                          \/ job[t]["torrent"] \in {"write", "add", "rmWatch"}
                          \/ job[t]["watch"] \in {"write", "add", "rmWatch"}
BY DEF Relying, Kind

(* What adds u from a k goes to place; who else adds t stays where it is.   *)
Moves(t, u, k, place) ==
    /\ job'[t]["info"] = IF u = t /\ k = "info" THEN place ELSE job[t]["info"]
    /\ job'[t]["torrent"] = IF u = t /\ k = "torrent" THEN place ELSE job[t]["torrent"]
    /\ job'[t]["watch"] = IF u = t /\ k = "watch" THEN place ELSE job[t]["watch"]

LEMMA GotoKinds ==
    ASSUME TypeOK, NEW t \in Task, NEW u \in Task, NEW k \in Kind, NEW place, Goto(u, k, place)
    PROVE  Moves(t, u, k, place)
BY DEF TypeOK, Kind, Moves

Clean(t) == t \notin broken /\ t \notin raced

(* What those who add t owe it while they are under way, who is going to    *)
(* complete a torn file, and that a deletion finds nobody relying on what   *)
(* it is about to remove, or the task is raced.                             *)
KeptInv(t) ==
    /\ phase[t] = "owed" /\ Clean(t) => Safe(t) \/ t \in watch
    /\ Relying(t) /\ Clean(t) => Safe(t)
    /\ Doomed(t) /\ t \notin raced => ~Relying(t) /\ (phase[t] = "owed" => t \in watch)
    /\ t \notin broken =>
         /\ \/ info[t] \in {"none", "full"}
            \/ At(t, "info", "write") /\ info[t] = "info"
         /\ \/ torrent[t] \in {"none", "full"}
            \/ torrent[t] = "proc" /\ proc[t] = "writing"
            \/ At(t, "torrent", "write") /\ torrent[t] = "torrent"
            \/ At(t, "watch", "write") /\ torrent[t] = "watch"
    /\ removal[t] \in {"rmTorrent", "expTorrent"} /\ t \notin raced => info[t] \in {"none", "full"}

LEMMA KeptInvNext ==
    ASSUME TypeOK, [Next]_vars, NEW t \in Task, KeptInv(t)
    PROVE  KeptInv(t)'
<1>a. ASSUME NEW as \in {"queued", "active"}, NEW u \in Task, List(u, as)
      PROVE  proc'[t] = proc[t] \/ (proc[t] \in {"none", "loop"} /\ proc'[t] = "wait")
  BY <1>a, ListTypes
<1>b. ASSUME NEW as \in {"queued", "active"}, RestoreAdd(as)
      PROVE  /\ loading.task \in Task /\ List(loading.task, as)
             /\ info'[t] = info[t] \/ (info[t] = "none" /\ info'[t] = "full")
             /\ torrent'[t] = torrent[t] \/ (torrent[t] = "none" /\ torrent'[t] = "full")
  BY <1>b, RestoreTypes
<1>c. /\ Relying(t) <=> \/ job[t]["info"] \in {"write", "add", "rmWatch"}
                        \/ job[t]["torrent"] \in {"write", "add", "rmWatch"}
                        \/ job[t]["watch"] \in {"write", "add", "rmWatch"}
      /\ Relying(t)' <=> \/ job'[t]["info"] \in {"write", "add", "rmWatch"}
                         \/ job'[t]["torrent"] \in {"write", "add", "rmWatch"}
                         \/ job'[t]["watch"] \in {"write", "add", "rmWatch"}
  BY RelyingKinds DEF Relying, Kind
<1>. USE <1>c, NothingAssumption
     DEF TypeOK, KeptInv, Safe, Clean, Own, Doomed, Moves, FileState, Proc, Job,
       Removal, Kind, Phase, files, engine, restorer, user, history
<1>1. CASE Crash
  BY <1>1 DEF Crash, NoTasks, Converting, Writing
<1>2. CASE Start \/ CloseClient \/ OpenClient \/ ReadDir
  BY <1>2 DEF Start, CloseClient, OpenClient, ReadDir, NoTasks
<1>3. ASSUME NEW f \in File, RestoreLoad(f) PROVE KeptInv(t)'
  BY <1>3 DEF RestoreLoad
<1>4. ASSUME NEW as \in {"queued", "active"}, RestoreAdd(as) PROVE KeptInv(t)'
  <2>1. UNCHANGED <<watch, user, phase, broken, raced>>
    BY <1>4 DEF RestoreAdd
  <2>2. /\ loading.task \in Task /\ List(loading.task, as)
        /\ info'[t] = info[t] \/ (info[t] = "none" /\ info'[t] = "full")
        /\ torrent'[t] = torrent[t] \/ (torrent[t] = "none" /\ torrent'[t] = "full")
    BY <1>4, <1>b
  <2>3. proc'[t] = proc[t] \/ (proc[t] \in {"none", "loop"} /\ proc'[t] = "wait")
    BY <2>2, <1>a
  <2>. QED  BY <2>1, <2>2, <2>3
<1>5. ASSUME NEW as \in {"queued", "active"}, NEW u \in Task, NEW k \in Kind, AddSpec(u, k, as)
      PROVE  KeptInv(t)'
  <2>0. PICK place \in {"none", "rmWatch"} : Goto(u, k, place)
    BY <1>5 DEF AddSpec
  <2>1. Moves(t, u, k, place)
    BY <2>0, GotoKinds
  <2>2. proc'[t] = proc[t] \/ (proc[t] \in {"none", "loop"} /\ proc'[t] = "wait")
    BY <1>5, <1>a DEF AddSpec
  <2>3. UNCHANGED <<files, removal, broken, raced>> /\ job[u][k] = "add"
        /\ phase' = [phase EXCEPT ![u] = "owed"]
    BY <1>5 DEF AddSpec
  <2>. QED  BY <2>1, <2>2, <2>3
<1>6. ASSUME NEW u \in Task, NEW k \in Kind, BeginAdd(u, k),
             UNCHANGED <<files, engine, removal, history>>
      PROVE  KeptInv(t)'
  <2>1. Moves(t, u, k, "create")
    BY <1>6, GotoKinds DEF BeginAdd
  <2>. QED  BY <1>6, <2>1 DEF BeginAdd
<1>7. ASSUME NEW u \in Task, AddRequest(u, "info") \/ AddRequest(u, "torrent") \/ WatchEvent(u)
      PROVE  KeptInv(t)'
  <2>1. CASE UNCHANGED <<files, engine, removal, history, job, phase>>
    BY <2>1
  <2>. QED  BY <1>6, <1>7, <2>1 DEF AddRequest, WatchEvent
<1>8. ASSUME NEW u \in Task, DropFile(u) PROVE KeptInv(t)'
  BY <1>8 DEF DropFile
<1>9. ASSUME NEW u \in Task, RemoveWatched(u) PROVE KeptInv(t)'
  <2>1. Moves(t, u, "watch", "none")
    BY <1>9, GotoKinds DEF RemoveWatched
  <2>. QED  BY <1>9, <2>1 DEF RemoveWatched
<1>10. ASSUME NEW u \in Task, NEW k \in Kind, CreateFile(u, k) PROVE KeptInv(t)'
  <2>1. Moves(t, u, k, IF Own(u, k) = "none" THEN "write" ELSE "add")
    BY <1>10, GotoKinds DEF CreateFile
  <2>2. UNCHANGED <<watch, engine, removal, phase, broken>> /\ job[u][k] = "create"
        /\ raced' = IF Doomed(u) THEN raced \cup {u} ELSE raced
    BY <1>10 DEF CreateFile
  <2>3. CASE k = "info"
    <3>1. UNCHANGED torrent /\ info'[t] = IF u = t /\ info[t] = "none" THEN k ELSE info[t]
      BY <1>10, <2>3 DEF CreateFile, Created
    <3>. QED  BY <2>1, <2>2, <2>3, <3>1
  <2>4. CASE k # "info"
    <3>1. UNCHANGED info /\ torrent'[t] = IF u = t /\ torrent[t] = "none" THEN k ELSE torrent[t]
      BY <1>10, <2>4 DEF CreateFile, Created
    <3>. QED  BY <2>1, <2>2, <2>4, <3>1
  <2>. QED  BY <2>3, <2>4
<1>11. ASSUME NEW u \in Task, NEW k \in Kind, CacheFails(u, k) PROVE KeptInv(t)'
  <2>1. Moves(t, u, k, "add")
    BY <1>11, GotoKinds DEF CacheFails
  <2>. QED  BY <1>11, <2>1 DEF CacheFails
<1>12. ASSUME NEW u \in Task, NEW k \in Kind, WriteFile(u, k) PROVE KeptInv(t)'
  <2>1. Moves(t, u, k, "add")
    BY <1>12, GotoKinds DEF WriteFile
  <2>2. UNCHANGED <<watch, engine, removal, phase, history>> /\ job[u][k] = "write"
    BY <1>12 DEF WriteFile
  <2>3. CASE k = "info"
    <3>1. UNCHANGED torrent /\ info'[t] = IF u = t /\ info[t] = k THEN "full" ELSE info[t]
      BY <1>12, <2>3 DEF WriteFile, Written
    <3>. QED  BY <2>1, <2>2, <2>3, <3>1
  <2>4. CASE k # "info"
    <3>1. UNCHANGED info /\ torrent'[t] = IF u = t /\ torrent[t] = k THEN "full" ELSE torrent[t]
      BY <1>12, <2>4 DEF WriteFile, Written
    <3>. QED  BY <2>1, <2>2, <2>4, <3>1
  <2>. QED  BY <2>3, <2>4
<1>13. ASSUME NEW u \in Task, NextWaitTask(u) PROVE KeptInv(t)'
  <2>1. proc'[t] = proc[t] \/ (proc[t] \in {"none", "loop"} /\ proc'[t] = "wait")
    BY <1>13, <1>a DEF NextWaitTask
  <2>. QED  BY <1>13, <2>1 DEF NextWaitTask
<1>14. ASSUME NEW u \in Task, GotInfo(u) \/ CacheInfo(u) PROVE KeptInv(t)'
  <2>1. CASE u # t
    BY <1>14, <2>1 DEF GotInfo, CacheInfo, Created, Proceed, End
  <2>2. CASE u = t /\ GotInfo(t)
    <3>1. /\ info'[t] = "none" /\ proc'[t] = "got" /\ proc[t] = "wait"
          /\ UNCHANGED <<torrent, watch, user, phase, history>>
      BY <2>2 DEF GotInfo
    <3>. QED  BY <3>1
  <2>3. CASE u = t /\ CacheInfo(t)
    BY <2>3 DEF CacheInfo, Created, Proceed, End
  <2>. QED  BY <1>14, <2>1, <2>2, <2>3
<1>15. ASSUME NEW u \in Task, WriteInfo(u) \/ CacheInfoFails(u) \/ DropTask(u) PROVE KeptInv(t)'
  BY <1>15 DEF WriteInfo, CacheInfoFails, DropTask, Written, Proceed, End
<1>16. ASSUME NEW u \in Task, ApiDelete(u) \/ Expire(u) PROVE KeptInv(t)'
  BY <1>16 DEF ApiDelete, DeleteTorrent, Expire, BeginRemoval, Deleting
<1>17. ASSUME NEW u \in Task, RemoveInfo(u) \/ RemoveTorrent(u) \/ ExpireDelete(u) PROVE KeptInv(t)'
  <2>1. CASE u # t
    BY <1>17, <2>1 DEF RemoveInfo, RemoveTorrent, ExpireDelete, DeleteTorrent, Out
  <2>2. CASE u = t /\ RemoveInfo(t)
    <3>1. /\ info'[t] = "none" /\ removal'[t] \in {"rmTorrent", "expTorrent"}
          /\ UNCHANGED <<torrent, watch, engine, job, phase, history>>
      BY <2>2 DEF RemoveInfo
    <3>2. Doomed(t) /\ (Relying(t)' <=> Relying(t))
      BY <2>2, <3>1 DEF RemoveInfo
    <3>. QED  BY <3>1, <3>2
  <2>3. CASE u = t /\ RemoveTorrent(t)
    <3>1. /\ torrent'[t] = "none" /\ removal'[t] \in {"none", "expDelete"}
          /\ UNCHANGED <<info, watch, engine, job, raced>>
          /\ t \in raced => broken' = broken
          /\ phase'[t] = "owed" => phase[t] = "owed"
      BY <2>3 DEF RemoveTorrent, Out
    <3>2. Doomed(t) /\ (Relying(t)' <=> Relying(t))
      BY <2>3, <3>1 DEF RemoveTorrent
    <3>3. t \notin raced => info[t] \in {"none", "full"}
      BY <2>3 DEF RemoveTorrent
    <3>. QED  BY <3>1, <3>2, <3>3
  <2>4. CASE u = t /\ ExpireDelete(t)
    BY <2>4 DEF ExpireDelete, DeleteTorrent, Out
  <2>. QED  BY <1>17, <2>1, <2>2, <2>3, <2>4
<1>18. CASE UNCHANGED vars
  BY <1>18 DEF vars
<1>. QED
  BY <1>1, <1>2, <1>3, <1>4, <1>5, <1>7, <1>8, <1>9, <1>10, <1>11, <1>12, <1>13, <1>14, <1>15, <1>16, <1>17, <1>18
  DEF Next

(* No task that was added is lost, for any number of tasks, however adding  *)
(* it, its processor, its deletion, RestoreCacheDir, crashes and changes of *)
(* the configuration interleave, unless a file could not be written or      *)
(* whoever added it had looked for its file when a deletion had yet to      *)
(* remove that: deleting and removing the files in two steps is the only    *)
(* race that loses a task (server_api.go 167-170, engine.go 266-271,        *)
(* 335-339, engineCache.go 21-57).                                          *)
THEOREM KeptHolds == Spec => []Kept
<1>. DEFINE Inv == TypeOK /\ \A t \in Task : KeptInv(t)
<1>1. Init => Inv
  <2>1. Init => \A t \in Task : KeptInv(t)
    <3>. SUFFICES ASSUME Init, NEW t \in Task PROVE KeptInv(t)
      OBVIOUS
    <3>1. job[t] = [k \in Kind |-> "none"] /\ removal[t] = "none" /\ phase[t] = "out"
      BY DEF Init
    <3>2. ~Relying(t) /\ ~Doomed(t)
      BY <3>1 DEF Relying, Doomed
    <3>. QED  BY <3>1, <3>2 DEF Init, KeptInv
  <2>. QED  BY <2>1, TypeInit
<1>2. Inv /\ [Next]_vars => Inv'
  BY TypeNext, KeptInvNext
<1>3. Inv => Kept
  BY DEF KeptInv, Safe, Clean, Kept, Cached, Converting, Writing, Kind
<1>. QED  BY <1>1, <1>2, <1>3, PTL DEF Spec

-----------------------------------------------------------------------------
(* No deleted task comes back. *)

(* RestoreCacheDir runs with a client; without one nothing is listed. *)
ModeInv ==
    /\ ~RestorerIdle => mode = "up"
    /\ mode # "up" => \A t \in Task : entry[t] = "absent"

LEMMA ModeInvNext == TypeOK /\ ModeInv /\ [Next]_vars => ModeInv'
<1>. SUFFICES ASSUME TypeOK, ModeInv, [Next]_vars PROVE ModeInv'
  OBVIOUS
<1>. USE NothingAssumption DEF TypeOK, ModeInv, RestorerIdle, files, engine, restorer, user, history
<1>1. CASE Crash \/ Start \/ CloseClient \/ OpenClient \/ ReadDir
  BY <1>1 DEF Crash, Start, CloseClient, OpenClient, ReadDir, NoTasks
<1>2. ASSUME NEW f \in File, RestoreLoad(f) PROVE ModeInv'
  BY <1>2 DEF RestoreLoad
<1>3. ASSUME NEW as \in {"queued", "active"}, RestoreAdd(as) PROVE ModeInv'
  BY <1>3, FileFields DEF RestoreAdd, List
<1>4. ASSUME NEW as \in {"queued", "active"}, NEW t \in Task, NEW k \in Kind, AddSpec(t, k, as)
      PROVE  ModeInv'
  BY <1>4 DEF AddSpec, List
<1>5. ASSUME NEW t \in Task, NEW k \in Kind,
             \/ AddRequest(t, "info") \/ AddRequest(t, "torrent") \/ DropFile(t) \/ WatchEvent(t)
             \/ CreateFile(t, k) \/ CacheFails(t, k) \/ WriteFile(t, k) \/ RemoveWatched(t)
             \/ RemoveInfo(t) \/ RemoveTorrent(t) \/ Expire(t)
      PROVE  ModeInv'
  BY <1>5 DEF AddRequest, DropFile, WatchEvent, CreateFile, CacheFails, WriteFile,
       RemoveWatched, RemoveInfo, RemoveTorrent, Expire, BeginRemoval
<1>6. ASSUME NEW t \in Task,
             \/ GotInfo(t) \/ CacheInfo(t) \/ WriteInfo(t) \/ CacheInfoFails(t) \/ DropTask(t)
             \/ NextWaitTask(t) \/ ApiDelete(t) \/ ExpireDelete(t)
      PROVE  ModeInv'
  BY <1>6 DEF GotInfo, CacheInfo, WriteInfo, CacheInfoFails, DropTask, NextWaitTask, List,
       ApiDelete, BeginRemoval, ExpireDelete, DeleteTorrent
<1>7. CASE UNCHANGED vars
  BY <1>7 DEF vars
<1>. QED  BY <1>1, <1>2, <1>3, <1>4, <1>5, <1>6, <1>7 DEF Next, Kind

(* How far a deletion has come, if nothing was cached or listed since it    *)
(* began: who is still there has been told to drop the torrent, or is past  *)
(* the writing of its files.                                                *)
GoneInv(t) ==
    /\ t \in dropped => entry[t] = "absent"
    /\ phase[t] = "out" => ~Adding(t) /\ ~Deleting(t)
    /\ removal[t] \in {"rmInfo", "rmTorrent"} /\ t \notin late =>
         entry[t] = "absent" /\ (proc[t] = "none" \/ t \in dropped)
    /\ removal[t] \in {"expInfo", "expTorrent", "expDelete"} /\ t \notin late =>
         proc[t] \in {"none", "loop"} /\ (proc[t] = "none" => entry[t] = "absent")
    /\ removal[t] \in {"rmTorrent", "expTorrent", "expDelete"} /\ t \notin late => info[t] = "none"
    /\ removal[t] = "expDelete" /\ t \notin late => torrent[t] = "none"
    /\ phase[t] = "out" /\ t \notin late =>
         /\ info[t] = "none" /\ torrent[t] = "none" /\ entry[t] = "absent"
         /\ proc[t] \in {"none", "loop"} \/ t \in dropped

LEMMA GoneInvNext ==
    ASSUME TypeOK, ModeInv, [Next]_vars, NEW t \in Task, GoneInv(t)
    PROVE  GoneInv(t)'
<1>c. /\ Adding(t) <=> \/ job[t]["info"] # "none" \/ job[t]["torrent"] # "none" \/ job[t]["watch"] # "none"
      /\ Adding(t)' <=> \/ job'[t]["info"] # "none" \/ job'[t]["torrent"] # "none" \/ job'[t]["watch"] # "none"
  BY DEF Adding, Kind
<1>. USE <1>c, NothingAssumption
     DEF TypeOK, GoneInv, Deleting, Moves, FileState, Proc, Job, Removal, Kind, Phase,
       files, engine, restorer, user, history
<1>1. CASE Crash
  BY <1>1 DEF Crash, NoTasks
<1>2. CASE Start \/ CloseClient \/ OpenClient \/ ReadDir
  BY <1>2 DEF Start, CloseClient, OpenClient, ReadDir, NoTasks
<1>3. ASSUME NEW f \in File, RestoreLoad(f) PROVE GoneInv(t)'
  BY <1>3 DEF RestoreLoad
<1>4. ASSUME NEW as \in {"queued", "active"}, RestoreAdd(as) PROVE GoneInv(t)'
  BY <1>4, FileFields DEF RestoreAdd, List, FileOf, Created
<1>5. ASSUME NEW as \in {"queued", "active"}, NEW u \in Task, NEW k \in Kind, AddSpec(u, k, as)
      PROVE  GoneInv(t)'
  <2>0. PICK place \in {"none", "rmWatch"} : Goto(u, k, place)
    BY <1>5 DEF AddSpec
  <2>1. Moves(t, u, k, place)
    BY <2>0, GotoKinds
  <2>. QED  BY <1>5, <2>1 DEF AddSpec, List
<1>6. ASSUME NEW u \in Task, NEW k \in Kind, BeginAdd(u, k),
             UNCHANGED <<files, engine, removal, history>>
      PROVE  GoneInv(t)'
  <2>1. Moves(t, u, k, "create")
    BY <1>6, GotoKinds DEF BeginAdd
  <2>. QED  BY <1>6, <2>1 DEF BeginAdd
<1>7. ASSUME NEW u \in Task, AddRequest(u, "info") \/ AddRequest(u, "torrent") \/ WatchEvent(u)
      PROVE  GoneInv(t)'
  <2>1. CASE UNCHANGED <<files, engine, removal, history, job, phase>>
    BY <2>1
  <2>. QED  BY <1>6, <1>7, <2>1 DEF AddRequest, WatchEvent
<1>8. ASSUME NEW u \in Task, DropFile(u) \/ RemoveWatched(u) PROVE GoneInv(t)'
  <2>1. CASE RemoveWatched(u)
    <3>1. Moves(t, u, "watch", "none")
      BY <2>1, GotoKinds DEF RemoveWatched
    <3>. QED  BY <2>1, <3>1 DEF RemoveWatched
  <2>. QED  BY <1>8, <2>1 DEF DropFile
<1>9. ASSUME NEW u \in Task, NEW k \in Kind, CreateFile(u, k) \/ CacheFails(u, k) \/ WriteFile(u, k)
      PROVE  GoneInv(t)'
  <2>1. \E place \in {"write", "add"} : Goto(u, k, place)
    BY <1>9 DEF CreateFile, CacheFails, WriteFile
  <2>2. \E place \in {"write", "add"} : Moves(t, u, k, place)
    BY <2>1, GotoKinds
  <2>3. CASE u # t
    BY <1>9, <2>2, <2>3 DEF CreateFile, CacheFails, WriteFile, Created, Written
  <2>4. CASE u = t
    <3>1. phase[t] # "out"
      BY <1>9, <2>4 DEF CreateFile, CacheFails, WriteFile
    <3>. QED  BY <1>9, <2>2, <2>4, <3>1 DEF CreateFile, CacheFails, WriteFile, Created, Written
  <2>. QED  BY <2>3, <2>4
<1>10. ASSUME NEW u \in Task, NextWaitTask(u) PROVE GoneInv(t)'
  BY <1>10 DEF NextWaitTask, List
<1>11. ASSUME NEW u \in Task, GotInfo(u) \/ CacheInfo(u) PROVE GoneInv(t)'
  BY <1>11 DEF GotInfo, CacheInfo, Created, Proceed, End
<1>12. ASSUME NEW u \in Task, WriteInfo(u) \/ CacheInfoFails(u) PROVE GoneInv(t)'
  BY <1>12 DEF WriteInfo, CacheInfoFails, Written, Proceed, End
<1>13. ASSUME NEW u \in Task, DropTask(u) PROVE GoneInv(t)'
  BY <1>13 DEF DropTask, End, ModeInv
<1>14. ASSUME NEW u \in Task, ApiDelete(u) \/ Expire(u) PROVE GoneInv(t)'
  BY <1>14 DEF ApiDelete, DeleteTorrent, Expire, BeginRemoval
<1>15. ASSUME NEW u \in Task, RemoveInfo(u) \/ RemoveTorrent(u) \/ ExpireDelete(u) PROVE GoneInv(t)'
  BY <1>15 DEF RemoveInfo, RemoveTorrent, ExpireDelete, DeleteTorrent, Out
<1>16. CASE UNCHANGED vars
  BY <1>16 DEF vars
<1>. QED
  BY <1>1, <1>2, <1>3, <1>4, <1>5, <1>7, <1>8, <1>9, <1>10, <1>11, <1>12, <1>13, <1>14, <1>15, <1>16
  DEF Next

(* No deleted task is listed or can be restored, however its deletion races *)
(* with its processor, RestoreCacheDir, crashes and Configure, unless one   *)
(* of them cached or restored it in the meantime (server_api.go 166-170,    *)
(* engine.go 254-271, 335-339).                                             *)
THEOREM GoneHolds == Spec => []Gone
<1>. DEFINE Inv == TypeOK /\ ModeInv /\ \A t \in Task : GoneInv(t)
<1>1. Init => Inv
  BY TypeInit DEF Init, ModeInv, RestorerIdle, GoneInv, Deleting, Adding
<1>2. Inv /\ [Next]_vars => Inv'
  BY TypeNext, ModeInvNext, GoneInvNext
<1>3. Inv => Gone
  BY DEF GoneInv, Gone
<1>. QED  BY <1>1, <1>2, <1>3, PTL DEF Spec
-----------------------------------------------------------------------------
(* Whatever can be restored is. *)

(* A file of t that RestoreCacheDir is still to come to, or t is listed.    *)
Restorable(t, k) ==
    \/ entry[t] # "absent" \/ listing
    \/ [task |-> t, kind |-> k] \in pending
    \/ loading # Nothing /\ loading.task = t

(* Nobody is adding t, unless the watcher has just done so.                 *)
Idle(t) == \A k \in Kind : job[t][k] \in {"none", "rmWatch"}

(* While there is a client and nobody works on t, each whole file of t has  *)
(* been restored or is going to be; a processor whose task is not listed    *)
(* has been told to drop it, and will not complete a torn file either.      *)
RestoredInv(t) ==
    /\ mode = "down" => ~Adding(t) /\ ~Deleting(t) /\ proc[t] = "none"
    /\ t \in dropped => proc[t] # "none"
    /\ mode = "up" /\ proc[t] # "none" => entry[t] # "absent" \/ t \in dropped
    /\ mode = "up" /\ Idle(t) /\ ~Deleting(t) /\ t \notin late =>
         /\ info[t] = "full" => Restorable(t, "info")
         /\ torrent[t] = "full" => Restorable(t, "torrent")
         /\ t \in dropped => torrent[t] # "proc"

(* A file in the directory is one RestoreCacheDir finds there.              *)
LEMMA FilesListed ==
    ASSUME NEW t \in Task, NEW k \in {"info", "torrent"}
    PROVE  LET f == [task |-> t, kind |-> k]
           IN  f \in File /\ FileOf(f) = IF k = "info" THEN info[t] ELSE torrent[t]
BY DEF File, FileOf

LEMMA RestoredInvNext ==
    ASSUME TypeOK, ModeInv, [Next]_vars, NEW t \in Task, GoneInv(t), RestoredInv(t)
    PROVE  RestoredInv(t)'
<1>c. /\ Adding(t) <=> \/ job[t]["info"] # "none" \/ job[t]["torrent"] # "none" \/ job[t]["watch"] # "none"
      /\ Adding(t)' <=> \/ job'[t]["info"] # "none" \/ job'[t]["torrent"] # "none" \/ job'[t]["watch"] # "none"
      /\ Idle(t) <=> /\ job[t]["info"] \in {"none", "rmWatch"}
                     /\ job[t]["torrent"] \in {"none", "rmWatch"}
                     /\ job[t]["watch"] \in {"none", "rmWatch"}
      /\ Idle(t)' <=> /\ job'[t]["info"] \in {"none", "rmWatch"}
                      /\ job'[t]["torrent"] \in {"none", "rmWatch"}
                      /\ job'[t]["watch"] \in {"none", "rmWatch"}
  BY DEF Adding, Idle, Kind
<1>. USE <1>c, NothingAssumption
     DEF TypeOK, RestoredInv, Restorable, GoneInv, Deleting, Moves, FileState, Proc, Job, Removal,
       Kind, Phase, files, engine, restorer, user, history
<1>1. CASE Crash \/ Start \/ CloseClient \/ OpenClient
  BY <1>1 DEF Crash, Start, CloseClient, OpenClient, NoTasks
<1>2. CASE ReadDir
  <2>1. ASSUME NEW k \in {"info", "torrent"},
               (IF k = "info" THEN info[t] ELSE torrent[t]) = "full"
        PROVE  [task |-> t, kind |-> k] \in pending'
    BY <1>2, <2>1, FilesListed DEF ReadDir
  <2>. QED  BY <1>2, <2>1 DEF ReadDir
<1>3. ASSUME NEW f \in File, RestoreLoad(f) PROVE RestoredInv(t)'
  <2>1. ASSUME NEW k \in {"info", "torrent"}, (IF k = "info" THEN info[t] ELSE torrent[t]) = "full",
               Restorable(t, k)
        PROVE  Restorable(t, k)'
    <3>1. CASE f = [task |-> t, kind |-> k]
      BY <1>3, <2>1, <3>1, FilesListed DEF RestoreLoad
    <3>2. CASE f # [task |-> t, kind |-> k]
      BY <1>3, <2>1, <3>2 DEF RestoreLoad
    <3>. QED  BY <3>1, <3>2
  <2>. QED  BY <1>3, <2>1 DEF RestoreLoad
<1>4. ASSUME NEW as \in {"queued", "active"}, RestoreAdd(as) PROVE RestoredInv(t)'
  <2>1. /\ loading \in File /\ loading.task \in Task /\ List(loading.task, as)
        /\ info' \in [Task -> FileState] /\ torrent' \in [Task -> FileState]
        /\ UNCHANGED <<watch, pending, listing, user, phase, broken, raced>>
        /\ late \subseteq late'
    BY <1>4, RestoreTypes DEF RestoreAdd
  <2>2. mode = "up"
    BY <2>1 DEF ModeInv, RestorerIdle
  <2>3. CASE loading.task = t
    <3>1. entry'[t] # "absent" /\ mode' = "up" /\ t \notin dropped'
      <4>1. List(t, as)
        BY <2>1, <2>3
      <4>. QED  BY <2>2, <4>1 DEF List
    <3>. QED  BY <3>1
  <2>4. CASE loading.task # t
    <3>1. info'[t] = info[t] /\ torrent'[t] = torrent[t] /\ (t \in late' => t \in late)
      BY <1>4, <2>1, <2>4 DEF RestoreAdd, Created
    <3>2. entry'[t] = entry[t] /\ proc'[t] = proc[t] /\ mode' = mode /\ dropped' = dropped
      BY <2>1, <2>4 DEF List
    <3>. QED  BY <2>1, <2>2, <2>4, <3>1, <3>2
  <2>. QED  BY <2>3, <2>4
<1>5. ASSUME NEW as \in {"queued", "active"}, NEW u \in Task, NEW k \in Kind, AddSpec(u, k, as)
      PROVE  RestoredInv(t)'
  <2>0. PICK place \in {"none", "rmWatch"} : Goto(u, k, place)
    BY <1>5 DEF AddSpec
  <2>1. Moves(t, u, k, place)
    BY <2>0, GotoKinds
  <2>2. CASE mode = "up" /\ List(u, as)
    <3>1. CASE u = t
      <4>1. entry'[t] # "absent" /\ mode' = mode /\ mode = "up" /\ t \notin dropped'
        BY <2>2, <3>1 DEF List
      <4>. QED  BY <4>1
    <3>2. CASE u # t
      BY <1>5, <2>1, <2>2, <3>2 DEF AddSpec, List
    <3>. QED  BY <3>1, <3>2
  <2>3. CASE mode = "closed" /\ UNCHANGED engine
    BY <1>5, <2>1, <2>3 DEF AddSpec
  <2>. QED  BY <1>5, <2>2, <2>3 DEF AddSpec
<1>6. ASSUME NEW u \in Task, NEW k \in Kind, BeginAdd(u, k),
             UNCHANGED <<files, engine, restorer, removal, history>>
      PROVE  RestoredInv(t)'
  <2>1. Moves(t, u, k, "create")
    BY <1>6, GotoKinds DEF BeginAdd
  <2>. QED  BY <1>6, <2>1 DEF BeginAdd
<1>7. ASSUME NEW u \in Task, AddRequest(u, "info") \/ AddRequest(u, "torrent") \/ WatchEvent(u)
      PROVE  RestoredInv(t)'
  <2>1. CASE UNCHANGED <<files, engine, restorer, removal, history, job, phase>>
    BY <2>1
  <2>. QED  BY <1>6, <1>7, <2>1 DEF AddRequest, WatchEvent
<1>8. ASSUME NEW u \in Task, DropFile(u) \/ RemoveWatched(u) PROVE RestoredInv(t)'
  <2>1. CASE RemoveWatched(u)
    <3>1. Moves(t, u, "watch", "none")
      BY <2>1, GotoKinds DEF RemoveWatched
    <3>. QED  BY <2>1, <3>1 DEF RemoveWatched
  <2>. QED  BY <1>8, <2>1 DEF DropFile
<1>9. ASSUME NEW u \in Task, NEW k \in Kind, CreateFile(u, k) \/ CacheFails(u, k) \/ WriteFile(u, k)
      PROVE  RestoredInv(t)'
  <2>1. \E place \in {"write", "add"} : Goto(u, k, place)
    BY <1>9 DEF CreateFile, CacheFails, WriteFile
  <2>2. \E place \in {"write", "add"} : Moves(t, u, k, place)
    BY <2>1, GotoKinds
  <2>3. CASE u # t
    BY <1>9, <2>2, <2>3 DEF CreateFile, CacheFails, WriteFile, Created, Written
  <2>4. CASE u = t
    <3>1. mode # "down"
      BY <1>9, <2>4 DEF CreateFile, CacheFails, WriteFile
    <3>2. ~Idle(t)'
      BY <2>2, <2>4
    <3>. QED  BY <1>9, <2>4, <3>1, <3>2 DEF CreateFile, CacheFails, WriteFile
  <2>. QED  BY <2>3, <2>4
<1>10. ASSUME NEW u \in Task, NextWaitTask(u) PROVE RestoredInv(t)'
  BY <1>10 DEF NextWaitTask, List
<1>11. ASSUME NEW u \in Task, GotInfo(u) \/ CacheInfo(u) PROVE RestoredInv(t)'
  BY <1>11 DEF GotInfo, CacheInfo, Created, Proceed, End
<1>12. ASSUME NEW u \in Task, WriteInfo(u) \/ CacheInfoFails(u) PROVE RestoredInv(t)'
  BY <1>12 DEF WriteInfo, CacheInfoFails, Written, Proceed, End
<1>13. ASSUME NEW u \in Task, DropTask(u) PROVE RestoredInv(t)'
  BY <1>13 DEF DropTask, End
<1>14. ASSUME NEW u \in Task, ApiDelete(u) \/ Expire(u) PROVE RestoredInv(t)'
  BY <1>14 DEF ApiDelete, DeleteTorrent, Expire, BeginRemoval
<1>15. ASSUME NEW u \in Task, RemoveInfo(u) \/ RemoveTorrent(u) \/ ExpireDelete(u) PROVE RestoredInv(t)'
  BY <1>15 DEF RemoveInfo, RemoveTorrent, ExpireDelete, DeleteTorrent, Out
<1>16. CASE UNCHANGED vars
  BY <1>16 DEF vars
<1>. QED
  BY <1>1, <1>2, <1>3, <1>4, <1>5, <1>7, <1>8, <1>9, <1>10, <1>11, <1>12, <1>13, <1>14, <1>15, <1>16
  DEF Next

(* When RestoreCacheDir has been through, every task that is owed to its    *)
(* user and has a whole file is listed, whatever is added, deleted,         *)
(* converted or dropped while it reads the directory, unless the task was   *)
(* cached or listed while it was being deleted (engineCache.go 138-157,     *)
(* server_api.go 253, server_bg.go 46).                                     *)
THEOREM RestoredHolds == Spec => []Restored
<1>. DEFINE Inv == TypeOK /\ ModeInv /\ \A t \in Task : GoneInv(t) /\ RestoredInv(t)
<1>1. Init => Inv
  BY TypeInit DEF Init, ModeInv, RestorerIdle, GoneInv, Deleting, Adding, RestoredInv
<1>2. Inv /\ [Next]_vars => Inv'
  BY TypeNext, ModeInvNext, GoneInvNext, RestoredInvNext
<1>3. Inv => Restored
  BY DEF RestoredInv, Restorable, Restored, Cached, RestorerIdle, Adding, Idle
<1>. QED  BY <1>1, <1>2, <1>3, PTL DEF Spec
=============================================================================
