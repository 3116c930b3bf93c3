--------------------------- MODULE TaskCalmProofs ---------------------------
(***************************************************************************)
(* What a task engine at rest looks like, when its users wait for one      *)
(* request to be settled before they make the next: every task is where it *)
(* is shown to be, and no slot is left free while a task waits for one.    *)
(***************************************************************************)
EXTENDS TaskEngineProofs

(* Requests add, delete and configure; tasks do not expire and the torrent *)
(* library takes every specification.                                      *)
CalmUse == Calm /\ Ops \cap {"move2wait", "expire", "specfail"} = {}

(* The places between a request or a dropped torrent and the moment in      *)
(* which it is decided what becomes of the slot.                            *)
Searching == {"next", "pop", "stat", "load", "cache"}
Starting == {"lock", "lookup", "insert", "mark", "spec"} \cup Searching
Working(g) == pc[g] \in Starting \cup Queueing \cup {"return"}
WithTask(g) == Working(g) /\ pc[g] \notin {"next", "pop"}

(* A processor that has been told to drop its torrent. *)
Stopping(g) == pc[g] \in Processor /\ ref[g] = "closed"
Changing(g) == Working(g) \/ Stopping(g)

(* Between two requests one goroutine at a time changes which tasks run,    *)
(* and next to it one may remove the files of the task that was deleted.    *)
OneInv ==
    /\ \A g, h \in Goroutine : Changing(g) /\ Changing(h) => g = h
    /\ \A g, h \in Goroutine : At(g, "rmCache") /\ At(h, "rmCache") => g = h
    /\ \A g \in Goroutine : pc[g] \notin {"expCache", "expDelete", "pushWait", "loadMeta"}
    /\ \A g \in looping : Working(g)

(* The task that was deleted stays so while its files are removed. *)
GoneInv == \A g \in Goroutine : At(g, "rmCache") =>
    /\ ts[job[g].ih] = "absent"
    /\ \A h \in Goroutine : WithTask(h) => job[g].ih # job[h].ih

(* One processor per task, none for the task that is being started.         *)
ProcInv ==
    /\ \A g, h \in Goroutine :
         pc[g] \in Processor /\ pc[h] \in Processor /\ job[g].ih = job[h].ih => g = h
    /\ \A g \in Goroutine : pc[g] \in Processor =>
         /\ job[g].ih \in client
         /\ ts[job[g].ih] = (IF Stopping(g) THEN "absent" ELSE "active")
    /\ \A g, h \in Goroutine : pc[g] \in Processor /\ WithTask(h) => job[g].ih # job[h].ih

(* A task shown as active runs or is about to, a task shown as queueing     *)
(* waits or has just been taken out of the wait list to be started.         *)
ShownInv == \A ih \in Task :
    /\ ts[ih] = "active" =>
         \E g \in Goroutine : pc[g] \in Processor \cup {"spec"} /\ job[g].ih = ih
    /\ ts[ih] = "queueing" =>
         \/ Waits(waitList, ih)
         \/ \E g \in Goroutine :
              pc[g] \in {"stat", "load", "cache", "lock", "lookup", "mark"} /\ job[g].ih = ih
    /\ Waits(waitList, ih) => ts[ih] # "active"

(* How far the goroutine has come that starts or queues a task. *)
StepOf(g) ==
    /\ pc[g] \in {"stat", "load", "cache", "mark"} => ts[job[g].ih] = "queueing"
    /\ pc[g] \in {"inList", "push", "insert"} => ts[job[g].ih] = "absent"
    /\ pc[g] = "spec" => ts[job[g].ih] = "active"
    /\ pc[g] \in {"lock", "lookup"} => ts[job[g].ih] # "active"
    /\ pc[g] = "lock" /\ ts[job[g].ih] = "queueing" => IsReadyAddTask
    /\ pc[g] \in {"pop", "stat", "load", "cache"} => IsReadyAddTask
    /\ pc[g] \in Queueing => queueing[g]
    /\ pc[g] = "mark" => ~queueing[g] /\ ref[g] = "listed"
    /\ pc[g] \in {"lookup", "insert"} /\ queueing[g] => ts[job[g].ih] = "absent" /\ Waits(waitList, job[g].ih)
    /\ pc[g] \in Queueing \cup {"lookup", "insert"} /\ queueing[g] => ~IsReadyAddTask
    /\ pc[g] = "return" => ~IsReadyAddTask
    /\ pc[g] \in {"stat", "load", "cache", "lock", "mark", "inList", "push", "spec"} => ~Waits(waitList, job[g].ih)
    /\ pc[g] \in {"lookup", "insert"} /\ ~queueing[g] => ~Waits(waitList, job[g].ih)

StepInv == \A g \in Goroutine : StepOf(g)

(* Waiting tasks, and the one being started or queued, have their file.     *)
CacheInv ==
    /\ \A i \in 1..Len(waitList) : waitList[i] \in cacheDir
    /\ \A g \in Goroutine :
         pc[g] \in {"stat", "load", "cache", "lock", "inList", "push"} => job[g] \in cacheDir

(* No slot is left free while a task waits, but the one for which somebody  *)
(* is looking for a task.                                                   *)
SlotsInv ==
    waitList # <<>> /\ looping = {} =>
        \/ Cardinality(client) >= maxTask
        \/ Cardinality(client) + 1 >= maxTask /\ \E g \in Goroutine : pc[g] \in Starting

CalmInv == OneInv /\ GoneInv /\ ProcInv /\ ShownInv /\ StepInv /\ CacheInv

LEMMA CalmInvInit == Init => CalmInv /\ SlotsInv
BY TypeInvInit DEF Init, CalmInv, OneInv, GoneInv, ProcInv, ShownInv, StepInv, StepOf, CacheInv,
    SlotsInv, Changing, Working, Stopping, WithTask, Starting, Searching, Queueing, Processor, At, Waits

-----------------------------------------------------------------------------
(* The steps that are left under calm use. *)

CalmStep == \E g \in Goroutine :
    \/ \E elem \in TaskElem : AddTask(g, elem)
    \/ \E ih \in Task : ApiDelete(g, ih)
    \/ \E m \in Limits : ApiConfigure(g, m)
    \/ LockTask(g) \/ IsTaskInList(g) \/ PushPretask(g)
    \/ UpsertLookup(g) \/ UpsertInsert(g) \/ UpsertMark(g)
    \/ QueuedReturn(g) \/ AddSpec(g) \/ GotInfo(g) \/ CacheInfo(g) \/ DropTask(g)
    \/ ApiRemoveCache(g)
    \/ NextCheck(g) \/ NextPop(g) \/ NextStat(g) \/ NextLoad(g) \/ NextCache(g)

LEMMA CalmNext ==
    ASSUME CalmUse, OneInv, [Next]_vars
    PROVE  CalmStep \/ UNCHANGED vars
<1>1. ASSUME NEW g \in Goroutine
      PROVE  /\ \A ih \in Task : ~ApiMove2Wait(g, ih)
             /\ \A h \in Goroutine : ~TaskRoutine(g, h)
             /\ ~AddSpecFails(g)
  BY DEF CalmUse, ApiMove2Wait, Admit, TaskRoutine, AddSpecFails
<1>2. ASSUME NEW g \in Goroutine
      PROVE  ~ExpireRemoveCache(g) /\ ~ExpireDelete(g) /\ ~PushWait(g) /\ ~LoadMeta(g)
  BY DEF OneInv, At, ExpireRemoveCache, ExpireDelete, PushWait, LoadMeta
<1>. QED  BY <1>1, <1>2 DEF Next, Request, Event, Run, CalmStep

(* A request finds nobody at work. *)
LEMMA RestAtRequest ==
    ASSUME CalmUse, EntryInv, OneInv, NEW g \in Goroutine, NEW op, Admit(g, op)
    PROVE  /\ pc[g] = "idle" /\ looping = {}
           /\ \A h \in Goroutine :
                /\ pc[h] \in {"idle", "waitInfo", "loop"}
                /\ ~Working(h) /\ ~Stopping(h)
<1>1. pc[g] = "idle" /\ \A h \in Goroutine : Settled(h)
  BY DEF CalmUse, Admit, Idle, Quiescent
<1>2. \A h \in Goroutine : ~Working(h) /\ ~Stopping(h) /\ pc[h] \in {"idle", "waitInfo", "loop"}
  BY <1>1 DEF Settled, Idle, Working, Stopping, Starting, Searching, Queueing, Processor,
              EntryInv, RefInv, OneInv
<1>. QED  BY <1>1, <1>2 DEF OneInv, EntryInv, TypeInv, TypeOK

-----------------------------------------------------------------------------
(* AddTorrentSpec is reached with the listed entry, which has not been closed. *)
LEMMA SpecListed ==
    ASSUME EntryInv, StepInv, NEW g \in Goroutine, AddSpec(g)
    PROVE  pc[g] = "spec" /\ ref[g] = "listed" /\ job[g].ih \in Task /\ job[g] \in TaskElem
BY ElemFields DEF AddSpec, At, EntryInv, PlaceInv, RefInv, StepInv, StepOf, Processor, TypeInv, TypeOK, JobInv

LEMMA OneInvNext ==
    ASSUME CalmUse, EntryInv, CalmInv, [Next]_vars
    PROVE  OneInv'
<1>. USE DEF EntryInv, TypeInv, TypeOK, JobInv, RefInv, At, Goto, shared, Changing, Working, Stopping,
            Starting, Searching, Queueing, Processor
<1>. USE DEF CalmInv, OneInv
<1>1. ASSUME NEW g \in Goroutine, NEW elem \in TaskElem, AddTask(g, elem) PROVE OneInv'
  BY <1>1, RestAtRequest DEF AddTask, Admit, Idle
<1>2. ASSUME NEW g \in Goroutine, NEW ih \in Task, ApiDelete(g, ih) PROVE OneInv'
  <2>1. /\ pc[g] = "idle" /\ looping = {}
        /\ \A h \in Goroutine : pc[h] \in {"idle", "waitInfo", "loop"} /\ ~Working(h) /\ ~Stopping(h)
    BY <1>2, RestAtRequest DEF ApiDelete
  <2>2. \A h \in Goroutine : Changing(h)' => pc[h] \in Processor /\ job[h].ih = ih
    BY <1>2, <2>1 DEF ApiDelete, DeleteTorrent
  <2>3. \A h, k \in Goroutine : Changing(h)' /\ Changing(k)' => h = k
    BY <2>2 DEF ProcInv
  <2>4. \A h \in Goroutine : pc'[h] = "rmCache" <=> h = g
    BY <1>2, <2>1 DEF ApiDelete
  <2>5. \A h \in Goroutine : pc'[h] \notin {"expCache", "expDelete", "pushWait", "loadMeta"}
    BY <1>2, <2>1 DEF ApiDelete
  <2>. QED  BY <1>2, <2>1, <2>3, <2>4, <2>5 DEF ApiDelete
<1>3. ASSUME NEW g \in Goroutine, NEW m \in Limits, ApiConfigure(g, m) PROVE OneInv'
  BY <1>3, RestAtRequest DEF ApiConfigure, Admit, Idle
<1>4. ASSUME NEW g \in Goroutine, LockTask(g) PROVE OneInv'
  BY <1>4 DEF LockTask
<1>5. ASSUME NEW g \in Goroutine, IsTaskInList(g) PROVE OneInv'
  BY <1>5 DEF IsTaskInList
<1>6. ASSUME NEW g \in Goroutine, PushPretask(g) PROVE OneInv'
  BY <1>6 DEF PushPretask
<1>7. ASSUME NEW g \in Goroutine, UpsertLookup(g) PROVE OneInv'
  BY <1>7 DEF UpsertLookup
<1>8. ASSUME NEW g \in Goroutine, UpsertInsert(g) PROVE OneInv'
  BY <1>8 DEF UpsertInsert, AfterUpsert, EntryOf
<1>9. ASSUME NEW g \in Goroutine, UpsertMark(g) PROVE OneInv'
  BY <1>9 DEF UpsertMark, AfterUpsert, EntryOf
<1>10. ASSUME NEW g \in Goroutine, QueuedReturn(g) PROVE OneInv'
  BY <1>10 DEF QueuedReturn, End
<1>11. ASSUME NEW g \in Goroutine, AddSpec(g) PROVE OneInv'
  <2>1. ref[g] = "listed" /\ pc[g] = "spec"
    BY <1>11, SpecListed
  <2>2. CASE g \notin looping
    BY <1>11, <2>1, <2>2 DEF AddSpec
  <2>3. CASE g \in looping
    <3>1. PICK h \in Goroutine :
             /\ Idle(h)
             /\ pc' = [pc EXCEPT ![h] = "waitInfo", ![g] = "next"]
             /\ ref' = [ref EXCEPT ![h] = ref[g], ![g] = "none"]
      BY <1>11, <2>3 DEF AddSpec
    <3>2. looping' = looping /\ h # g
      BY <1>11, <2>1, <3>1 DEF AddSpec, Idle
    <3>3. ~Changing(h)' /\ \A k \in Goroutine \ {h} : Changing(k)' => Changing(k)
      BY <2>1, <3>1, <3>2
    <3>. QED  BY <2>1, <3>1, <3>2, <3>3 DEF Idle
  <2>. QED  BY <2>2, <2>3
<1>12. ASSUME NEW g \in Goroutine, GotInfo(g) PROVE OneInv'
  BY <1>12 DEF GotInfo
<1>13. ASSUME NEW g \in Goroutine, CacheInfo(g) PROVE OneInv'
  BY <1>13 DEF CacheInfo
<1>14. ASSUME NEW g \in Goroutine, DropTask(g) PROVE OneInv'
  BY <1>14 DEF DropTask
<1>15. ASSUME NEW g \in Goroutine, ApiRemoveCache(g) PROVE OneInv'
  BY <1>15 DEF ApiRemoveCache, End
<1>16. ASSUME NEW g \in Goroutine, NextCheck(g) PROVE OneInv'
  BY <1>16 DEF NextCheck, End
<1>17. ASSUME NEW g \in Goroutine, NextPop(g) PROVE OneInv'
  BY <1>17 DEF NextPop, End
<1>18. ASSUME NEW g \in Goroutine, NextStat(g) PROVE OneInv'
  BY <1>18 DEF NextStat
<1>19. ASSUME NEW g \in Goroutine, NextLoad(g) PROVE OneInv'
  BY <1>19 DEF NextLoad, Again
<1>20. ASSUME NEW g \in Goroutine, NextCache(g) PROVE OneInv'
  BY <1>20 DEF NextCache
<1>21. CASE UNCHANGED vars
  BY <1>21 DEF vars, local
<1>. QED  BY <1>1, <1>2, <1>3, <1>4, <1>5, <1>6, <1>7, <1>8, <1>9, <1>10, <1>11, <1>12, <1>13, <1>14, <1>15, <1>16, <1>17, <1>18, <1>19, <1>20, <1>21, CalmNext DEF CalmStep

-----------------------------------------------------------------------------
(* The goroutine that changes which tasks run does so alone. *)
LEMMA Alone ==
    ASSUME OneInv, NEW g \in Goroutine, Changing(g),
           \A k \in Goroutine \ {g} : pc'[k] = pc[k]
    PROVE  \A k \in Goroutine \ {g} : ~Working(k) /\ ~Working(k)'
BY DEF OneInv, Changing, Working

LEMMA StepAlone ==
    ASSUME NEW g \in Goroutine, \A k \in Goroutine \ {g} : ~Working(k)', StepOf(g)'
    PROVE  StepInv'
BY DEF StepInv, StepOf, Working, Starting, Searching, Queueing

(* Steps beside the goroutine that starts or queues a task. *)
LEMMA StepBeside ==
    ASSUME StepInv, ts' = ts, waitList' = waitList, client' = client, maxTask' = maxTask,
           \A k \in Goroutine :
              \/ ~Working(k)'
              \/ pc'[k] = pc[k] /\ job'[k] = job[k] /\ ref'[k] = ref[k] /\ queueing'[k] = queueing[k]
    PROVE  StepInv'
<1>1. IsReadyAddTask' = IsReadyAddTask
  BY DEF IsReadyAddTask
<1>. QED  BY <1>1 DEF StepInv, StepOf, Working, Starting, Searching, Queueing, Waits

LEMMA ReadyKept ==
    ASSUME client' = client, maxTask' = maxTask
    PROVE  IsReadyAddTask' = IsReadyAddTask
BY DEF IsReadyAddTask

(* The element that NextWaitTask pops is that of a task shown as queueing,  *)
(* and it is the only one of this task.                                     *)
LEMMA PoppedQueueing ==
    ASSUME EntryInv, WaitInv, CalmInv, NEW g \in Goroutine, At(g, "pop"), waitList # <<>>
    PROVE  /\ PopElem(waitList) \in TaskElem /\ PopElem(waitList).ih \in Task
           /\ ts[PopElem(waitList).ih] = "queueing"
           /\ ~Waits(PopRest(waitList), PopElem(waitList).ih)
           /\ PopElem(waitList) \in cacheDir
<1>. DEFINE e == PopElem(waitList)
<1>1. waitList \in Seq(Elem(Task))
  BY DEF EntryInv, TypeInv, TypeOK, TaskElem
<1>2. e \in TaskElem /\ e.ih \in Task
  BY <1>1, PopKeeps, ElemFields DEF TaskElem
<1>3. Waits(waitList, e.ih)
  BY <1>1, PopKeeps
<1>4. ~Enlisting(e.ih)
  BY DEF Enlisting, CalmInv, OneInv, Changing, Working, Starting, Searching, At
<1>5. ts[e.ih] = "queueing"
  BY <1>2, <1>3, <1>4 DEF WaitInv, WaitingListed, CalmInv, ShownInv, EntryInv, TypeInv, TypeOK, Entry
<1>6. ~Waits(PopRest(waitList), e.ih)
  BY <1>1, PopKeeps DEF WaitInv, WaitingOnce
<1>7. e \in cacheDir
  BY <1>1, PopKeeps DEF CalmInv, CacheInv
<1>. QED  BY <1>2, <1>5, <1>6, <1>7

LEMMA GoneInvNext ==
    ASSUME CalmUse, EntryInv, WaitInv, CalmInv, [Next]_vars
    PROVE  GoneInv'
<1>. USE DEF EntryInv, TypeInv, TypeOK, JobInv, RefInv, At, Goto, shared, Changing, Working, Stopping,
            Starting, Searching, Queueing, Processor
<1>. USE DEF CalmInv, OneInv, GoneInv, WithTask
<1>1. ASSUME NEW g \in Goroutine, NEW elem \in TaskElem, AddTask(g, elem) PROVE GoneInv'
  BY <1>1, RestAtRequest DEF AddTask, Admit, Idle
<1>2. ASSUME NEW g \in Goroutine, NEW ih \in Task, ApiDelete(g, ih) PROVE GoneInv'
  BY <1>2, RestAtRequest DEF ApiDelete, DeleteTorrent, Admit, Idle
<1>3. ASSUME NEW g \in Goroutine, NEW m \in Limits, ApiConfigure(g, m) PROVE GoneInv'
  BY <1>3 DEF ApiConfigure, Admit, Idle
<1>4. ASSUME NEW g \in Goroutine, LockTask(g) PROVE GoneInv'
  BY <1>4 DEF LockTask
<1>5. ASSUME NEW g \in Goroutine, IsTaskInList(g) PROVE GoneInv'
  BY <1>5 DEF IsTaskInList
<1>6. ASSUME NEW g \in Goroutine, PushPretask(g) PROVE GoneInv'
  BY <1>6 DEF PushPretask
<1>7. ASSUME NEW g \in Goroutine, UpsertLookup(g) PROVE GoneInv'
  BY <1>7 DEF UpsertLookup
<1>8. ASSUME NEW g \in Goroutine, UpsertInsert(g) PROVE GoneInv'
  BY <1>8 DEF UpsertInsert, AfterUpsert, EntryOf
<1>9. ASSUME NEW g \in Goroutine, UpsertMark(g) PROVE GoneInv'
  BY <1>9 DEF UpsertMark, AfterUpsert, EntryOf
<1>10. ASSUME NEW g \in Goroutine, QueuedReturn(g) PROVE GoneInv'
  BY <1>10 DEF QueuedReturn, End
<1>11. ASSUME NEW g \in Goroutine, AddSpec(g) PROVE GoneInv'
  BY <1>11 DEF AddSpec, Idle
<1>12. ASSUME NEW g \in Goroutine, GotInfo(g) PROVE GoneInv'
  BY <1>12 DEF GotInfo
<1>13. ASSUME NEW g \in Goroutine, CacheInfo(g) PROVE GoneInv'
  BY <1>13 DEF CacheInfo
<1>14. ASSUME NEW g \in Goroutine, DropTask(g) PROVE GoneInv'
  BY <1>14 DEF DropTask
<1>15. ASSUME NEW g \in Goroutine, ApiRemoveCache(g) PROVE GoneInv'
  BY <1>15 DEF ApiRemoveCache, End
<1>16. ASSUME NEW g \in Goroutine, NextCheck(g) PROVE GoneInv'
  BY <1>16 DEF NextCheck, End
<1>17. ASSUME NEW g \in Goroutine, NextPop(g) PROVE GoneInv'
  <2>1. CASE waitList = <<>>
    BY <1>17, <2>1 DEF NextPop, End
  <2>2. CASE waitList # <<>>
    BY <1>17, <2>2, PoppedQueueing DEF NextPop
  <2>. QED  BY <2>1, <2>2
<1>18. ASSUME NEW g \in Goroutine, NextStat(g) PROVE GoneInv'
  BY <1>18 DEF NextStat
<1>19. ASSUME NEW g \in Goroutine, NextLoad(g) PROVE GoneInv'
  BY <1>19 DEF NextLoad, Again
<1>20. ASSUME NEW g \in Goroutine, NextCache(g) PROVE GoneInv'
  BY <1>20 DEF NextCache
<1>21. CASE UNCHANGED vars
  BY <1>21 DEF vars, local
<1>. QED  BY <1>1, <1>2, <1>3, <1>4, <1>5, <1>6, <1>7, <1>8, <1>9, <1>10, <1>11, <1>12, <1>13, <1>14, <1>15, <1>16, <1>17, <1>18, <1>19, <1>20, <1>21, CalmNext DEF CalmStep

LEMMA ProcInvNext ==
    ASSUME CalmUse, EntryInv, WaitInv, CalmInv, [Next]_vars
    PROVE  ProcInv'
<1>. USE DEF EntryInv, TypeInv, TypeOK, JobInv, RefInv, At, Goto, shared, Changing, Working, Stopping,
            Starting, Searching, Queueing, Processor
<1>. USE DEF CalmInv, OneInv, ProcInv, WithTask
<1>1. ASSUME NEW g \in Goroutine, NEW elem \in TaskElem, AddTask(g, elem) PROVE ProcInv'
  <2>1. pc[g] = "idle" /\ \A h \in Goroutine : ~Working(h) /\ ~Stopping(h)
    BY <1>1, RestAtRequest DEF AddTask
  <2>2. ts[elem.ih] = "absent"
    BY <1>1 DEF AddTask, CalmUse
  <2>. QED  BY <1>1, <2>1, <2>2, ElemFields DEF AddTask
<1>2. ASSUME NEW g \in Goroutine, NEW ih \in Task, ApiDelete(g, ih) PROVE ProcInv'
  BY <1>2 DEF ApiDelete, DeleteTorrent, Admit, Idle
<1>3. ASSUME NEW g \in Goroutine, NEW m \in Limits, ApiConfigure(g, m) PROVE ProcInv'
  BY <1>3 DEF ApiConfigure, Admit, Idle
<1>4. ASSUME NEW g \in Goroutine, LockTask(g) PROVE ProcInv'
  BY <1>4 DEF LockTask
<1>5. ASSUME NEW g \in Goroutine, IsTaskInList(g) PROVE ProcInv'
  BY <1>5 DEF IsTaskInList
<1>6. ASSUME NEW g \in Goroutine, PushPretask(g) PROVE ProcInv'
  BY <1>6 DEF PushPretask
<1>7. ASSUME NEW g \in Goroutine, UpsertLookup(g) PROVE ProcInv'
  BY <1>7 DEF UpsertLookup
<1>8. ASSUME NEW g \in Goroutine, UpsertInsert(g) PROVE ProcInv'
  BY <1>8 DEF UpsertInsert, AfterUpsert, EntryOf
<1>9. ASSUME NEW g \in Goroutine, UpsertMark(g) PROVE ProcInv'
  BY <1>9 DEF UpsertMark, AfterUpsert, EntryOf
<1>10. ASSUME NEW g \in Goroutine, QueuedReturn(g) PROVE ProcInv'
  BY <1>10 DEF QueuedReturn, End
<1>11. ASSUME NEW g \in Goroutine, AddSpec(g) PROVE ProcInv'
  <2>. DEFINE ih == job[g].ih
  <2>1. pc[g] = "spec" /\ ref[g] = "listed" /\ ih \in Task /\ ts[ih] = "active"
    BY <1>11, SpecListed DEF StepInv, StepOf
  <2>2. client' = client \cup {ih} /\ ts' = ts
    BY <1>11 DEF AddSpec
  <2>3. PICK h \in Goroutine :
           /\ pc[h] \notin Processor /\ pc'[h] = "waitInfo"
           /\ job'[h].ih = ih /\ ref'[h] = ref[g]
           /\ \A k \in Goroutine \ {h} :
                \/ pc'[k] = pc[k] /\ job'[k] = job[k] /\ ref'[k] = ref[k]
                \/ pc[k] \notin Processor /\ pc'[k] \notin Processor
    BY <1>11, <2>1, SpawnProcessor
  <2>4. \A k \in Goroutine : ~WithTask(k)'
    BY <1>11, <2>1 DEF AddSpec, Idle
  <2>. HIDE DEF ih
  <2>5. \A k \in Goroutine : pc[k] \in Processor => job[k].ih # ih
    BY <2>1 DEF ih
  <2>6. \A k \in Goroutine \ {h} : pc'[k] \in Processor =>
           pc[k] \in Processor /\ pc'[k] = pc[k] /\ job'[k] = job[k] /\ ref'[k] = ref[k]
    BY <2>3
  <2>7. \A k, l \in Goroutine : pc'[k] \in Processor /\ pc'[l] \in Processor /\ job'[k].ih = job'[l].ih => k = l
    BY <2>3, <2>5, <2>6
  <2>8. \A k \in Goroutine : pc'[k] \in Processor =>
           job'[k].ih \in client' /\ ts'[job'[k].ih] = (IF Stopping(k)' THEN "absent" ELSE "active")
    BY <2>1, <2>2, <2>3, <2>6
  <2>. QED  BY <2>4, <2>7, <2>8
<1>12. ASSUME NEW g \in Goroutine, GotInfo(g) PROVE ProcInv'
  BY <1>12 DEF GotInfo
<1>13. ASSUME NEW g \in Goroutine, CacheInfo(g) PROVE ProcInv'
  BY <1>13 DEF CacheInfo
<1>14. ASSUME NEW g \in Goroutine, DropTask(g) PROVE ProcInv'
  BY <1>14 DEF DropTask
<1>15. ASSUME NEW g \in Goroutine, ApiRemoveCache(g) PROVE ProcInv'
  BY <1>15 DEF ApiRemoveCache, End
<1>16. ASSUME NEW g \in Goroutine, NextCheck(g) PROVE ProcInv'
  BY <1>16 DEF NextCheck, End
<1>17. ASSUME NEW g \in Goroutine, NextPop(g) PROVE ProcInv'
  <2>1. CASE waitList = <<>>
    BY <1>17, <2>1 DEF NextPop, End
  <2>2. CASE waitList # <<>>
    BY <1>17, <2>2, PoppedQueueing DEF NextPop
  <2>. QED  BY <2>1, <2>2
<1>18. ASSUME NEW g \in Goroutine, NextStat(g) PROVE ProcInv'
  BY <1>18 DEF NextStat
<1>19. ASSUME NEW g \in Goroutine, NextLoad(g) PROVE ProcInv'
  BY <1>19 DEF NextLoad, Again
<1>20. ASSUME NEW g \in Goroutine, NextCache(g) PROVE ProcInv'
  BY <1>20 DEF NextCache
<1>21. CASE UNCHANGED vars
  BY <1>21 DEF vars, local
<1>. QED  BY <1>1, <1>2, <1>3, <1>4, <1>5, <1>6, <1>7, <1>8, <1>9, <1>10, <1>11, <1>12, <1>13, <1>14, <1>15, <1>16, <1>17, <1>18, <1>19, <1>20, <1>21, CalmNext DEF CalmStep

LEMMA StepInvNext ==
    ASSUME CalmUse, EntryInv, WaitInv, CalmInv, [Next]_vars
    PROVE  StepInv'
<1>. USE DEF EntryInv, TypeInv, TypeOK, JobInv, RefInv, At, Goto, shared, Changing, Working, Stopping,
            Starting, Searching, Queueing, Processor
<1>. USE DEF CalmInv, OneInv
<1>1. ASSUME NEW g \in Goroutine, NEW elem \in TaskElem, AddTask(g, elem) PROVE StepInv'
  <2>0. pc[g] = "idle" /\ \A h \in Goroutine : ~Working(h)
    BY <1>1, RestAtRequest DEF AddTask
  <2>1. \A k \in Goroutine \ {g} : ~Working(k)'
    BY <1>1, <2>0 DEF AddTask, Admit, Idle
  <2>3. ts[elem.ih] = "absent" /\ ~Waits(waitList, elem.ih)
    <3>1. ts[elem.ih] = "absent" /\ elem.ih \in Task
      BY <1>1, ElemFields DEF AddTask, CalmUse
    <3>. QED  BY <2>0, <3>1 DEF WaitInv, WaitingListed, Enlisting
  <2>2. StepOf(g)'
    BY <1>1, <2>0, <2>3 DEF AddTask, Admit, Idle, StepOf
  <2>. QED  BY <2>1, <2>2, StepAlone
<1>2. ASSUME NEW g \in Goroutine, NEW ih \in Task, ApiDelete(g, ih) PROVE StepInv'
  <2>0. pc[g] = "idle" /\ \A h \in Goroutine : ~Working(h)
    BY <1>2, RestAtRequest DEF ApiDelete
  <2>1. \A k \in Goroutine \ {g} : ~Working(k)'
    BY <1>2, <2>0 DEF ApiDelete, DeleteTorrent, Admit, Idle
  <2>2. StepOf(g)'
    BY <1>2, <2>0 DEF ApiDelete, DeleteTorrent, Admit, Idle, StepOf
  <2>. QED  BY <2>1, <2>2, StepAlone
<1>3. ASSUME NEW g \in Goroutine, NEW m \in Limits, ApiConfigure(g, m) PROVE StepInv'
  <2>0. pc[g] = "idle" /\ \A h \in Goroutine : ~Working(h)
    BY <1>3, RestAtRequest DEF ApiConfigure
  <2>1. \A k \in Goroutine \ {g} : ~Working(k)'
    BY <1>3, <2>0 DEF ApiConfigure, Admit, Idle
  <2>2. StepOf(g)'
    BY <1>3, <2>0 DEF ApiConfigure, Admit, Idle, StepOf
  <2>. QED  BY <2>1, <2>2, StepAlone
<1>4. ASSUME NEW g \in Goroutine, LockTask(g) PROVE StepInv'
  <2>1. \A k \in Goroutine \ {g} : ~Working(k)'
    BY <1>4, Alone DEF LockTask
  <2>2. /\ ts' = ts /\ job' = job /\ waitList' = waitList
        /\ IsReadyAddTask' = IsReadyAddTask
    BY <1>4, ReadyKept DEF LockTask
  <2>3. /\ job[g].ih \in Task /\ ts[job[g].ih] # "active" /\ ~Waits(waitList, job[g].ih)
        /\ ts[job[g].ih] = "queueing" => IsReadyAddTask
    BY <1>4, ElemFields DEF LockTask, StepInv, StepOf
  <2>4. CASE IsReadyAddTask
    <3>1. pc'[g] = "lookup" /\ ~queueing'[g]
      BY <1>4, <2>4 DEF LockTask
    <3>. QED  BY <2>1, <2>2, <2>3, <3>1, StepAlone DEF StepOf
  <2>5. CASE ~IsReadyAddTask
    <3>1. pc'[g] = "inList" /\ queueing'[g]
      BY <1>4, <2>5 DEF LockTask
    <3>2. ts[job[g].ih] = "absent"
      BY <2>3, <2>5 DEF Entry
    <3>3. StepOf(g)'
      BY <2>2, <2>3, <2>5, <3>1, <3>2 DEF StepOf
    <3>. QED  BY <2>1, <3>3, StepAlone
  <2>. QED  BY <2>4, <2>5
<1>5. ASSUME NEW g \in Goroutine, IsTaskInList(g) PROVE StepInv'
  <2>1. \A k \in Goroutine \ {g} : ~Working(k)'
    BY <1>5, Alone DEF IsTaskInList
  <2>2. StepOf(g)'
    BY <1>5, ReadyKept DEF IsTaskInList, StepInv, StepOf
  <2>. QED  BY <2>1, <2>2, StepAlone
<1>6. ASSUME NEW g \in Goroutine, PushPretask(g) PROVE StepInv'
  <2>0. waitList \in Seq(Elem(Task)) /\ job[g] \in Elem(Task)
    BY <1>6 DEF PushPretask, TaskElem
  <2>1. \A k \in Goroutine \ {g} : ~Working(k)'
    BY <1>6, Alone DEF PushPretask
  <2>2. Waits(waitList', job[g].ih)
    BY <1>6, <2>0, PushKeeps DEF PushPretask
  <2>3. StepOf(g)'
    BY <1>6, <2>2, ReadyKept DEF PushPretask, StepInv, StepOf
  <2>. QED  BY <2>1, <2>3, StepAlone
<1>7. ASSUME NEW g \in Goroutine, UpsertLookup(g) PROVE StepInv'
  <2>1. \A k \in Goroutine \ {g} : ~Working(k)'
    BY <1>7, Alone DEF UpsertLookup
  <2>2. StepOf(g)'
    BY <1>7, ReadyKept, ElemFields DEF UpsertLookup, StepInv, StepOf, Entry
  <2>. QED  BY <2>1, <2>2, StepAlone
<1>8. ASSUME NEW g \in Goroutine, UpsertInsert(g) PROVE StepInv'
  <2>1. \A k \in Goroutine \ {g} : ~Working(k)'
    BY <1>8, Alone DEF UpsertInsert, AfterUpsert
  <2>2. CASE queueing[g]
    <3>1. pc'[g] = "return" /\ ~IsReadyAddTask /\ IsReadyAddTask' = IsReadyAddTask
      BY <1>8, <2>2, ReadyKept DEF UpsertInsert, AfterUpsert, StepInv, StepOf
    <3>. QED  BY <2>1, <3>1, StepAlone DEF StepOf
  <2>3. CASE ~queueing[g]
    <3>1. job[g].ih \in Task /\ ~Waits(waitList, job[g].ih)
      BY <1>8, <2>3, ElemFields DEF UpsertInsert, StepInv, StepOf
    <3>2. pc'[g] = "spec" /\ job' = job /\ waitList' = waitList /\ ts'[job[g].ih] = "active"
      BY <1>8, <2>3, <3>1 DEF UpsertInsert, AfterUpsert, EntryOf
    <3>. QED  BY <2>1, <3>1, <3>2, StepAlone DEF StepOf
  <2>. QED  BY <2>2, <2>3
<1>9. ASSUME NEW g \in Goroutine, UpsertMark(g) PROVE StepInv'
  <2>1. \A k \in Goroutine \ {g} : ~Working(k)'
    BY <1>9, Alone DEF UpsertMark, AfterUpsert, EntryOf
  <2>2. StepOf(g)'
    BY <1>9, ElemFields DEF UpsertMark, AfterUpsert, EntryOf, StepInv, StepOf
  <2>. QED  BY <2>1, <2>2, StepAlone
<1>10. ASSUME NEW g \in Goroutine, QueuedReturn(g) PROVE StepInv'
  <2>1. \A k \in Goroutine \ {g} : ~Working(k)'
    BY <1>10, Alone DEF QueuedReturn, End
  <2>2. StepOf(g)'
    BY <1>10 DEF QueuedReturn, End, StepInv, StepOf
  <2>. QED  BY <2>1, <2>2, StepAlone
<1>11. ASSUME NEW g \in Goroutine, AddSpec(g) PROVE StepInv'
  <2>1. \A k \in Goroutine : k # g => ~Working(k)
    BY <1>11 DEF AddSpec
  <2>2. \A k \in Goroutine \ {g} : ~Working(k)'
    BY <1>11, <2>1 DEF AddSpec, Idle
  <2>3. StepOf(g)'
    BY <1>11 DEF AddSpec, Idle, StepOf
  <2>. QED  BY <2>2, <2>3, StepAlone
<1>12. ASSUME NEW g \in Goroutine, GotInfo(g) PROVE StepInv'
  BY <1>12, StepBeside DEF GotInfo
<1>13. ASSUME NEW g \in Goroutine, CacheInfo(g) PROVE StepInv'
  BY <1>13, StepBeside DEF CacheInfo
<1>14. ASSUME NEW g \in Goroutine, DropTask(g) PROVE StepInv'
  <2>1. \A k \in Goroutine \ {g} : ~Working(k)'
    BY <1>14, Alone DEF DropTask
  <2>2. StepOf(g)'
    BY <1>14 DEF DropTask, StepInv, StepOf
  <2>. QED  BY <2>1, <2>2, StepAlone
<1>15. ASSUME NEW g \in Goroutine, ApiRemoveCache(g) PROVE StepInv'
  BY <1>15, StepBeside DEF ApiRemoveCache, End
<1>16. ASSUME NEW g \in Goroutine, NextCheck(g) PROVE StepInv'
  <2>1. \A k \in Goroutine \ {g} : ~Working(k)'
    BY <1>16, Alone DEF NextCheck, End
  <2>2. StepOf(g)'
    BY <1>16, ReadyKept DEF NextCheck, End, StepInv, StepOf
  <2>. QED  BY <2>1, <2>2, StepAlone
<1>17. ASSUME NEW g \in Goroutine, NextPop(g) PROVE StepInv'
  <2>1. \A k \in Goroutine \ {g} : ~Working(k)'
    BY <1>17, Alone DEF NextPop, End
  <2>2. StepOf(g)'
    <3>1. CASE waitList = <<>>
      BY <1>17, <3>1 DEF NextPop, End, StepOf
    <3>2. CASE waitList # <<>>
      BY <1>17, <3>2, PoppedQueueing, ReadyKept DEF NextPop, StepInv, StepOf
    <3>. QED  BY <3>1, <3>2
  <2>. QED  BY <2>1, <2>2, StepAlone
<1>18. ASSUME NEW g \in Goroutine, NextStat(g) PROVE StepInv'
  <2>1. \A k \in Goroutine \ {g} : ~Working(k)'
    BY <1>18, Alone DEF NextStat
  <2>2. StepOf(g)'
    BY <1>18, ReadyKept DEF NextStat, StepInv, StepOf
  <2>. QED  BY <2>1, <2>2, StepAlone
<1>19. ASSUME NEW g \in Goroutine, NextLoad(g) PROVE StepInv'
  <2>1. \A k \in Goroutine \ {g} : ~Working(k)'
    BY <1>19, Alone DEF NextLoad, Again
  <2>2. StepOf(g)'
    BY <1>19, ReadyKept DEF NextLoad, Again, StepInv, StepOf
  <2>. QED  BY <2>1, <2>2, StepAlone
<1>20. ASSUME NEW g \in Goroutine, NextCache(g) PROVE StepInv'
  <2>1. \A k \in Goroutine \ {g} : ~Working(k)'
    BY <1>20, Alone DEF NextCache
  <2>2. StepOf(g)'
    BY <1>20, ReadyKept DEF NextCache, StepInv, StepOf
  <2>. QED  BY <2>1, <2>2, StepAlone
<1>21. CASE UNCHANGED vars
  BY <1>21, StepBeside DEF vars, local
<1>. QED  BY <1>1, <1>2, <1>3, <1>4, <1>5, <1>6, <1>7, <1>8, <1>9, <1>10, <1>11, <1>12, <1>13, <1>14, <1>15, <1>16, <1>17, <1>18, <1>19, <1>20, <1>21, CalmNext DEF CalmStep

LEMMA ShownInvNext ==
    ASSUME CalmUse, EntryInv, WaitInv, CalmInv, [Next]_vars
    PROVE  ShownInv'
<1>. USE DEF EntryInv, TypeInv, TypeOK, JobInv, RefInv, At, Goto, shared, Changing, Working, Stopping,
            Starting, Searching, Queueing, Processor
<1>. USE DEF CalmInv, ShownInv
<1>1. ASSUME NEW g \in Goroutine, NEW elem \in TaskElem, AddTask(g, elem) PROVE ShownInv'
  BY <1>1 DEF AddTask, Admit, Idle
<1>2. ASSUME NEW g \in Goroutine, NEW ih \in Task, ApiDelete(g, ih) PROVE ShownInv'
  <2>0. waitList \in Seq(Elem(Task))
    BY DEF EntryInv, TypeInv, TypeOK, TaskElem
  <2>1. pc[g] = "idle" /\ \A h \in Goroutine : pc[h] \in {"idle", "waitInfo", "loop"}
    BY <1>2, RestAtRequest DEF ApiDelete
  <2>2. /\ \A jh \in Task : jh # ih /\ Waits(waitList, jh) => Waits(waitList', jh)
        /\ \A jh \in Task : Waits(waitList', jh) => Waits(waitList, jh)
    BY <1>2, <2>0, RemoveTaskKeeps, RemoveTaskWaits DEF ApiDelete, DeleteTorrent
  <2>3. \A h \in Goroutine : pc[h] \in {"waitInfo", "loop"} => pc'[h] = pc[h] /\ job'[h] = job[h]
    BY <1>2, <2>1 DEF ApiDelete
  <2>4. ts'[ih] = "absent" /\ \A jh \in Task : jh # ih => ts'[jh] = ts[jh]
    BY <1>2 DEF ApiDelete, DeleteTorrent
  <2>. QED  BY <2>1, <2>2, <2>3, <2>4
<1>3. ASSUME NEW g \in Goroutine, NEW m \in Limits, ApiConfigure(g, m) PROVE ShownInv'
  BY <1>3 DEF ApiConfigure, Admit, Idle
<1>4. ASSUME NEW g \in Goroutine, LockTask(g) PROVE ShownInv'
  <2>1. ts[job[g].ih] = "queueing" => pc'[g] = "lookup"
    BY <1>4 DEF LockTask, StepInv, StepOf
  <2>. QED  BY <1>4, <2>1 DEF LockTask
<1>5. ASSUME NEW g \in Goroutine, IsTaskInList(g) PROVE ShownInv'
  BY <1>5 DEF IsTaskInList
<1>6. ASSUME NEW g \in Goroutine, PushPretask(g) PROVE ShownInv'
  <2>0. waitList \in Seq(Elem(Task)) /\ job[g] \in Elem(Task)
    BY <1>6 DEF PushPretask, TaskElem
  <2>1. /\ \A ih \in Task : Waits(waitList, ih) => Waits(waitList', ih)
        /\ \A ih \in Task : Waits(waitList', ih) => Waits(waitList, ih) \/ job[g].ih = ih
    BY <1>6, <2>0, PushWaits, PushKeeps DEF PushPretask
  <2>2. ts' = ts /\ job' = job /\ ts[job[g].ih] = "absent"
    BY <1>6 DEF PushPretask, StepInv, StepOf
  <2>3. \A h \in Goroutine : h # g => pc'[h] = pc[h]
    BY <1>6 DEF PushPretask
  <2>4. pc[g] = "push"
    BY <1>6 DEF PushPretask
  <2>. QED  BY <2>1, <2>2, <2>3, <2>4
<1>7. ASSUME NEW g \in Goroutine, UpsertLookup(g) PROVE ShownInv'
  BY <1>7 DEF UpsertLookup
<1>8. ASSUME NEW g \in Goroutine, UpsertInsert(g) PROVE ShownInv'
  <2>. DEFINE ih == job[g].ih
  <2>1. /\ ih \in Task /\ waitList' = waitList /\ job' = job
        /\ pc[g] \in {"insert", "mark"} /\ \A h \in Goroutine : h # g => pc'[h] = pc[h]
    BY <1>8, ElemFields DEF UpsertInsert, AfterUpsert
  <2>2. \A jh \in Task : jh # ih => ts'[jh] = ts[jh]
    BY <1>8 DEF UpsertInsert
  <2>3. queueing[g] => ts'[ih] = "queueing" /\ Waits(waitList, ih)
    BY <1>8, <2>1 DEF UpsertInsert, EntryOf, StepInv, StepOf
  <2>4. ~queueing[g] => ts'[ih] = "active" /\ pc'[g] = "spec" /\ ~Waits(waitList, ih)
    BY <1>8, <2>1 DEF UpsertInsert, AfterUpsert, EntryOf, StepInv, StepOf
  <2>. HIDE DEF ih
  <2>5. ASSUME NEW jh \in Task, jh # ih, NEW h \in Goroutine, job[h].ih = jh
        PROVE  pc'[h] = pc[h] /\ job'[h].ih = jh
    BY <2>1, <2>5 DEF ih
  <2>. QED  BY <2>1, <2>2, <2>3, <2>4, <2>5 DEF ih
<1>9. ASSUME NEW g \in Goroutine, UpsertMark(g) PROVE ShownInv'
  <2>. DEFINE ih == job[g].ih
  <2>1. /\ ih \in Task /\ waitList' = waitList /\ job' = job
        /\ pc[g] \in {"insert", "mark"} /\ \A h \in Goroutine : h # g => pc'[h] = pc[h]
    BY <1>9, ElemFields DEF UpsertMark, AfterUpsert
  <2>2. \A jh \in Task : jh # ih => ts'[jh] = ts[jh]
    BY <1>9 DEF UpsertMark
  <2>3. queueing[g] => ts'[ih] = "queueing" /\ Waits(waitList, ih)
    BY <1>9, <2>1 DEF UpsertMark, EntryOf, StepInv, StepOf
  <2>4. ~queueing[g] => ts'[ih] = "active" /\ pc'[g] = "spec" /\ ~Waits(waitList, ih)
    BY <1>9, <2>1 DEF UpsertMark, AfterUpsert, EntryOf, StepInv, StepOf
  <2>. HIDE DEF ih
  <2>5. ASSUME NEW jh \in Task, jh # ih, NEW h \in Goroutine, job[h].ih = jh
        PROVE  pc'[h] = pc[h] /\ job'[h].ih = jh
    BY <2>1, <2>5 DEF ih
  <2>. QED  BY <2>1, <2>2, <2>3, <2>4, <2>5 DEF ih
<1>10. ASSUME NEW g \in Goroutine, QueuedReturn(g) PROVE ShownInv'
  BY <1>10 DEF QueuedReturn, End
<1>11. ASSUME NEW g \in Goroutine, AddSpec(g) PROVE ShownInv'
  BY <1>11 DEF AddSpec, Idle
<1>12. ASSUME NEW g \in Goroutine, GotInfo(g) PROVE ShownInv'
  BY <1>12 DEF GotInfo
<1>13. ASSUME NEW g \in Goroutine, CacheInfo(g) PROVE ShownInv'
  BY <1>13 DEF CacheInfo
<1>14. ASSUME NEW g \in Goroutine, DropTask(g) PROVE ShownInv'
  <2>1. ts[job[g].ih] = "absent" /\ pc[g] \in Processor
    BY <1>14 DEF DropTask, ProcInv
  <2>2. ts' = ts /\ waitList' = waitList
    BY <1>14 DEF DropTask
  <2>3. \A h \in Goroutine : h # g => pc'[h] = pc[h] /\ job'[h] = job[h]
    BY <1>14 DEF DropTask
  <2>. QED  BY <2>1, <2>2, <2>3
<1>15. ASSUME NEW g \in Goroutine, ApiRemoveCache(g) PROVE ShownInv'
  BY <1>15 DEF ApiRemoveCache, End
<1>16. ASSUME NEW g \in Goroutine, NextCheck(g) PROVE ShownInv'
  BY <1>16 DEF NextCheck, End
<1>17. ASSUME NEW g \in Goroutine, NextPop(g) PROVE ShownInv'
  <2>1. CASE waitList = <<>>
    BY <1>17, <2>1 DEF NextPop, End
  <2>2. CASE waitList # <<>>
    <3>0. waitList \in Seq(Elem(Task))
      BY DEF EntryInv, TypeInv, TypeOK, TaskElem
    <3>1. pc[g] = "pop" /\ ts' = ts /\ pc'[g] = "stat" /\ job'[g] = PopElem(waitList)
      BY <1>17, <2>2 DEF NextPop
    <3>2. \A h \in Goroutine : h # g => pc'[h] = pc[h] /\ job'[h] = job[h]
      BY <1>17, <2>2 DEF NextPop
    <3>3. \A ih \in Task :
            /\ Waits(waitList, ih) => Waits(waitList', ih) \/ job'[g].ih = ih
            /\ Waits(waitList', ih) => Waits(waitList, ih)
      BY <1>17, <2>2, <3>0, <3>1, PopKeeps, PopWaits DEF NextPop
    <3>. QED  BY <3>1, <3>2, <3>3
  <2>. QED  BY <2>1, <2>2
<1>18. ASSUME NEW g \in Goroutine, NextStat(g) PROVE ShownInv'
  <2>1. pc[g] = "stat" /\ pc'[g] = "load"
    BY <1>18 DEF NextStat, CacheInv
  <2>. QED  BY <1>18, <2>1 DEF NextStat
<1>19. ASSUME NEW g \in Goroutine, NextLoad(g) PROVE ShownInv'
  <2>1. pc[g] = "load" /\ Goto(g, "cache") /\ UNCHANGED <<shared, job>>
    BY <1>19 DEF NextLoad, CacheInv
  <2>. QED  BY <2>1
<1>20. ASSUME NEW g \in Goroutine, NextCache(g) PROVE ShownInv'
  BY <1>20 DEF NextCache
<1>21. CASE UNCHANGED vars
  BY <1>21 DEF vars, local
<1>. QED  BY <1>1, <1>2, <1>3, <1>4, <1>5, <1>6, <1>7, <1>8, <1>9, <1>10, <1>11, <1>12, <1>13, <1>14, <1>15, <1>16, <1>17, <1>18, <1>19, <1>20, <1>21, CalmNext DEF CalmStep

LEMMA RestCached ==
    ASSUME EntryInv, CacheInv, waitList # <<>>
    PROVE  \A i \in 1..Len(PopRest(waitList)) : PopRest(waitList)[i] \in cacheDir
<1>1. waitList \in Seq(Elem(Task))
  BY DEF EntryInv, TypeInv, TypeOK, TaskElem
<1>2. \A i \in 1..Len(PopRest(waitList)) :
         \E j \in 1..Len(waitList) : PopRest(waitList)[i] = waitList[j]
  BY <1>1, PopKeeps
<1>. QED  BY <1>2 DEF CacheInv

LEMMA CacheInvNext ==
    ASSUME CalmUse, EntryInv, WaitInv, CalmInv, [Next]_vars
    PROVE  CacheInv'
<1>. USE DEF EntryInv, TypeInv, TypeOK, JobInv, RefInv, At, Goto, shared, Changing, Working, Stopping,
            Starting, Searching, Queueing, Processor
<1>. USE DEF CalmInv, CacheInv
<1>1. ASSUME NEW g \in Goroutine, NEW elem \in TaskElem, AddTask(g, elem) PROVE CacheInv'
  BY <1>1 DEF AddTask, Admit, Idle
<1>2. ASSUME NEW g \in Goroutine, NEW ih \in Task, ApiDelete(g, ih) PROVE CacheInv'
  <2>0. waitList \in Seq(Elem(Task))
    BY DEF EntryInv, TypeInv, TypeOK, TaskElem
  <2>1. \A h \in Goroutine : pc[h] \in {"idle", "waitInfo", "loop"}
    BY <1>2, RestAtRequest DEF ApiDelete
  <2>2. cacheDir' = cacheDir /\ waitList' = RemoveTask(waitList, ih)
    BY <1>2 DEF ApiDelete, DeleteTorrent
  <2>3. \A i \in 1..Len(waitList') : waitList'[i] \in cacheDir
    BY <2>0, <2>2, RemoveTaskKeeps
  <2>4. \A h \in Goroutine : pc'[h] \in {"idle", "waitInfo", "loop", "rmCache"}
    BY <1>2, <2>1 DEF ApiDelete
  <2>. QED  BY <2>2, <2>3, <2>4
<1>3. ASSUME NEW g \in Goroutine, NEW m \in Limits, ApiConfigure(g, m) PROVE CacheInv'
  BY <1>3 DEF ApiConfigure, Admit, Idle
<1>4. ASSUME NEW g \in Goroutine, LockTask(g) PROVE CacheInv'
  BY <1>4 DEF LockTask
<1>5. ASSUME NEW g \in Goroutine, IsTaskInList(g) PROVE CacheInv'
  BY <1>5 DEF IsTaskInList
<1>6. ASSUME NEW g \in Goroutine, PushPretask(g) PROVE CacheInv'
  <2>0. waitList \in Seq(Elem(Task)) /\ job[g] \in Elem(Task) /\ job[g] \in cacheDir
    BY <1>6 DEF PushPretask, TaskElem
  <2>1. cacheDir' = cacheDir /\ waitList' = Push(waitList, job[g])
    BY <1>6 DEF PushPretask
  <2>2. \A i \in 1..Len(waitList') : waitList'[i] \in cacheDir
    BY <2>0, <2>1, PushKeeps
  <2>. QED  BY <1>6, <2>1, <2>2 DEF PushPretask
<1>7. ASSUME NEW g \in Goroutine, UpsertLookup(g) PROVE CacheInv'
  BY <1>7 DEF UpsertLookup
<1>8. ASSUME NEW g \in Goroutine, UpsertInsert(g) PROVE CacheInv'
  BY <1>8 DEF UpsertInsert, AfterUpsert, EntryOf
<1>9. ASSUME NEW g \in Goroutine, UpsertMark(g) PROVE CacheInv'
  BY <1>9 DEF UpsertMark, AfterUpsert, EntryOf
<1>10. ASSUME NEW g \in Goroutine, QueuedReturn(g) PROVE CacheInv'
  BY <1>10 DEF QueuedReturn, End
<1>11. ASSUME NEW g \in Goroutine, AddSpec(g) PROVE CacheInv'
  BY <1>11 DEF AddSpec, Idle
<1>12. ASSUME NEW g \in Goroutine, GotInfo(g) PROVE CacheInv'
  <2>1. waitList' = waitList /\ \A e \in cacheDir : e.ih # job[g].ih => e \in cacheDir'
    BY <1>12 DEF GotInfo, FilesOf
  <2>2. \A h \in Goroutine : WithTask(h) => job[h].ih # job[g].ih
    BY <1>12 DEF GotInfo, ProcInv
  <2>3. ~Waits(waitList, job[g].ih)
    <3>1. job[g].ih \in Task /\ ts[job[g].ih] # "queueing"
      BY <1>12 DEF GotInfo, ProcInv
    <3>2. ~Enlisting(job[g].ih)
      BY <2>2 DEF Enlisting, WithTask
    <3>. QED  BY <3>1, <3>2 DEF WaitInv, WaitingListed, ShownInv, Entry
  <2>4. \A i \in 1..Len(waitList) : waitList[i] \in cacheDir'
    BY <2>1, <2>3 DEF Waits
  <2>5. \A h \in Goroutine :
           pc'[h] \in {"stat", "load", "cache", "lock", "inList", "push"}
             => pc'[h] = pc[h] /\ job'[h] = job[h]
    BY <1>12 DEF GotInfo
  <2>6. \A h \in Goroutine :
           pc[h] \in {"stat", "load", "cache", "lock", "inList", "push"} => job[h] \in cacheDir'
    BY <2>1, <2>2 DEF WithTask
  <2>. QED  BY <2>1, <2>4, <2>5, <2>6
<1>13. ASSUME NEW g \in Goroutine, CacheInfo(g) PROVE CacheInv'
  BY <1>13 DEF CacheInfo
<1>14. ASSUME NEW g \in Goroutine, DropTask(g) PROVE CacheInv'
  BY <1>14 DEF DropTask
<1>15. ASSUME NEW g \in Goroutine, ApiRemoveCache(g) PROVE CacheInv'
  <2>1. waitList' = waitList /\ \A e \in cacheDir : e.ih # job[g].ih => e \in cacheDir'
    BY <1>15 DEF ApiRemoveCache, FilesOf
  <2>2. \A h \in Goroutine : WithTask(h) => job[h].ih # job[g].ih
    BY <1>15 DEF ApiRemoveCache, GoneInv
  <2>3. ~Waits(waitList, job[g].ih)
    <3>1. job[g].ih \in Task /\ ts[job[g].ih] # "queueing"
      BY <1>15, ElemFields DEF ApiRemoveCache, GoneInv
    <3>2. ~Enlisting(job[g].ih)
      BY <2>2 DEF Enlisting, WithTask
    <3>. QED  BY <3>1, <3>2 DEF WaitInv, WaitingListed, ShownInv, Entry
  <2>4. \A i \in 1..Len(waitList) : waitList[i] \in cacheDir'
    BY <2>1, <2>3 DEF Waits
  <2>5. \A h \in Goroutine :
           pc'[h] \in {"stat", "load", "cache", "lock", "inList", "push"}
             => pc'[h] = pc[h] /\ job'[h] = job[h]
    BY <1>15 DEF ApiRemoveCache, End
  <2>6. \A h \in Goroutine :
           pc[h] \in {"stat", "load", "cache", "lock", "inList", "push"} => job[h] \in cacheDir'
    BY <2>1, <2>2 DEF WithTask
  <2>. QED  BY <2>1, <2>4, <2>5, <2>6
<1>16. ASSUME NEW g \in Goroutine, NextCheck(g) PROVE CacheInv'
  BY <1>16 DEF NextCheck, End
<1>17. ASSUME NEW g \in Goroutine, NextPop(g) PROVE CacheInv'
  <2>1. CASE waitList = <<>>
    BY <1>17, <2>1 DEF NextPop, End
  <2>2. CASE waitList # <<>>
    <3>1. cacheDir' = cacheDir /\ job'[g] \in cacheDir /\ waitList' = PopRest(waitList)
      BY <1>17, <2>2, PoppedQueueing DEF NextPop, CalmInv
    <3>2. \A i \in 1..Len(waitList') : waitList'[i] \in cacheDir
      BY <3>1, <2>2, RestCached
    <3>3. \A h \in Goroutine : h # g => pc'[h] = pc[h] /\ job'[h] = job[h]
      BY <1>17, <2>2 DEF NextPop
    <3>. QED  BY <3>1, <3>2, <3>3
  <2>. QED  BY <2>1, <2>2
<1>18. ASSUME NEW g \in Goroutine, NextStat(g) PROVE CacheInv'
  BY <1>18 DEF NextStat
<1>19. ASSUME NEW g \in Goroutine, NextLoad(g) PROVE CacheInv'
  BY <1>19 DEF NextLoad, Again
<1>20. ASSUME NEW g \in Goroutine, NextCache(g) PROVE CacheInv'
  BY <1>20 DEF NextCache
<1>21. CASE UNCHANGED vars
  BY <1>21 DEF vars, local
<1>. QED  BY <1>1, <1>2, <1>3, <1>4, <1>5, <1>6, <1>7, <1>8, <1>9, <1>10, <1>11, <1>12, <1>13, <1>14, <1>15, <1>16, <1>17, <1>18, <1>19, <1>20, <1>21, CalmNext DEF CalmStep

LEMMA CalmInvNext ==
    ASSUME CalmUse, EntryInv, WaitInv, CalmInv, [Next]_vars
    PROVE  CalmInv'
BY OneInvNext, GoneInvNext, ProcInvNext, ShownInvNext, StepInvNext, CacheInvNext DEF CalmInv

LEMMA CalmKept ==
    ASSUME CalmUse
    PROVE  EntryInv /\ WaitInv /\ CalmInv /\ [Next]_vars => (EntryInv /\ WaitInv /\ CalmInv)'
BY EntryInvNext, WaitInvNext, CalmInvNext DEF CalmUse

LEMMA CalmStart == Init => EntryInv /\ WaitInv /\ CalmInv
BY EntryInvInit, CalmInvInit DEF Init, WaitInv, WaitingOnce, WaitingListed, AtMostOnce, Waits

(* At rest nobody starts, queues or stops a task. *)
LEMMA AtRest ==
    ASSUME EntryInv, CalmInv, Quiescent
    PROVE  /\ \A g \in Goroutine : pc[g] \in {"idle", "waitInfo", "loop"} /\ ~Working(g) /\ ~Stopping(g)
           /\ looping = {}
<1>1. \A g \in Goroutine : pc[g] \in {"idle", "waitInfo", "loop"} /\ ~Working(g) /\ ~Stopping(g)
  BY DEF Quiescent, Settled, Idle, Working, Stopping, Starting, Searching, Queueing, Processor,
         EntryInv, RefInv
<1>. QED  BY <1>1 DEF CalmInv, OneInv, EntryInv, TypeInv, TypeOK

(* At rest a task shown as active runs: its processor holds it in the       *)
(* client (newTorrentBySpec, engine.go 218-252).                            *)
THEOREM ActiveIsRunningHolds ==
    ASSUME CalmUse
    PROVE  Spec => []ActiveIsRunning
<1>1. EntryInv /\ WaitInv /\ CalmInv => ActiveIsRunning
  <2>. SUFFICES ASSUME EntryInv, CalmInv, Quiescent, NEW ih \in Task, ts[ih] = "active"
                PROVE  ih \in client
    BY DEF ActiveIsRunning
  <2>1. PICK g \in Goroutine : pc[g] \in Processor \cup {"spec"} /\ job[g].ih = ih
    BY DEF CalmInv, ShownInv
  <2>. QED  BY <2>1, AtRest DEF CalmInv, ProcInv
<1>. QED  BY <1>1, CalmStart, CalmKept, PTL DEF Spec

(* At rest a task shown as queueing waits in the list, from which a free    *)
(* slot will fetch it (pushWaitTask, engine.go 226-233, and NextWaitTask,   *)
(* engineCache.go 159-187).                                                 *)
THEOREM QueuedIsWaitingHolds ==
    ASSUME CalmUse
    PROVE  Spec => []QueuedIsWaiting
<1>1. EntryInv /\ WaitInv /\ CalmInv => QueuedIsWaiting
  <2>. SUFFICES ASSUME EntryInv, CalmInv, Quiescent, NEW ih \in Task, ts[ih] = "queueing"
                PROVE  Waits(waitList, ih)
    BY DEF QueuedIsWaiting
  <2>1. \A g \in Goroutine : pc[g] \notin {"stat", "load", "cache", "lock", "lookup", "mark"}
    BY AtRest
  <2>. QED  BY <2>1 DEF CalmInv, ShownInv
<1>. QED  BY <1>1, CalmStart, CalmKept, PTL DEF Spec

(* A waiting task keeps the cache file it is restored from, also while the  *)
(* files of a deleted task are removed (RemoveCache, engine.go 491-497, and *)
(* NextWaitTask, engineCache.go 159-187).                                   *)
THEOREM WaitingIsCachedHolds ==
    ASSUME CalmUse
    PROVE  Spec => []WaitingIsCached
<1>1. EntryInv /\ WaitInv /\ CalmInv => WaitingIsCached
  BY DEF CalmInv, CacheInv, WaitingIsCached
<1>. QED  BY <1>1, CalmStart, CalmKept, PTL DEF Spec

-----------------------------------------------------------------------------
(* No slot is left free. *)

LEMMA ReadyIsRoom ==
    ASSUME EntryInv, 0 \notin Limits
    PROVE  /\ maxTask \in Nat \ {0} /\ Cardinality(client) \in Nat
           /\ IsReadyAddTask <=> ~(Cardinality(client) >= maxTask)
<1>1. maxTask \in Nat \ {0} /\ Cardinality(client) \in Nat
  BY ClientFinite, LimitsAssumption DEF EntryInv, TypeInv, TypeOK
<1>. QED  BY <1>1 DEF IsReadyAddTask

(* The cases in which a slot that is free stays looked after.               *)
LEMMA SlotsKept ==
    ASSUME EntryInv, SlotsInv, client' = client, maxTask' = maxTask,
           waitList' # <<>> => waitList # <<>>,
           looping' = looping,
           \A k \in Goroutine : pc[k] \in Starting => \E h \in Goroutine : pc'[h] \in Starting
    PROVE  SlotsInv'
BY DEF SlotsInv

(* A step that finds no slot free or leaves no task waiting. *)
LEMMA SlotsFull ==
    ASSUME EntryInv, 0 \notin Limits, client' = client, maxTask' = maxTask,
           ~IsReadyAddTask \/ waitList' = <<>>
    PROVE  SlotsInv'
BY ReadyIsRoom DEF SlotsInv

LEMMA SlotsInvNext ==
    ASSUME CalmUse, 0 \notin Limits, EntryInv, WatchInv, CalmInv, SlotsInv, [Next]_vars
    PROVE  SlotsInv'
<1>. USE DEF EntryInv, TypeInv, TypeOK, JobInv, RefInv, At, Goto, shared, Changing, Working, Stopping,
            Starting, Searching, Queueing, Processor
<1>. USE DEF CalmInv
<1>1. ASSUME NEW g \in Goroutine, NEW elem \in TaskElem, AddTask(g, elem) PROVE SlotsInv'
  <2>1. pc[g] = "idle"
    BY <1>1, RestAtRequest DEF AddTask
  <2>2. \A k \in Goroutine : pc[k] \in Starting => pc'[k] \in Starting
    BY <1>1, <2>1 DEF AddTask
  <2>. QED  BY <1>1, <2>2, SlotsKept DEF AddTask
<1>2. ASSUME NEW g \in Goroutine, NEW ih \in Task, ApiDelete(g, ih) PROVE SlotsInv'
  <2>0. waitList \in Seq(Elem(Task))
    BY DEF EntryInv, TypeInv, TypeOK, TaskElem
  <2>1. waitList' = RemoveTask(waitList, ih) /\ \A k \in Goroutine : pc[k] \notin Starting
    BY <1>2, RestAtRequest DEF ApiDelete, DeleteTorrent
  <2>2. waitList' # <<>> => waitList # <<>>
    BY <2>0, <2>1, RemoveTaskEmpty
  <2>. QED  BY <1>2, <2>1, <2>2, SlotsKept DEF ApiDelete
<1>3. ASSUME NEW g \in Goroutine, NEW m \in Limits, ApiConfigure(g, m) PROVE SlotsInv'
  <2>1. looping = {} /\ \A k \in Goroutine : pc[k] \notin Starting
    BY <1>3, RestAtRequest DEF ApiConfigure
  <2>2. CASE maxTask < m
    BY <1>3, <2>2 DEF ApiConfigure, SlotsInv
  <2>3. CASE ~(maxTask < m)
    <3>1. m \in Nat /\ maxTask \in Nat /\ Cardinality(client) \in Nat
      BY LimitsAssumption, ReadyIsRoom
    <3>2. /\ maxTask' = m /\ m <= maxTask /\ client' = client /\ waitList' = waitList
          /\ looping' = looping
      BY <1>3, <2>3, <3>1 DEF ApiConfigure
    <3>. QED  BY <2>1, <3>1, <3>2 DEF SlotsInv
  <2>. QED  BY <2>2, <2>3
<1>4. ASSUME NEW g \in Goroutine, LockTask(g) PROVE SlotsInv'
  <2>1. CASE IsReadyAddTask
    <3>1. \A k \in Goroutine : pc[k] \in Starting => pc'[k] \in Starting
      BY <1>4, <2>1 DEF LockTask
    <3>. QED  BY <1>4, <3>1, SlotsKept DEF LockTask
  <2>2. CASE ~IsReadyAddTask
    BY <1>4, <2>2, SlotsFull DEF LockTask
  <2>. QED  BY <2>1, <2>2
<1>5. ASSUME NEW g \in Goroutine, IsTaskInList(g) PROVE SlotsInv'
  BY <1>5, SlotsKept DEF IsTaskInList
<1>6. ASSUME NEW g \in Goroutine, PushPretask(g) PROVE SlotsInv'
  <2>1. ~IsReadyAddTask
    BY <1>6 DEF PushPretask, StepInv, StepOf
  <2>. QED  BY <1>6, <2>1, SlotsFull DEF PushPretask
<1>7. ASSUME NEW g \in Goroutine, UpsertLookup(g) PROVE SlotsInv'
  BY <1>7, SlotsKept DEF UpsertLookup
<1>8. ASSUME NEW g \in Goroutine, UpsertInsert(g) PROVE SlotsInv'
  <2>1. CASE queueing[g]
    <3>1. ~IsReadyAddTask
      BY <1>8, <2>1 DEF UpsertInsert, StepInv, StepOf
    <3>. QED  BY <1>8, <3>1, SlotsFull DEF UpsertInsert
  <2>2. CASE ~queueing[g]
    BY <1>8, <2>2, SlotsKept DEF UpsertInsert, AfterUpsert
  <2>. QED  BY <2>1, <2>2
<1>9. ASSUME NEW g \in Goroutine, UpsertMark(g) PROVE SlotsInv'
  <2>1. ~queueing[g]
    BY <1>9 DEF UpsertMark, StepInv, StepOf
  <2>. QED  BY <1>9, <2>1, SlotsKept DEF UpsertMark, AfterUpsert
<1>10. ASSUME NEW g \in Goroutine, QueuedReturn(g) PROVE SlotsInv'
  <2>1. ~IsReadyAddTask
    BY <1>10 DEF QueuedReturn, StepInv, StepOf
  <2>. QED  BY <1>10, <2>1, SlotsFull DEF QueuedReturn, End
<1>11. ASSUME NEW g \in Goroutine, AddSpec(g) PROVE SlotsInv'
  <2>. DEFINE ih == job[g].ih
  <2>1. pc[g] = "spec" /\ ih \in Task /\ looping' = looping /\ waitList' = waitList
        /\ client' = client \cup {ih} /\ maxTask' = maxTask
    BY <1>11, SpecListed DEF AddSpec
  <2>2. ih \notin client
    BY <2>1 DEF WatchInv, EveryTorrentWatched, Watches, ProcInv, WithTask
  <2>3. Cardinality(client') = Cardinality(client) + 1
    BY <2>1, <2>2, ClientFinite, FS_AddElement
  <2>4. maxTask \in Nat /\ Cardinality(client) \in Nat
    BY ReadyIsRoom
  <2>. HIDE DEF ih
  <2>. QED  BY <2>1, <2>3, <2>4 DEF SlotsInv
<1>12. ASSUME NEW g \in Goroutine, GotInfo(g) PROVE SlotsInv'
  BY <1>12, SlotsKept DEF GotInfo
<1>13. ASSUME NEW g \in Goroutine, CacheInfo(g) PROVE SlotsInv'
  BY <1>13, SlotsKept DEF CacheInfo
<1>14. ASSUME NEW g \in Goroutine, DropTask(g) PROVE SlotsInv'
  <2>. DEFINE ih == job[g].ih
  <2>1. /\ pc[g] \in {"waitInfo", "loop"} /\ pc'[g] = "next" /\ looping' = looping
        /\ waitList' = waitList /\ client' = client \ {ih} /\ maxTask' = maxTask
        /\ Stopping(g)
    BY <1>14 DEF DropTask
  <2>2. \A k \in Goroutine : pc[k] \notin Starting
    BY <2>1 DEF OneInv
  <2>3. Cardinality(client') \in Nat /\ Cardinality(client') + 1 >= Cardinality(client)
    <3>1. ih \in client => client = client' \cup {ih} /\ ih \notin client'
      BY <2>1
    <3>2. ih \notin client => client' = client
      BY <2>1
    <3>3. IsFiniteSet(client') /\ Cardinality(client') \in Nat
      BY <2>1, ClientFinite, FS_Subset, FS_CardinalityType
    <3>. HIDE DEF ih
    <3>4. CASE ih \in client
      <4>1. Cardinality(client' \cup {ih}) = Cardinality(client') + 1
        BY <3>1, <3>3, <3>4, FS_AddElement
      <4>2. Cardinality(client) = Cardinality(client' \cup {ih})
        BY <3>1, <3>4
      <4>. QED  BY <3>3, <4>1, <4>2
    <3>. QED  BY <3>2, <3>3, <3>4
  <2>4. maxTask \in Nat /\ Cardinality(client) \in Nat
    BY ReadyIsRoom
  <2>. HIDE DEF ih
  <2>. QED  BY <2>1, <2>2, <2>3, <2>4 DEF SlotsInv
<1>15. ASSUME NEW g \in Goroutine, ApiRemoveCache(g) PROVE SlotsInv'
  <2>1. pc[g] = "rmCache" /\ g \notin looping
    BY <1>15 DEF ApiRemoveCache, OneInv
  <2>2. looping' = looping /\ \A k \in Goroutine : pc[k] \in Starting => pc'[k] \in Starting
    BY <1>15, <2>1 DEF ApiRemoveCache, End
  <2>. QED  BY <1>15, <2>2, SlotsKept DEF ApiRemoveCache
<1>16. ASSUME NEW g \in Goroutine, NextCheck(g) PROVE SlotsInv'
  <2>1. CASE IsReadyAddTask
    <3>1. \A k \in Goroutine : pc[k] \in Starting => pc'[k] \in Starting
      BY <1>16, <2>1 DEF NextCheck
    <3>. QED  BY <1>16, <2>1, <3>1, SlotsKept DEF NextCheck
  <2>2. CASE ~IsReadyAddTask
    BY <1>16, <2>2, SlotsFull DEF NextCheck, End
  <2>. QED  BY <2>1, <2>2
<1>17. ASSUME NEW g \in Goroutine, NextPop(g) PROVE SlotsInv'
  <2>1. CASE waitList = <<>>
    BY <1>17, <2>1, SlotsFull DEF NextPop, End
  <2>2. CASE waitList # <<>>
    <3>1. \A k \in Goroutine : pc[k] \in Starting => pc'[k] \in Starting
      BY <1>17, <2>2 DEF NextPop
    <3>. QED  BY <1>17, <2>2, <3>1, SlotsKept DEF NextPop
  <2>. QED  BY <2>1, <2>2
<1>18. ASSUME NEW g \in Goroutine, NextStat(g) PROVE SlotsInv'
  BY <1>18, SlotsKept DEF NextStat
<1>19. ASSUME NEW g \in Goroutine, NextLoad(g) PROVE SlotsInv'
  <2>1. pc[g] = "load" /\ Goto(g, "cache") /\ UNCHANGED <<shared, looping>>
    BY <1>19 DEF NextLoad, CacheInv
  <2>. QED  BY <2>1, SlotsKept
<1>20. ASSUME NEW g \in Goroutine, NextCache(g) PROVE SlotsInv'
  BY <1>20, SlotsKept DEF NextCache
<1>21. CASE UNCHANGED vars
  BY <1>21, SlotsKept DEF vars, local
<1>. QED  BY <1>1, <1>2, <1>3, <1>4, <1>5, <1>6, <1>7, <1>8, <1>9, <1>10, <1>11, <1>12, <1>13, <1>14, <1>15, <1>16, <1>17, <1>18, <1>19, <1>20, <1>21, CalmNext DEF CalmStep

(* At rest no slot is free while a task waits: the slot of a task that is   *)
(* dropped goes to the head of the list, a limit that grows fills its new   *)
(* slots, and a task is queued only when no slot is free (NextWaitTask,     *)
(* engineCache.go 159-187).  With the limit 0, no limit, this fails.        *)
THEOREM NoIdleSlotHolds ==
    ASSUME CalmUse, 0 \notin Limits
    PROVE  Spec => []NoIdleSlotWhileWaiting
<1>. DEFINE Inv == EntryInv /\ WaitInv /\ CalmInv /\ WatchInv /\ SlotsInv
<1>1. Init => Inv
  BY CalmStart, CalmInvInit DEF Init, EntryInv, WatchInv, EveryTorrentWatched
<1>2. Inv /\ [Next]_vars => Inv'
  BY CalmKept, WatchInvNext, SlotsInvNext
<1>3. Inv => NoIdleSlotWhileWaiting
  <2>. SUFFICES ASSUME Inv, Quiescent PROVE waitList = <<>> \/ ~IsReadyAddTask
    BY DEF NoIdleSlotWhileWaiting
  <2>1. looping = {} /\ \A g \in Goroutine : pc[g] \notin Starting
    BY AtRest DEF Working
  <2>. QED  BY <2>1, ReadyIsRoom DEF SlotsInv
<1>. QED  BY <1>1, <1>2, <1>3, PTL DEF Spec
=============================================================================
