----------------------------- MODULE EngineLock -----------------------------
(***************************************************************************)
(* The read-write lock of the engine and the channel TsChanged             *)
(* (engine/engine.go, engineUtil.go, server/server_bg.go): who holds       *)
(* e.RWMutex while the task map e.ts is read or written, and how a change  *)
(* of the map reaches the web clients.                                     *)
(*                                                                         *)
(* TsChanged holds one signal.  The background loop receives a signal and  *)
(* pushes the map to the clients under e.RLock; whoever changes the map    *)
(* sends a signal and waits if there is no room.  DeleteTorrent sends it   *)
(* with e.Lock held.                                                       *)
(*                                                                         *)
(* sync.RWMutex: a writer that asks for the lock keeps new readers out and *)
(* waits for those inside.                                                 *)
(*                                                                         *)
(* Abstracted: the limit on tasks and the wait list (module TaskEngine),   *)
(* the critical sections that read e.client only (ConnStat, IsConfigred),  *)
(* Torrent.Lock, which is never held while asking for e.RWMutex.  A push   *)
(* delivers the map as it is when Push is called.                          *)
(***************************************************************************)
EXTENDS Naturals, FiniteSets

CONSTANTS
    Task,        \* infohashes
    Goroutine,   \* bound: requests, processors and tickers at the same time
    Background,  \* the loop of backgroundRoutines
    Nobody,      \* no goroutine holds the lock
    NoTask,      \* the goroutine serves no task
    Ops,         \* what the environment does, see AllOps
    Calm         \* TRUE: a deletion begins when all is settled, and nothing
                 \* else begins until it has sent its signal

AllOps == {"add", "delete", "move2wait", "start", "info", "tick"}

Process == Goroutine \cup {Background}

ASSUME OpsAssumption == Ops \subseteq AllOps /\ Calm \in BOOLEAN
ASSUME NullAssumption ==
    Background \notin Goroutine /\ Nobody \notin Process /\ NoTask \notin Task

(* make(chan struct{}, 1) *)
Capacity == 1

VARIABLES
    ts,         \* infohashes in e.ts
    shown,      \* e.ts as the web clients have last seen it
    signals,    \* signals in TsChanged
    writer,     \* who has asked for e.Lock and not given it back
    readers,    \* who holds e.RLock
    taskMutex,  \* who holds e.taskMutex
    pc,         \* where each process is
    task        \* the infohash of a request

vars == <<ts, shown, signals, writer, readers, taskMutex, pc, task>>

PC == {"idle", "mutex", "lookup", "read", "lock", "insert", "signal",
       "lockDelete", "delete", "signalDelete", "lockStart", "start",
       "info", "rlock", "push", "apiPush", "select"}

TypeOK ==
    /\ ts \subseteq Task /\ shown \subseteq Task
    /\ signals \in 0..Capacity
    /\ writer \in Goroutine \cup {Nobody}
    /\ readers \subseteq Process
    /\ taskMutex \in Goroutine \cup {Nobody}
    /\ pc \in [Process -> PC]
    /\ task \in [Goroutine -> Task \cup {NoTask}]

Init ==
    /\ ts = {} /\ shown = {}
    /\ signals = 0
    /\ writer = Nobody /\ readers = {} /\ taskMutex = Nobody
    /\ pc = [p \in Process |-> IF p = Background THEN "select" ELSE "idle"]
    /\ task = [g \in Goroutine |-> NoTask]

At(p, place) == pc[p] = place
Goto(p, place) == pc' = [pc EXCEPT ![p] = place]

End(g) == Goto(g, "idle") /\ task' = [task EXCEPT ![g] = NoTask]

Idle(g) == At(g, "idle")
Deletion == {"delete", "move2wait"}
Deleting == \E g \in Goroutine : pc[g] \in {"lockDelete", "delete", "signalDelete"}
Settled == signals = 0 /\ At(Background, "select") /\ \A g \in Goroutine : Idle(g)
Admit(g, op) ==
    /\ op \in Ops /\ Idle(g)
    /\ Calm => ~Deleting /\ (op \in Deletion => Settled)

-----------------------------------------------------------------------------
(* sync.RWMutex and the channel. *)

AskLock(g) == writer = Nobody /\ writer' = g /\ UNCHANGED readers
HasLock(g) == writer = g /\ readers = {}
Unlock == writer' = Nobody /\ UNCHANGED readers
RLock(p) == writer = Nobody /\ readers' = readers \cup {p} /\ UNCHANGED writer
RUnlock(p) == readers' = readers \ {p} /\ UNCHANGED writer

(* Mutant of Send: the channel holds one signal more. *)
SendOver == signals <= Capacity /\ signals' = signals + 1

Send == signals < Capacity /\ signals' = signals + 1

-----------------------------------------------------------------------------
(* newTorrentBySpec: upsertTorrent with taskMutex held. *)

Add(g, ih) ==
    /\ Admit(g, "add")
    /\ task' = [task EXCEPT ![g] = ih]
    /\ Goto(g, "mutex")
    /\ UNCHANGED <<ts, shown, signals, writer, readers, taskMutex>>

(* Mutant of LockTaskMutex: does not wait. *)
TaskMutexUnguarded(g) ==
    /\ At(g, "mutex")
    /\ taskMutex' = g
    /\ Goto(g, "lookup")
    /\ UNCHANGED <<ts, shown, signals, writer, readers, task>>

LockTaskMutex(g) ==
    /\ At(g, "mutex") /\ taskMutex = Nobody
    /\ taskMutex' = g
    /\ Goto(g, "lookup")
    /\ UNCHANGED <<ts, shown, signals, writer, readers, task>>

UpsertRLock(g) ==
    /\ At(g, "lookup") /\ RLock(g)
    /\ Goto(g, "read")
    /\ UNCHANGED <<ts, shown, signals, taskMutex, task>>

(* Mutant of UpsertRead: looks again as long as there is an entry. *)
UpsertReadSpins(g) ==
    /\ At(g, "read") /\ RUnlock(g)
    /\ Goto(g, IF task[g] \in ts THEN "lookup" ELSE "lock")
    /\ UNCHANGED <<ts, shown, signals, taskMutex, task>>

UpsertRead(g) ==
    /\ At(g, "read") /\ RUnlock(g)
    /\ Goto(g, IF task[g] \in ts THEN "signal" ELSE "lock")
    /\ UNCHANGED <<ts, shown, signals, taskMutex, task>>

UpsertLock(g) ==
    /\ At(g, "lock") /\ AskLock(g)
    /\ Goto(g, "insert")
    /\ UNCHANGED <<ts, shown, signals, taskMutex, task>>

UpsertInsert(g) ==
    /\ At(g, "insert") /\ HasLock(g)
    /\ ts' = ts \cup {task[g]}
    /\ Unlock
    /\ Goto(g, "signal")
    /\ UNCHANGED <<shown, signals, taskMutex, task>>

(* Mutant of UpsertSignal: returns with taskMutex held. *)
UpsertSignalLocked(g) ==
    /\ At(g, "signal") /\ Send
    /\ \/ End(g)
       \/ Goto(g, "apiPush") /\ UNCHANGED task
    /\ UNCHANGED <<ts, shown, writer, readers, taskMutex>>

(* The deferred send of upsertTorrent; newTorrentBySpec or PushWaitTask     *)
(* returns.  A request that is not a torrent file pushes the state on its   *)
(* way out.                                                                 *)
UpsertSignal(g) ==
    /\ At(g, "signal") /\ Send
    /\ taskMutex' = IF taskMutex = g THEN Nobody ELSE taskMutex
    /\ \/ End(g)
       \/ Goto(g, "apiPush") /\ UNCHANGED task
    /\ UNCHANGED <<ts, shown, writer, readers>>

-----------------------------------------------------------------------------
(* DeleteTorrent and deleteTorrent: the send comes before the unlock.       *)
(* move2wait goes on to PushWaitTask, whose upsertTorrent runs without      *)
(* taskMutex.                                                               *)

Delete(g, ih) ==
    /\ Admit(g, "delete") \/ Admit(g, "move2wait")
    /\ task' = [task EXCEPT ![g] = ih]
    /\ Goto(g, "lockDelete")
    /\ UNCHANGED <<ts, shown, signals, writer, readers, taskMutex>>

DeleteLock(g) ==
    /\ At(g, "lockDelete") /\ AskLock(g)
    /\ Goto(g, "delete")
    /\ UNCHANGED <<ts, shown, signals, taskMutex, task>>

DeleteEntry(g) ==
    /\ At(g, "delete") /\ HasLock(g) /\ task[g] \in ts
    /\ ts' = ts \ {task[g]}
    /\ Goto(g, "signalDelete")
    /\ UNCHANGED <<shown, signals, writer, readers, taskMutex, task>>

DeleteMissing(g) ==
    /\ At(g, "delete") /\ HasLock(g) /\ task[g] \notin ts
    /\ Unlock
    /\ Goto(g, "apiPush")
    /\ UNCHANGED <<ts, shown, signals, taskMutex, task>>

DeleteSignal(g) ==
    /\ At(g, "signalDelete") /\ Send
    /\ Unlock
    /\ \/ "delete" \in Ops /\ Goto(g, "apiPush")
       \/ "move2wait" \in Ops /\ Goto(g, "lookup")
    /\ UNCHANGED <<ts, shown, taskMutex, task>>

-----------------------------------------------------------------------------
(* StartTorrent and StopTorrent take e.Lock and change no entry of e.ts. *)

Start(g) ==
    /\ Admit(g, "start")
    /\ Goto(g, "lockStart")
    /\ UNCHANGED <<ts, shown, signals, writer, readers, taskMutex, task>>

StartLock(g) ==
    /\ At(g, "lockStart") /\ AskLock(g)
    /\ Goto(g, "start")
    /\ UNCHANGED <<ts, shown, signals, taskMutex, task>>

StartDone(g) ==
    /\ At(g, "start") /\ HasLock(g)
    /\ Unlock
    /\ Goto(g, "apiPush")
    /\ UNCHANGED <<ts, shown, signals, taskMutex, task>>

(* s.state.Push(), deferred by apiPOST, without e.RLock. *)
ApiPush(g) ==
    /\ At(g, "apiPush")
    /\ shown' = ts
    /\ End(g)
    /\ UNCHANGED <<ts, signals, writer, readers, taskMutex>>

(* The metadata of a torrent has arrived: torrentEventProcessor sends a     *)
(* signal, with no lock held.                                               *)
Info(g) ==
    /\ Admit(g, "info")
    /\ Goto(g, "info")
    /\ UNCHANGED <<ts, shown, signals, writer, readers, taskMutex, task>>

InfoSignal(g) ==
    /\ At(g, "info") /\ Send
    /\ Goto(g, "idle")
    /\ UNCHANGED <<ts, shown, writer, readers, taskMutex, task>>

-----------------------------------------------------------------------------
(* Pushes under e.RLock: a tick of tickerRoutine and the background loop. *)

Tick(g) ==
    /\ Admit(g, "tick")
    /\ Goto(g, "rlock")
    /\ UNCHANGED <<ts, shown, signals, writer, readers, taskMutex, task>>

Receive ==
    /\ At(Background, "select") /\ signals > 0
    /\ signals' = signals - 1
    /\ Goto(Background, "rlock")
    /\ UNCHANGED <<ts, shown, writer, readers, taskMutex, task>>

PushRLock(p) ==
    /\ At(p, "rlock") /\ RLock(p)
    /\ Goto(p, "push")
    /\ UNCHANGED <<ts, shown, signals, taskMutex, task>>

(* Mutant of Push: the background loop consumes the signal only. *)
PushNothing(p) ==
    /\ At(p, "push") /\ RUnlock(p)
    /\ Goto(p, IF p = Background THEN "select" ELSE "idle")
    /\ UNCHANGED <<ts, shown, signals, taskMutex, task>>

Push(p) ==
    /\ At(p, "push") /\ RUnlock(p)
    /\ shown' = ts
    /\ Goto(p, IF p = Background THEN "select" ELSE "idle")
    /\ UNCHANGED <<ts, signals, taskMutex, task>>

-----------------------------------------------------------------------------
Request == \E g \in Goroutine :
    \/ \E ih \in Task : Add(g, ih) \/ Delete(g, ih)
    \/ Start(g) \/ Info(g) \/ Tick(g)

(* Steps that ask for a lock or for room in the channel. *)
Acquire(g) ==
    \/ LockTaskMutex(g) \/ UpsertRLock(g) \/ UpsertLock(g) \/ UpsertSignal(g)
    \/ DeleteLock(g) \/ DeleteSignal(g) \/ StartLock(g) \/ InfoSignal(g)

(* Steps inside or outside of a critical section that wait for nobody but   *)
(* the readers inside.                                                      *)
Proceed(g) ==
    \/ UpsertRead(g) \/ UpsertInsert(g)
    \/ DeleteEntry(g) \/ DeleteMissing(g) \/ StartDone(g)
    \/ ApiPush(g)

Next ==
    \/ Request
    \/ \E g \in Goroutine : Acquire(g) \/ Proceed(g)
    \/ Receive
    \/ \E p \in Process : PushRLock(p) \/ Push(p)

Spec == Init /\ [][Next]_vars

(* Go's mutexes and channels serve those who wait in turn. *)
Fairness ==
    /\ \A g \in Goroutine : SF_vars(Acquire(g)) /\ WF_vars(Proceed(g))
    /\ WF_vars(Receive)
    /\ \A p \in Process : SF_vars(PushRLock(p)) /\ WF_vars(Push(p))

FairSpec == Spec /\ Fairness

-----------------------------------------------------------------------------
(* Properties. *)

(* Without move2wait, the check that upsertTorrent makes under RLock still  *)
(* holds when it writes under Lock, so that it overwrites no entry: all     *)
(* callers hold taskMutex (engineUtil.go 26-41).                            *)
CheckStillHolds ==
    \A g \in Goroutine : pc[g] \in {"lock", "insert"} => task[g] \notin ts

(* A process that can go on only when another has: for taskMutex, for the   *)
(* lock, for the readers inside, for room in TsChanged or for a signal.     *)
Waits(p) ==
    \/ At(p, "mutex") /\ taskMutex # Nobody
    \/ pc[p] \in {"lookup", "lock", "lockDelete", "lockStart", "rlock"} /\ writer # Nobody
    \/ pc[p] \in {"insert", "delete", "start"} /\ ~HasLock(p)
    \/ pc[p] \in {"signal", "signalDelete", "info"} /\ signals = Capacity
    \/ At(p, "select") /\ signals = 0

(* A call has not returned, and all there is waits. *)
Halted ==
    /\ \E g \in Goroutine : ~Idle(g)
    /\ \A p \in Process : Waits(p) \/ At(p, "idle")

(* The engine comes to a stop in one way only: DeleteTorrent waits, with     *)
(* e.Lock held, for room in TsChanged, and the background loop, which would *)
(* make room, waits for e.RLock (engineUtil.go 55-58, server_bg.go 23-26).  *)
OnlyDeleteBlocks ==
    Halted =>
        /\ signals = Capacity /\ At(Background, "rlock")
        /\ writer # Nobody /\ At(writer, "signalDelete")

(* When a deletion has TsChanged to itself until it has sent its signal,    *)
(* nobody waits for ever for a lock or for room in TsChanged, however the   *)
(* other requests interleave.                                               *)
CallsReturn == \A g \in Goroutine : ~At(g, "idle") ~> At(g, "idle")

(* Every change of the map reaches the clients, "Real-time updates"         *)
(* (README.md 27): changes may share a signal, but the push comes after the *)
(* last of them.                                                            *)
ChangesShown == shown # ts ~> shown = ts
=============================================================================
