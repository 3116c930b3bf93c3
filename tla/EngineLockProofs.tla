-------------------------- MODULE EngineLockProofs --------------------------
(***************************************************************************)
(* Proofs about EngineLock: type correctness, that upsertTorrent           *)
(* overwrites no entry as long as all its callers hold taskMutex, and that *)
(* nothing but a deletion can lock the engine up.                          *)
(***************************************************************************)
EXTENDS EngineLock, TLAPS

USE DEF Process, At, Goto

LEMMA TypeInit == Init => TypeOK
BY NullAssumption DEF Init, TypeOK, PC, Capacity

(* A goroutine that serves a task knows its infohash. *)
Serving == {"mutex", "lookup", "read", "lock", "insert", "signal",
            "lockDelete", "delete", "signalDelete"}
TaskInv == \A g \in Goroutine : pc[g] \in Serving => task[g] \in Task

TypeInv == TypeOK /\ TaskInv

LEMMA TypeInvNext == TypeInv /\ [Next]_vars => TypeInv'
<1>. SUFFICES ASSUME TypeInv, [Next]_vars PROVE TypeInv'
  OBVIOUS
<1>. USE NullAssumption DEF TypeInv, TaskInv, Serving, TypeOK, PC, Capacity
<1>1. ASSUME NEW g \in Goroutine, NEW ih \in Task, Add(g, ih) \/ Delete(g, ih) PROVE TypeInv'
  BY <1>1 DEF Add, Delete
<1>2. ASSUME NEW g \in Goroutine, Start(g) \/ Info(g) \/ Tick(g) PROVE TypeInv'
  BY <1>2 DEF Start, Info, Tick
<1>3. ASSUME NEW g \in Goroutine, LockTaskMutex(g) \/ UpsertRLock(g) \/ UpsertLock(g) PROVE TypeInv'
  BY <1>3 DEF LockTaskMutex, UpsertRLock, RLock, UpsertLock, AskLock
<1>4. ASSUME NEW g \in Goroutine, UpsertSignal(g) PROVE TypeInv'
  BY <1>4 DEF UpsertSignal, Send, End
<1>5. ASSUME NEW g \in Goroutine, DeleteLock(g) \/ StartLock(g) PROVE TypeInv'
  BY <1>5 DEF DeleteLock, StartLock, AskLock
<1>6. ASSUME NEW g \in Goroutine, DeleteSignal(g) \/ InfoSignal(g) PROVE TypeInv'
  BY <1>6 DEF DeleteSignal, InfoSignal, Send, Unlock
<1>7. ASSUME NEW g \in Goroutine, UpsertRead(g) \/ UpsertInsert(g) PROVE TypeInv'
  BY <1>7 DEF UpsertRead, RUnlock, UpsertInsert, Unlock
<1>8. ASSUME NEW g \in Goroutine, DeleteEntry(g) \/ DeleteMissing(g) \/ StartDone(g) PROVE TypeInv'
  BY <1>8 DEF DeleteEntry, DeleteMissing, StartDone, Unlock
<1>9. ASSUME NEW g \in Goroutine, ApiPush(g) PROVE TypeInv'
  BY <1>9 DEF ApiPush, End
<1>10. CASE Receive
  BY <1>10 DEF Receive
<1>11. ASSUME NEW p \in Process, PushRLock(p) \/ Push(p) PROVE TypeInv'
  BY <1>11 DEF PushRLock, RLock, Push, RUnlock
<1>12. CASE UNCHANGED vars
  BY <1>12 DEF vars
<1>. QED  BY <1>1, <1>2, <1>3, <1>4, <1>5, <1>6, <1>7, <1>8, <1>9, <1>10, <1>11, <1>12 DEF Next, Request, Acquire, Proceed

LEMMA TypeInvAlways == Spec => []TypeInv
<1>1. Init => TypeInv
  BY TypeInit DEF Init, TypeInv, TaskInv, Serving
<1>. QED  BY <1>1, TypeInvNext, PTL DEF Spec

(* Type correctness of the lock, the channel and their users. *)
THEOREM TypeCorrect == Spec => []TypeOK
<1>1. TypeInv => TypeOK
  BY DEF TypeInv
<1>. QED  BY <1>1, TypeInvAlways, PTL

-----------------------------------------------------------------------------
(* Whoever is inside upsertTorrent holds taskMutex. *)
Upserting == {"lookup", "read", "lock", "insert", "signal"}
MutexInv == \A g \in Goroutine : pc[g] \in Upserting => taskMutex = g

UpsertInv == TypeInv /\ MutexInv /\ CheckStillHolds

LEMMA UpsertInvNext ==
    ASSUME "move2wait" \notin Ops, UpsertInv, [Next]_vars
    PROVE  UpsertInv'
<1>1. TypeInv /\ TypeInv'
  BY TypeInvNext DEF UpsertInv
<1>2. SUFFICES (MutexInv /\ CheckStillHolds)'
  BY <1>1 DEF UpsertInv
<1>. USE <1>1, NullAssumption DEF UpsertInv, MutexInv, CheckStillHolds, Upserting, TypeInv, TypeOK, TaskInv, Serving
<1>3. ASSUME NEW g \in Goroutine, NEW ih \in Task, Add(g, ih) \/ Delete(g, ih)
      PROVE  (MutexInv /\ CheckStillHolds)'
  BY <1>3 DEF Add, Delete
<1>4. ASSUME NEW g \in Goroutine, Start(g) \/ Info(g) \/ Tick(g)
      PROVE  (MutexInv /\ CheckStillHolds)'
  BY <1>4 DEF Start, Info, Tick
<1>5. ASSUME NEW g \in Goroutine, LockTaskMutex(g) PROVE (MutexInv /\ CheckStillHolds)'
  BY <1>5 DEF LockTaskMutex
<1>6. ASSUME NEW g \in Goroutine, UpsertRLock(g) \/ UpsertLock(g)
      PROVE  (MutexInv /\ CheckStillHolds)'
  BY <1>6 DEF UpsertRLock, UpsertLock
<1>7. ASSUME NEW g \in Goroutine, UpsertRead(g) PROVE (MutexInv /\ CheckStillHolds)'
  BY <1>7 DEF UpsertRead
<1>8. ASSUME NEW g \in Goroutine, UpsertInsert(g) PROVE (MutexInv /\ CheckStillHolds)'
  BY <1>8 DEF UpsertInsert
<1>9. ASSUME NEW g \in Goroutine, UpsertSignal(g) PROVE (MutexInv /\ CheckStillHolds)'
  BY <1>9 DEF UpsertSignal, End
<1>10. ASSUME NEW g \in Goroutine, DeleteLock(g) \/ DeleteEntry(g) \/ DeleteMissing(g)
       PROVE  (MutexInv /\ CheckStillHolds)'
  BY <1>10 DEF DeleteLock, DeleteEntry, DeleteMissing
<1>11. ASSUME NEW g \in Goroutine, DeleteSignal(g) PROVE (MutexInv /\ CheckStillHolds)'
  BY <1>11 DEF DeleteSignal
<1>12. ASSUME NEW g \in Goroutine, StartLock(g) \/ StartDone(g) \/ InfoSignal(g)
       PROVE  (MutexInv /\ CheckStillHolds)'
  BY <1>12 DEF StartLock, StartDone, InfoSignal
<1>13. ASSUME NEW g \in Goroutine, ApiPush(g) PROVE (MutexInv /\ CheckStillHolds)'
  BY <1>13 DEF ApiPush, End
<1>14. CASE Receive
  BY <1>14 DEF Receive
<1>15. ASSUME NEW p \in Process, PushRLock(p) \/ Push(p) PROVE (MutexInv /\ CheckStillHolds)'
  BY <1>15 DEF PushRLock, Push
<1>16. CASE UNCHANGED vars
  BY <1>16 DEF vars
<1>. QED  BY <1>3, <1>4, <1>5, <1>6, <1>7, <1>8, <1>9, <1>10, <1>11, <1>12, <1>13, <1>14, <1>15, <1>16 DEF Next, Request, Acquire, Proceed

(* Without move2wait, the entry that upsertTorrent did not find under RLock *)
(* is still missing when it inserts one under Lock (engineUtil.go 26-41).   *)
THEOREM CheckStillHoldsAlways ==
    ASSUME "move2wait" \notin Ops
    PROVE  Spec => []CheckStillHolds
<1>1. Init => UpsertInv
  BY TypeInit DEF Init, UpsertInv, TypeInv, TaskInv, Serving, MutexInv, Upserting, CheckStillHolds
<1>2. UpsertInv /\ [Next]_vars => UpsertInv'
  BY UpsertInvNext
<1>3. UpsertInv => CheckStillHolds
  BY DEF UpsertInv
<1>. QED  BY <1>1, <1>2, <1>3, PTL DEF Spec

-----------------------------------------------------------------------------
(* Who has asked for e.Lock, who is inside e.RLock, who holds taskMutex. *)
Writing == {"insert", "delete", "signalDelete", "start"}
Reading == {"read", "push"}

HolderInv ==
    /\ \A g \in Goroutine : pc[g] \in Writing => writer = g
    /\ writer # Nobody => pc[writer] \in Writing
    /\ \A p \in readers : pc[p] \in Reading
    /\ taskMutex # Nobody => pc[taskMutex] \in Upserting

LoopInv ==
    /\ pc[Background] \in {"select", "rlock", "push"}
    /\ \A g \in Goroutine : pc[g] # "select"

WaitInv == TypeInv /\ HolderInv /\ LoopInv

LEMMA WaitInvNext ==
    ASSUME WaitInv, [Next]_vars
    PROVE  WaitInv'
<1>1. TypeInv /\ TypeInv'
  BY TypeInvNext DEF WaitInv
<1>2. SUFFICES (HolderInv /\ LoopInv)'
  BY <1>1 DEF WaitInv
<1>. USE <1>1, NullAssumption DEF WaitInv, HolderInv, LoopInv, Writing, Reading, Upserting, TypeInv, TypeOK
<1>3. ASSUME NEW g \in Goroutine, NEW ih \in Task, Add(g, ih) \/ Delete(g, ih)
      PROVE  (HolderInv /\ LoopInv)'
  BY <1>3 DEF Add, Delete, Admit, Idle
<1>4. ASSUME NEW g \in Goroutine, Start(g) \/ Info(g) \/ Tick(g)
      PROVE  (HolderInv /\ LoopInv)'
  BY <1>4 DEF Start, Info, Tick, Admit, Idle
<1>5. ASSUME NEW g \in Goroutine, LockTaskMutex(g) PROVE (HolderInv /\ LoopInv)'
  BY <1>5 DEF LockTaskMutex
<1>6. ASSUME NEW g \in Goroutine, UpsertRLock(g) PROVE (HolderInv /\ LoopInv)'
  BY <1>6 DEF UpsertRLock, RLock
<1>7. ASSUME NEW g \in Goroutine, UpsertRead(g) PROVE (HolderInv /\ LoopInv)'
  BY <1>7 DEF UpsertRead, RUnlock
<1>8. ASSUME NEW g \in Goroutine, UpsertLock(g) \/ DeleteLock(g) \/ StartLock(g)
      PROVE  (HolderInv /\ LoopInv)'
  BY <1>8 DEF UpsertLock, DeleteLock, StartLock, AskLock
<1>9. ASSUME NEW g \in Goroutine, UpsertInsert(g) \/ StartDone(g)
      PROVE  (HolderInv /\ LoopInv)'
  BY <1>9 DEF UpsertInsert, StartDone, Unlock, HasLock
<1>10. ASSUME NEW g \in Goroutine, UpsertSignal(g) PROVE (HolderInv /\ LoopInv)'
  BY <1>10 DEF UpsertSignal, Send, End
<1>11. ASSUME NEW g \in Goroutine, DeleteEntry(g) \/ DeleteMissing(g)
       PROVE  (HolderInv /\ LoopInv)'
  BY <1>11 DEF DeleteEntry, DeleteMissing, Unlock, HasLock
<1>12. ASSUME NEW g \in Goroutine, DeleteSignal(g) PROVE (HolderInv /\ LoopInv)'
  BY <1>12 DEF DeleteSignal, Send, Unlock
<1>13. ASSUME NEW g \in Goroutine, InfoSignal(g) \/ ApiPush(g) PROVE (HolderInv /\ LoopInv)'
  BY <1>13 DEF InfoSignal, ApiPush, Send, End
<1>14. CASE Receive
  BY <1>14 DEF Receive
<1>15. ASSUME NEW p \in Process, PushRLock(p) \/ Push(p) PROVE (HolderInv /\ LoopInv)'
  BY <1>15 DEF PushRLock, RLock, Push, RUnlock
<1>16. CASE UNCHANGED vars
  BY <1>16 DEF vars
<1>. QED  BY <1>3, <1>4, <1>5, <1>6, <1>7, <1>8, <1>9, <1>10, <1>11, <1>12, <1>13, <1>14, <1>15, <1>16 DEF Next, Request, Acquire, Proceed

(* Whatever requests interleave, and however many: if no call that has been *)
(* made can go on, a deletion holds e.Lock and waits for room in TsChanged, *)
(* and the loop that would make room waits for e.RLock.  Nothing else locks *)
(* the engine up (engineUtil.go 26-58, server_bg.go 23-26).                 *)
THEOREM OnlyDeleteBlocksHolds == Spec => []OnlyDeleteBlocks
<1>1. Init => WaitInv
  BY TypeInit, NullAssumption
     DEF Init, WaitInv, TypeInv, TaskInv, Serving, HolderInv, LoopInv, Writing, Reading
<1>2. WaitInv /\ [Next]_vars => WaitInv'
  BY WaitInvNext
<1>3. WaitInv => OnlyDeleteBlocks
  <2>. SUFFICES ASSUME WaitInv, Halted
                PROVE  /\ signals = Capacity /\ pc[Background] = "rlock"
                       /\ writer # Nobody /\ pc[writer] = "signalDelete"
    BY DEF OnlyDeleteBlocks
  <2>1. TypeOK /\ HolderInv /\ LoopInv /\ Background \in Process /\ Capacity = 1
    BY DEF WaitInv, TypeInv, Capacity
  <2>2. \A p \in Process : Waits(p) \/ pc[p] = "idle"
    BY DEF Halted
  <2>3. readers = {}
    <3>1. \A p \in Process : pc[p] \notin Reading
      BY <2>2 DEF Waits, Reading
    <3>. QED  BY <2>1, <3>1 DEF HolderInv, TypeOK
  <2>4. ASSUME writer # Nobody
        PROVE  pc[writer] = "signalDelete" /\ signals = Capacity
    <3>1. writer \in Process /\ pc[writer] \in Writing
      BY <2>1, <2>4 DEF TypeOK, HolderInv
    <3>2. HasLock(writer) /\ Waits(writer)
      BY <2>2, <2>3, <3>1 DEF HasLock, Writing
    <3>. QED  BY <3>1, <3>2 DEF Waits, Writing
  (* Without a writer everybody waits for room, if for anything. *)
  <2>5. ASSUME writer = Nobody, NEW g \in Goroutine, pc[g] # "idle"
        PROVE  signals = Capacity
    <3>1. \A h \in Goroutine : Waits(h) => \/ pc[h] = "mutex" /\ taskMutex # Nobody
                                           \/ pc[h] \in {"signal", "info"} /\ signals = Capacity
      BY <2>1, <2>5, NullAssumption DEF Waits, HolderInv, LoopInv, Writing
    <3>2. \A h \in Goroutine : Waits(h) \/ pc[h] = "idle"
      BY <2>2
    <3>3. CASE taskMutex # Nobody
      <4>1. taskMutex \in Goroutine /\ pc[taskMutex] \in Upserting
        BY <2>1, <3>3 DEF TypeOK, HolderInv
      <4>. QED  BY <3>1, <3>2, <4>1 DEF Upserting
    <3>. QED  BY <2>5, <3>1, <3>2, <3>3
  <2>6. signals = Capacity
    BY <2>4, <2>5 DEF Halted, Idle
  <2>7. pc[Background] = "rlock" /\ writer # Nobody
    BY <2>1, <2>2, <2>6 DEF Waits, LoopInv
  <2>. QED  BY <2>4, <2>6, <2>7
<1>. QED  BY <1>1, <1>2, <1>3, PTL DEF Spec
=============================================================================
