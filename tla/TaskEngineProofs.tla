-------------------------- MODULE TaskEngineProofs --------------------------
(***************************************************************************)
(* Theorems about the task engine, for any number of tasks and goroutines, *)
(* any limits and any sequence of requests.                                *)
(***************************************************************************)
EXTENDS TaskEngine, WellFoundedInduction, FiniteSetTheorems, TLAPS

-----------------------------------------------------------------------------
(* What the operations on the wait list return (engine/waitList.go).       *)

(* A set of natural numbers that is not empty has a least element. *)
LEMMA LeastElement ==
    ASSUME NEW T, T \subseteq Nat, T # {}
    PROVE  \E i \in T : \A j \in T : i <= j
<1>1. PICK i \in T : \A j \in T : ~(<<j, i>> \in OpToRel(<, Nat))
  BY NatLessThanWellFounded, WFMin, Zenon
<1>2. ASSUME NEW j \in T PROVE i <= j
  <2>1. ~(j < i)
    <3>1. \A m, n \in Nat : m < n => <<m, n>> \in OpToRel(<, Nat)
      BY DEF OpToRel
    <3>. QED  BY <1>1, <3>1, Zenon
  <2>. QED  BY <2>1
<1>. QED  BY <1>1, <1>2

(* syncList.Remove (waitList.go 35-46) returns the list unchanged when the *)
(* infohash does not wait, and otherwise closes the gap of one element.    *)
THEOREM RemoveTaskCases ==
    ASSUME NEW S, NEW list \in Seq(Elem(S)), NEW ih
    PROVE  \/ ~Waits(list, ih) /\ RemoveTask(list, ih) = list
           \/ \E k \in 1..Len(list) :
                /\ list[k].ih = ih
                /\ \A j \in 1..Len(list) : list[j].ih = ih => k <= j
                /\ RemoveTask(list, ih) = SubSeq(list, 1, k-1) \o SubSeq(list, k+1, Len(list))
<1> DEFINE at == {i \in 1..Len(list) : list[i].ih = ih}
           k == CHOOSE i \in at : \A j \in at : i <= j
<1>1. CASE at = {}
  BY <1>1 DEF RemoveTask, Waits
<1>2. CASE at # {}
  <2>1. at \subseteq Nat
    OBVIOUS
  <2>2. \E i \in at : \A j \in at : i <= j
    BY <1>2, <2>1, LeastElement, Zenon
  <2>3. k \in at /\ \A j \in at : k <= j
    BY <2>2, Zenon
  <2>4. RemoveTask(list, ih) = SubSeq(list, 1, k-1) \o SubSeq(list, k+1, Len(list))
    BY <1>2 DEF RemoveTask, RemoveAt
  <2>5. k \in 1..Len(list) /\ list[k].ih = ih
    BY <2>3
  <2>6. \A j \in 1..Len(list) : list[j].ih = ih => k <= j
    BY <2>3
  <2>. HIDE DEF k, at
  <2>. QED  BY <2>4, <2>5, <2>6, Zenon
<1>. QED  BY <1>1, <1>2

(* Removing keeps a list of task elements. *)
THEOREM RemoveTaskType ==
    ASSUME NEW S, NEW list \in Seq(Elem(S)), NEW ih
    PROVE  RemoveTask(list, ih) \in Seq(Elem(S))
<1> DEFINE E == Elem(S)
<1>1. CASE RemoveTask(list, ih) = list
  BY <1>1
<1>2. ASSUME NEW k \in 1..Len(list),
             RemoveTask(list, ih) = SubSeq(list, 1, k-1) \o SubSeq(list, k+1, Len(list))
      PROVE  RemoveTask(list, ih) \in Seq(E)
  <2>. HIDE DEF E
  <2>1. list \in Seq(E)
    BY DEF E
  <2>2. SubSeq(list, 1, k-1) \in Seq(E) /\ SubSeq(list, k+1, Len(list)) \in Seq(E)
    BY <2>1
  <2>. QED  BY <1>2, <2>2
<1>. QED  BY <1>1, <1>2, RemoveTaskCases

LEMMA ConcatLength ==
    ASSUME NEW T, NEW a \in Seq(T), NEW b \in Seq(T)
    PROVE  Len(a \o b) = Len(a) + Len(b)
OBVIOUS

(* Removing takes out one element at most and moves up those behind it. *)
LEMMA RemoveTaskElements ==
    ASSUME NEW S, NEW list \in Seq(Elem(S)), NEW ih
    PROVE  \/ ~Waits(list, ih) /\ RemoveTask(list, ih) = list
           \/ \E k \in 1..Len(list) :
                /\ list[k].ih = ih
                /\ Len(RemoveTask(list, ih)) = Len(list) - 1
                /\ \A i \in 1..(Len(list)-1) :
                     RemoveTask(list, ih)[i] = IF i < k THEN list[i] ELSE list[i+1]
<1> DEFINE E == Elem(S)
<1>1. ASSUME NEW k \in 1..Len(list), list[k].ih = ih,
             RemoveTask(list, ih) = SubSeq(list, 1, k-1) \o SubSeq(list, k+1, Len(list))
      PROVE  /\ Len(RemoveTask(list, ih)) = Len(list) - 1
             /\ \A i \in 1..(Len(list)-1) :
                  RemoveTask(list, ih)[i] = IF i < k THEN list[i] ELSE list[i+1]
  <2>. HIDE DEF E
  <2>0. list \in Seq(E) /\ Len(list) \in Nat
    BY DEF E
  <2>. DEFINE a == SubSeq(list, 1, k-1)
              b == SubSeq(list, k+1, Len(list))
  <2>1. a \in Seq(E) /\ Len(a) = k-1 /\ \A i \in 1..(k-1) : a[i] = list[i]
    BY <2>0
  <2>2. b \in Seq(E) /\ Len(b) = Len(list)-k /\ \A i \in 1..(Len(list)-k) : b[i] = list[k+i]
    BY <2>0
  <2>. HIDE DEF a, b
  <2>3. Len(a \o b) = Len(list) - 1
    <3>1. Len(a \o b) = Len(a) + Len(b)
      BY <2>1, <2>2, ConcatLength
    <3>. QED  BY <3>1, <2>0, <2>1, <2>2
  <2>4. ASSUME NEW i \in 1..(Len(list)-1)
        PROVE  (a \o b)[i] = IF i < k THEN list[i] ELSE list[i+1]
    <3>1. (a \o b)[i] = IF i <= Len(a) THEN a[i] ELSE b[i - Len(a)]
      BY <2>0, <2>1, <2>2
    <3>2. CASE i < k
      BY <3>1, <3>2, <2>1
    <3>3. CASE ~(i < k)
      <4>1. (a \o b)[i] = b[i - (k-1)]
        BY <3>1, <3>3, <2>1
      <4>2. i - (k-1) \in 1..(Len(list)-k) /\ k + (i - (k-1)) = i+1
        BY <3>3, <2>0
      <4>3. b[i - (k-1)] = list[k + (i - (k-1))]
        BY <4>2, <2>2
      <4>. QED  BY <4>1, <4>2, <4>3, <3>3
    <3>. QED  BY <3>2, <3>3
  <2>5. RemoveTask(list, ih) = a \o b
    BY <1>1 DEF a, b
  <2>. QED  BY <2>3, <2>4, <2>5
<1>2. CASE ~Waits(list, ih) /\ RemoveTask(list, ih) = list
  BY <1>2
<1>3. CASE \E k \in 1..Len(list) :
              /\ list[k].ih = ih
              /\ RemoveTask(list, ih) = SubSeq(list, 1, k-1) \o SubSeq(list, k+1, Len(list))
  BY <1>1, <1>3
<1>. QED  BY <1>2, <1>3, RemoveTaskCases

(* Removing one task adds no other. *)
THEOREM RemoveTaskWaits ==
    ASSUME NEW S, NEW list \in Seq(Elem(S)), NEW ih, NEW jh, Waits(RemoveTask(list, ih), jh)
    PROVE  Waits(list, jh)
<1>1. CASE RemoveTask(list, ih) = list
  BY <1>1
<1>2. ASSUME NEW k \in 1..Len(list), Len(RemoveTask(list, ih)) = Len(list) - 1,
             \A i \in 1..(Len(list)-1) :
                RemoveTask(list, ih)[i] = IF i < k THEN list[i] ELSE list[i+1]
      PROVE  Waits(list, jh)
  <2>1. PICK i \in 1..(Len(list)-1) : RemoveTask(list, ih)[i].ih = jh
    BY <1>2 DEF Waits
  <2>2. CASE i < k
    BY <1>2, <2>1, <2>2 DEF Waits
  <2>3. CASE ~(i < k)
    <3>1. i+1 \in 1..Len(list) /\ list[i+1].ih = jh
      BY <1>2, <2>1, <2>3
    <3>. QED  BY <3>1 DEF Waits
  <2>. QED  BY <2>2, <2>3
<1>. QED  BY <1>1, <1>2, RemoveTaskElements

(* If no task waits twice, a removed task waits no more: this is what       *)
(* DeleteTorrent (engine.go 409-422) relies on when it removes the first    *)
(* element only.                                                            *)
THEOREM RemoveTaskOnce ==
    ASSUME NEW S, NEW list \in Seq(Elem(S)), NEW ih, AtMostOnce(list)
    PROVE  AtMostOnce(RemoveTask(list, ih)) /\ ~Waits(RemoveTask(list, ih), ih)
<1>1. CASE ~Waits(list, ih) /\ RemoveTask(list, ih) = list
  BY <1>1
<1>2. ASSUME NEW k \in 1..Len(list), list[k].ih = ih,
             Len(RemoveTask(list, ih)) = Len(list) - 1,
             \A i \in 1..(Len(list)-1) :
                RemoveTask(list, ih)[i] = IF i < k THEN list[i] ELSE list[i+1]
      PROVE  AtMostOnce(RemoveTask(list, ih)) /\ ~Waits(RemoveTask(list, ih), ih)
  <2>. DEFINE r == RemoveTask(list, ih)
              at(i) == IF i < k THEN i ELSE i+1
  <2>1. ASSUME NEW i \in 1..Len(r)
        PROVE  at(i) \in 1..Len(list) /\ at(i) # k /\ r[i] = list[at(i)]
    BY <1>2
  <2>2. \A i, j \in 1..Len(r) : at(i) = at(j) => i = j
    BY <1>2
  <2>. HIDE DEF r, at
  <2>3. AtMostOnce(r)
    BY <2>1, <2>2 DEF AtMostOnce
  <2>4. ~Waits(r, ih)
    BY <1>2, <2>1 DEF AtMostOnce, Waits
  <2>. QED  BY <2>3, <2>4 DEF r
<1>. QED  BY <1>1, <1>2, RemoveTaskElements

(* Pushing adds this task and no other, and pops take tasks away only. *)
LEMMA PushWaits ==
    ASSUME NEW S, NEW list \in Seq(Elem(S)), NEW e \in Elem(S)
    PROVE  /\ \A ih : Waits(Push(list, e), ih) => Waits(list, ih) \/ e.ih = ih
           /\ AtMostOnce(list) /\ ~Waits(list, e.ih) => AtMostOnce(Push(list, e))
<1> DEFINE E == Elem(S)
<1>. HIDE DEF E
<1>1. list \in Seq(E) /\ e \in E /\ Len(list) \in Nat
  BY DEF E
<1>2. /\ Len(Append(list, e)) = Len(list) + 1
      /\ Append(list, e)[Len(list) + 1] = e
      /\ \A i \in 1..Len(list) : Append(list, e)[i] = list[i]
  BY <1>1
<1>. QED  BY <1>1, <1>2 DEF Push, Waits, AtMostOnce

LEMMA PopWaits ==
    ASSUME NEW S, NEW list \in Seq(Elem(S)), list # <<>>
    PROVE  /\ \A ih : Waits(PopRest(list), ih) => Waits(list, ih)
           /\ AtMostOnce(list) => AtMostOnce(PopRest(list))
<1> DEFINE E == Elem(S)
<1>. HIDE DEF E
<1>1. list \in Seq(E) /\ Len(list) \in Nat /\ Len(list) > 0
  BY DEF E
<1>2. /\ Len(Tail(list)) = Len(list) - 1
      /\ \A i \in 1..(Len(list)-1) : Tail(list)[i] = list[i+1]
  BY <1>1
<1>3. \A i \in 1..(Len(list)-1) : i+1 \in 1..Len(list)
  BY <1>1
<1>. QED  BY <1>1, <1>2, <1>3 DEF PopRest, Waits, AtMostOnce
(* Removing one task keeps the others and brings in no element.             *)
LEMMA RemoveTaskKeeps ==
    ASSUME NEW S, NEW list \in Seq(Elem(S)), NEW ih
    PROVE  /\ \A jh : jh # ih /\ Waits(list, jh) => Waits(RemoveTask(list, ih), jh)
           /\ \A i \in 1..Len(RemoveTask(list, ih)) :
                \E j \in 1..Len(list) : RemoveTask(list, ih)[i] = list[j]
<1>1. CASE RemoveTask(list, ih) = list
  BY <1>1
<1>2. ASSUME NEW k \in 1..Len(list), list[k].ih = ih,
             Len(RemoveTask(list, ih)) = Len(list) - 1,
             \A i \in 1..(Len(list)-1) :
                RemoveTask(list, ih)[i] = IF i < k THEN list[i] ELSE list[i+1]
      PROVE  /\ \A jh : jh # ih /\ Waits(list, jh) => Waits(RemoveTask(list, ih), jh)
             /\ \A i \in 1..Len(RemoveTask(list, ih)) :
                  \E j \in 1..Len(list) : RemoveTask(list, ih)[i] = list[j]
  <2>. DEFINE r == RemoveTask(list, ih)
  <2>0. Len(list) \in Nat
    OBVIOUS
  <2>1. ASSUME NEW jh, jh # ih, NEW j \in 1..Len(list), list[j].ih = jh
        PROVE  \E i \in 1..Len(r) : r[i].ih = jh
    <3>. DEFINE i == IF j < k THEN j ELSE j-1
    <3>1. j # k
      BY <1>2, <2>1
    <3>2. i \in 1..Len(r)
      BY <1>2, <2>0, <3>1
    <3>3. r[i] = list[j]
      BY <1>2, <2>0, <3>1
    <3>. HIDE DEF i, r
    <3>. QED  BY <2>1, <3>2, <3>3
  <2>2. ASSUME NEW i \in 1..Len(r)
        PROVE  \E j \in 1..Len(list) : r[i] = list[j]
    BY <1>2, <2>0
  <2>. QED  BY <2>1, <2>2 DEF Waits
<1>. QED  BY <1>1, <1>2, RemoveTaskElements

LEMMA RemoveTaskEmpty ==
    ASSUME NEW ih
    PROVE  RemoveTask(<<>>, ih) = <<>>
BY DEF RemoveTask

(* A push loses no element, and the element pushed waits.                   *)
LEMMA PushKeeps ==
    ASSUME NEW S, NEW list \in Seq(Elem(S)), NEW e \in Elem(S)
    PROVE  /\ \A ih : Waits(list, ih) => Waits(Push(list, e), ih)
           /\ Waits(Push(list, e), e.ih)
           /\ Push(list, e) # <<>>
           /\ \A i \in 1..Len(Push(list, e)) :
                Push(list, e)[i] = e \/ \E j \in 1..Len(list) : Push(list, e)[i] = list[j]
<1> DEFINE E == Elem(S)
<1>. HIDE DEF E
<1>1. list \in Seq(E) /\ e \in E /\ Len(list) \in Nat
  BY DEF E
<1>2. /\ Len(Append(list, e)) = Len(list) + 1
      /\ Append(list, e)[Len(list) + 1] = e
      /\ \A i \in 1..Len(list) : Append(list, e)[i] = list[i]
  BY <1>1
<1>. QED  BY <1>1, <1>2 DEF Push, Waits

(* A pop takes out the front element and no other.                          *)
LEMMA PopKeeps ==
    ASSUME NEW S, NEW list \in Seq(Elem(S)), list # <<>>
    PROVE  /\ PopElem(list) \in Elem(S) /\ PopRest(list) \in Seq(Elem(S))
           /\ Waits(list, PopElem(list).ih)
           /\ \E j \in 1..Len(list) : PopElem(list) = list[j]
           /\ \A ih : Waits(list, ih) => Waits(PopRest(list), ih) \/ PopElem(list).ih = ih
           /\ AtMostOnce(list) => ~Waits(PopRest(list), PopElem(list).ih)
           /\ \A i \in 1..Len(PopRest(list)) :
                \E j \in 1..Len(list) : PopRest(list)[i] = list[j]
<1> DEFINE E == Elem(S)
<1>. HIDE DEF E
<1>1. list \in Seq(E) /\ Len(list) \in Nat /\ Len(list) > 0
  BY DEF E
<1>2. /\ Tail(list) \in Seq(E)
      /\ Len(Tail(list)) = Len(list) - 1
      /\ \A i \in 1..(Len(list)-1) : Tail(list)[i] = list[i+1]
  BY <1>1
<1>3. Head(list) = list[1] /\ 1 \in 1..Len(list) /\ Head(list) \in E
  BY <1>1
<1>4. \A i \in 1..(Len(list)-1) : i+1 \in 1..Len(list) /\ i+1 # 1
  BY <1>1
<1>5. \A j \in 1..Len(list) : j = 1 \/ (j-1 \in 1..(Len(list)-1) /\ Tail(list)[j-1] = list[j])
  BY <1>1, <1>2
<1>6. \A ih : Waits(list, ih) => Waits(PopRest(list), ih) \/ PopElem(list).ih = ih
  BY <1>2, <1>3, <1>5 DEF PopRest, PopElem, Waits
<1>7. AtMostOnce(list) => ~Waits(PopRest(list), PopElem(list).ih)
  BY <1>2, <1>3, <1>4 DEF PopRest, PopElem, Waits, AtMostOnce
<1>8. \A i \in 1..Len(PopRest(list)) : \E j \in 1..Len(list) : PopRest(list)[i] = list[j]
  BY <1>2, <1>4 DEF PopRest
<1>. QED  BY <1>2, <1>3, <1>6, <1>7, <1>8 DEF PopElem, PopRest, Waits, E

-----------------------------------------------------------------------------
(* Types. *)

(* A goroutine that has left these places works on a task. *)
JobInv == \A g \in Goroutine : pc[g] \notin {"idle", "next", "pop"} => job[g] \in TaskElem

TypeInv == TypeOK /\ JobInv

USE DEF TaskElem

LEMMA ElemFields ==
    ASSUME NEW e \in TaskElem
    PROVE  e.ih \in Task /\ e.tp \in TaskType
BY DEF Elem

LEMMA TypeInvInit == Init => TypeInv
BY DEF Init, TypeInv, TypeOK, JobInv, PC, Ref, Entry

LEMMA TypeInvNext ==
    ASSUME TypeInv, [Next]_vars
    PROVE  TypeInv'
<1>. USE TypeInv DEF TypeInv, TypeOK, JobInv, At, Goto, shared
<1>1. ASSUME NEW g \in Goroutine, NEW elem \in TaskElem, AddTask(g, elem) PROVE TypeInv'
  BY <1>1 DEF AddTask, Admit, Idle, PC, Queueing, Upserting, Processor
<1>2. ASSUME NEW g \in Goroutine, NEW ih \in Task, ApiDelete(g, ih) PROVE TypeInv'
  BY <1>2, RemoveTaskType DEF ApiDelete, DeleteTorrent, PC, Ref, Entry, Elem, TaskType
<1>3. ASSUME NEW g \in Goroutine, NEW ih \in Task, ApiMove2Wait(g, ih) PROVE TypeInv'
  BY <1>3, RemoveTaskType DEF ApiMove2Wait, DeleteTorrent, PC, Ref, Entry, Elem, TaskType
<1>4. ASSUME NEW g \in Goroutine, NEW m \in Limits, ApiConfigure(g, m) PROVE TypeInv'
  BY <1>4 DEF ApiConfigure, Admit, Idle, PC
<1>5. ASSUME NEW g \in Goroutine, NEW h \in Goroutine, TaskRoutine(g, h) PROVE TypeInv'
  BY <1>5 DEF TaskRoutine, PC, Queueing, Upserting, Processor
<1>6. ASSUME NEW g \in Goroutine, IsTaskInList(g) PROVE TypeInv'
  BY <1>6 DEF IsTaskInList, PC, Ref, Entry, Queueing, Upserting, Processor, Elem, TaskType
<1>7. ASSUME NEW g \in Goroutine, PushPretask(g) PROVE TypeInv'
  BY <1>7 DEF PushPretask, Push, PC, Ref, Entry, Queueing, Upserting, Processor, Elem, TaskType
<1>8. ASSUME NEW g \in Goroutine, UpsertLookup(g) PROVE TypeInv'
  BY <1>8 DEF UpsertLookup, PC, Ref, Entry, Queueing, Upserting, Processor, Elem, TaskType
<1>9. ASSUME NEW g \in Goroutine, UpsertInsert(g) PROVE TypeInv'
  BY <1>9 DEF UpsertInsert, AfterUpsert, EntryOf, PC, Ref, Entry, Queueing, Upserting, Processor, Elem, TaskType
<1>10. ASSUME NEW g \in Goroutine, UpsertMark(g) PROVE TypeInv'
  BY <1>10 DEF UpsertMark, AfterUpsert, EntryOf, PC, Ref, Entry, Queueing, Upserting, Processor, Elem, TaskType
<1>11. ASSUME NEW g \in Goroutine, QueuedReturn(g) PROVE TypeInv'
  BY <1>11 DEF QueuedReturn, End, PC, Ref, Entry, Queueing, Upserting, Processor, Elem, TaskType
<1>12. ASSUME NEW g \in Goroutine, AddSpec(g) PROVE TypeInv'
  BY <1>12 DEF AddSpec, Idle, PC, Ref, Entry, Queueing, Upserting, Processor, Elem, TaskType
<1>13. ASSUME NEW g \in Goroutine, AddSpecFails(g) PROVE TypeInv'
  BY <1>13 DEF AddSpecFails, Again, PC, Ref, Entry, Queueing, Upserting, Processor, Elem, TaskType
<1>14. ASSUME NEW g \in Goroutine, GotInfo(g) PROVE TypeInv'
  BY <1>14 DEF GotInfo, PC, Ref, Entry, Queueing, Upserting, Processor, Elem, TaskType
<1>15. ASSUME NEW g \in Goroutine, CacheInfo(g) PROVE TypeInv'
  BY <1>15 DEF CacheInfo, PC, Ref, Entry, Queueing, Upserting, Processor, Elem, TaskType
<1>16. ASSUME NEW g \in Goroutine, DropTask(g) PROVE TypeInv'
  BY <1>16 DEF DropTask, PC, Ref, Entry, Queueing, Upserting, Processor, Elem, TaskType
<1>17. ASSUME NEW g \in Goroutine, ApiRemoveCache(g) PROVE TypeInv'
  BY <1>17 DEF ApiRemoveCache, End, PC, Ref, Entry, Queueing, Upserting, Processor, Elem, TaskType
<1>18. ASSUME NEW g \in Goroutine, ExpireRemoveCache(g) PROVE TypeInv'
  BY <1>18 DEF ExpireRemoveCache, PC
<1>19. ASSUME NEW g \in Goroutine, ExpireDelete(g) PROVE TypeInv'
  <2>1. pc' \in [Goroutine -> PC] /\ job' \in [Goroutine -> TaskElem \cup {NoJob}] /\ JobInv'
    BY <1>19 DEF ExpireDelete, PC
  <2>2. waitList' \in Seq(TaskElem)
    BY <1>19, RemoveTaskType DEF ExpireDelete, DeleteTorrent
  <2>3. ts' \in [Task -> {"absent"} \cup Entry] /\ ref' \in [Goroutine -> Ref]
    BY <1>19 DEF ExpireDelete, DeleteTorrent, Ref
  <2>. QED  BY <1>19, <2>1, <2>2, <2>3 DEF ExpireDelete
<1>20. ASSUME NEW g \in Goroutine, PushWait(g) PROVE TypeInv'
  BY <1>20 DEF PushWait, Push, PC, Ref, Entry, Queueing, Upserting, Processor, Elem, TaskType
<1>21. ASSUME NEW g \in Goroutine, LoadMeta(g) PROVE TypeInv'
  BY <1>21 DEF LoadMeta, End, PC, Ref, Entry, Queueing, Upserting, Processor, Elem, TaskType
<1>22. ASSUME NEW g \in Goroutine, NextCheck(g) PROVE TypeInv'
  BY <1>22 DEF NextCheck, End, PC, Ref
<1>23. ASSUME NEW g \in Goroutine, NextPop(g) PROVE TypeInv'
  <2>1. CASE waitList = <<>>
    BY <1>23, <2>1 DEF NextPop, End, PC, Ref
  <2>2. CASE waitList # <<>>
    <3>1. Head(waitList) \in TaskElem /\ Tail(waitList) \in Seq(TaskElem)
      BY <2>2
    <3>. QED  BY <1>23, <2>2, <3>1 DEF NextPop, PopElem, PopRest, PC
  <2>. QED  BY <2>1, <2>2
<1>24. ASSUME NEW g \in Goroutine, NextStat(g) PROVE TypeInv'
  BY <1>24 DEF NextStat, PC, Ref, Entry, Queueing, Upserting, Processor, Elem, TaskType
<1>25. ASSUME NEW g \in Goroutine, NextLoad(g) PROVE TypeInv'
  BY <1>25 DEF NextLoad, Again, PC, Ref, Entry, Queueing, Upserting, Processor, Elem, TaskType
<1>26. ASSUME NEW g \in Goroutine, NextCache(g) PROVE TypeInv'
  BY <1>26 DEF NextCache, PC, Ref, Entry, Queueing, Upserting, Processor, Elem, TaskType
<1>27. ASSUME NEW g \in Goroutine, LockTask(g) PROVE TypeInv'
  BY <1>27 DEF LockTask, PC, Ref, Entry, Queueing, Upserting, Processor, Elem, TaskType
<1>28. CASE UNCHANGED vars
  BY <1>28 DEF vars, shared, local
<1>. QED  BY <1>1, <1>2, <1>3, <1>4, <1>5, <1>6, <1>7, <1>8, <1>9, <1>10, <1>11, <1>12, <1>13, <1>14, <1>15, <1>16, <1>17, <1>18, <1>19, <1>20, <1>21, <1>22, <1>23, <1>24, <1>25, <1>26, <1>27, <1>28 DEF Next, Request, Event, Run

(* Every variable of the engine keeps its type, and a goroutine that works  *)
(* on a task has one (the states of engine.go 218-308 and engineCache.go    *)
(* 96-187).                                                                 *)
THEOREM TypeCorrect == Spec => []TypeOK
<1>1. Init => TypeInv
  BY TypeInvInit
<1>2. TypeInv /\ [Next]_vars => TypeInv'
  BY TypeInvNext
<1>3. TypeInv => TypeOK
  BY DEF TypeInv
<1>. QED  BY <1>1, <1>2, <1>3, PTL DEF Spec

-----------------------------------------------------------------------------
(* The slot limit. *)

(* A goroutine that adds a task, as against one that queues it. *)
Adding(g) == pc[g] = "spec" \/ (pc[g] \in Upserting /\ ~queueing[g])

SlotFree == \E m \in InForce : m = 0 \/ Cardinality(client) < m

(* Whoever adds a task holds taskMutex and still has the free slot that     *)
(* isReadyAddTask saw: others can only take torrents out of the client.     *)
AddInv == \A g \in Goroutine : Adding(g) => taskMutex = g /\ SlotFree

(* Whoever queues a task holds taskMutex too. *)
Enqueuing(g) == pc[g] \in Queueing
LockInv == \A g \in Goroutine : Enqueuing(g) => taskMutex = g /\ queueing[g]

SlotInv == TypeInv /\ AddInv /\ LockInv /\ SlotLimit

LEMMA ClientFinite ==
    ASSUME TypeInv
    PROVE  IsFiniteSet(client) /\ Cardinality(client) \in Nat
BY FiniteAssumption, FS_Subset, FS_CardinalityType DEF TypeInv, TypeOK

(* Dropping a torrent frees a slot or leaves the client as it was. *)
LEMMA DropShrinks ==
    ASSUME TypeInv, NEW ih
    PROVE  /\ Cardinality(client \ {ih}) \in Nat
           /\ Cardinality(client \ {ih}) <= Cardinality(client)
BY ClientFinite, FS_Subset, FS_CardinalityType

(* Adding a torrent takes at most one slot. *)
LEMMA AddGrows ==
    ASSUME TypeInv, NEW ih
    PROVE  /\ Cardinality(client \cup {ih}) \in Nat
           /\ Cardinality(client \cup {ih}) <= Cardinality(client) + 1
<1>1. Cardinality(client \cup {ih})
        = IF ih \in client THEN Cardinality(client) ELSE Cardinality(client) + 1
  BY ClientFinite, FS_AddElement
<1>. QED  BY <1>1, ClientFinite

(* Only a configuration brings another limit into force. *)
LEMMA InForceKept ==
    ASSUME TypeInv, [Next]_vars
    PROVE  InForce' = InForce
<1>1. maxTask' = maxTask \/ "configure" \in Ops
  BY DEF Next, Request, Event, Run, vars, shared, AddTask, ApiDelete, ApiMove2Wait,
         ApiConfigure, Admit, GotInfo, TaskRoutine, LockTask, IsTaskInList, PushPretask,
         UpsertLookup, UpsertInsert, UpsertMark, QueuedReturn, AddSpec, AddSpecFails,
         CacheInfo, DropTask, ApiRemoveCache, ExpireRemoveCache, ExpireDelete,
         PushWait, LoadMeta, NextCheck, NextPop, NextStat, NextLoad, NextCache
<1>. QED  BY <1>1 DEF InForce

LEMMA InForceNat ==
    ASSUME TypeInv
    PROVE  InForce \subseteq Limits /\ InForce \subseteq Nat
BY LimitsAssumption DEF TypeInv, TypeOK, InForce

(* A step that neither starts an addition nor lets the client grow keeps    *)
(* the slot of every addition under way.                                    *)
LEMMA SlotKept ==
    ASSUME SlotInv, TypeInv',
           InForce' = InForce,
           Cardinality(client') <= Cardinality(client),
           \A g \in Goroutine : Adding(g)' => Adding(g) /\ taskMutex' = g,
           \A g \in Goroutine : Enqueuing(g)' => taskMutex' = g /\ queueing'[g]
    PROVE  SlotInv'
<1>1. Cardinality(client) \in Nat /\ Cardinality(client') \in Nat
  BY ClientFinite, FiniteAssumption, FS_Subset, FS_CardinalityType DEF SlotInv, TypeInv, TypeOK
<1>2. SlotFree => SlotFree'
  BY <1>1, InForceNat DEF SlotInv, SlotFree
<1>3. SlotLimit'
  BY <1>1, InForceNat DEF SlotInv, SlotLimit
<1>. QED  BY <1>2, <1>3 DEF SlotInv, AddInv, LockInv

LEMMA SlotInvInit == Init => SlotInv
<1>. SUFFICES ASSUME Init PROVE SlotInv
  OBVIOUS
<1>1. SlotLimit
  BY FS_EmptySet, LimitsAssumption DEF Init, SlotLimit, InForce
<1>2. AddInv /\ LockInv
  BY DEF Init, AddInv, LockInv, Adding, Enqueuing, Queueing, Upserting
<1>. QED  BY <1>1, <1>2, TypeInvInit DEF SlotInv

LEMMA SlotInvNext ==
    ASSUME SlotInv, [Next]_vars
    PROVE  SlotInv'
<1>1. TypeInv /\ TypeInv'
  BY TypeInvNext DEF SlotInv
<1>2. Cardinality(client) \in Nat /\ InForce' = InForce /\ InForce \subseteq Nat
  BY <1>1, ClientFinite, InForceKept, InForceNat
<1>. DEFINE Quiet ==
              /\ Cardinality(client') <= Cardinality(client)
              /\ \A g \in Goroutine : Adding(g)' => Adding(g) /\ taskMutex' = g
              /\ \A g \in Goroutine : Enqueuing(g)' => taskMutex' = g /\ queueing'[g]
<1>3. Quiet => SlotInv'
  BY <1>1, <1>2, SlotKept
<1>. USE <1>1, <1>2 DEF SlotInv, TypeInv, TypeOK, AddInv, LockInv, Adding, Enqueuing, Queueing, Upserting, At, Goto, shared
<1>4. ASSUME NEW g \in Goroutine, NEW elem \in TaskElem, AddTask(g, elem) PROVE SlotInv'
  BY <1>4, <1>3 DEF AddTask, Admit, Idle
<1>5. ASSUME NEW g \in Goroutine, NEW ih \in Task, ApiDelete(g, ih) PROVE SlotInv'
  BY <1>5, <1>3 DEF ApiDelete, DeleteTorrent, Admit, Idle
<1>6. ASSUME NEW g \in Goroutine, NEW ih \in Task, ApiMove2Wait(g, ih) PROVE SlotInv'
  BY <1>6, <1>3 DEF ApiMove2Wait, DeleteTorrent, Admit, Idle
<1>7. ASSUME NEW g \in Goroutine, NEW m \in Limits, ApiConfigure(g, m) PROVE SlotInv'
  BY <1>7, <1>3 DEF ApiConfigure, Admit, Idle
<1>8. ASSUME NEW g \in Goroutine, NEW h \in Goroutine, TaskRoutine(g, h) PROVE SlotInv'
  BY <1>8, <1>3 DEF TaskRoutine, Idle
<1>9. ASSUME NEW g \in Goroutine, IsTaskInList(g) PROVE SlotInv'
  BY <1>9, <1>3 DEF IsTaskInList
<1>10. ASSUME NEW g \in Goroutine, PushPretask(g) PROVE SlotInv'
  BY <1>10, <1>3 DEF PushPretask
<1>11. ASSUME NEW g \in Goroutine, UpsertLookup(g) PROVE SlotInv'
  BY <1>11, <1>3 DEF UpsertLookup
<1>12. ASSUME NEW g \in Goroutine, UpsertInsert(g) PROVE SlotInv'
  BY <1>12, <1>3 DEF UpsertInsert, AfterUpsert
<1>13. ASSUME NEW g \in Goroutine, UpsertMark(g) PROVE SlotInv'
  BY <1>13, <1>3 DEF UpsertMark, AfterUpsert
<1>14. ASSUME NEW g \in Goroutine, QueuedReturn(g) PROVE SlotInv'
  BY <1>14, <1>3 DEF QueuedReturn, End
<1>15. ASSUME NEW g \in Goroutine, AddSpecFails(g) PROVE SlotInv'
  BY <1>15, <1>3 DEF AddSpecFails, Again
<1>16. ASSUME NEW g \in Goroutine, GotInfo(g) PROVE SlotInv'
  BY <1>16, <1>3 DEF GotInfo
<1>17. ASSUME NEW g \in Goroutine, CacheInfo(g) PROVE SlotInv'
  BY <1>17, <1>3 DEF CacheInfo
<1>18. ASSUME NEW g \in Goroutine, ApiRemoveCache(g) PROVE SlotInv'
  BY <1>18, <1>3 DEF ApiRemoveCache, End
<1>19. ASSUME NEW g \in Goroutine, ExpireRemoveCache(g) PROVE SlotInv'
  BY <1>19, <1>3 DEF ExpireRemoveCache
<1>20. ASSUME NEW g \in Goroutine, ExpireDelete(g) PROVE SlotInv'
  BY <1>20, <1>3 DEF ExpireDelete
<1>21. ASSUME NEW g \in Goroutine, PushWait(g) PROVE SlotInv'
  BY <1>21, <1>3 DEF PushWait
<1>22. ASSUME NEW g \in Goroutine, LoadMeta(g) PROVE SlotInv'
  BY <1>22, <1>3 DEF LoadMeta, End
<1>23. ASSUME NEW g \in Goroutine, NextCheck(g) PROVE SlotInv'
  BY <1>23, <1>3 DEF NextCheck, End
<1>24. ASSUME NEW g \in Goroutine, NextPop(g) PROVE SlotInv'
  BY <1>24, <1>3 DEF NextPop, End
<1>25. ASSUME NEW g \in Goroutine, NextStat(g) PROVE SlotInv'
  BY <1>25, <1>3 DEF NextStat
<1>26. ASSUME NEW g \in Goroutine, NextLoad(g) PROVE SlotInv'
  BY <1>26, <1>3 DEF NextLoad, Again
<1>27. ASSUME NEW g \in Goroutine, NextCache(g) PROVE SlotInv'
  BY <1>27, <1>3 DEF NextCache
<1>28. ASSUME NEW g \in Goroutine, DropTask(g) PROVE SlotInv'
  <2>1. Cardinality(client') <= Cardinality(client)
    BY <1>28, DropShrinks DEF DropTask
  <2>. QED  BY <1>28, <2>1, <1>3 DEF DropTask
<1>29. ASSUME NEW g \in Goroutine, LockTask(g) PROVE SlotInv'
  <2>1. IsReadyAddTask => SlotFree
    BY DEF IsReadyAddTask, SlotFree, InForce
  <2>2. SlotLimit' /\ (SlotFree => SlotFree')
    BY <1>29 DEF LockTask, SlotLimit, SlotFree
  <2>3. LockInv'
    BY <1>29, NullAssumption DEF LockTask
  <2>4. AddInv'
    BY <1>29, <2>1, <2>2, NullAssumption DEF LockTask
  <2>. QED  BY <2>2, <2>3, <2>4
<1>30. ASSUME NEW g \in Goroutine, AddSpec(g) PROVE SlotInv'
  <2>1. taskMutex = g /\ SlotFree
    BY <1>30 DEF AddSpec
  <2>2. SlotLimit'
    <3>1. Cardinality(client') \in Nat /\ Cardinality(client') <= Cardinality(client) + 1
      BY <1>30, AddGrows DEF AddSpec
    <3>. QED  BY <2>1, <3>1 DEF SlotFree, SlotLimit
  <2>3. \A h \in Goroutine : ~Adding(h)' /\ ~Enqueuing(h)'
    BY <1>30, <2>1 DEF AddSpec, Idle
  <2>. QED  BY <2>2, <2>3
<1>31. CASE UNCHANGED vars
  BY <1>31, <1>3 DEF vars, local
<1>. QED  BY <1>4, <1>5, <1>6, <1>7, <1>8, <1>9, <1>10, <1>11, <1>12, <1>13, <1>14, <1>15, <1>16, <1>17, <1>18, <1>19, <1>20, <1>21, <1>22, <1>23, <1>24, <1>25, <1>26, <1>27, <1>28, <1>29, <1>30, <1>31 DEF Next, Request, Event, Run

(* The client never runs more torrents than the largest limit allows,      *)
(* whatever requests, drops and changes of the limit overlap               *)
(* (newTorrentBySpec under taskMutex, engine.go 219-252).                  *)
THEOREM SlotLimitHolds == Spec => []SlotLimit
<1>1. Init => SlotInv
  BY SlotInvInit
<1>2. SlotInv /\ [Next]_vars => SlotInv'
  BY SlotInvNext
<1>3. SlotInv => SlotLimit
  BY DEF SlotInv
<1>. QED  BY <1>1, <1>2, <1>3, PTL DEF Spec

-----------------------------------------------------------------------------
(* What becomes of a deleted task: its slot, its place in the wait list     *)
(* and the promise of SlotPool, for an engine that is never asked to move   *)
(* a task back to the queue.                                                *)

LEMMA TypeKept == TypeInv /\ [Next]_vars => TypeInv'
BY TypeInvNext

-----------------------------------------------------------------------------
(* Processors. *)

WatchInv == TypeInv /\ EveryTorrentWatched

LEMMA WatchInvNext ==
    ASSUME WatchInv, [Next]_vars
    PROVE  WatchInv'
<1>1. TypeInv /\ TypeInv'
  BY TypeKept DEF WatchInv
<1>2. SUFFICES EveryTorrentWatched'
  BY <1>1 DEF WatchInv
<1>. USE <1>1 DEF WatchInv, TypeInv, TypeOK, EveryTorrentWatched, Watches, Processor, At, Goto, shared
<1>3. ASSUME NEW g \in Goroutine, NEW elem \in TaskElem, AddTask(g, elem) PROVE EveryTorrentWatched'
  BY <1>3 DEF AddTask, Admit, Idle
<1>4. ASSUME NEW g \in Goroutine, NEW ih \in Task, ApiDelete(g, ih) PROVE EveryTorrentWatched'
  BY <1>4 DEF ApiDelete, DeleteTorrent, Admit, Idle
<1>5. ASSUME NEW g \in Goroutine, NEW ih \in Task, ApiMove2Wait(g, ih) PROVE EveryTorrentWatched'
  BY <1>5 DEF ApiMove2Wait, DeleteTorrent, Admit, Idle
<1>6. ASSUME NEW g \in Goroutine, NEW m \in Limits, ApiConfigure(g, m) PROVE EveryTorrentWatched'
  BY <1>6 DEF ApiConfigure, Admit, Idle
<1>7. ASSUME NEW g \in Goroutine, NEW h \in Goroutine, TaskRoutine(g, h) PROVE EveryTorrentWatched'
  BY <1>7 DEF TaskRoutine, Idle
<1>8. ASSUME NEW g \in Goroutine, IsTaskInList(g) PROVE EveryTorrentWatched'
  BY <1>8 DEF IsTaskInList
<1>9. ASSUME NEW g \in Goroutine, PushPretask(g) PROVE EveryTorrentWatched'
  BY <1>9 DEF PushPretask
<1>10. ASSUME NEW g \in Goroutine, UpsertLookup(g) PROVE EveryTorrentWatched'
  BY <1>10 DEF UpsertLookup
<1>11. ASSUME NEW g \in Goroutine, UpsertInsert(g) PROVE EveryTorrentWatched'
  BY <1>11 DEF UpsertInsert, AfterUpsert, EntryOf
<1>12. ASSUME NEW g \in Goroutine, UpsertMark(g) PROVE EveryTorrentWatched'
  BY <1>12 DEF UpsertMark, AfterUpsert, EntryOf
<1>13. ASSUME NEW g \in Goroutine, QueuedReturn(g) PROVE EveryTorrentWatched'
  BY <1>13 DEF QueuedReturn, End
<1>14. ASSUME NEW g \in Goroutine, AddSpec(g) PROVE EveryTorrentWatched'
  BY <1>14 DEF AddSpec, Idle
<1>15. ASSUME NEW g \in Goroutine, AddSpecFails(g) PROVE EveryTorrentWatched'
  BY <1>15 DEF AddSpecFails, Again
<1>16. ASSUME NEW g \in Goroutine, GotInfo(g) PROVE EveryTorrentWatched'
  BY <1>16 DEF GotInfo
<1>17. ASSUME NEW g \in Goroutine, CacheInfo(g) PROVE EveryTorrentWatched'
  BY <1>17 DEF CacheInfo
<1>18. ASSUME NEW g \in Goroutine, DropTask(g) PROVE EveryTorrentWatched'
  BY <1>18 DEF DropTask
<1>19. ASSUME NEW g \in Goroutine, ApiRemoveCache(g) PROVE EveryTorrentWatched'
  BY <1>19 DEF ApiRemoveCache, End
<1>20. ASSUME NEW g \in Goroutine, ExpireRemoveCache(g) PROVE EveryTorrentWatched'
  BY <1>20 DEF ExpireRemoveCache
<1>21. ASSUME NEW g \in Goroutine, ExpireDelete(g) PROVE EveryTorrentWatched'
  BY <1>21 DEF ExpireDelete, DeleteTorrent
<1>22. ASSUME NEW g \in Goroutine, PushWait(g) PROVE EveryTorrentWatched'
  BY <1>22 DEF PushWait
<1>23. ASSUME NEW g \in Goroutine, LoadMeta(g) PROVE EveryTorrentWatched'
  BY <1>23 DEF LoadMeta, End
<1>24. ASSUME NEW g \in Goroutine, NextCheck(g) PROVE EveryTorrentWatched'
  BY <1>24 DEF NextCheck, End
<1>25. ASSUME NEW g \in Goroutine, NextPop(g) PROVE EveryTorrentWatched'
  BY <1>25 DEF NextPop, End
<1>26. ASSUME NEW g \in Goroutine, NextStat(g) PROVE EveryTorrentWatched'
  BY <1>26 DEF NextStat
<1>27. ASSUME NEW g \in Goroutine, NextLoad(g) PROVE EveryTorrentWatched'
  BY <1>27 DEF NextLoad, Again
<1>28. ASSUME NEW g \in Goroutine, NextCache(g) PROVE EveryTorrentWatched'
  BY <1>28 DEF NextCache
<1>29. ASSUME NEW g \in Goroutine, LockTask(g) PROVE EveryTorrentWatched'
  BY <1>29 DEF LockTask
<1>30. CASE UNCHANGED vars
  BY <1>30 DEF vars, local
<1>. QED  BY <1>3, <1>4, <1>5, <1>6, <1>7, <1>8, <1>9, <1>10, <1>11, <1>12, <1>13, <1>14, <1>15, <1>16, <1>17, <1>18, <1>19, <1>20, <1>21, <1>22, <1>23, <1>24, <1>25, <1>26, <1>27, <1>28, <1>29, <1>30 DEF Next, Request, Event, Run

(* A torrent in the client always has a processor on its infohash, whatever *)
(* is deleted, moved, added again or configured meanwhile                   *)
(* (torrentEventProcessor, engine.go 254-308).                              *)
THEOREM EveryTorrentWatchedHolds == Spec => []EveryTorrentWatched
<1>1. Init => WatchInv
  BY TypeInvInit DEF Init, WatchInv, EveryTorrentWatched
<1>2. WatchInv /\ [Next]_vars => WatchInv'
  BY WatchInvNext
<1>3. WatchInv => EveryTorrentWatched
  BY DEF WatchInv
<1>. QED  BY <1>1, <1>2, <1>3, PTL DEF Spec

-----------------------------------------------------------------------------
(* Entries of e.ts. *)

(* Without move2wait the entry of a task is inserted, and its element       *)
(* pushed, by the holder of taskMutex only.                                 *)
PlaceInv == \A g \in Goroutine :
    /\ pc[g] \notin {"pushWait", "loadMeta"}
    /\ pc[g] \in Queueing \cup Upserting \cup {"spec"} => taskMutex = g
    /\ pc[g] \in {"push", "insert"} => ts[job[g].ih] = "absent"
    /\ pc[g] \in {"mark", "spec"} /\ ref[g] = "closed" => ts[job[g].ih] = "absent"

(* A held *Torrent is the listed one or has been closed. *)
RefInv == \A g \in Goroutine :
    /\ ref[g] # "none" => pc[g] \in Processor \cup {"mark", "return", "spec"}
    /\ pc[g] \in Processor \cup {"mark", "spec"} => ref[g] \in {"listed", "closed"}
    /\ ref[g] = "listed" => ts[job[g].ih] # "absent"
    /\ ref[g] # "orphan"

EntryInv == TypeInv /\ PlaceInv /\ RefInv

LEMMA EntryInvInit == Init => EntryInv
BY TypeInvInit DEF Init, EntryInv, PlaceInv, RefInv, Processor, Queueing, Upserting

LEMMA EntryInvNext ==
    ASSUME "move2wait" \notin Ops, EntryInv, [Next]_vars
    PROVE  EntryInv'
<1>1. TypeInv /\ TypeInv'
  BY TypeKept DEF EntryInv
<1>2. SUFFICES PlaceInv' /\ RefInv'
  BY <1>1 DEF EntryInv
<1>. USE <1>1 DEF EntryInv, PlaceInv, RefInv, TypeInv, TypeOK, JobInv, Processor, Queueing, Upserting, At, Goto, shared
<1>3. ASSUME NEW g \in Goroutine, NEW elem \in TaskElem, AddTask(g, elem) PROVE PlaceInv' /\ RefInv'
  BY <1>3, ElemFields DEF AddTask, Admit, Idle
<1>4. ASSUME NEW g \in Goroutine, NEW ih \in Task, ApiDelete(g, ih) PROVE PlaceInv' /\ RefInv'
  BY <1>4, ElemFields DEF ApiDelete, DeleteTorrent, Admit, Idle
<1>5. ASSUME NEW g \in Goroutine, NEW ih \in Task, ApiMove2Wait(g, ih) PROVE PlaceInv' /\ RefInv'
  BY <1>5, ElemFields DEF ApiMove2Wait, DeleteTorrent, Admit, Idle
<1>6. ASSUME NEW g \in Goroutine, NEW m \in Limits, ApiConfigure(g, m) PROVE PlaceInv' /\ RefInv'
  BY <1>6, ElemFields DEF ApiConfigure, Admit, Idle
<1>7. ASSUME NEW g \in Goroutine, NEW h \in Goroutine, TaskRoutine(g, h) PROVE PlaceInv' /\ RefInv'
  BY <1>7, ElemFields DEF TaskRoutine, Idle
<1>8. ASSUME NEW g \in Goroutine, IsTaskInList(g) PROVE PlaceInv' /\ RefInv'
  BY <1>8, ElemFields DEF IsTaskInList
<1>9. ASSUME NEW g \in Goroutine, PushPretask(g) PROVE PlaceInv' /\ RefInv'
  BY <1>9, ElemFields DEF PushPretask
<1>10. ASSUME NEW g \in Goroutine, UpsertLookup(g) PROVE PlaceInv' /\ RefInv'
  BY <1>10, ElemFields DEF UpsertLookup
<1>11. ASSUME NEW g \in Goroutine, UpsertInsert(g) PROVE PlaceInv' /\ RefInv'
  BY <1>11, ElemFields DEF UpsertInsert, AfterUpsert, EntryOf
<1>12. ASSUME NEW g \in Goroutine, UpsertMark(g) PROVE PlaceInv' /\ RefInv'
  BY <1>12, ElemFields DEF UpsertMark, AfterUpsert, EntryOf
<1>13. ASSUME NEW g \in Goroutine, QueuedReturn(g) PROVE PlaceInv' /\ RefInv'
  BY <1>13, ElemFields DEF QueuedReturn, End
<1>14. ASSUME NEW g \in Goroutine, AddSpec(g) PROVE PlaceInv' /\ RefInv'
  BY <1>14, ElemFields DEF AddSpec, Idle
<1>15. ASSUME NEW g \in Goroutine, AddSpecFails(g) PROVE PlaceInv' /\ RefInv'
  BY <1>15, ElemFields DEF AddSpecFails, Again
<1>16. ASSUME NEW g \in Goroutine, GotInfo(g) PROVE PlaceInv' /\ RefInv'
  BY <1>16, ElemFields DEF GotInfo
<1>17. ASSUME NEW g \in Goroutine, CacheInfo(g) PROVE PlaceInv' /\ RefInv'
  BY <1>17, ElemFields DEF CacheInfo
<1>18. ASSUME NEW g \in Goroutine, DropTask(g) PROVE PlaceInv' /\ RefInv'
  BY <1>18, ElemFields DEF DropTask
<1>19. ASSUME NEW g \in Goroutine, ApiRemoveCache(g) PROVE PlaceInv' /\ RefInv'
  BY <1>19, ElemFields DEF ApiRemoveCache, End
<1>20. ASSUME NEW g \in Goroutine, ExpireRemoveCache(g) PROVE PlaceInv' /\ RefInv'
  BY <1>20, ElemFields DEF ExpireRemoveCache
<1>21. ASSUME NEW g \in Goroutine, ExpireDelete(g) PROVE PlaceInv' /\ RefInv'
  <2>1. job[g].ih \in Task /\ ref[g] = "none"
    BY <1>21, ElemFields DEF ExpireDelete
  <2>2. CASE ts[job[g].ih] = "absent" /\ UNCHANGED <<ts, waitList, ref>>
    BY <1>21, <2>1, <2>2 DEF ExpireDelete
  <2>3. CASE DeleteTorrent(job[g].ih)
    BY <1>21, <2>1, <2>3, ElemFields DEF ExpireDelete, DeleteTorrent
  <2>. QED  BY <1>21, <2>2, <2>3 DEF ExpireDelete
<1>22. ASSUME NEW g \in Goroutine, PushWait(g) PROVE PlaceInv' /\ RefInv'
  BY <1>22, ElemFields DEF PushWait
<1>23. ASSUME NEW g \in Goroutine, LoadMeta(g) PROVE PlaceInv' /\ RefInv'
  BY <1>23, ElemFields DEF LoadMeta, End
<1>24. ASSUME NEW g \in Goroutine, NextCheck(g) PROVE PlaceInv' /\ RefInv'
  BY <1>24, ElemFields DEF NextCheck, End
<1>25. ASSUME NEW g \in Goroutine, NextPop(g) PROVE PlaceInv' /\ RefInv'
  BY <1>25, ElemFields DEF NextPop, End
<1>26. ASSUME NEW g \in Goroutine, NextStat(g) PROVE PlaceInv' /\ RefInv'
  BY <1>26, ElemFields DEF NextStat
<1>27. ASSUME NEW g \in Goroutine, NextLoad(g) PROVE PlaceInv' /\ RefInv'
  BY <1>27, ElemFields DEF NextLoad, Again
<1>28. ASSUME NEW g \in Goroutine, NextCache(g) PROVE PlaceInv' /\ RefInv'
  BY <1>28, ElemFields DEF NextCache
<1>29. ASSUME NEW g \in Goroutine, LockTask(g) PROVE PlaceInv' /\ RefInv'
  BY <1>29, NullAssumption DEF LockTask
<1>30. CASE UNCHANGED vars
  BY <1>30 DEF vars, local
<1>. QED  BY <1>3, <1>4, <1>5, <1>6, <1>7, <1>8, <1>9, <1>10, <1>11, <1>12, <1>13, <1>14, <1>15, <1>16, <1>17, <1>18, <1>19, <1>20, <1>21, <1>22, <1>23, <1>24, <1>25, <1>26, <1>27, <1>28, <1>29, <1>30 DEF Next, Request, Event, Run

(* NoSlotLeak: one of the processors of a running task listens to a dropWait *)
(* that is closed, or that DeleteTorrent will close (engine.go 254-308,      *)
(* 409-422).                                                                *)
THEOREM NoSlotLeakHolds ==
    ASSUME "move2wait" \notin Ops
    PROVE  Spec => []NoSlotLeak
<1>1. Init => EntryInv /\ WatchInv
  BY EntryInvInit DEF Init, EntryInv, WatchInv, EveryTorrentWatched
<1>2. EntryInv /\ WatchInv /\ [Next]_vars => (EntryInv /\ WatchInv)'
  BY EntryInvNext, WatchInvNext
<1>3. EntryInv /\ WatchInv => NoSlotLeak
  BY DEF EntryInv, WatchInv, RefInv, EveryTorrentWatched, NoSlotLeak, Watches, Processor
<1>. QED  BY <1>1, <1>2, <1>3, PTL DEF Spec

-----------------------------------------------------------------------------
(* The wait list. *)

WaitInv == WaitingOnce /\ WaitingListed

(* The step in which DeleteTorrent takes out the entry and the element.     *)
LEMMA DeletedWaitsNoMore ==
    ASSUME EntryInv, WaitInv, NEW ih \in Task,
           ts' = [ts EXCEPT ![ih] = "absent"],
           waitList' = RemoveTask(waitList, ih),
           \A jh \in Task : Enlisting(jh) => Enlisting(jh)'
    PROVE  WaitInv'
<1>1. waitList \in Seq(Elem(Task))
  BY DEF EntryInv, TypeInv, TypeOK, TaskElem
<1>2. AtMostOnce(waitList') /\ ~Waits(waitList', ih)
  BY <1>1, RemoveTaskOnce DEF WaitInv, WaitingOnce
<1>3. \A jh \in Task : Waits(waitList', jh) => Waits(waitList, jh)
  BY <1>1, RemoveTaskWaits
<1>4. \A jh \in Task : jh # ih => ts'[jh] = ts[jh]
  BY DEF EntryInv, TypeInv, TypeOK
<1>. QED  BY <1>2, <1>3, <1>4 DEF WaitInv, WaitingOnce, WaitingListed

(* The steps that leave the wait list alone and take no entry out. *)
LEMMA WaitKept ==
    ASSUME WaitInv, waitList' = waitList,
           \A ih \in Task : ts[ih] # "absent" \/ Enlisting(ih)
                              => ts'[ih] # "absent" \/ Enlisting(ih)'
    PROVE  WaitInv'
BY DEF WaitInv, WaitingOnce, WaitingListed

LEMMA WaitInvNext ==
    ASSUME "move2wait" \notin Ops, EntryInv, WaitInv, [Next]_vars
    PROVE  WaitInv'
<1>1. waitList \in Seq(Elem(Task))
  BY DEF EntryInv, TypeInv, TypeOK, TaskElem
<1>. USE DEF EntryInv, TypeInv, TypeOK, JobInv, At, Goto, shared
<1>2. ASSUME NEW g \in Goroutine, NEW elem \in TaskElem, AddTask(g, elem) PROVE WaitInv'
  BY <1>2, WaitKept DEF AddTask, Admit, Idle, Enlisting
<1>3. ASSUME NEW g \in Goroutine, NEW ih \in Task, ApiDelete(g, ih) PROVE WaitInv'
  <2>1. ih \in Task /\ ts[ih] # "absent" /\ ts' = [ts EXCEPT ![ih] = "absent"]
    BY <1>3 DEF ApiDelete, DeleteTorrent
  <2>2. waitList' = RemoveTask(waitList, ih)
    BY <1>3 DEF ApiDelete, DeleteTorrent
  <2>3. \A jh \in Task : Enlisting(jh) => Enlisting(jh)'
    BY <1>3 DEF ApiDelete, Admit, Idle, Enlisting
  <2>. QED  BY <2>1, <2>2, <2>3, DeletedWaitsNoMore
<1>4. ASSUME NEW g \in Goroutine, NEW ih \in Task, ApiMove2Wait(g, ih) PROVE WaitInv'
  BY <1>4 DEF ApiMove2Wait, Admit
<1>5. ASSUME NEW g \in Goroutine, NEW m \in Limits, ApiConfigure(g, m) PROVE WaitInv'
  BY <1>5, WaitKept DEF ApiConfigure, Admit, Idle, Enlisting
<1>6. ASSUME NEW g \in Goroutine, NEW h \in Goroutine, TaskRoutine(g, h) PROVE WaitInv'
  BY <1>6, WaitKept DEF TaskRoutine, Idle, Enlisting
<1>7. ASSUME NEW g \in Goroutine, IsTaskInList(g) PROVE WaitInv'
  BY <1>7, WaitKept DEF IsTaskInList, Enlisting
<1>8. ASSUME NEW g \in Goroutine, PushPretask(g) PROVE WaitInv'
  <2>1. job[g] \in Elem(Task) /\ ts[job[g].ih] = "absent" /\ taskMutex = g
    BY <1>8 DEF PushPretask, PlaceInv, Queueing, TaskElem
  <2>2. \A ih \in Task : ~Enlisting(ih)
    BY <1>8, <2>1 DEF PushPretask, PlaceInv, Enlisting, Upserting
  <2>3. ~Waits(waitList, job[g].ih)
    BY <2>1, <2>2, ElemFields DEF WaitInv, WaitingListed, TaskElem
  <2>4. WaitingOnce'
    BY <1>8, <1>1, <2>1, <2>3, PushWaits DEF PushPretask, WaitInv, WaitingOnce
  <2>5. ASSUME NEW ih \in Task, Waits(waitList', ih)
        PROVE  ts'[ih] # "absent" \/ Enlisting(ih)'
    <3>1. Waits(waitList, ih) \/ job[g].ih = ih
      BY <1>8, <1>1, <2>1, <2>5, PushWaits DEF PushPretask
    <3>2. CASE Waits(waitList, ih)
      BY <1>8, <2>2, <3>2 DEF PushPretask, WaitInv, WaitingListed
    <3>3. CASE job[g].ih = ih
      BY <1>8, <3>3 DEF PushPretask, Enlisting
    <3>. QED  BY <3>1, <3>2, <3>3
  <2>. QED  BY <2>4, <2>5 DEF WaitInv, WaitingListed
<1>9. ASSUME NEW g \in Goroutine, UpsertLookup(g) PROVE WaitInv'
  <2>1. job[g].ih \in Task
    BY <1>9, ElemFields DEF UpsertLookup
  <2>. QED  BY <1>9, <2>1, WaitKept DEF UpsertLookup, Enlisting
<1>10. ASSUME NEW g \in Goroutine, UpsertInsert(g) PROVE WaitInv'
  <2>1. job[g].ih \in Task
    BY <1>10, ElemFields DEF UpsertInsert
  <2>. QED  BY <1>10, <2>1, WaitKept DEF UpsertInsert, EntryOf, AfterUpsert, Enlisting, Entry
<1>11. ASSUME NEW g \in Goroutine, UpsertMark(g) PROVE WaitInv'
  BY <1>11, WaitKept DEF UpsertMark, AfterUpsert, EntryOf, Enlisting
<1>12. ASSUME NEW g \in Goroutine, QueuedReturn(g) PROVE WaitInv'
  BY <1>12, WaitKept DEF QueuedReturn, End, Enlisting
<1>13. ASSUME NEW g \in Goroutine, AddSpec(g) PROVE WaitInv'
  BY <1>13, WaitKept DEF AddSpec, Idle, Enlisting
<1>14. ASSUME NEW g \in Goroutine, AddSpecFails(g) PROVE WaitInv'
  BY <1>14, WaitKept DEF AddSpecFails, Again, Enlisting
<1>15. ASSUME NEW g \in Goroutine, GotInfo(g) PROVE WaitInv'
  BY <1>15, WaitKept DEF GotInfo, Enlisting
<1>16. ASSUME NEW g \in Goroutine, CacheInfo(g) PROVE WaitInv'
  BY <1>16, WaitKept DEF CacheInfo, Enlisting
<1>17. ASSUME NEW g \in Goroutine, DropTask(g) PROVE WaitInv'
  BY <1>17, WaitKept DEF DropTask, Enlisting
<1>18. ASSUME NEW g \in Goroutine, ApiRemoveCache(g) PROVE WaitInv'
  BY <1>18, WaitKept DEF ApiRemoveCache, End, Enlisting
<1>19. ASSUME NEW g \in Goroutine, ExpireRemoveCache(g) PROVE WaitInv'
  BY <1>19, WaitKept DEF ExpireRemoveCache, Enlisting
<1>20. ASSUME NEW g \in Goroutine, ExpireDelete(g) PROVE WaitInv'
  <2>1. \A jh \in Task : Enlisting(jh) => Enlisting(jh)'
    BY <1>20 DEF ExpireDelete, Enlisting
  <2>2. CASE ts[job[g].ih] = "absent" /\ UNCHANGED <<ts, waitList, ref>>
    BY <2>1, <2>2, WaitKept
  <2>3. CASE DeleteTorrent(job[g].ih)
    <3>1. job[g].ih \in Task
      BY <1>20, ElemFields DEF ExpireDelete
    <3>. QED  BY <2>1, <2>3, <3>1, DeletedWaitsNoMore DEF DeleteTorrent
  <2>. QED  BY <1>20, <2>2, <2>3 DEF ExpireDelete
<1>21. ASSUME NEW g \in Goroutine, PushWait(g) PROVE WaitInv'
  BY <1>21 DEF PushWait, PlaceInv
<1>22. ASSUME NEW g \in Goroutine, LoadMeta(g) PROVE WaitInv'
  BY <1>22 DEF LoadMeta, PlaceInv
<1>23. ASSUME NEW g \in Goroutine, NextCheck(g) PROVE WaitInv'
  BY <1>23, WaitKept DEF NextCheck, End, Enlisting
<1>24. ASSUME NEW g \in Goroutine, NextPop(g) PROVE WaitInv'
  <2>1. \A ih \in Task : Enlisting(ih) => Enlisting(ih)'
    BY <1>24 DEF NextPop, End, Enlisting
  <2>2. CASE waitList = <<>>
    BY <1>24, <2>1, <2>2, WaitKept DEF NextPop
  <2>3. CASE waitList # <<>>
    <3>1. waitList' = PopRest(waitList) /\ ts' = ts
      BY <1>24, <2>3 DEF NextPop
    <3>. QED  BY <1>1, <2>1, <2>3, <3>1, PopWaits DEF WaitInv, WaitingOnce, WaitingListed
  <2>. QED  BY <2>2, <2>3
<1>25. ASSUME NEW g \in Goroutine, NextStat(g) PROVE WaitInv'
  BY <1>25, WaitKept DEF NextStat, Enlisting
<1>26. ASSUME NEW g \in Goroutine, NextLoad(g) PROVE WaitInv'
  BY <1>26, WaitKept DEF NextLoad, Again, Enlisting
<1>27. ASSUME NEW g \in Goroutine, NextCache(g) PROVE WaitInv'
  BY <1>27, WaitKept DEF NextCache, Enlisting
<1>28. ASSUME NEW g \in Goroutine, LockTask(g) PROVE WaitInv'
  BY <1>28, WaitKept DEF LockTask, Enlisting
<1>29. CASE UNCHANGED vars
  BY <1>29, WaitKept DEF vars, local, Enlisting
<1>. QED  BY <1>2, <1>3, <1>4, <1>5, <1>6, <1>7, <1>8, <1>9, <1>10, <1>11, <1>12, <1>13, <1>14, <1>15, <1>16, <1>17, <1>18, <1>19, <1>20, <1>21, <1>22, <1>23, <1>24, <1>25, <1>26, <1>27, <1>28, <1>29 DEF Next, Request, Event, Run

(* Without move2wait no task waits twice, and none waits that its users do  *)
(* not see (pushWaitTask and DeleteTorrent, engine.go 226-233, 409-422).    *)
THEOREM WaitListSound ==
    ASSUME "move2wait" \notin Ops
    PROVE  Spec => [](WaitingOnce /\ WaitingListed)
<1>1. Init => EntryInv /\ WaitInv
  BY EntryInvInit DEF Init, WaitInv, WaitingOnce, WaitingListed, AtMostOnce, Waits
<1>2. EntryInv /\ WaitInv /\ [Next]_vars => (EntryInv /\ WaitInv)'
  BY EntryInvNext, WaitInvNext
<1>3. EntryInv /\ WaitInv => WaitingOnce /\ WaitingListed
  BY DEF WaitInv
<1>. QED  BY <1>1, <1>2, <1>3, PTL DEF Spec

-----------------------------------------------------------------------------
(* The engine implements the slot pool. *)

PoolInv == SlotInv /\ EntryInv /\ WatchInv

PoolStep == Pool!PoolNext \/ UNCHANGED <<Listed, client, Doomed>>

(* A processor whose dropWait is closed. *)
Dropping(g, ih) == Watches(g, ih) /\ ref[g] = "closed"

(* Steps that change neither the entries nor the client, and turn no        *)
(* goroutine into a dropping processor or out of it.                        *)
LEMMA PoolStutter ==
    ASSUME client' = client, Listed' = Listed,
           \A g \in Goroutine, ih \in client : Dropping(g, ih) <=> Dropping(g, ih)'
    PROVE  PoolStep
<1>1. Doomed' = Doomed
  BY DEF Doomed, Dropping, Watches
<1>. QED  BY <1>1 DEF PoolStep

(* DeleteTorrent closes the dropWait of every processor that holds the      *)
(* entry, and a running task has one unless it is doomed already.           *)
LEMMA PoolDelete ==
    ASSUME PoolInv, NEW ih \in Task, DeleteTorrent(ih), client' = client,
           \A h \in Goroutine : \/ pc'[h] = pc[h] /\ job'[h] = job[h]
                                \/ pc[h] \notin Processor /\ pc'[h] \notin Processor
    PROVE  PoolStep
<1>. USE DEF PoolInv, EntryInv, RefInv, WatchInv, TypeInv, TypeOK, Processor, Watches, DeleteTorrent
<1>1. Listed' = Listed \ {ih} /\ ih \in Listed
  BY DEF Listed
<1>2. \A jh \in client : jh # ih => (jh \in Doomed <=> jh \in Doomed')
  BY DEF Doomed
<1>3. ih \in client => ih \in Doomed'
  BY DEF Doomed, EveryTorrentWatched
<1>4. Doomed \subseteq client /\ Doomed' \subseteq client
  BY DEF Doomed
<1>5. Doomed' = Doomed \cup ({ih} \cap client)
  BY <1>2, <1>3, <1>4
<1>. QED  BY <1>1, <1>5 DEF PoolStep, Pool!PoolNext, Pool!Delete

(* AddTorrentSpec and the spawning of torrentEventProcessor: the processor  *)
(* holds the infohash and the struct that newTorrentBySpec has upserted.    *)
LEMMA SpawnProcessor ==
    ASSUME TypeInv, NEW g \in Goroutine, NEW ih \in Task, job[g].ih = ih, AddSpec(g)
    PROVE  \E h \in Goroutine :
             /\ pc[h] \notin Processor /\ pc'[h] = "waitInfo"
             /\ job'[h].ih = ih /\ ref'[h] = ref[g]
             /\ \A k \in Goroutine \ {h} :
                  \/ pc'[k] = pc[k] /\ job'[k] = job[k] /\ ref'[k] = ref[k]
                  \/ pc[k] \notin Processor /\ pc'[k] \notin Processor
<1>. USE DEF TypeInv, TypeOK, At, Goto, Processor
<1>1. CASE g \notin looping
  <2>1. At(g, "spec") /\ Goto(g, "waitInfo") /\ job' = job /\ ref' = ref
    BY <1>1 DEF AddSpec
  <2>2. pc[g] \notin Processor /\ pc'[g] = "waitInfo" /\ job'[g].ih = ih /\ ref'[g] = ref[g]
    BY <2>1
  <2>3. \A k \in Goroutine \ {g} : pc'[k] = pc[k] /\ job'[k] = job[k] /\ ref'[k] = ref[k]
    BY <2>1
  <2>. QED  BY <2>2, <2>3
<1>2. CASE g \in looping
  <2>1. At(g, "spec")
    BY DEF AddSpec
  <2>2. PICK h \in Goroutine :
           /\ Idle(h)
           /\ pc' = [pc EXCEPT ![h] = "waitInfo", ![g] = "next"]
           /\ job' = [job EXCEPT ![h] = job[g], ![g] = NoJob]
           /\ ref' = [ref EXCEPT ![h] = ref[g], ![g] = "none"]
    BY <1>2 DEF AddSpec
  <2>3. h # g
    BY <2>1, <2>2 DEF Idle
  <2>4. pc[h] \notin Processor /\ pc'[h] = "waitInfo"
    BY <2>2, <2>3 DEF Idle
  <2>5. job'[h] = job[g] /\ ref'[h] = ref[g]
    BY <2>2, <2>3
  <2>6. pc[g] \notin Processor /\ pc'[g] \notin Processor
    BY <2>1, <2>2, <2>3
  <2>7. \A k \in Goroutine \ {g, h} : pc'[k] = pc[k] /\ job'[k] = job[k] /\ ref'[k] = ref[k]
    BY <2>2
  <2>. QED  BY <2>4, <2>5, <2>6, <2>7
<1>. QED  BY <1>1, <1>2

(* The task starts doomed exactly if its new processor's dropWait is closed *)
(* by then or an older processor of the same infohash is still to drop it.  *)
LEMMA PoolStart ==
    ASSUME PoolInv, NEW g \in Goroutine, NEW ih \in Task, job[g].ih = ih, AddSpec(g)
    PROVE  PoolStep
<1>1. EntryInv /\ TypeInv
  BY DEF PoolInv, EntryInv
<1>2. At(g, "spec") /\ client' = client \cup {ih} /\ ts' = ts
  BY DEF AddSpec
<1>3. Listed' = Listed
  BY <1>2 DEF Listed
<1>4. ref[g] = "closed" \/ (ref[g] = "listed" /\ ih \in Listed)
  BY <1>1, <1>2 DEF EntryInv, RefInv, PlaceInv, Listed, At, TypeInv, TypeOK, JobInv
<1>5. SlotFree
  BY <1>1, <1>2 DEF At, PoolInv, SlotInv, AddInv, Adding
<1>6. PICK h \in Goroutine :
        /\ pc[h] \notin Processor /\ pc'[h] = "waitInfo"
        /\ job'[h].ih = ih /\ ref'[h] = ref[g]
        /\ \A k \in Goroutine \ {h} :
             \/ pc'[k] = pc[k] /\ job'[k] = job[k] /\ ref'[k] = ref[k]
             \/ pc[k] \notin Processor /\ pc'[k] \notin Processor
  BY <1>1, SpawnProcessor
<1>7. \A jh \in Task, k \in Goroutine \ {h} :
         Watches(k, jh)' /\ ref'[k] = "closed" <=> Watches(k, jh) /\ ref[k] = "closed"
  BY <1>6 DEF Watches
<1>8. \A jh \in Task : ~Watches(h, jh) /\ (Watches(h, jh)' <=> jh = ih)
  BY <1>6 DEF Watches, Processor
<1>9. client \subseteq Task
  BY <1>1 DEF TypeInv, TypeOK
<1>10. \A jh \in client : jh \in Doomed' <=> jh \in Doomed \/ (jh = ih /\ ref[g] = "closed")
  <2>1. ASSUME NEW jh \in client
        PROVE  jh \in Doomed' <=> jh \in Doomed \/ (jh = ih /\ ref[g] = "closed")
    <3>1. jh \in Task /\ jh \in client'
      BY <1>2, <1>9
    <3>2. jh \in Doomed <=> \E k \in Goroutine : Watches(k, jh) /\ ref[k] = "closed"
      BY DEF Doomed
    <3>3. jh \in Doomed' <=> \E k \in Goroutine : Watches(k, jh)' /\ ref'[k] = "closed"
      BY <3>1 DEF Doomed
    <3>4. Watches(h, jh)' /\ ref'[h] = "closed" <=> jh = ih /\ ref[g] = "closed"
      BY <1>6, <1>8, <3>1
    <3>. QED  BY <1>7, <1>8, <3>1, <3>2, <3>3, <3>4
  <2>. QED  BY <2>1
<1>11. /\ Doomed \subseteq client /\ Doomed' \subseteq client \cup {ih}
       /\ ref[g] = "closed" => ih \in Doomed'
  BY <1>2, <1>6, <1>8 DEF Doomed
<1>12. CASE ih \in client
  <2>1. ref[g] = "closed" => ih \in Doomed
    <3>1. SUFFICES ASSUME ref[g] = "closed" PROVE ih \in Doomed
      OBVIOUS
    <3>2. ts[ih] = "absent"
      BY <1>1, <1>2, <3>1 DEF At, EntryInv, PlaceInv
    <3>3. PICK k \in Goroutine : Watches(k, ih)
      BY <1>12 DEF PoolInv, WatchInv, EveryTorrentWatched
    <3>4. ref[k] = "closed"
      BY <1>1, <3>2, <3>3 DEF Watches, EntryInv, RefInv, Processor, TypeInv, TypeOK
    <3>. QED  BY <1>12, <3>3, <3>4 DEF Doomed
  <2>2. client' = client /\ Doomed' = Doomed
    BY <1>2, <1>10, <1>11, <1>12, <2>1
  <2>. QED  BY <1>3, <2>2 DEF PoolStep
<1>13. CASE ih \notin client
  <2>1. Doomed' = Doomed \cup {ih} \/ (ih \in Listed /\ Doomed' = Doomed)
    BY <1>4, <1>10, <1>11, <1>13
  <2>2. \E m \in Limits : m = 0 \/ Pool!Cardinality(client) < m
    BY <1>1, <1>5, InForceNat DEF SlotFree, Cardinality, Pool!Cardinality
  <2>3. Pool!Start(ih)
    BY <1>2, <1>3, <1>13, <2>1, <2>2 DEF Pool!Start
  <2>. QED  BY <2>3 DEF PoolStep, Pool!PoolNext
<1>. QED  BY <1>12, <1>13

LEMMA PoolImplemented ==
    ASSUME "move2wait" \notin Ops, PoolInv, [Next]_vars
    PROVE  PoolStep
<1>1. EntryInv /\ RefInv
  BY DEF PoolInv, EntryInv
<1>. USE <1>1 DEF EntryInv, RefInv, TypeInv, TypeOK, JobInv, At, Goto, shared
<1>2. ASSUME NEW g \in Goroutine, NEW elem \in TaskElem, AddTask(g, elem) PROVE PoolStep
  BY <1>2, PoolStutter DEF AddTask, Admit, Idle, Listed, Dropping, Watches, Processor
<1>3. ASSUME NEW g \in Goroutine, NEW ih \in Task, ApiDelete(g, ih) PROVE PoolStep
  BY <1>3, PoolDelete DEF ApiDelete, Admit, Idle, Processor
<1>4. ASSUME NEW g \in Goroutine, NEW ih \in Task, ApiMove2Wait(g, ih) PROVE PoolStep
  BY <1>4 DEF ApiMove2Wait, Admit
<1>5. ASSUME NEW g \in Goroutine, NEW m \in Limits, ApiConfigure(g, m) PROVE PoolStep
  BY <1>5, PoolStutter DEF ApiConfigure, Admit, Idle, Listed, Dropping, Watches, Processor
<1>6. ASSUME NEW g \in Goroutine, NEW h \in Goroutine, TaskRoutine(g, h) PROVE PoolStep
  BY <1>6, PoolStutter DEF TaskRoutine, Idle, Listed, Dropping, Watches, Processor
<1>7. ASSUME NEW g \in Goroutine, IsTaskInList(g) PROVE PoolStep
  BY <1>7, PoolStutter DEF IsTaskInList, Listed, Dropping, Watches, Processor
<1>8. ASSUME NEW g \in Goroutine, PushPretask(g) PROVE PoolStep
  BY <1>8, PoolStutter DEF PushPretask, Listed, Dropping, Watches, Processor
<1>9. ASSUME NEW g \in Goroutine, UpsertLookup(g) PROVE PoolStep
  BY <1>9, PoolStutter DEF UpsertLookup, Listed, Dropping, Watches, Processor
<1>10. ASSUME NEW g \in Goroutine, UpsertInsert(g) PROVE PoolStep
  <2>1. job[g].ih \in Task \ Listed
    BY <1>10, ElemFields DEF UpsertInsert, PlaceInv, Listed
  <2>2. Listed' = Listed \cup {job[g].ih}
    BY <1>10, <2>1 DEF UpsertInsert, EntryOf, Listed
  <2>3. Doomed' = Doomed
    BY <1>10 DEF UpsertInsert, AfterUpsert, Doomed, Watches, Processor
  <2>. QED  BY <1>10, <2>1, <2>2, <2>3 DEF UpsertInsert, PoolStep, Pool!PoolNext, Pool!List
<1>11. ASSUME NEW g \in Goroutine, UpsertMark(g) PROVE PoolStep
  <2>1. Listed' = Listed
    BY <1>11, ElemFields DEF UpsertMark, EntryOf, Listed
  <2>. QED  BY <1>11, <2>1, PoolStutter DEF UpsertMark, AfterUpsert, Dropping, Watches, Processor
<1>12. ASSUME NEW g \in Goroutine, QueuedReturn(g) PROVE PoolStep
  BY <1>12, PoolStutter DEF QueuedReturn, End, Listed, Dropping, Watches, Processor
<1>13. ASSUME NEW g \in Goroutine, AddSpec(g) PROVE PoolStep
  <2>1. job[g].ih \in Task
    BY <1>13, ElemFields DEF AddSpec
  <2>. QED  BY <1>13, <2>1, PoolStart
<1>14. ASSUME NEW g \in Goroutine, AddSpecFails(g) PROVE PoolStep
  BY <1>14, PoolStutter DEF AddSpecFails, Again, Listed, Dropping, Watches, Processor
<1>15. ASSUME NEW g \in Goroutine, GotInfo(g) PROVE PoolStep
  BY <1>15, PoolStutter DEF GotInfo, Listed, Dropping, Watches, Processor
<1>16. ASSUME NEW g \in Goroutine, CacheInfo(g) PROVE PoolStep
  BY <1>16, PoolStutter DEF CacheInfo, Listed, Dropping, Watches, Processor
<1>17. ASSUME NEW g \in Goroutine, DropTask(g) PROVE PoolStep
  <2>. DEFINE ih == job[g].ih
  <2>1. ih \in Task /\ client' = client \ {ih} /\ Listed' = Listed
    BY <1>17, ElemFields DEF DropTask, Listed
  <2>2. \A jh \in Task \ {ih} : jh \in Doomed' <=> jh \in Doomed
    BY <1>17 DEF DropTask, Doomed, Watches, Processor
  <2>3. Doomed' = Doomed \ {ih}
    BY <2>1, <2>2 DEF Doomed
  <2>4. CASE ih \in client
    <3>1. ih \in Doomed
      BY <1>17, <2>4 DEF DropTask, Doomed, Watches, Processor
    <3>. QED  BY <2>1, <2>3, <3>1 DEF PoolStep, Pool!PoolNext, Pool!Stop
  <2>5. CASE ih \notin client
    BY <2>1, <2>3, <2>5 DEF PoolStep, Doomed
  <2>. QED  BY <2>4, <2>5
<1>18. ASSUME NEW g \in Goroutine, ApiRemoveCache(g) PROVE PoolStep
  BY <1>18, PoolStutter DEF ApiRemoveCache, End, Listed, Dropping, Watches, Processor
<1>19. ASSUME NEW g \in Goroutine, ExpireRemoveCache(g) PROVE PoolStep
  BY <1>19, PoolStutter DEF ExpireRemoveCache, Listed, Dropping, Watches, Processor
<1>20. ASSUME NEW g \in Goroutine, ExpireDelete(g) PROVE PoolStep
  <2>1. CASE ts[job[g].ih] = "absent" /\ UNCHANGED <<ts, waitList, ref>>
    BY <1>20, <2>1, PoolStutter DEF ExpireDelete, Listed, Dropping, Watches, Processor
  <2>2. CASE DeleteTorrent(job[g].ih)
    BY <1>20, <2>2, PoolDelete, ElemFields DEF ExpireDelete, Processor
  <2>. QED  BY <1>20, <2>1, <2>2 DEF ExpireDelete
<1>21. ASSUME NEW g \in Goroutine, PushWait(g) PROVE PoolStep
  BY <1>21 DEF PushWait, PlaceInv
<1>22. ASSUME NEW g \in Goroutine, LoadMeta(g) PROVE PoolStep
  BY <1>22 DEF LoadMeta, PlaceInv
<1>23. ASSUME NEW g \in Goroutine, NextCheck(g) PROVE PoolStep
  BY <1>23, PoolStutter DEF NextCheck, End, Listed, Dropping, Watches, Processor
<1>24. ASSUME NEW g \in Goroutine, NextPop(g) PROVE PoolStep
  BY <1>24, PoolStutter DEF NextPop, End, Listed, Dropping, Watches, Processor
<1>25. ASSUME NEW g \in Goroutine, NextStat(g) PROVE PoolStep
  BY <1>25, PoolStutter DEF NextStat, Listed, Dropping, Watches, Processor
<1>26. ASSUME NEW g \in Goroutine, NextLoad(g) PROVE PoolStep
  BY <1>26, PoolStutter DEF NextLoad, Again, Listed, Dropping, Watches, Processor
<1>27. ASSUME NEW g \in Goroutine, NextCache(g) PROVE PoolStep
  BY <1>27, PoolStutter DEF NextCache, Listed, Dropping, Watches, Processor
<1>28. ASSUME NEW g \in Goroutine, LockTask(g) PROVE PoolStep
  BY <1>28, PoolStutter DEF LockTask, Listed, Dropping, Watches, Processor
<1>29. CASE UNCHANGED vars
  BY <1>29, PoolStutter DEF vars, local, Listed, Dropping, Watches
<1>. QED  BY <1>2, <1>3, <1>4, <1>5, <1>6, <1>7, <1>8, <1>9, <1>10, <1>11, <1>12, <1>13, <1>14, <1>15, <1>16, <1>17, <1>18, <1>19, <1>20, <1>21, <1>22, <1>23, <1>24, <1>25, <1>26, <1>27, <1>28, <1>29 DEF Next, Request, Event, Run

(* Without move2wait the engine implements the slot pool, seen through its  *)
(* entries, the client and the processors whose dropWait is closed: every   *)
(* step of newTorrentBySpec, DeleteTorrent and torrentEventProcessor maps   *)
(* to a step of the pool or to none (engine.go 219-308, 409-422).           *)
THEOREM PoolImplements ==
    ASSUME "move2wait" \notin Ops
    PROVE  Spec => ImplementsPool
<1>1. Init => PoolInv
  BY SlotInvInit, EntryInvInit DEF PoolInv, WatchInv, SlotInv, EveryTorrentWatched, Init
<1>2. PoolInv /\ [Next]_vars => PoolInv'
  BY SlotInvNext, EntryInvNext, WatchInvNext DEF PoolInv
<1>3. Init => Pool!PoolInit
  BY DEF Init, Pool!PoolInit, Listed, Doomed
<1>4. PoolInv /\ [Next]_vars => [Pool!PoolNext]_(Pool!poolVars)
  BY PoolImplemented DEF PoolStep, Pool!poolVars
<1>. QED  BY <1>1, <1>2, <1>3, <1>4, PTL DEF Spec, ImplementsPool, Pool!PoolSpec
=============================================================================
