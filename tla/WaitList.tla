------------------------------ MODULE WaitList ------------------------------
(***************************************************************************)
(* The wait list of the engine (engine/waitList.go): a FIFO list of        *)
(* taskElem values behind a mutex of its own.  Every method of syncList    *)
(* runs with that mutex held from its first line to its last, so each one  *)
(* is an operator on the sequence of waiting elements.                     *)
(***************************************************************************)
EXTENDS Naturals, Sequences, SequencesExt

(* taskTorrent and taskMagnet: from which cache file a task is restored. *)
TaskType == {"torrent", "magnet"}

(* taskElem; the infohash names the task. *)
Elem(Task) == [ih : Task, tp : TaskType]

(* syncList.Push: PushBack. *)
Push(list, elem) == Append(list, elem)

(* syncList.Pop on a non-empty list takes the front element. *)
PopElem(list) == Head(list)
PopRest(list) == Tail(list)

(* syncList.Remove: the first element with this infohash, and only that one. *)
RemoveTask(list, ih) ==
    LET at == {i \in 1..Len(list) : list[i].ih = ih}
    IN  IF at = {} THEN list
        ELSE RemoveAt(list, CHOOSE i \in at : \A j \in at : i <= j)

(* An element for this infohash waits in the list. *)
Waits(list, ih) == \E i \in 1..Len(list) : list[i].ih = ih

(* No task has two elements in the list. *)
AtMostOnce(list) ==
    \A i, j \in 1..Len(list) : list[i].ih = list[j].ih => i = j
=============================================================================
