---------------------------- MODULE MCTaskEngine ----------------------------
(***************************************************************************)
(* Model checking of TaskEngine.                                           *)
(***************************************************************************)
EXTENDS TaskEngine, TLC

(* Goroutines and infohashes are interchangeable. *)
Symmetric == Permutations(Goroutine) \cup Permutations(Task)

(* Bound of the runs with move2wait, which can put one task into the wait  *)
(* list over and over.                                                     *)
MaxWait == 2
WaitBound == Len(waitList) <= MaxWait

(* Every call comes to an end, for one goroutine that is chosen once: the   *)
(* goroutines are interchangeable, so that what holds for it holds for all. *)
OneCallReturns == CallReturns(CHOOSE g \in Goroutine : TRUE)
=============================================================================
