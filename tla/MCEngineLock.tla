---------------------------- MODULE MCEngineLock ----------------------------
(***************************************************************************)
(* Model checking of EngineLock.                                           *)
(***************************************************************************)
EXTENDS EngineLock, TLC

(* Goroutines and infohashes are interchangeable. *)
Symmetric == Permutations(Goroutine) \cup Permutations(Task)
=============================================================================
