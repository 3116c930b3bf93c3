------------------------------ MODULE SlotPool ------------------------------
(***************************************************************************)
(* What the task engine promises about download slots, without goroutines, *)
(* locks or a queue: a task is listed and deleted by its users, a listed   *)
(* task may be started while a slot is free, and the slot of a task that   *)
(* was deleted is given back in the end.                                   *)
(***************************************************************************)
EXTENDS Naturals, FiniteSets

CONSTANTS Task, Limits

VARIABLES
    listed,   \* tasks the user sees
    running,  \* tasks that occupy a slot
    doomed    \* running tasks that are being dropped

poolVars == <<listed, running, doomed>>

PoolInit == listed = {} /\ running = {} /\ doomed = {}

List(ih) ==
    /\ ih \notin listed
    /\ listed' = listed \cup {ih}
    /\ UNCHANGED <<running, doomed>>

Delete(ih) ==
    /\ ih \in listed
    /\ listed' = listed \ {ih}
    /\ doomed' = doomed \cup ({ih} \cap running)
    /\ UNCHANGED running

(* A task that was deleted while it was being started, or whose previous   *)
(* incarnation is still being dropped, starts doomed.                      *)
Start(ih) ==
    /\ ih \notin running
    /\ \E m \in Limits : m = 0 \/ Cardinality(running) < m
    /\ running' = running \cup {ih}
    /\ \/ doomed' = doomed \cup {ih}
       \/ ih \in listed /\ UNCHANGED doomed
    /\ UNCHANGED listed

Stop(ih) ==
    /\ ih \in doomed
    /\ running' = running \ {ih}
    /\ doomed' = doomed \ {ih}
    /\ UNCHANGED listed

PoolNext == \E ih \in Task : List(ih) \/ Delete(ih) \/ Start(ih) \/ Stop(ih)

PoolSpec == PoolInit /\ [][PoolNext]_poolVars

PoolFairSpec == PoolSpec /\ \A ih \in Task : WF_poolVars(Stop(ih))
=============================================================================
