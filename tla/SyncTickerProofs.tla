-------------------------- MODULE SyncTickerProofs --------------------------
(***************************************************************************)
(* Proofs about SyncTicker: type correctness, and the semaphore admits one *)
(* tickerRoutine at a time.                                                *)
(***************************************************************************)
EXTENDS SyncTicker, FiniteSetTheorems, TLAPS

Counted == {c \in Client : conn[c] = "counted"}

(* TypeOK without the bound of syncWg, which follows from CountInv. *)
TypeInv ==
    /\ conn \in [Client -> Conn]
    /\ loop \in {"select", "cas"}
    /\ semaphore \in {0, 1}
    /\ ticker \in [Ticker -> Routine]
    /\ waiter \in [Ticker -> Waiter]
    /\ panicked \in BOOLEAN

(* syncWg counts the open connections, hence at most all clients. *)
CountInv == syncWg = Cardinality(Counted)

Inv == TypeInv /\ OneTicker /\ CountInv

LEMMA CountedFinite == IsFiniteSet(Counted)
BY FiniteAssumption, FS_Subset DEF Counted

LEMMA InvInit == Init => Inv
<1>1. Init => Counted = {}
  BY DEF Init, Counted
<1>2. Init => CountInv
  BY <1>1, FS_EmptySet DEF Init, CountInv
<1>3. Init => TypeInv
  BY DEF Init, TypeInv, Conn, Routine, Waiter
<1>4. Init => OneTicker
  BY DEF Init, OneTicker, Running
<1>. QED  BY <1>2, <1>3, <1>4 DEF Inv

LEMMA TypeInvNext == TypeInv /\ [Next]_vars => TypeInv'
<1>. SUFFICES ASSUME TypeInv, [Next]_vars PROVE TypeInv'
  OBVIOUS
<1>. USE DEF TypeInv, Conn, Routine, Waiter
<1>1. ASSUME NEW c \in Client, Connect(c) \/ Handler(c) \/ Disconnect(c) PROVE TypeInv'
  BY <1>1 DEF Connect, Handler, Rendezvous, AddToGroup, Disconnect
<1>2. CASE Loop
  BY <1>2 DEF Loop, TickerRuns, StartTicker
<1>3. ASSUME NEW t \in Ticker, Routines(t) \/ Waiters(t) PROVE TypeInv'
  BY <1>3 DEF Routines, SpawnWaiter, Finish, ResetSemaphore, Waiters, Wait, WakeUp
<1>4. CASE UNCHANGED vars
  BY <1>4 DEF vars
<1>. QED  BY <1>1, <1>2, <1>3, <1>4 DEF Next

(* Only StartTicker and ResetSemaphore touch the semaphore, and each finds  *)
(* the other's last step undisturbed.                                       *)
LEMMA OneTickerNext == TypeInv /\ OneTicker /\ [Next]_vars => OneTicker'
<1>. SUFFICES ASSUME TypeInv, OneTicker, [Next]_vars PROVE OneTicker'
  OBVIOUS
<1>. USE DEF TypeInv, OneTicker, Running
<1>1. ASSUME NEW c \in Client, Connect(c) \/ Handler(c) \/ Disconnect(c) PROVE OneTicker'
  BY <1>1 DEF Connect, Handler, Rendezvous, AddToGroup, Disconnect
<1>2. CASE TickerRuns
  BY <1>2 DEF TickerRuns
<1>3. ASSUME NEW t \in Ticker, StartTicker(t) PROVE OneTicker'
  BY <1>3 DEF StartTicker
<1>4. ASSUME NEW t \in Ticker, SpawnWaiter(t) PROVE OneTicker'
  BY <1>4 DEF SpawnWaiter
<1>5. ASSUME NEW t \in Ticker, Finish(t) PROVE OneTicker'
  BY <1>5 DEF Finish
<1>6. ASSUME NEW t \in Ticker, ResetSemaphore(t) PROVE OneTicker'
  BY <1>6 DEF ResetSemaphore
<1>7. ASSUME NEW t \in Ticker, Waiters(t) PROVE OneTicker'
  BY <1>7 DEF Waiters, Wait, WakeUp
<1>8. CASE UNCHANGED vars
  BY <1>8 DEF vars
<1>. QED  BY <1>1, <1>2, <1>3, <1>4, <1>5, <1>6, <1>7, <1>8 DEF Next, Loop, Routines

LEMMA CountInvNext == TypeInv /\ CountInv /\ [Next]_vars => CountInv'
<1>. SUFFICES ASSUME TypeInv, CountInv, [Next]_vars PROVE CountInv'
  OBVIOUS
<1>1. syncWg = Cardinality(Counted)
  BY DEF CountInv
<1>2. SUFFICES syncWg' = Cardinality(Counted')
  BY DEF CountInv
<1>. USE DEF TypeInv
<1>3. ASSUME NEW c \in Client, Connect(c) \/ Rendezvous(c) PROVE syncWg' = Cardinality(Counted')
  <2>1. Counted' = Counted /\ syncWg' = syncWg
    BY <1>3 DEF Connect, Rendezvous, Counted
  <2>. QED  BY <1>1, <2>1
<1>4. ASSUME NEW c \in Client, AddToGroup(c) PROVE syncWg' = Cardinality(Counted')
  <2>1. Counted' = Counted \cup {c} /\ c \notin Counted /\ syncWg' = syncWg + 1
    BY <1>4 DEF AddToGroup, Counted
  <2>. QED  BY <1>1, <2>1, CountedFinite, FS_AddElement
<1>5. ASSUME NEW c \in Client, Disconnect(c) PROVE syncWg' = Cardinality(Counted')
  <2>1. Counted' = Counted \ {c} /\ c \in Counted /\ syncWg' = syncWg - 1
    BY <1>5 DEF Disconnect, Counted
  <2>. QED  BY <1>1, <2>1, CountedFinite, FS_RemoveElement
<1>6. CASE UNCHANGED <<conn, syncWg>>
  <2>1. Counted' = Counted
    BY <1>6 DEF Counted
  <2>. QED  BY <1>1, <1>6, <2>1
<1>7. CASE Loop
  BY <1>6, <1>7 DEF Loop, TickerRuns, StartTicker
<1>8. ASSUME NEW t \in Ticker, Routines(t) \/ Waiters(t) PROVE syncWg' = Cardinality(Counted')
  BY <1>6, <1>8 DEF Routines, SpawnWaiter, Finish, ResetSemaphore, Waiters, Wait, WakeUp
<1>9. CASE UNCHANGED vars
  BY <1>6, <1>9 DEF vars
<1>. QED  BY <1>3, <1>4, <1>5, <1>7, <1>8, <1>9 DEF Next, Handler

LEMMA InvAlways == Spec => []Inv
<1>1. Inv /\ [Next]_vars => Inv'
  BY TypeInvNext, OneTickerNext, CountInvNext DEF Inv
<1>. QED  BY <1>1, InvInit, PTL DEF Spec

(* tickerRoutine runs at most once at a time, and syncSemphor says whether  *)
(* it runs (server_bg.go 20, 54).                                           *)
THEOREM OneTickerHolds == Spec => []OneTicker
<1>1. Inv => OneTicker
  BY DEF Inv
<1>. QED  BY <1>1, InvAlways, PTL

(* Type correctness, with the bound of syncWg from the number of clients. *)
THEOREM TypeCorrect == Spec => []TypeOK
<1>1. Inv => TypeOK
  <2>1. Cardinality(Counted) \in Nat /\ Cardinality(Client) \in Nat
        /\ Cardinality(Counted) <= Cardinality(Client)
    BY CountedFinite, FiniteAssumption, FS_Subset, FS_CardinalityType DEF Counted
  <2>. QED  BY <2>1 DEF Inv, TypeInv, TypeOK, CountInv
<1>. QED  BY <1>1, InvAlways, PTL
=============================================================================
