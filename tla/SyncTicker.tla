----------------------------- MODULE SyncTicker -----------------------------
(***************************************************************************)
(* The ticker that feeds connected web clients (server/server_http.go,     *)
(* server_bg.go).  A client that connects to /sync hands a value to the    *)
(* background loop over the unbuffered channel syncConnected and then adds *)
(* itself to syncWg.  The background loop starts tickerRoutine unless      *)
(* syncSemphor says that one is running.  tickerRoutine pushes the state   *)
(* every IntevalSec seconds until a goroutine of its own comes back from   *)
(* syncWg.Wait().                                                          *)
(*                                                                         *)
(* sync.WaitGroup: Wait returns at once while the counter is zero, else it *)
(* sleeps until Done brings the counter to zero; if the counter has been   *)
(* raised again before the sleeper runs, it panics.                        *)
(*                                                                         *)
(* Abstracted: what is pushed, the map state.Users, and the lock e.RWMutex *)
(* (module EngineLock).                                                    *)
(***************************************************************************)
EXTENDS Naturals, FiniteSets

CONSTANTS
    Client,   \* bound: connections at the same time
    Ticker,   \* bound: tickerRoutines at the same time
    Leaves    \* clients that disconnect; the others stay

ASSUME LeavesAssumption == Leaves \subseteq Client
ASSUME FiniteAssumption == IsFiniteSet(Client)

VARIABLES
    conn,      \* where the handler of each connection is
    loop,      \* where the background loop is
    semaphore, \* syncSemphor
    syncWg,    \* counter of syncWg
    ticker,    \* where each tickerRoutine is
    waiter,    \* where the goroutine is that waits for syncWg for a ticker
    panicked   \* syncWg.Wait has panicked: the server is gone

vars == <<conn, loop, semaphore, syncWg, ticker, waiter, panicked>>

Conn == {"off", "sending", "received", "counted"}
Routine == {"off", "start", "loop", "exit"}
Waiter == {"off", "wait", "asleep", "woken", "done"}

TypeOK ==
    /\ conn \in [Client -> Conn]
    /\ loop \in {"select", "cas"}
    /\ semaphore \in {0, 1}
    /\ syncWg \in 0..Cardinality(Client)
    /\ ticker \in [Ticker -> Routine]
    /\ waiter \in [Ticker -> Waiter]
    /\ panicked \in BOOLEAN

Init ==
    /\ conn = [c \in Client |-> "off"]
    /\ loop = "select"
    /\ semaphore = 0
    /\ syncWg = 0
    /\ ticker = [t \in Ticker |-> "off"]
    /\ waiter = [t \in Ticker |-> "off"]
    /\ panicked = FALSE

-----------------------------------------------------------------------------
(* webHandle, path /sync. *)

Connect(c) ==
    /\ ~panicked /\ conn[c] = "off"
    /\ conn' = [conn EXCEPT ![c] = "sending"]
    /\ UNCHANGED <<loop, semaphore, syncWg, ticker, waiter, panicked>>

(* s.syncConnected <- struct{}{} meets the select of the background loop. *)
Rendezvous(c) ==
    /\ ~panicked /\ conn[c] = "sending" /\ loop = "select"
    /\ conn' = [conn EXCEPT ![c] = "received"]
    /\ loop' = "cas"
    /\ UNCHANGED <<semaphore, syncWg, ticker, waiter, panicked>>

(* s.syncWg.Add(1); the handler pushes the state once. *)
AddToGroup(c) ==
    /\ ~panicked /\ conn[c] = "received"
    /\ conn' = [conn EXCEPT ![c] = "counted"]
    /\ syncWg' = syncWg + 1
    /\ UNCHANGED <<loop, semaphore, ticker, waiter, panicked>>

(* The connection is closed: s.syncWg.Done() wakes the sleepers at zero. *)
Disconnect(c) ==
    /\ ~panicked /\ conn[c] = "counted" /\ c \in Leaves
    /\ conn' = [conn EXCEPT ![c] = "off"]
    /\ syncWg' = syncWg - 1
    /\ waiter' = [t \in Ticker |->
                    IF syncWg' = 0 /\ waiter[t] = "asleep" THEN "woken" ELSE waiter[t]]
    /\ UNCHANGED <<loop, semaphore, ticker, panicked>>

-----------------------------------------------------------------------------
(* The background loop. *)

(* Mutants of StartTicker: the semaphore is added to, or set, unseen. *)
StartTickerAdds(t) ==
    /\ ~panicked /\ loop = "cas" /\ ticker[t] = "off" /\ waiter[t] = "off"
    /\ loop' = "select"
    /\ semaphore' = semaphore + 1
    /\ ticker' = [ticker EXCEPT ![t] = "start"]
    /\ UNCHANGED <<conn, syncWg, waiter, panicked>>

StartTickerSets(t) ==
    /\ ~panicked /\ loop = "cas" /\ ticker[t] = "off" /\ waiter[t] = "off"
    /\ loop' = "select"
    /\ semaphore' = 1
    /\ ticker' = [ticker EXCEPT ![t] = "start"]
    /\ UNCHANGED <<conn, syncWg, waiter, panicked>>

(* CompareAndSwapInt32(&syncSemphor, 0, 1) and go s.tickerRoutine() *)
StartTicker(t) ==
    /\ ~panicked /\ loop = "cas" /\ semaphore = 0 /\ ticker[t] = "off" /\ waiter[t] = "off"
    /\ loop' = "select"
    /\ semaphore' = 1
    /\ ticker' = [ticker EXCEPT ![t] = "start"]
    /\ UNCHANGED <<conn, syncWg, waiter, panicked>>

(* Mutant of TickerRuns: spins until the old ticker has gone. *)
TickerRunsSpins ==
    /\ ~panicked /\ loop = "cas" /\ semaphore = 1
    /\ UNCHANGED vars

TickerRuns ==
    /\ ~panicked /\ loop = "cas" /\ semaphore = 1
    /\ loop' = "select"
    /\ UNCHANGED <<conn, semaphore, syncWg, ticker, waiter, panicked>>

-----------------------------------------------------------------------------
(* tickerRoutine and the goroutine that waits for it. *)

SpawnWaiter(t) ==
    /\ ~panicked /\ ticker[t] = "start"
    /\ ticker' = [ticker EXCEPT ![t] = "loop"]
    /\ waiter' = [waiter EXCEPT ![t] = "wait"]
    /\ UNCHANGED <<conn, loop, semaphore, syncWg, panicked>>

(* Mutant of Wait: sleeps although the counter is zero. *)
WaitAsleep(t) ==
    /\ ~panicked /\ waiter[t] = "wait"
    /\ waiter' = [waiter EXCEPT ![t] = "asleep"]
    /\ UNCHANGED <<conn, loop, semaphore, syncWg, ticker, panicked>>

(* s.syncWg.Wait() looks at the counter. *)
Wait(t) ==
    /\ ~panicked /\ waiter[t] = "wait"
    /\ waiter' = [waiter EXCEPT ![t] = IF syncWg = 0 THEN "done" ELSE "asleep"]
    /\ UNCHANGED <<conn, loop, semaphore, syncWg, ticker, panicked>>

(* The sleeper comes back, closes done and ends. *)
WakeUp(t) ==
    /\ ~panicked /\ waiter[t] = "woken"
    /\ waiter' = [waiter EXCEPT ![t] = "done"]
    /\ panicked' = (syncWg # 0)
    /\ UNCHANGED <<conn, loop, semaphore, syncWg, ticker>>

(* done is closed: the select, which serves ticks meanwhile, takes it; the  *)
(* deferred function resets syncSemphor.                                    *)
Finish(t) ==
    /\ ~panicked /\ ticker[t] = "loop" /\ waiter[t] = "done"
    /\ ticker' = [ticker EXCEPT ![t] = "exit"]
    /\ waiter' = [waiter EXCEPT ![t] = "off"]
    /\ UNCHANGED <<conn, loop, semaphore, syncWg, panicked>>

ResetSemaphore(t) ==
    /\ ~panicked /\ ticker[t] = "exit"
    /\ ticker' = [ticker EXCEPT ![t] = "off"]
    /\ semaphore' = 0
    /\ UNCHANGED <<conn, loop, syncWg, waiter, panicked>>

-----------------------------------------------------------------------------
Handler(c) == Rendezvous(c) \/ AddToGroup(c)
Loop == TickerRuns \/ \E t \in Ticker : StartTicker(t)
Routines(t) == SpawnWaiter(t) \/ Finish(t) \/ ResetSemaphore(t)
Waiters(t) == Wait(t) \/ WakeUp(t)

Next ==
    \/ \E c \in Client : Connect(c) \/ Handler(c) \/ Disconnect(c)
    \/ Loop
    \/ \E t \in Ticker : Routines(t) \/ Waiters(t)

Spec == Init /\ [][Next]_vars

(* Every goroutine runs, a sender in the queue of a channel gets its turn,  *)
(* and select takes a case that stays ready.                                *)
Fairness ==
    /\ \A c \in Client : SF_vars(Handler(c))
    /\ WF_vars(Loop)
    /\ \A t \in Ticker :
         /\ WF_vars(Routines(t))
         /\ WF_vars(Waiters(t))

FairSpec == Spec /\ Fairness

-----------------------------------------------------------------------------
(* Properties. *)

Running(t) == ticker[t] # "off"

(* syncSemphor keeps a second tickerRoutine from being started while one    *)
(* runs, although the background loop sets it and the routine itself resets *)
(* it (server_bg.go 20, 54).                                                *)
OneTicker ==
    /\ \A t, u \in Ticker : Running(t) /\ Running(u) => t = u
    /\ semaphore = 1 <=> \E t \in Ticker : Running(t)

(* A client that connects is let in, whatever the ticker does               *)
(* (server_http.go 42): the background loop always comes back to receive.   *)
ClientLetIn ==
    \A c \in Client : conn[c] = "sending" ~> conn[c] = "counted" \/ panicked

(* A ticker that nobody is connected to stops (server_bg.go 61-65, 75-77).  *)
TickerStops ==
    semaphore = 1 /\ syncWg = 0 ~> semaphore = 0 \/ syncWg # 0 \/ panicked

(* A client that stays connected finds a ticker at work again and again:    *)
(* "Inteval seconds to push data to clients" (server.go 66).                *)
ClientTicked ==
    \A c \in Client \ Leaves :
        conn[c] = "counted" ~> \E t \in Ticker : ticker[t] = "loop"
=============================================================================
