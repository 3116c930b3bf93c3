---------------------------- MODULE MCSyncTicker ----------------------------
(***************************************************************************)
(* Model checking of SyncTicker.                                           *)
(***************************************************************************)
EXTENDS SyncTicker, TLC

(* Tickers are interchangeable, and so are the clients that leave. *)
Symmetric == Permutations(Ticker) \cup Permutations(Leaves)
=============================================================================
