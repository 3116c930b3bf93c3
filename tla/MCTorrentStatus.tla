-------------------------- MODULE MCTorrentStatus --------------------------
(***************************************************************************)
(* Model checking of TorrentStatus: files, and processors, are treated      *)
(* alike.                                                                  *)
(***************************************************************************)
EXTENDS TorrentStatus, TLC

Symmetric == Permutations(File) \cup Permutations(Processor)
=============================================================================
