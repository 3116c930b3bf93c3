----------------------------- MODULE MCRSSFeed -----------------------------
(***************************************************************************)
(* Model checking of RSSFeed.                                              *)
(***************************************************************************)
EXTENDS RSSFeed

CONSTANTS f1, f2

(* RssURL: nothing, or both feeds. *)
MCLists == {<<>>, <<f1, f2>>}
=============================================================================
