------------------------------ MODULE RSSFeed ------------------------------
(***************************************************************************)
(* The RSS reader (server/server_rss.go updateRSS, started by              *)
(* server/server_bg.go, serveRSS and apiConfigure): feeds are fetched one  *)
(* after the other, the items above the one that was first the last time   *)
(* (rssMark) are put in front of rssCache, the cache is cut to 200 and at  *)
(* the end sorted by date.                                                 *)
(*                                                                         *)
(* Every call of updateRSS is a goroutine that shares rssMark and rssCache *)
(* with the others without a lock; a step ends where a call fetches or     *)
(* writes one of the two.                                                  *)
(*                                                                         *)
(* Abstracted: an item is its feed and its place in the order of           *)
(* publication; every item has a date, different from all others.  Races   *)
(* within one assignment (the Go map, the slice that is sorted in place)   *)
(* are below the grain of the steps.                                       *)
(***************************************************************************)
EXTENDS SequencesExt, FiniteSets

CONSTANTS
    Feed,      \* feeds a site offers
    Lists,     \* values of RssURL, as sequences of feeds
    Updater,   \* bound: goroutines in updateRSS at the same time
    Ticker,    \* the goroutine that updates every 30 minutes
    Cap,       \* items kept: 200
    Window,    \* items a site lists in a feed
    MaxItems,  \* bound: items published altogether
    MaxEdits,  \* bound: changes of RssURL
    NoMark     \* rssMark has no entry

Item == [feed : Feed, at : 1..MaxItems]

ASSUME TickerAssumption == Ticker \in Updater
ASSUME ListsAssumption == Lists \subseteq Seq(Feed)
ASSUME NullAssumption == NoMark \notin Item
ASSUME BoundsAssumption == Cap \in Nat \ {0} /\ Window \in Nat /\ MaxItems \in Nat /\ MaxEdits \in Nat

VARIABLES
    site,      \* what each feed lists now, newest first
    clock,     \* items published so far
    urls,      \* s.engineConfig.RssURL
    edits,     \* changes of it so far
    ticking,   \* the updater of backgroundRoutines has not returned
    mark,      \* s.rssMark
    cache,     \* s.rssCache
    latest,    \* s.state.LatestRSSGuid, as the item it belongs to
    pc,        \* where each updateRSS is
    todo,      \* the feeds it has still to look at
    got,       \* the items it has fetched, then those it takes for new
    taken,     \* history: items it has put into the cache since it was called
    overlapped \* history: two calls of updateRSS ran at the same time

outside == <<site, clock>>
settings == <<urls, edits, ticking>>
local == <<pc, todo, got, taken>>
vars == <<outside, settings, mark, cache, latest, local, overlapped>>

TypeOK ==
    /\ site \in [Feed -> Seq(Item)]
    /\ clock \in 0..MaxItems
    /\ urls \in Lists /\ edits \in 0..MaxEdits
    /\ ticking \in BOOLEAN
    /\ mark \in [Feed -> Item \cup {NoMark}]
    /\ cache \in Seq(Item)
    /\ latest \in Item \cup {NoMark}
    /\ pc \in [Updater -> {"idle", "start", "fetch", "compare", "prepend"}]
    /\ todo \in [Updater -> Seq(Feed)]
    /\ got \in [Updater -> Seq(Item)]
    /\ taken \in [Updater -> Nat]
    /\ overlapped \in BOOLEAN

(* backgroundRoutines: the updater returns at once if nothing is subscribed. *)
Init ==
    /\ site = [f \in Feed |-> <<>>] /\ clock = 0
    /\ urls \in Lists /\ edits = 0
    /\ ticking = (urls # <<>>)
    /\ mark = [f \in Feed |-> NoMark]
    /\ cache = <<>> /\ latest = NoMark
    /\ pc = [u \in Updater |-> "idle"]
    /\ todo = [u \in Updater |-> <<>>]
    /\ got = [u \in Updater |-> <<>>]
    /\ taken = [u \in Updater |-> 0]
    /\ overlapped = FALSE

Newer(i, j) == i.at > j.at

(* A site publishes an item and lists its last few. *)
Publish(f) ==
    /\ clock < MaxItems
    /\ clock' = clock + 1
    /\ LET more == <<[feed |-> f, at |-> clock']>> \o site[f]
       IN  site' = [site EXCEPT ![f] = SubSeq(more, 1, IF Len(more) > Window THEN Window ELSE Len(more))]
    /\ UNCHANGED <<settings, mark, cache, latest, local, overlapped>>

-----------------------------------------------------------------------------
(* Who calls updateRSS. *)

At(u, place) == pc[u] = place
Goto(u, place) == pc' = [pc EXCEPT ![u] = place]

(* go s.updateRSS() *)
Call(u) ==
    /\ At(u, "idle")
    /\ Goto(u, "start")
    /\ overlapped' = (overlapped \/ \E v \in Updater : pc[v] # "idle")
    /\ UNCHANGED <<outside, mark, cache, latest, todo, got, taken>>

(* The first update and every tick of the timer. *)
Tick == ticking /\ Call(Ticker) /\ UNCHANGED settings

(* serveRSS with ?update *)
Request(u) == u # Ticker /\ Call(u) /\ UNCHANGED settings

(* apiConfigure on a new RssURL; nobody starts the timer again. *)
Resubscribe(u, list) ==
    /\ u # Ticker /\ list # urls /\ edits < MaxEdits
    /\ Call(u)
    /\ urls' = list
    /\ edits' = edits + 1
    /\ UNCHANGED ticking

-----------------------------------------------------------------------------
(* updateRSS. *)

(* RssURL is read once per update. *)
Begin(u) ==
    /\ At(u, "start")
    /\ todo' = [todo EXCEPT ![u] = urls]
    /\ Goto(u, "fetch")
    /\ UNCHANGED <<outside, settings, mark, cache, latest, got, taken, overlapped>>

NextFeed(u) == todo' = [todo EXCEPT ![u] = Tail(todo[u])]

(* The items a site lists at this moment. *)
Fetch(u) ==
    /\ At(u, "fetch") /\ todo[u] # <<>>
    /\ got' = [got EXCEPT ![u] = site[Head(todo[u])]]
    /\ Goto(u, "compare")
    /\ UNCHANGED <<outside, settings, mark, cache, latest, todo, taken, overlapped>>

(* No answer, or no feed: the next one. *)
FetchFails(u) ==
    /\ At(u, "fetch") /\ todo[u] # <<>>
    /\ NextFeed(u)
    /\ UNCHANGED <<outside, settings, mark, cache, latest, pc, got, taken, overlapped>>

(* Mutants of Fresh: the remembered item is taken as well; nothing is taken *)
(* but the first time.                                                      *)
FreshAndMark(items, oldmark) ==
    IF oldmark = NoMark THEN items
    ELSE SubSeq(items, 1, SelectInSeq(items, LAMBDA i : i = oldmark))

FreshOnce(items, oldmark) == IF oldmark = NoMark THEN items ELSE <<>>

(* The items above the remembered one; all of them the first time.  If the  *)
(* remembered item is not in the feed any more, none.                       *)
Fresh(items, oldmark) ==
    IF oldmark = NoMark THEN items
    ELSE SubSeq(items, 1, SelectInSeq(items, LAMBDA i : i = oldmark) - 1)

(* Mutant of Compare: the feed is remembered, not its first item.           *)
CompareFeed(u) ==
    /\ At(u, "compare")
    /\ LET f == Head(todo[u])
           fresh == Fresh(got[u], mark[f])
       IN  /\ got' = [got EXCEPT ![u] = fresh]
           /\ mark' = IF fresh = <<>> THEN mark ELSE [mark EXCEPT ![f] = f]
    /\ Goto(u, "prepend")
    /\ UNCHANGED <<outside, settings, cache, latest, todo, taken, overlapped>>

(* The mark moves to the first item, and before the items are shown. *)
Compare(u) ==
    /\ At(u, "compare")
    /\ LET f == Head(todo[u])
           fresh == Fresh(got[u], mark[f])
       IN  /\ got' = [got EXCEPT ![u] = fresh]
           /\ mark' = IF fresh = <<>> THEN mark ELSE [mark EXCEPT ![f] = Head(fresh)]
    /\ Goto(u, "prepend")
    /\ UNCHANGED <<outside, settings, cache, latest, todo, taken, overlapped>>

(* At most Cap items are kept. *)
Cut(items) == SubSeq(items, 1, IF Len(items) > Cap THEN Cap ELSE Len(items))

(* Mutant of Prepend: of the new items the first alone is shown. *)
PrependFirst(u) ==
    /\ At(u, "prepend")
    /\ cache' = Cut(SubSeq(got[u], 1, IF got[u] = <<>> THEN 0 ELSE 1) \o cache)
    /\ taken' = [taken EXCEPT ![u] = @ + Len(got[u])]
    /\ got' = [got EXCEPT ![u] = <<>>]
    /\ NextFeed(u)
    /\ Goto(u, "fetch")
    /\ UNCHANGED <<outside, settings, mark, latest, overlapped>>

(* What is new goes in front of the list. *)
Prepend(u) ==
    /\ At(u, "prepend")
    /\ cache' = Cut(got[u] \o cache)
    /\ taken' = [taken EXCEPT ![u] = @ + Len(got[u])]
    /\ got' = [got EXCEPT ![u] = <<>>]
    /\ NextFeed(u)
    /\ Goto(u, "fetch")
    /\ UNCHANGED <<outside, settings, mark, latest, overlapped>>

(* The place of the i-th item in the list sorted by date: behind the newer  *)
(* ones and, so that places differ, behind earlier ones of the same date.   *)
Place(items, i) ==
    Cardinality({j \in 1..Len(items) :
                   Newer(items[j], items[i]) \/ (~Newer(items[i], items[j]) /\ j <= i)})

Sorted(items) ==
    [n \in 1..Len(items) |-> items[CHOOSE i \in 1..Len(items) : Place(items, i) = n]]

(* Mutant of Finish: the cache is not sorted. *)
FinishUnsorted(u) ==
    /\ At(u, "fetch") /\ todo[u] = <<>>
    /\ latest' = IF cache = <<>> THEN latest ELSE Head(cache)
    /\ taken' = [taken EXCEPT ![u] = 0]
    /\ Goto(u, "idle")
    /\ UNCHANGED <<outside, settings, mark, cache, todo, got, overlapped>>

(* After the last feed: the cache is sorted, its head announced. *)
Finish(u) ==
    /\ At(u, "fetch") /\ todo[u] = <<>>
    /\ cache' = Sorted(cache)
    /\ latest' = IF cache = <<>> THEN latest ELSE Head(cache')
    /\ taken' = [taken EXCEPT ![u] = 0]
    /\ Goto(u, "idle")
    /\ UNCHANGED <<outside, settings, mark, todo, got, overlapped>>

Update(u) ==
    \/ Begin(u) \/ Fetch(u) \/ FetchFails(u) \/ Compare(u) \/ Prepend(u) \/ Finish(u)

Next ==
    \/ \E f \in Feed : Publish(f)
    \/ Tick
    \/ \E u \in Updater :
         Request(u) \/ Update(u) \/ \E list \in Lists : Resubscribe(u, list)

(* Goroutines run and the timer ticks; nothing is assumed of the sites. *)
Fairness == WF_vars(Tick) /\ \A u \in Updater : WF_vars(Update(u))

Spec == Init /\ [][Next]_vars
FairSpec == Spec /\ Fairness
-----------------------------------------------------------------------------
(* Properties. *)

AtRest == \A u \in Updater : pc[u] = "idle"

(* The list that is served holds no item twice, as long as no two updates   *)
(* ran at the same time (updateRSS, server_rss.go 125-144).                 *)
NoRepeats == ~overlapped => IsInjective(cache)

(* The item after which a feed is read on has left it: nothing of the feed  *)
(* is ever new again.                                                       *)
Stuck(f) == mark[f] # NoMark /\ mark[f] \notin Range(site[f])

(* What a feed has listed up to its mark is never passed over: it is in the *)
(* list or was pushed out by a full one; and unless updates overlap, the    *)
(* mark itself is an item that was shown (server_rss.go 133-148).           *)
MarkedIsShown ==
    AtRest /\ ~overlapped => \A f \in Feed :
        mark[f] # NoMark =>
            \/ Len(cache) = Cap
            \/ \A i \in Range(site[f]) : ~Newer(i, mark[f]) => i \in Range(cache)

(* The announced item never gives way to an older one, unless one update    *)
(* brings as many new items as the list holds: the list is cut before it is *)
(* sorted, so that many push the newest one out; fewer never do, whatever   *)
(* the feeds list and however long the list is (server_rss.go 143-158).     *)
NeverBack ==
    [][~overlapped' /\ latest # NoMark /\ (\A u \in Updater : taken[u] < Cap)
         => ~Newer(latest, latest')]_vars

(* If the sites keep answering the timer, whatever a subscribed feed lists  *)
(* is shown sooner or later, unless it leaves the feed, the feed is stuck,  *)
(* the cache is full, updates overlapped or the subscription changed        *)
(* (server_bg.go 31-44).                                                    *)
Answered(f) == []<><<Fetch(Ticker) /\ Head(todo[Ticker]) = f>>_vars
Listed(i) == i \in Range(site[i.feed]) /\ ticking /\ edits = 0
Excused(i) == \/ i \notin Range(site[i.feed]) \/ Stuck(i.feed)
              \/ Len(cache) = Cap \/ overlapped \/ edits > 0
Shown == \A i \in Item :
    Answered(i.feed) => (Listed(i) ~> (i \in Range(cache) \/ Excused(i)))
=============================================================================
