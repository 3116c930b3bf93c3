---------------------------- MODULE RSSFeedProofs ----------------------------
(***************************************************************************)
(* Theorems about the RSS reader, for any feeds, subscriptions, number of  *)
(* updates, size of the cache and length of the feeds.                     *)
(***************************************************************************)
EXTENDS RSSFeed, FiniteSetTheorems, WellFoundedInduction, TLAPS

LEMMA ItemFields ==
    ASSUME NEW e \in Item
    PROVE  e.feed \in Feed /\ e.at \in Nat /\ e.at \in 1..MaxItems
BY BoundsAssumption DEF Item

LEMMA Indices ==
    ASSUME NEW n \in Nat
    PROVE  IsFiniteSet(1..n) /\ Cardinality(1..n) = n
<1>1. 1 \in Int /\ n \in Int /\ (IF 1 > n THEN 0 ELSE n - 1 + 1) = n
  OBVIOUS
<1>. QED  BY <1>1, FS_Interval

-----------------------------------------------------------------------------
(* Sorting. *)

(* Two different items have different places, the newer one the lower.      *)
LEMMA PlaceOrder ==
    ASSUME NEW s \in Seq(Item), NEW i \in 1..Len(s), NEW k \in 1..Len(s),
           s[i].at > s[k].at \/ (s[i].at = s[k].at /\ i < k)
    PROVE  Place(s, i) \in 1..Len(s) /\ Place(s, k) \in 1..Len(s) /\ Place(s, i) < Place(s, k)
<1>. DEFINE Before(n) == {j \in 1..Len(s) :
                            Newer(s[j], s[n]) \/ (~Newer(s[n], s[j]) /\ j <= n)}
<1>1. \A j \in 1..Len(s) : s[j].at \in Nat
  BY ItemFields
<1>2. Len(s) \in Nat
  OBVIOUS
<1>3. IsFiniteSet(1..Len(s)) /\ Cardinality(1..Len(s)) = Len(s)
  BY <1>2, Indices
<1>4. ASSUME NEW n \in 1..Len(s)
      PROVE  /\ Before(n) \subseteq 1..Len(s) /\ IsFiniteSet(Before(n))
             /\ Cardinality(Before(n)) \in 1..Len(s)
  <2>1. n \in Before(n) /\ Before(n) \subseteq 1..Len(s)
    BY <1>1 DEF Newer
  <2>. HIDE DEF Before
  <2>2. IsFiniteSet(Before(n)) /\ Cardinality(Before(n)) <= Len(s)
    BY <1>3, <2>1, FS_Subset
  <2>3. Cardinality(Before(n)) \in Nat /\ Cardinality(Before(n)) # 0
    BY <2>1, <2>2, FS_CardinalityType, FS_EmptySet
  <2>. QED  BY <1>2, <2>1, <2>2, <2>3
<1>5. Before(i) \subseteq Before(k) /\ k \in Before(k) /\ k \notin Before(i)
  BY <1>1 DEF Newer
<1>6. Cardinality(Before(i)) < Cardinality(Before(k))
  <2>. HIDE DEF Before
  <2>1. Cardinality(Before(i)) <= Cardinality(Before(k)) /\ Before(i) # Before(k)
    BY <1>4, <1>5, FS_Subset
  <2>2. Cardinality(Before(i)) # Cardinality(Before(k))
    BY <1>4, <1>5, <2>1, FS_Subset
  <2>. QED  BY <1>4, <2>1, <2>2
<1>. QED  BY <1>4, <1>6 DEF Place

(* Every place is taken by exactly one item. *)
LEMMA PlaceTaken ==
    ASSUME NEW s \in Seq(Item)
    PROVE  /\ \A i \in 1..Len(s) : Place(s, i) \in 1..Len(s)
           /\ \A i, k \in 1..Len(s) : Place(s, i) = Place(s, k) => i = k
           /\ \A n \in 1..Len(s) : \E i \in 1..Len(s) : Place(s, i) = n
<1>. DEFINE D == 1..Len(s)
            f == [i \in D |-> Place(s, i)]
<1>1. \A j \in D : s[j].at \in Nat /\ j \in Nat
  BY ItemFields
<1>2. ASSUME NEW i \in D, NEW k \in D, i # k
      PROVE  Place(s, i) \in D /\ Place(s, k) \in D /\ Place(s, i) # Place(s, k)
  <2>1. CASE s[i].at > s[k].at \/ (s[i].at = s[k].at /\ i < k)
    BY <2>1, PlaceOrder
  <2>2. CASE s[k].at > s[i].at \/ (s[k].at = s[i].at /\ k < i)
    BY <2>2, PlaceOrder
  <2>. QED  BY <1>1, <1>2, <2>1, <2>2
<1>3. ASSUME NEW i \in D PROVE Place(s, i) \in D
  <2>. DEFINE B == {j \in 1..Len(s) : Newer(s[j], s[i]) \/ (~Newer(s[i], s[j]) /\ j <= i)}
  <2>1. i \in B /\ B \subseteq D
    BY <1>1 DEF Newer
  <2>2. Len(s) \in Nat /\ IsFiniteSet(D) /\ Cardinality(D) = Len(s)
    BY Indices
  <2>. HIDE DEF B
  <2>3. IsFiniteSet(B) /\ Cardinality(B) <= Len(s)
    BY <2>1, <2>2, FS_Subset
  <2>4. Cardinality(B) \in Nat /\ Cardinality(B) # 0
    BY <2>1, <2>3, FS_CardinalityType, FS_EmptySet
  <2>5. Place(s, i) = Cardinality(B)
    BY DEF Place, B
  <2>. QED  BY <2>2, <2>3, <2>4, <2>5
<1>4. f \in Injection(D, D)
  BY <1>2, <1>3 DEF Injection, IsInjective
<1>5. Len(s) \in Nat /\ IsFiniteSet(D)
  BY Indices
<1>6. f \in Surjection(D, D)
  <2>. HIDE DEF f, D
  <2>. QED  BY <1>4, <1>5, FS_Injection
<1>7. \A n \in D : \E i \in D : f[i] = n
  BY <1>6 DEF Surjection
<1>. QED  BY <1>2, <1>3, <1>7

(* Sorting permutes the list, and no item comes before a newer one.         *)
LEMMA SortedIs ==
    ASSUME NEW s \in Seq(Item)
    PROVE  /\ Sorted(s) \in Seq(Item) /\ Len(Sorted(s)) = Len(s)
           /\ \A n \in 1..Len(s) : \E i \in 1..Len(s) : Sorted(s)[n] = s[i] /\ Place(s, i) = n
           /\ \A i \in 1..Len(s) : Sorted(s)[Place(s, i)] = s[i]
<1>. DEFINE p(n) == CHOOSE i \in 1..Len(s) : Place(s, i) = n
<1>0. Len(s) \in Nat
  OBVIOUS
<1>1. ASSUME NEW n \in 1..Len(s)
      PROVE  p(n) \in 1..Len(s) /\ Place(s, p(n)) = n
  BY PlaceTaken
<1>2. \A i \in 1..Len(s) : p(Place(s, i)) = i
  BY <1>1, PlaceTaken
<1>. HIDE DEF p
<1>3. Sorted(s) = [n \in 1..Len(s) |-> s[p(n)]]
  BY DEF Sorted, p
<1>4. Sorted(s) \in Seq(Item) /\ Len(Sorted(s)) = Len(s)
  BY <1>0, <1>1, <1>3
<1>5. \A i \in 1..Len(s) : Sorted(s)[Place(s, i)] = s[i]
  BY <1>2, <1>3, PlaceTaken
<1>. QED  BY <1>1, <1>3, <1>4, <1>5

LEMMA SortedRange ==
    ASSUME NEW s \in Seq(Item)
    PROVE  Range(Sorted(s)) = Range(s)
<1>1. DOMAIN s = 1..Len(s) /\ DOMAIN Sorted(s) = 1..Len(s)
  BY SortedIs
<1>2. \A n \in 1..Len(s) : \E i \in 1..Len(s) : Sorted(s)[n] = s[i]
  BY SortedIs
<1>3. \A i \in 1..Len(s) : Place(s, i) \in 1..Len(s) /\ Sorted(s)[Place(s, i)] = s[i]
  BY SortedIs, PlaceTaken
<1>4. \A e : e \in Range(s) <=> \E i \in 1..Len(s) : e = s[i]
  BY <1>1 DEF Range
<1>5. \A e : e \in Range(Sorted(s)) <=> \E i \in 1..Len(s) : e = Sorted(s)[i]
  BY <1>1 DEF Range
<1>. QED  BY <1>2, <1>3, <1>4, <1>5

LEMMA SortedInjective ==
    ASSUME NEW s \in Seq(Item), IsInjective(s)
    PROVE  IsInjective(Sorted(s))
<1>1. DOMAIN s = 1..Len(s) /\ DOMAIN Sorted(s) = 1..Len(s)
  BY SortedIs
<1>2. \A n \in 1..Len(s) : \E i \in 1..Len(s) : Sorted(s)[n] = s[i] /\ Place(s, i) = n
  BY SortedIs
<1>. QED  BY <1>1, <1>2 DEF IsInjective

(* The first item of a sorted list is as new as any. *)
LEMMA SortedFirst ==
    ASSUME NEW s \in Seq(Item), NEW i \in 1..Len(s)
    PROVE  s[i].at <= Sorted(s)[1].at
<1>1. 1 \in 1..Len(s) /\ Len(s) \in Nat
  OBVIOUS
<1>2. PICK k \in 1..Len(s) : Sorted(s)[1] = s[k] /\ Place(s, k) = 1
  BY <1>1, SortedIs
<1>3. s[i].at \in Nat /\ s[k].at \in Nat
  BY ItemFields
<1>4. ~(s[i].at > s[k].at)
  <2>. SUFFICES ASSUME s[i].at > s[k].at PROVE FALSE
    OBVIOUS
  <2>1. Place(s, i) \in 1..Len(s) /\ Place(s, i) < Place(s, k)
    BY PlaceOrder
  <2>. QED  BY <1>2, <2>1
<1>. QED  BY <1>2, <1>3, <1>4

-----------------------------------------------------------------------------
(* New items and the full cache. *)

LEMMA LeastElement ==
    ASSUME NEW T, T \subseteq Nat, T # {}
    PROVE  Min(T) \in T /\ \A j \in T : Min(T) <= j
<1>1. PICK i \in T : \A j \in T : ~(<<j, i>> \in OpToRel(<, Nat))
  BY NatLessThanWellFounded, WFMin, Zenon
<1>2. ASSUME NEW j \in T PROVE i <= j
  <2>1. ~(j < i)
    <3>1. \A m, n \in Nat : m < n => <<m, n>> \in OpToRel(<, Nat)
      BY DEF OpToRel
    <3>. QED  BY <1>1, <3>1, Zenon
  <2>. QED  BY <2>1
<1>3. \E x \in T : \A y \in T : x =< y
  BY <1>2
<1>. QED  BY <1>3 DEF Min

(* What is new are the items in front of the mark; all there are without a  *)
(* mark; none if the mark is in front or is not in the feed.                *)
LEMMA FreshIs ==
    ASSUME NEW s \in Seq(Item), NEW m
    PROVE  /\ Fresh(s, m) \in Seq(Item) /\ Len(Fresh(s, m)) <= Len(s)
           /\ \A i \in 1..Len(Fresh(s, m)) : Fresh(s, m)[i] = s[i]
           /\ m = NoMark => Len(Fresh(s, m)) = Len(s)
           /\ m # NoMark /\ Len(Fresh(s, m)) > 0 =>
                Len(Fresh(s, m)) + 1 \in 1..Len(s) /\ s[Len(Fresh(s, m)) + 1] = m
<1>0. Len(s) \in Nat
  OBVIOUS
<1>1. CASE m = NoMark
  <2>1. Fresh(s, m) = s
    BY <1>1 DEF Fresh
  <2>. QED  BY <1>0, <1>1, <2>1
<1>2. CASE m # NoMark
  <2>. DEFINE at == {i \in 1..Len(s) : s[i] = m}
              first == IF at # {} THEN Min(at) ELSE 0
              k == first - 1
  <2>1. Fresh(s, m) = SubSeq(s, 1, k)
    BY <1>2 DEF Fresh, SelectInSeq
  <2>2. at # {} => Min(at) \in at
    <3>1. at \subseteq Nat
      OBVIOUS
    <3>. HIDE DEF at
    <3>. QED  BY <3>1, LeastElement
  <2>3. k \in -1..Len(s) /\ (k > 0 => k+1 \in 1..Len(s) /\ s[k+1] = m)
    BY <1>0, <2>2
  <2>. HIDE DEF k
  <2>4. CASE k >= 0
    <3>1. /\ SubSeq(s, 1, k) \in Seq(Item) /\ Len(SubSeq(s, 1, k)) = k
          /\ \A i \in 1..k : SubSeq(s, 1, k)[i] = s[i]
      BY <2>3, <2>4
    <3>. QED  BY <1>2, <2>1, <2>3, <2>4, <3>1
  <2>5. CASE k = -1
    <3>1. SubSeq(s, 1, k) \in Seq(Item) /\ Len(SubSeq(s, 1, k)) = 0
      BY <2>5
    <3>. QED  BY <1>0, <1>2, <2>1, <2>3, <2>5, <3>1
  <2>. QED  BY <2>3, <2>4, <2>5
<1>. QED  BY <1>1, <1>2

LEMMA CutIs ==
    ASSUME NEW a \in Seq(Item), NEW b \in Seq(Item)
    PROVE  /\ Cut(a \o b) \in Seq(Item)
           /\ Len(Cut(a \o b)) = IF Len(a) + Len(b) > Cap THEN Cap ELSE Len(a) + Len(b)
           /\ \A i \in 1..Len(Cut(a \o b)) :
                Cut(a \o b)[i] = IF i <= Len(a) THEN a[i] ELSE b[i - Len(a)]
<1>. DEFINE c == a \o b
            n == IF Len(c) > Cap THEN Cap ELSE Len(c)
<1>1. c \in Seq(Item) /\ Len(c) = Len(a) + Len(b) /\ Len(a) \in Nat /\ Len(b) \in Nat
  OBVIOUS
<1>2. \A i \in 1..Len(c) : c[i] = IF i <= Len(a) THEN a[i] ELSE b[i - Len(a)]
  OBVIOUS
<1>. HIDE DEF c
<1>3. n \in 0..Len(c)
  BY <1>1, BoundsAssumption
<1>4. SubSeq(c, 1, n) \in Seq(Item) /\ Len(SubSeq(c, 1, n)) = n /\ \A i \in 1..n : SubSeq(c, 1, n)[i] = c[i]
  <2>. HIDE DEF n
  <2>. QED  BY <1>1, <1>3
<1>5. Cut(c) = SubSeq(c, 1, n)
  BY DEF Cut
<1>. QED  BY <1>1, <1>2, <1>3, <1>4, <1>5 DEF c

-----------------------------------------------------------------------------
(* Types. *)

(* An update that compares or prepends has not finished with its feed. *)
BusyInv == \A u \in Updater : pc[u] \in {"compare", "prepend"} => todo[u] # <<>>

TypeInv == TypeOK /\ BusyInv

(* The list of a site after it published. *)
More(f) == <<[feed |-> f, at |-> clock + 1]>> \o site[f]
Cropped(s) == SubSeq(s, 1, IF Len(s) > Window THEN Window ELSE Len(s))

LEMMA PublishIs ==
    ASSUME TypeInv, NEW f \in Feed, Publish(f)
    PROVE  /\ clock \in Nat /\ clock' = clock + 1 /\ clock' \in 0..MaxItems
           /\ \A g \in Feed : g # f => site'[g] = site[g]
           /\ site' \in [Feed -> Seq(Item)]
           /\ Len(site'[f]) <= Window
           /\ \A i \in 1..Len(site'[f]) :
                \/ i = 1 /\ site'[f][i] = [feed |-> f, at |-> clock + 1]
                \/ i > 1 /\ i - 1 \in 1..Len(site[f]) /\ site'[f][i] = site[f][i-1]
<1>. USE DEF TypeInv, TypeOK
<1>. DEFINE e == [feed |-> f, at |-> clock + 1]
            s == site[f]
            m == <<e>> \o s
            n == IF Len(m) > Window THEN Window ELSE Len(m)
<1>1. clock \in Nat /\ clock < MaxItems /\ clock' = clock + 1 /\ clock' \in 0..MaxItems
  BY BoundsAssumption DEF Publish
<1>2. e \in Item /\ s \in Seq(Item) /\ Len(s) \in Nat
  <2>1. clock + 1 \in 1..MaxItems
    BY <1>1, BoundsAssumption
  <2>2. e \in Item
    BY <2>1 DEF Item
  <2>3. s \in Seq(Item)
    OBVIOUS
  <2>. QED  BY <2>2, <2>3
<1>3. site' = [site EXCEPT ![f] = SubSeq(m, 1, n)]
  BY <1>1 DEF Publish
<1>. HIDE DEF e, s
<1>4. /\ m \in Seq(Item) /\ Len(m) = Len(s) + 1
      /\ \A i \in 1..Len(m) : m[i] = IF i = 1 THEN e ELSE s[i-1]
  BY <1>2
<1>. HIDE DEF m
<1>5. n \in 0..Len(m) /\ n <= Window
  BY <1>2, <1>4, BoundsAssumption
<1>. HIDE DEF n
<1>6. /\ SubSeq(m, 1, n) \in Seq(Item) /\ Len(SubSeq(m, 1, n)) = n
      /\ \A i \in 1..n : SubSeq(m, 1, n)[i] = m[i]
  BY <1>4, <1>5
<1>7. site'[f] = SubSeq(m, 1, n)
  BY <1>3
<1>8. \A i \in 1..n : \/ i = 1 /\ m[i] = e
                      \/ i > 1 /\ i - 1 \in 1..Len(s) /\ m[i] = s[i-1]
  BY <1>2, <1>4, <1>5
<1>9. site' \in [Feed -> Seq(Item)] /\ \A g \in Feed : g # f => site'[g] = site[g]
  BY <1>3, <1>6
<1>. QED  BY <1>1, <1>5, <1>6, <1>7, <1>8, <1>9 DEF e, s

LEMMA TypeInvInit == Init => TypeInv
<1>. SUFFICES ASSUME Init PROVE TypeInv
  OBVIOUS
<1>1. ticking \in BOOLEAN
  BY Zenon DEF Init
<1>2. overlapped \in BOOLEAN /\ latest \in Item \cup {NoMark} /\ cache \in Seq(Item)
  <2>1. <<>> \in Seq(Item)
    OBVIOUS
  <2>. QED  BY <2>1, Zenon DEF Init
<1>3. clock \in 0..MaxItems /\ edits \in 0..MaxEdits /\ urls \in Lists
  BY BoundsAssumption DEF Init
<1>4. site \in [Feed -> Seq(Item)] /\ mark \in [Feed -> Item \cup {NoMark}]
  <2>1. <<>> \in Seq(Item) /\ NoMark \in Item \cup {NoMark}
    OBVIOUS
  <2>. QED  BY <2>1, Zenon DEF Init
<1>5. /\ pc \in [Updater -> {"idle", "start", "fetch", "compare", "prepend"}]
      /\ todo \in [Updater -> Seq(Feed)] /\ got \in [Updater -> Seq(Item)]
      /\ taken \in [Updater -> Nat] /\ BusyInv
  BY DEF Init, BusyInv
<1>. QED  BY <1>1, <1>2, <1>3, <1>4, <1>5 DEF TypeInv, TypeOK

LEMMA TypeInvNext ==
    ASSUME TypeInv, [Next]_vars
    PROVE  TypeInv'
<1>. USE DEF TypeInv, TypeOK, BusyInv, At, Goto, outside, settings, local
<1>1. ASSUME NEW f \in Feed, Publish(f) PROVE TypeInv'
  BY <1>1, PublishIs DEF Publish
<1>2. ASSUME Tick PROVE TypeInv'
  BY <1>2, TickerAssumption DEF Tick, Call
<1>3. ASSUME NEW u \in Updater, Request(u) PROVE TypeInv'
  BY <1>3 DEF Request, Call
<1>4. ASSUME NEW u \in Updater, NEW list \in Lists, Resubscribe(u, list) PROVE TypeInv'
  BY <1>4, BoundsAssumption DEF Resubscribe, Call
<1>5. ASSUME NEW u \in Updater, Begin(u) PROVE TypeInv'
  BY <1>5, ListsAssumption DEF Begin
<1>6. ASSUME NEW u \in Updater, Fetch(u) PROVE TypeInv'
  BY <1>6 DEF Fetch
<1>7. ASSUME NEW u \in Updater, FetchFails(u) PROVE TypeInv'
  BY <1>7 DEF FetchFails, NextFeed
<1>8. ASSUME NEW u \in Updater, Compare(u) PROVE TypeInv'
  <2>. DEFINE f == Head(todo[u])
              fresh == Fresh(got[u], mark[f])
  <2>1. f \in Feed /\ fresh \in Seq(Item)
    BY <1>8, FreshIs DEF Compare
  <2>2. /\ got' = [got EXCEPT ![u] = fresh]
        /\ mark' = IF fresh = <<>> THEN mark ELSE [mark EXCEPT ![f] = Head(fresh)]
    BY <1>8 DEF Compare
  <2>. HIDE DEF f, fresh
  <2>3. mark' \in [Feed -> Item \cup {NoMark}] /\ got' \in [Updater -> Seq(Item)]
    BY <2>1, <2>2
  <2>. QED  BY <1>8, <2>3 DEF Compare
<1>9. ASSUME NEW u \in Updater, Prepend(u) PROVE TypeInv'
  <2>1. cache' \in Seq(Item)
    BY <1>9, CutIs DEF Prepend
  <2>. QED  BY <1>9, <2>1 DEF Prepend, NextFeed
<1>10. ASSUME NEW u \in Updater, Finish(u) PROVE TypeInv'
  <2>1. cache' \in Seq(Item) /\ Len(cache') = Len(cache)
    BY <1>10, SortedIs DEF Finish
  <2>2. cache # <<>> => Head(cache') \in Item
    BY <2>1
  <2>. QED  BY <1>10, <2>1, <2>2 DEF Finish
<1>11. CASE UNCHANGED vars
  BY <1>11 DEF vars
<1>. QED  BY <1>1, <1>2, <1>3, <1>4, <1>5, <1>6, <1>7, <1>8, <1>9, <1>10, <1>11 DEF Next, Update

(* What feeds, marks and lists hold are items, and an update under way has  *)
(* a feed to look at where it looks at one (server_rss.go 105-160).         *)
THEOREM TypeCorrect == Spec => []TypeOK
<1>1. TypeInv /\ [Next]_vars => TypeInv'
  BY TypeInvNext
<1>2. TypeInv => TypeOK
  BY DEF TypeInv
<1>. QED  BY TypeInvInit, <1>1, <1>2, PTL DEF Spec
-----------------------------------------------------------------------------
(* One update at a time. *)

Descending(s) == \A i, j \in 1..Len(s) : i < j => Newer(s[i], s[j])

(* What a site has listed in a feed, now or before. *)
ListOf(f, s) ==
    /\ Descending(s)
    /\ Len(s) <= Window
    /\ \A i \in 1..Len(s) : s[i].feed = f /\ s[i].at <= clock

ListInv ==
    /\ \A f \in Feed : ListOf(f, site[f])
    /\ \A u \in Updater : pc[u] \in {"compare", "prepend"} => ListOf(Head(todo[u]), got[u])

OneInv == \A u, v \in Updater : pc[u] # "idle" /\ pc[v] # "idle" => u = v

(* Of a feed nothing newer than its mark is in the cache, and what is about *)
(* to be put in front of it is newer than all that is in it.                *)
MarkInv ==
    /\ \A f \in Feed : mark[f] # NoMark => mark[f].feed = f /\ mark[f].at <= clock
    /\ \A i \in 1..Len(cache) :
         mark[cache[i].feed] # NoMark /\ cache[i].at <= mark[cache[i].feed].at
    /\ IsInjective(cache)
    /\ \A u \in Updater : At(u, "prepend") /\ got[u] # <<>> =>
         /\ mark[Head(todo[u])] = got[u][1]
         /\ \A i \in 1..Len(cache), j \in 1..Len(got[u]) :
              cache[i].feed = Head(todo[u]) => cache[i].at < got[u][j].at

(* The item is shown, or an update is about to show it. *)
InHand(i) == \E u \in Updater : At(u, "prepend") /\ i \in Range(got[u])

(* What a site lists up to the mark is shown or at hand, and so will be     *)
(* what it lists up to the first of the items an update is comparing.       *)
ShownInv ==
    /\ Len(cache) <= Cap
    /\ \A f \in Feed : mark[f] # NoMark =>
         \/ Len(cache) = Cap
         \/ \A i \in Range(site[f]) : i.at <= mark[f].at => i \in Range(cache) \/ InHand(i)
    /\ \A u \in Updater : At(u, "compare") /\ got[u] # <<>> =>
         \A i \in Range(site[Head(todo[u])]) : i.at <= got[u][1].at => i \in Range(got[u])

(* What an update has put into the cache is counted until it returns. *)
TakenInv == \A u \in Updater : pc[u] \in {"idle", "start"} => taken[u] = 0

(* An item as new as the announced one is the first, or behind no more than *)
(* the items the update has put in front of it.                             *)
Within(k) ==
    /\ cache[k].at >= latest.at
    /\ k = 1 \/ \E u \in Updater : k <= 1 + taken[u]

LatestInv == latest # NoMark =>
    /\ cache # <<>>
    /\ (\A u \in Updater : taken[u] < Cap) => \E k \in 1..Len(cache) : Within(k)

(* The inductive invariant.  With updates that overlap only the first three *)
(* are left.                                                                *)
FeedInv ==
    /\ TypeInv /\ ListInv /\ TakenInv
    /\ ~overlapped => OneInv /\ MarkInv /\ ShownInv /\ LatestInv

LEMMA ListNext ==
    ASSUME TypeInv, ListInv, [Next]_vars
    PROVE  ListInv'
<1>. USE DEF At, Goto, outside, settings, local
<1>0. TypeOK
  BY DEF TypeInv
<1>1. ASSUME NEW f \in Feed, Publish(f) PROVE ListInv'
  <2>1. /\ clock \in Nat /\ clock' = clock + 1
        /\ \A g \in Feed : g # f => site'[g] = site[g]
        /\ Len(site'[f]) <= Window
        /\ \A i \in 1..Len(site'[f]) :
             \/ i = 1 /\ site'[f][i] = [feed |-> f, at |-> clock + 1]
             \/ i > 1 /\ i - 1 \in 1..Len(site[f]) /\ site'[f][i] = site[f][i-1]
    BY <1>1, PublishIs
  <2>2. \A g \in Feed : \A i \in 1..Len(site[g]) : site[g][i].at \in Nat /\ site[g][i] \in Item
    BY <1>0, ItemFields DEF TypeOK
  <2>3. ListOf(f, site[f])'
    <3>1. ListOf(f, site[f])
      BY DEF ListInv
    <3>2. ASSUME NEW i \in 1..Len(site'[f])
          PROVE  site'[f][i].feed = f /\ site'[f][i].at <= clock + 1
      <4>1. CASE i = 1
        BY <2>1, <4>1
      <4>2. CASE i > 1
        <5>1. i - 1 \in 1..Len(site[f]) /\ site'[f][i] = site[f][i-1]
          BY <2>1, <4>2
        <5>2. site[f][i-1].feed = f /\ site[f][i-1].at <= clock /\ site[f][i-1].at \in Nat
          BY <2>2, <3>1, <5>1 DEF ListOf
        <5>. QED  BY <2>1, <5>1, <5>2
      <4>. QED  BY <2>1, <4>1, <4>2
    <3>3. Descending(site'[f])
      <4>. SUFFICES ASSUME NEW i \in 1..Len(site'[f]), NEW j \in 1..Len(site'[f]), i < j
                    PROVE  site'[f][i].at > site'[f][j].at
        BY DEF Descending, Newer
      <4>1. j > 1 /\ j - 1 \in 1..Len(site[f]) /\ site'[f][j] = site[f][j-1]
        BY <2>1
      <4>2. CASE i = 1
        <5>1. site'[f][i].at = clock + 1
          BY <2>1, <4>2
        <5>2. site[f][j-1].at <= clock /\ site[f][j-1].at \in Nat
          BY <2>2, <3>1, <4>1 DEF ListOf
        <5>. QED  BY <2>1, <4>1, <5>1, <5>2
      <4>3. CASE i > 1
        <5>1. i - 1 \in 1..Len(site[f]) /\ site'[f][i] = site[f][i-1] /\ i - 1 < j - 1
          BY <2>1, <4>3
        <5>. QED  BY <3>1, <4>1, <5>1 DEF ListOf, Descending, Newer
      <4>. QED  BY <4>2, <4>3
    <3>. QED  BY <2>1, <3>2, <3>3 DEF ListOf
  <2>4. ASSUME NEW g \in Feed, g # f PROVE ListOf(g, site[g])'
    BY <2>1, <2>2, <2>4 DEF ListInv, ListOf
  <2>5. ASSUME NEW u \in Updater, pc'[u] \in {"compare", "prepend"}
        PROVE  ListOf(Head(todo[u]), got[u])'
    <3>1. pc' = pc /\ todo' = todo /\ got' = got
      BY <1>1 DEF Publish
    <3>2. ListOf(Head(todo[u]), got[u]) /\ got[u] \in Seq(Item)
      BY <1>0, <2>5, <3>1 DEF ListInv, TypeOK
    <3>3. \A i \in 1..Len(got[u]) : got[u][i].at \in Nat
      BY <3>2, ItemFields
    <3>. QED  BY <2>1, <3>1, <3>2, <3>3 DEF ListOf
  <2>. QED  BY <2>3, <2>4, <2>5 DEF ListInv
<1>2. ASSUME NEW u \in Updater, Call(u) PROVE ListInv'
  BY <1>0, <1>2 DEF Call, ListInv, ListOf, TypeOK
<1>3. ASSUME NEW u \in Updater, Begin(u) PROVE ListInv'
  BY <1>0, <1>3 DEF Begin, ListInv, ListOf, TypeOK
<1>4. ASSUME NEW u \in Updater, Fetch(u) PROVE ListInv'
  <2>1. Head(todo[u]) \in Feed
    BY <1>0, <1>4 DEF Fetch, TypeOK
  <2>2. /\ site' = site /\ clock' = clock /\ todo' = todo /\ got'[u] = site[Head(todo[u])]
        /\ \A v \in Updater : v # u => pc'[v] = pc[v] /\ got'[v] = got[v]
    BY <1>0, <1>4 DEF Fetch, TypeOK
  <2>. QED  BY <2>1, <2>2 DEF ListInv, ListOf
<1>5. ASSUME NEW u \in Updater, FetchFails(u) PROVE ListInv'
  BY <1>0, <1>5 DEF FetchFails, NextFeed, ListInv, ListOf, TypeOK
<1>6. ASSUME NEW u \in Updater, Compare(u) PROVE ListInv'
  <2>1. /\ site' = site /\ clock' = clock /\ todo' = todo
        /\ \A v \in Updater : v # u => pc'[v] = pc[v] /\ got'[v] = got[v]
    BY <1>0, <1>6 DEF Compare, TypeOK
  <2>2. got'[u] = Fresh(got[u], mark[Head(todo[u])]) /\ pc[u] = "compare" /\ got[u] \in Seq(Item)
    BY <1>0, <1>6 DEF Compare, TypeOK
  <2>3. got'[u] \in Seq(Item) /\ Len(got'[u]) <= Len(got[u]) /\ \A i \in 1..Len(got'[u]) : got'[u][i] = got[u][i]
    BY <2>2, FreshIs
  <2>4. ListOf(Head(todo[u]), got[u])
    BY <2>2 DEF ListInv
  <2>5. ListOf(Head(todo[u]), got[u])'
    <3>1. Len(got'[u]) <= Window
      BY <2>2, <2>3, <2>4, BoundsAssumption DEF ListOf
    <3>2. \A i \in 1..Len(got'[u]) : i \in 1..Len(got[u])
      BY <2>2, <2>3
    <3>. QED  BY <2>1, <2>3, <2>4, <3>1, <3>2 DEF ListOf, Descending
  <2>. QED  BY <2>1, <2>5 DEF ListInv, ListOf
<1>7. ASSUME NEW u \in Updater, Prepend(u) PROVE ListInv'
  BY <1>0, <1>7 DEF Prepend, NextFeed, ListInv, ListOf, TypeOK
<1>8. ASSUME NEW u \in Updater, Finish(u) PROVE ListInv'
  BY <1>0, <1>8 DEF Finish, ListInv, ListOf, TypeOK
<1>9. CASE UNCHANGED vars
  BY <1>9 DEF vars, ListInv, ListOf
<1>. QED  BY <1>1, <1>2, <1>3, <1>4, <1>5, <1>6, <1>7, <1>8, <1>9, TickerAssumption
          DEF Next, Update, Tick, Request, Resubscribe

LEMMA TakenNext ==
    ASSUME TypeInv, TakenInv, [Next]_vars
    PROVE  TakenInv'
<1>. USE DEF At, Goto, outside, settings, local
<1>0. TypeOK
  BY DEF TypeInv
<1>1. ASSUME NEW f \in Feed, Publish(f) PROVE TakenInv'
  BY <1>1 DEF Publish, TakenInv
<1>2. ASSUME NEW u \in Updater, Call(u) PROVE TakenInv'
  BY <1>0, <1>2 DEF Call, TakenInv, TypeOK
<1>3. ASSUME NEW u \in Updater, Begin(u) \/ Fetch(u) \/ FetchFails(u) PROVE TakenInv'
  BY <1>0, <1>3 DEF Begin, Fetch, FetchFails, TakenInv, TypeOK
<1>4. ASSUME NEW u \in Updater, Compare(u) \/ Prepend(u) \/ Finish(u) PROVE TakenInv'
  BY <1>0, <1>4 DEF Compare, Prepend, Finish, TakenInv, TypeOK
<1>5. CASE UNCHANGED vars
  BY <1>5 DEF vars, TakenInv
<1>. QED  BY <1>1, <1>2, <1>3, <1>4, <1>5, TickerAssumption
          DEF Next, Update, Tick, Request, Resubscribe

LEMMA OneNext ==
    ASSUME TypeInv, ~overlapped => OneInv, [Next]_vars, ~overlapped'
    PROVE  ~overlapped /\ OneInv'
<1>. USE DEF At, Goto, outside, settings, local
<1>0. TypeOK
  BY DEF TypeInv
<1>1. ASSUME NEW f \in Feed, Publish(f) PROVE ~overlapped /\ OneInv'
  BY <1>1 DEF Publish, OneInv
<1>2. ASSUME NEW u \in Updater, Call(u) PROVE ~overlapped /\ OneInv'
  BY <1>0, <1>2 DEF Call, OneInv, TypeOK
<1>3. ASSUME NEW u \in Updater, Update(u) PROVE ~overlapped /\ OneInv'
  <2>1. /\ pc[u] # "idle" /\ overlapped' = overlapped
        /\ \A v \in Updater : v # u => pc'[v] = pc[v]
    BY <1>0, <1>3 DEF Update, Begin, Fetch, FetchFails, Compare, Prepend, Finish, TypeOK
  <2>. QED  BY <2>1 DEF OneInv
<1>4. CASE UNCHANGED vars
  BY <1>4 DEF vars, OneInv
<1>. QED  BY <1>1, <1>2, <1>3, <1>4, TickerAssumption DEF Next, Tick, Request, Resubscribe

(* While one update is under way all others are idle. *)
LEMMA Alone ==
    ASSUME OneInv, NEW u \in Updater, pc[u] # "idle"
    PROVE  \A v \in Updater : v # u => pc[v] = "idle"
BY DEF OneInv

(* What a comparison takes for new. *)
LEMMA CompareIs ==
    ASSUME TypeInv, ListInv, NEW u \in Updater, Compare(u)
    PROVE  LET f == Head(todo[u])
           IN  /\ f \in Feed /\ got[u] \in Seq(Item) /\ ListOf(f, got[u])
               /\ pc[u] = "compare" /\ pc'[u] = "prepend" /\ got'[u] = Fresh(got[u], mark[f])
               /\ got'[u] \in Seq(Item) /\ Len(got'[u]) <= Len(got[u])
               /\ \A i \in 1..Len(got'[u]) : i \in 1..Len(got[u]) /\ got'[u][i] = got[u][i]
               /\ \A g \in Feed : g # f => mark'[g] = mark[g]
               /\ got'[u] = <<>> => mark'[f] = mark[f]
               /\ got'[u] # <<>> => mark'[f] = got[u][1] /\ 1 \in 1..Len(got'[u])
               /\ \A v \in Updater : v # u => pc'[v] = pc[v] /\ got'[v] = got[v]
<1>. USE DEF At, Goto
<1>. DEFINE f == Head(todo[u])
            fresh == Fresh(got[u], mark[f])
<1>0. TypeOK /\ pc[u] = "compare" /\ todo[u] # <<>>
  BY DEF TypeInv, BusyInv, Compare
<1>1. f \in Feed /\ got[u] \in Seq(Item)
  BY <1>0 DEF TypeOK
<1>2. ListOf(f, got[u])
  BY <1>0 DEF ListInv
<1>3. /\ fresh \in Seq(Item) /\ Len(fresh) <= Len(got[u])
      /\ \A i \in 1..Len(fresh) : fresh[i] = got[u][i]
  BY <1>1, FreshIs
<1>4. /\ got' = [got EXCEPT ![u] = fresh] /\ pc' = [pc EXCEPT ![u] = "prepend"]
      /\ mark' = IF fresh = <<>> THEN mark ELSE [mark EXCEPT ![f] = Head(fresh)]
  BY DEF Compare
<1>. HIDE DEF f, fresh
<1>5. /\ got'[u] = fresh /\ pc'[u] = "prepend"
      /\ \A v \in Updater : v # u => pc'[v] = pc[v] /\ got'[v] = got[v]
  BY <1>0, <1>4 DEF TypeOK
<1>6. \A i \in 1..Len(fresh) : i \in 1..Len(got[u])
  BY <1>1, <1>3
<1>7. /\ \A g \in Feed : g # f => mark'[g] = mark[g]
      /\ fresh = <<>> => mark'[f] = mark[f]
      /\ fresh # <<>> => mark'[f] = Head(fresh)
  BY <1>0, <1>1, <1>4 DEF TypeOK
<1>8. fresh # <<>> => Head(fresh) = got[u][1] /\ 1 \in 1..Len(fresh)
  BY <1>3
<1>9. f = Head(todo[u]) /\ fresh = Fresh(got[u], mark[f])
  BY DEF f, fresh
<1>. QED  BY <1>0, <1>1, <1>2, <1>3, <1>5, <1>6, <1>7, <1>8, <1>9

(* The new items in front of the others, as far as there is room. *)
LEMMA PrependIs ==
    ASSUME TypeInv, ListInv, NEW u \in Updater, Prepend(u)
    PROVE  LET f == Head(todo[u])
               n == Len(got[u])
           IN  /\ f \in Feed /\ got[u] \in Seq(Item) /\ ListOf(f, got[u]) /\ n \in Nat
               /\ todo[u] \in Seq(Feed) /\ todo[u] # <<>> /\ todo'[u] = Tail(todo[u])
               /\ pc[u] = "prepend" /\ pc'[u] = "fetch" /\ got'[u] = <<>>
               /\ cache \in Seq(Item) /\ cache' \in Seq(Item)
               /\ Len(cache') = IF n + Len(cache) > Cap THEN Cap ELSE n + Len(cache)
               /\ \A i \in 1..Len(cache') :
                    \/ i \in 1..n /\ cache'[i] = got[u][i]
                    \/ i > n /\ i - n \in 1..Len(cache) /\ cache'[i] = cache[i-n]
               /\ \A v \in Updater : v # u => pc'[v] = pc[v] /\ got'[v] = got[v] /\ todo'[v] = todo[v]
<1>. USE DEF At, Goto
<1>. DEFINE f == Head(todo[u])
            n == Len(got[u])
<1>0. TypeOK /\ pc[u] = "prepend" /\ todo[u] # <<>>
  BY DEF TypeInv, BusyInv, Prepend
<1>1. f \in Feed /\ got[u] \in Seq(Item) /\ cache \in Seq(Item) /\ todo[u] \in Seq(Feed)
  BY <1>0 DEF TypeOK
<1>2. ListOf(f, got[u])
  BY <1>0 DEF ListInv
<1>3. cache' = Cut(got[u] \o cache)
  BY DEF Prepend
<1>4. /\ cache' \in Seq(Item)
      /\ Len(cache') = IF n + Len(cache) > Cap THEN Cap ELSE n + Len(cache)
      /\ \A i \in 1..Len(cache') : cache'[i] = IF i <= n THEN got[u][i] ELSE cache[i-n]
  BY <1>1, <1>3, CutIs
<1>5. n \in Nat /\ Len(cache) \in Nat /\ Len(cache') \in Nat /\ Cap \in Nat
  BY <1>1, <1>4, BoundsAssumption
<1>6. /\ todo'[u] = Tail(todo[u]) /\ pc'[u] = "fetch" /\ got'[u] = <<>>
      /\ \A v \in Updater : v # u => pc'[v] = pc[v] /\ got'[v] = got[v] /\ todo'[v] = todo[v]
  BY <1>0 DEF TypeOK, Prepend, NextFeed
<1>. HIDE DEF n
<1>7. \A i \in 1..Len(cache') : \/ i \in 1..n /\ cache'[i] = got[u][i]
                                \/ i > n /\ i - n \in 1..Len(cache) /\ cache'[i] = cache[i-n]
  BY <1>4, <1>5
<1>. QED  BY <1>0, <1>1, <1>2, <1>4, <1>5, <1>6, <1>7 DEF n

LEMMA MarkNext ==
    ASSUME TypeInv, ListInv, OneInv, MarkInv, [Next]_vars, ~overlapped'
    PROVE  MarkInv'
<1>. USE DEF At, Goto, outside, settings, local
<1>0. TypeOK
  BY DEF TypeInv
<1>a. /\ cache \in Seq(Item) /\ Len(cache) \in Nat /\ DOMAIN cache = 1..Len(cache)
      /\ \A i \in 1..Len(cache) : cache[i] \in Item /\ cache[i].at \in Nat /\ cache[i].feed \in Feed
  BY <1>0, ItemFields DEF TypeOK
<1>b. \A f \in Feed : mark[f] # NoMark => mark[f] \in Item /\ mark[f].at \in Nat
  BY <1>0, ItemFields DEF TypeOK
<1>1. ASSUME NEW f \in Feed, Publish(f) PROVE MarkInv'
  <2>1. clock \in Nat /\ clock' = clock + 1
    BY <1>1, PublishIs
  <2>2. mark' = mark /\ cache' = cache /\ pc' = pc /\ todo' = todo /\ got' = got
    BY <1>1 DEF Publish
  <2>3. \A g \in Feed : mark[g] # NoMark => mark[g].feed = g /\ mark[g].at <= clock + 1
    BY <1>b, <2>1 DEF MarkInv
  <2>. QED  BY <2>1, <2>2, <2>3 DEF MarkInv
<1>2. ASSUME NEW u \in Updater, Call(u) PROVE MarkInv'
  <2>1. /\ clock' = clock /\ mark' = mark /\ cache' = cache /\ todo' = todo /\ got' = got
        /\ \A v \in Updater : pc'[v] = "prepend" => pc[v] = "prepend"
    BY <1>0, <1>2 DEF Call, TypeOK
  <2>. QED  BY <2>1 DEF MarkInv
<1>3. ASSUME NEW u \in Updater, Begin(u) \/ Fetch(u) \/ FetchFails(u) PROVE MarkInv'
  <2>1. /\ clock' = clock /\ mark' = mark /\ cache' = cache /\ pc'[u] # "prepend"
        /\ \A v \in Updater : v # u => pc'[v] = pc[v] /\ todo'[v] = todo[v] /\ got'[v] = got[v]
    BY <1>0, <1>3 DEF Begin, Fetch, FetchFails, NextFeed, TypeOK
  <2>. QED  BY <2>1 DEF MarkInv
<1>4. ASSUME NEW u \in Updater, Compare(u) PROVE MarkInv'
  <2>. DEFINE f == Head(todo[u])
  <2>1. /\ f \in Feed /\ got[u] \in Seq(Item) /\ ListOf(f, got[u])
        /\ pc[u] = "compare" /\ got'[u] = Fresh(got[u], mark[f])
        /\ got'[u] \in Seq(Item) /\ Len(got'[u]) <= Len(got[u])
        /\ \A i \in 1..Len(got'[u]) : i \in 1..Len(got[u]) /\ got'[u][i] = got[u][i]
        /\ \A g \in Feed : g # f => mark'[g] = mark[g]
        /\ got'[u] = <<>> => mark'[f] = mark[f]
        /\ got'[u] # <<>> => mark'[f] = got[u][1] /\ 1 \in 1..Len(got'[u])
        /\ \A v \in Updater : v # u => pc'[v] = pc[v]
    BY <1>4, CompareIs
  <2>2. clock' = clock /\ cache' = cache /\ todo' = todo
    BY <1>4 DEF Compare
  <2>3. \A v \in Updater : v # u => pc'[v] = "idle"
    BY <2>1, Alone
  <2>. HIDE DEF f
  <2>4. \A i \in 1..Len(got[u]) : got[u][i].feed = f /\ got[u][i].at <= clock /\ got[u][i] \in Item
    BY <2>1 DEF ListOf
  (* The new items are newer than what the cache has of the feed. *)
  <2>5. ASSUME NEW i \in 1..Len(cache), NEW j \in 1..Len(got'[u]), cache[i].feed = f
        PROVE  cache[i].at < got'[u][j].at
    <3>. DEFINE k == Len(got'[u])
    <3>1. mark[f] # NoMark /\ cache[i].at <= mark[f].at
      BY <2>5 DEF MarkInv
    <3>2. k > 0 /\ k \in Nat
      BY <2>1
    <3>3. k + 1 \in 1..Len(got[u]) /\ got[u][k+1] = mark[f]
      BY <2>1, <3>1, <3>2, FreshIs
    <3>4. j \in 1..Len(got[u]) /\ j < k + 1
      BY <2>1, <3>2
    <3>5. got[u][j].at > mark[f].at
      BY <2>1, <3>3, <3>4 DEF ListOf, Descending, Newer
    <3>6. got[u][j].at \in Nat
      BY <2>4, <3>4, ItemFields
    <3>. QED  BY <1>a, <1>b, <2>1, <3>1, <3>5, <3>6
  <2>6. \A g \in Feed : mark'[g] # NoMark => mark'[g].feed = g /\ mark'[g].at <= clock
    BY <2>1, <2>4 DEF MarkInv
  <2>7. ASSUME NEW i \in 1..Len(cache)
        PROVE  mark'[cache[i].feed] # NoMark /\ cache[i].at <= mark'[cache[i].feed].at
    <3>1. CASE cache[i].feed = f /\ got'[u] # <<>>
      <4>1. cache[i].at < got'[u][1].at /\ mark'[f] = got'[u][1] /\ got'[u][1] \in Item
        BY <2>1, <2>5, <3>1
      <4>2. got'[u][1].at \in Nat /\ mark'[f] # NoMark
        BY <4>1, ItemFields, NullAssumption
      <4>. QED  BY <1>a, <3>1, <4>1, <4>2
    <3>2. CASE ~(cache[i].feed = f /\ got'[u] # <<>>)
      BY <1>a, <2>1, <3>2 DEF MarkInv
    <3>. QED  BY <3>1, <3>2
  <2>8. got'[u] # <<>> => mark'[f] = got'[u][1]
    BY <2>1
  <2>. QED  BY <2>2, <2>3, <2>5, <2>6, <2>7, <2>8 DEF MarkInv, f
<1>5. ASSUME NEW u \in Updater, Prepend(u) PROVE MarkInv'
  <2>. DEFINE f == Head(todo[u])
              n == Len(got[u])
  <2>1. /\ f \in Feed /\ got[u] \in Seq(Item) /\ ListOf(f, got[u]) /\ n \in Nat
        /\ pc[u] = "prepend" /\ pc'[u] = "fetch"
        /\ cache' \in Seq(Item)
        /\ \A i \in 1..Len(cache') :
             \/ i \in 1..n /\ cache'[i] = got[u][i]
             \/ i > n /\ i - n \in 1..Len(cache) /\ cache'[i] = cache[i-n]
        /\ \A v \in Updater : v # u => pc'[v] = pc[v]
    BY <1>5, PrependIs
  <2>2. clock' = clock /\ mark' = mark
    BY <1>5 DEF Prepend
  <2>3. \A v \in Updater : pc'[v] # "prepend"
    BY <2>1, Alone
  <2>4. /\ \A i \in 1..n : /\ got[u][i].feed = f /\ got[u][i].at \in Nat
                           /\ mark[f] = got[u][1] /\ mark[f] # NoMark /\ mark[f].at \in Nat
        /\ \A i, j \in 1..n : i < j => got[u][i].at > got[u][j].at
        /\ \A i \in 1..Len(cache), j \in 1..n : cache[i].feed = f => cache[i].at < got[u][j].at
    <3>1. n > 0 => mark[f] = got[u][1] /\ got[u][1] \in Item
      BY <2>1 DEF MarkInv
    <3>2. \A i \in 1..n : got[u][i].feed = f /\ got[u][i].at \in Nat
      BY <2>1, ItemFields DEF ListOf
    <3>3. \A i, j \in 1..n : i < j => got[u][i].at > got[u][j].at
      BY <2>1 DEF ListOf, Descending, Newer
    <3>4. \A i \in 1..Len(cache), j \in 1..n : cache[i].feed = f => cache[i].at < got[u][j].at
      BY <2>1 DEF MarkInv
    <3>5. n > 0 => mark[f] # NoMark /\ mark[f].at \in Nat
      BY <3>1, NullAssumption, ItemFields
    <3>. QED  BY <2>1, <3>1, <3>2, <3>3, <3>4, <3>5
  <2>5. \A i, j \in 1..Len(cache) : cache[i] = cache[j] => i = j
    BY <1>a DEF MarkInv, IsInjective
  <2>. HIDE DEF f, n
  <2>6. ASSUME NEW i \in 1..Len(cache')
        PROVE  mark[cache'[i].feed] # NoMark /\ cache'[i].at <= mark[cache'[i].feed].at
    <3>1. CASE i \in 1..n /\ cache'[i] = got[u][i]
      <4>1. i = 1 \/ got[u][1].at > got[u][i].at
        BY <2>1, <2>4, <3>1
      <4>. QED  BY <2>4, <3>1, <4>1
    <3>2. CASE i - n \in 1..Len(cache) /\ cache'[i] = cache[i-n]
      BY <3>2 DEF MarkInv
    <3>. QED  BY <2>1, <3>1, <3>2
  <2>7. ASSUME NEW i \in 1..Len(cache'), NEW j \in 1..Len(cache'), cache'[i] = cache'[j]
        PROVE  i = j
    <3>1. CASE i \in 1..n /\ cache'[i] = got[u][i] /\ j \in 1..n /\ cache'[j] = got[u][j]
      <4>1. got[u][i].at = got[u][j].at /\ got[u][i].at \in Nat
        BY <2>4, <2>7, <3>1
      <4>2. ~(got[u][i].at > got[u][j].at) /\ ~(got[u][j].at > got[u][i].at)
        BY <4>1
      <4>3. ~(i < j) /\ ~(j < i)
        BY <2>4, <3>1, <4>2
      <4>. QED  BY <2>1, <3>1, <4>3
    <3>2. CASE i - n \in 1..Len(cache) /\ cache'[i] = cache[i-n] /\ j - n \in 1..Len(cache) /\ cache'[j] = cache[j-n]
      <4>1. i - n = j - n
        BY <2>5, <2>7, <3>2
      <4>. QED  BY <2>1, <4>1
    <3>3. ASSUME NEW a \in 1..n, NEW b \in 1..Len(cache), got[u][a] = cache[b] PROVE FALSE
      <4>1. cache[b].feed = f /\ cache[b].at < got[u][a].at
        BY <2>4, <3>3
      <4>. QED  BY <1>a, <3>3, <4>1
    <3>. QED  BY <2>1, <2>7, <3>1, <3>2, <3>3
  <2>8. IsInjective(cache')
    BY <2>1, <2>7 DEF IsInjective
  <2>. QED  BY <2>2, <2>3, <2>6, <2>8 DEF MarkInv
<1>6. ASSUME NEW u \in Updater, Finish(u) PROVE MarkInv'
  <2>1. /\ clock' = clock /\ mark' = mark /\ todo' = todo /\ got' = got
        /\ cache' = Sorted(cache) /\ \A v \in Updater : pc'[v] = "prepend" => pc[v] = "prepend"
        /\ pc[u] = "fetch"
    BY <1>0, <1>6 DEF Finish, TypeOK
  <2>2. \A v \in Updater : pc'[v] # "prepend"
    BY <2>1, Alone
  <2>3. /\ Len(cache') = Len(cache) /\ IsInjective(cache')
        /\ \A n \in 1..Len(cache) : \E i \in 1..Len(cache) : cache'[n] = cache[i]
    BY <1>a, <2>1, SortedIs, SortedInjective DEF MarkInv
  <2>. QED  BY <2>1, <2>2, <2>3 DEF MarkInv
<1>7. CASE UNCHANGED vars
  BY <1>7 DEF vars, MarkInv
<1>. QED  BY <1>1, <1>2, <1>3, <1>4, <1>5, <1>6, <1>7, TickerAssumption
          DEF Next, Update, Tick, Request, Resubscribe

LEMMA ShownNext ==
    ASSUME TypeInv, ListInv, OneInv, MarkInv, ShownInv, [Next]_vars, ~overlapped'
    PROVE  ShownInv'
<1>. USE DEF At, Goto, outside, settings, local
<1>0. TypeOK
  BY DEF TypeInv
<1>1. ASSUME NEW f \in Feed, Publish(f) PROVE ShownInv'
  <2>1. /\ clock \in Nat /\ clock' = clock + 1
        /\ \A g \in Feed : g # f => site'[g] = site[g]
        /\ site' \in [Feed -> Seq(Item)]
        /\ \A i \in 1..Len(site'[f]) :
             \/ i = 1 /\ site'[f][i] = [feed |-> f, at |-> clock + 1]
             \/ i > 1 /\ i - 1 \in 1..Len(site[f]) /\ site'[f][i] = site[f][i-1]
    BY <1>1, PublishIs
  <2>2. mark' = mark /\ cache' = cache /\ pc' = pc /\ todo' = todo /\ got' = got
    BY <1>1 DEF Publish
  <2>3. \A g \in Feed : mark[g] # NoMark => mark[g].at <= clock /\ mark[g].at \in Nat
    BY <1>0, ItemFields DEF MarkInv, TypeOK
  <2>4. ASSUME NEW g \in Feed, NEW i \in Range(site'[g])
        PROVE  i \in Range(site[g]) \/ i.at = clock + 1
    <3>1. CASE g = f
      <4>1. PICK n \in 1..Len(site'[f]) : i = site'[f][n]
        BY <2>1, <2>4, <3>1 DEF Range
      <4>2. DOMAIN site[f] = 1..Len(site[f])
        BY <1>0 DEF TypeOK
      <4>3. CASE n = 1
        BY <2>1, <4>1, <4>3
      <4>4. CASE n # 1
        <5>1. n - 1 \in DOMAIN site[f] /\ i = site[f][n-1]
          BY <2>1, <4>1, <4>2, <4>4
        <5>. QED  BY <3>1, <5>1 DEF Range
      <4>. QED  BY <4>3, <4>4
    <3>. QED  BY <2>1, <2>4, <3>1
  <2>5. \A i : InHand(i)' <=> InHand(i)
    BY <2>2 DEF InHand
  <2>6. ASSUME NEW u \in Updater, pc[u] = "compare", got[u] # <<>>
        PROVE  Head(todo[u]) \in Feed /\ got[u][1].at <= clock /\ got[u][1].at \in Nat
    <3>1. got[u] \in Seq(Item) /\ 1 \in 1..Len(got[u]) /\ ListOf(Head(todo[u]), got[u])
      BY <1>0, <2>6 DEF TypeOK, ListInv
    <3>2. Head(todo[u]) \in Feed
      BY <1>0, <2>6 DEF TypeOK, TypeInv, BusyInv
    <3>3. got[u][1] \in Item
      BY <3>1
    <3>. QED  BY <3>1, <3>2, <3>3, ItemFields DEF ListOf
  <2>7. Len(cache') <= Cap
    BY <2>2 DEF ShownInv
  <2>8. ASSUME NEW g \in Feed, mark[g] # NoMark, Len(cache) # Cap,
               NEW i \in Range(site'[g]), i.at <= mark[g].at
        PROVE  i \in Range(cache) \/ InHand(i)
    <3>1. i \in Range(site[g])
      BY <2>1, <2>3, <2>4, <2>8
    <3>. QED  BY <2>8, <3>1 DEF ShownInv
  <2>9. ASSUME NEW u \in Updater, pc[u] = "compare", got[u] # <<>>,
               NEW i \in Range(site'[Head(todo[u])]), i.at <= got[u][1].at
        PROVE  i \in Range(got[u])
    <3>. DEFINE g == Head(todo[u])
    <3>2. g \in Feed /\ got[u][1].at <= clock /\ got[u][1].at \in Nat /\ clock \in Nat
      BY <2>1, <2>6, <2>9
    <3>3. i \in Range(site'[g]) /\ i.at <= got[u][1].at
      BY <2>9
    <3>. HIDE DEF g
    <3>4. i \in Range(site[g]) \/ i.at = clock + 1
      BY <2>4, <3>2, <3>3
    <3>5. i \in Range(site[g])
      BY <3>2, <3>3, <3>4
    <3>1. i \in Range(site[Head(todo[u])])
      BY <3>5 DEF g
    <3>. QED  BY <2>9, <3>1 DEF ShownInv
  <2>. QED  BY <2>2, <2>5, <2>7, <2>8, <2>9 DEF ShownInv
<1>2. ASSUME NEW u \in Updater, Call(u) PROVE ShownInv'
  <2>1. /\ site' = site /\ mark' = mark /\ cache' = cache /\ todo' = todo /\ got' = got
        /\ pc[u] = "idle" /\ pc'[u] = "start" /\ \A v \in Updater : v # u => pc'[v] = pc[v]
    BY <1>0, <1>2 DEF Call, TypeOK
  <2>2. \A i : InHand(i)' <=> InHand(i)
    BY <2>1 DEF InHand
  <2>. QED  BY <2>1, <2>2 DEF ShownInv
<1>3. ASSUME NEW u \in Updater, Begin(u) \/ FetchFails(u) PROVE ShownInv'
  <2>1. /\ site' = site /\ mark' = mark /\ cache' = cache /\ got' = got
        /\ pc[u] \notin {"compare", "prepend"} /\ pc'[u] \notin {"compare", "prepend"}
        /\ \A v \in Updater : v # u => pc'[v] = pc[v] /\ todo'[v] = todo[v]
    BY <1>0, <1>3 DEF Begin, FetchFails, NextFeed, TypeOK
  <2>2. \A i : InHand(i)' <=> InHand(i)
    BY <2>1 DEF InHand
  <2>. QED  BY <2>1, <2>2 DEF ShownInv
<1>4. ASSUME NEW u \in Updater, Fetch(u) PROVE ShownInv'
  <2>1. /\ site' = site /\ mark' = mark /\ cache' = cache /\ todo' = todo
        /\ pc[u] = "fetch" /\ pc'[u] = "compare" /\ got'[u] = site[Head(todo[u])]
        /\ \A v \in Updater : v # u => pc'[v] = pc[v] /\ got'[v] = got[v]
    BY <1>0, <1>4 DEF Fetch, TypeOK
  <2>2. \A i : InHand(i)' <=> InHand(i)
    BY <2>1 DEF InHand
  <2>. QED  BY <2>1, <2>2 DEF ShownInv
<1>5. ASSUME NEW u \in Updater, Compare(u) PROVE ShownInv'
  <2>. DEFINE f == Head(todo[u])
              k == Len(got'[u])
  <2>1. /\ f \in Feed /\ got[u] \in Seq(Item) /\ ListOf(f, got[u])
        /\ pc[u] = "compare" /\ pc'[u] = "prepend" /\ got'[u] = Fresh(got[u], mark[f])
        /\ got'[u] \in Seq(Item) /\ k <= Len(got[u])
        /\ \A i \in 1..k : i \in 1..Len(got[u]) /\ got'[u][i] = got[u][i]
        /\ \A g \in Feed : g # f => mark'[g] = mark[g]
        /\ got'[u] = <<>> => mark'[f] = mark[f]
        /\ got'[u] # <<>> => mark'[f] = got[u][1] /\ 1 \in 1..k
        /\ \A v \in Updater : v # u => pc'[v] = pc[v]
    BY <1>5, CompareIs
  <2>2. site' = site /\ cache' = cache
    BY <1>5 DEF Compare
  <2>3. \A v \in Updater : v # u => pc[v] = "idle" /\ pc'[v] = "idle"
    BY <2>1, Alone
  <2>4. \A i : ~InHand(i)
    BY <2>1, <2>3 DEF InHand
  <2>. HIDE DEF f
  <2>5. ASSUME got'[u] # <<>>, Len(cache) # Cap, NEW i \in Range(site[f]), i.at <= mark'[f].at
        PROVE  i \in Range(cache) \/ InHand(i)'
    <3>0. 1 \in 1..k /\ got[u] # <<>>
      BY <2>1, <2>5
    <3>1. i \in Range(got[u])
      BY <2>1, <2>5, <3>0 DEF ShownInv, f
    <3>2. PICK j \in 1..Len(got[u]) : i = got[u][j]
      BY <2>1, <3>1 DEF Range
    <3>3. CASE j <= k
      <4>1. j \in DOMAIN got'[u] /\ got'[u][j] = i
        BY <2>1, <3>2, <3>3
      <4>2. i \in Range(got'[u])
        BY <4>1 DEF Range
      <4>. QED  BY <2>1, <4>2 DEF InHand
    <3>4. CASE j > k
      <4>1. mark[f] # NoMark /\ k + 1 \in 1..Len(got[u]) /\ got[u][k+1] = mark[f]
        BY <2>1, <3>0, <3>4, FreshIs
      <4>2. got[u][j] \in Item /\ got[u][k+1] \in Item
        BY <2>1, <4>1
      <4>3. i.at \in Nat /\ mark[f].at \in Nat
        BY <3>2, <4>1, <4>2, ItemFields
      <4>4. j = k + 1 \/ got[u][k+1].at > got[u][j].at
        BY <2>1, <3>0, <3>4, <4>1 DEF ListOf, Descending, Newer
      <4>5. i.at <= mark[f].at
        BY <3>2, <4>1, <4>3, <4>4
      <4>. QED  BY <2>1, <2>4, <2>5, <4>1, <4>5 DEF ShownInv
    <3>. QED  BY <2>1, <3>3, <3>4
  <2>6. ASSUME NEW g \in Feed, mark'[g] # NoMark, Len(cache) # Cap,
               NEW i \in Range(site[g]), i.at <= mark'[g].at
        PROVE  i \in Range(cache) \/ InHand(i)'
    <3>1. CASE g = f /\ got'[u] # <<>>
      BY <2>5, <2>6, <3>1
    <3>2. CASE ~(g = f /\ got'[u] # <<>>)
      <4>1. mark'[g] = mark[g]
        BY <2>1, <3>2
      <4>. QED  BY <2>4, <2>6, <4>1 DEF ShownInv
    <3>. QED  BY <3>1, <3>2
  <2>7. \A v \in Updater : pc'[v] # "compare"
    BY <2>1, <2>3
  <2>. QED  BY <2>2, <2>6, <2>7 DEF ShownInv
<1>6. ASSUME NEW u \in Updater, Prepend(u) PROVE ShownInv'
  <2>. DEFINE n == Len(got[u])
  <2>1. /\ got[u] \in Seq(Item) /\ n \in Nat
        /\ pc[u] = "prepend" /\ pc'[u] = "fetch"
        /\ cache \in Seq(Item) /\ cache' \in Seq(Item)
        /\ Len(cache') = IF n + Len(cache) > Cap THEN Cap ELSE n + Len(cache)
        /\ \A i \in 1..Len(cache') :
             \/ i \in 1..n /\ cache'[i] = got[u][i]
             \/ i > n /\ i - n \in 1..Len(cache) /\ cache'[i] = cache[i-n]
        /\ \A v \in Updater : v # u => pc'[v] = pc[v]
    BY <1>6, PrependIs
  <2>2. site' = site /\ mark' = mark
    BY <1>6 DEF Prepend
  <2>3. \A v \in Updater : v # u => pc[v] = "idle" /\ pc'[v] = "idle"
    BY <2>1, Alone
  <2>4. Len(cache') <= Cap /\ Len(cache) <= Cap /\ (Len(cache) = Cap => Len(cache') = Cap)
    BY <2>1, BoundsAssumption DEF ShownInv
  <2>5. ASSUME Len(cache') # Cap, NEW i, i \in Range(cache) \/ InHand(i)
        PROVE  i \in Range(cache')
    <3>0. Len(cache') = n + Len(cache) /\ Len(cache) \in Nat
      BY <2>1, <2>5
    <3>1. CASE i \in Range(cache)
      <4>1. PICK j \in 1..Len(cache) : i = cache[j]
        BY <2>1, <3>1 DEF Range
      <4>2. j + n \in 1..Len(cache') /\ (j + n) - n = j /\ j + n \notin 1..n
        BY <2>1, <3>0
      <4>3. cache'[j+n] = i
        BY <2>1, <4>1, <4>2
      <4>. QED  BY <2>1, <4>2, <4>3 DEF Range
    <3>2. CASE InHand(i)
      <4>1. i \in Range(got[u])
        BY <2>3, <3>2 DEF InHand
      <4>2. PICK j \in 1..n : i = got[u][j]
        BY <2>1, <4>1 DEF Range
      <4>3. j \in 1..Len(cache') /\ ~(j > n)
        BY <2>1, <3>0
      <4>4. cache'[j] = i
        BY <2>1, <4>2, <4>3
      <4>. QED  BY <2>1, <4>3, <4>4 DEF Range
    <3>. QED  BY <2>5, <3>1, <3>2
  <2>6. \A v \in Updater : pc'[v] # "compare"
    BY <2>1, <2>3
  <2>. QED  BY <2>2, <2>4, <2>5, <2>6 DEF ShownInv
<1>7. ASSUME NEW u \in Updater, Finish(u) PROVE ShownInv'
  <2>1. /\ site' = site /\ mark' = mark
        /\ cache' = Sorted(cache) /\ pc[u] = "fetch" /\ pc'[u] = "idle"
        /\ \A v \in Updater : v # u => pc'[v] = pc[v]
    BY <1>0, <1>7 DEF Finish, TypeOK
  <2>2. \A v \in Updater : v # u => pc[v] = "idle" /\ pc'[v] = "idle"
    BY <2>1, Alone
  <2>3. \A i : ~InHand(i)
    BY <2>1, <2>2 DEF InHand
  <2>4. Len(cache') = Len(cache) /\ Range(cache') = Range(cache)
    BY <1>0, <2>1, SortedIs, SortedRange DEF TypeOK
  <2>5. \A v \in Updater : pc'[v] # "compare"
    BY <2>1, <2>2
  <2>. QED  BY <2>1, <2>3, <2>4, <2>5 DEF ShownInv
<1>8. CASE UNCHANGED vars
  <2>1. site' = site /\ mark' = mark /\ cache' = cache /\ pc' = pc /\ todo' = todo /\ got' = got
    BY <1>8 DEF vars
  <2>. QED  BY <2>1 DEF ShownInv, InHand
<1>. QED  BY <1>1, <1>2, <1>3, <1>4, <1>5, <1>6, <1>7, <1>8, TickerAssumption
          DEF Next, Update, Tick, Request, Resubscribe

LEMMA LatestNext ==
    ASSUME TypeInv, ListInv, TakenInv, OneInv, LatestInv, [Next]_vars, ~overlapped'
    PROVE  LatestInv'
<1>. USE DEF At, Goto, outside, settings, local
<1>0. TypeOK /\ Cap \in Nat /\ Cap > 0
  BY BoundsAssumption DEF TypeInv
<1>a. /\ cache \in Seq(Item) /\ Len(cache) \in Nat
      /\ \A i \in 1..Len(cache) : cache[i] \in Item /\ cache[i].at \in Nat
  BY <1>0, ItemFields DEF TypeOK
<1>b. latest # NoMark => latest \in Item /\ latest.at \in Nat
  BY <1>0, ItemFields DEF TypeOK
<1>c. ASSUME UNCHANGED <<cache, latest, taken>> PROVE LatestInv'
  BY <1>c DEF LatestInv, Within
<1>1. ASSUME NEW f \in Feed, Publish(f) PROVE LatestInv'
  BY <1>c, <1>1 DEF Publish
<1>2. ASSUME NEW u \in Updater, Call(u) \/ Begin(u) \/ Fetch(u) \/ FetchFails(u) \/ Compare(u)
      PROVE  LatestInv'
  BY <1>c, <1>2 DEF Call, Begin, Fetch, FetchFails, Compare
<1>3. ASSUME NEW u \in Updater, Prepend(u) PROVE LatestInv'
  <2>. DEFINE n == Len(got[u])
  <2>1. /\ n \in Nat /\ pc[u] = "prepend" /\ cache' \in Seq(Item)
        /\ Len(cache') = IF n + Len(cache) > Cap THEN Cap ELSE n + Len(cache)
        /\ \A i \in 1..Len(cache') :
             \/ i \in 1..n /\ cache'[i] = got[u][i]
             \/ i > n /\ i - n \in 1..Len(cache) /\ cache'[i] = cache[i-n]
    BY <1>3, PrependIs
  <2>2. /\ latest' = latest
        /\ taken[u] \in Nat /\ taken'[u] = taken[u] + n
        /\ \A v \in Updater : v # u => taken'[v] = taken[v]
    BY <1>0, <1>3 DEF Prepend, TypeOK
  <2>3. \A v \in Updater : v # u => taken[v] = 0
    BY <2>1, Alone DEF TakenInv
  <2>. HIDE DEF n
  <2>. SUFFICES ASSUME latest # NoMark PROVE LatestInv'
    BY <2>2 DEF LatestInv
  <2>4. Len(cache) > 0 /\ Len(cache') > 0
    BY <1>0, <1>a, <2>1 DEF LatestInv
  <2>5. cache' # <<>>
    BY <2>4
  <2>6. ASSUME \A v \in Updater : taken'[v] < Cap
        PROVE  \E k \in 1..Len(cache') : Within(k)'
    <3>1. taken[u] + n < Cap
      BY <2>2, <2>6
    <3>2. \A v \in Updater : taken[v] < Cap
      BY <1>0, <2>1, <2>2, <2>3, <3>1
    <3>3. PICK k \in 1..Len(cache) : Within(k)
      BY <3>2 DEF LatestInv
    <3>4. k <= 1 + taken[u]
      BY <2>2, <2>3, <3>3 DEF Within
    <3>5. k + n \in 1..Len(cache') /\ ~(k + n <= n) /\ (k + n) - n = k
      BY <1>0, <1>a, <2>1, <2>2, <3>1, <3>4
    <3>6. cache'[k+n] = cache[k]
      BY <2>1, <3>5
    <3>7. k + n <= 1 + taken'[u]
      BY <2>1, <2>2, <3>4
    <3>. QED  BY <2>2, <3>3, <3>5, <3>6, <3>7 DEF Within
  <2>. QED  BY <2>5, <2>6 DEF LatestInv
<1>4. ASSUME NEW u \in Updater, Finish(u) PROVE LatestInv'
  <2>1. /\ cache' = Sorted(cache)
        /\ latest' = IF cache = <<>> THEN latest ELSE Head(cache')
    BY <1>4 DEF Finish
  <2>2. CASE cache = <<>>
    BY <1>a, <2>1, <2>2 DEF LatestInv
  <2>3. CASE cache # <<>>
    <3>1. cache' \in Seq(Item) /\ Len(cache') = Len(cache)
      BY <1>a, <2>1, SortedIs
    <3>2. 1 \in 1..Len(cache') /\ cache' # <<>> /\ latest' = cache'[1] /\ cache'[1] \in Item
      BY <1>a, <2>1, <2>3, <3>1
    <3>3. cache'[1].at \in Nat
      BY <3>2, ItemFields
    <3>. QED  BY <3>2, <3>3 DEF LatestInv, Within
  <2>. QED  BY <2>2, <2>3
<1>5. CASE UNCHANGED vars
  BY <1>c, <1>5 DEF vars
<1>. QED  BY <1>1, <1>2, <1>3, <1>4, <1>5, TickerAssumption
          DEF Next, Update, Tick, Request, Resubscribe

LEMMA FeedInvInit == Init => FeedInv
<1>. SUFFICES ASSUME Init PROVE FeedInv
  OBVIOUS
<1>1. TypeInv
  BY TypeInvInit
<1>2. /\ cache = <<>> /\ latest = NoMark
      /\ \A f \in Feed : mark[f] = NoMark /\ site[f] = <<>>
      /\ \A u \in Updater : pc[u] = "idle" /\ todo[u] = <<>>
  BY DEF Init
<1>3. ListInv
  BY <1>2, BoundsAssumption DEF ListInv, ListOf, Descending
<1>4. TakenInv
  BY DEF TakenInv, Init
<1>5. OneInv /\ MarkInv /\ ShownInv /\ LatestInv
  BY <1>2, BoundsAssumption DEF OneInv, MarkInv, ShownInv, LatestInv, IsInjective, At
<1>. QED  BY <1>1, <1>3, <1>4, <1>5 DEF FeedInv

LEMMA FeedInvNext ==
    ASSUME FeedInv, [Next]_vars
    PROVE  FeedInv'
<1>1. TypeInv' /\ ListInv' /\ TakenInv'
  BY TypeInvNext, ListNext, TakenNext DEF FeedInv
<1>2. ASSUME ~overlapped' PROVE (OneInv /\ MarkInv /\ ShownInv /\ LatestInv)'
  <2>1. ~overlapped /\ OneInv'
    BY <1>2, OneNext DEF FeedInv
  <2>2. OneInv /\ MarkInv /\ ShownInv /\ LatestInv
    BY <2>1 DEF FeedInv
  <2>. QED  BY <1>2, <2>1, <2>2, MarkNext, ShownNext, LatestNext DEF FeedInv
<1>. QED  BY <1>1, <1>2 DEF FeedInv

LEMMA FeedInvHolds == Spec => []FeedInv
<1>1. FeedInv /\ [Next]_vars => FeedInv'
  BY FeedInvNext
<1>. QED  BY FeedInvInit, <1>1, PTL DEF Spec

(* No item is served twice, as long as updates do not overlap: what is put  *)
(* in front is newer than all the cache has of its feed (server_rss.go      *)
(* 125-144).                                                                *)
THEOREM NoRepeatsHolds == Spec => []NoRepeats
<1>1. FeedInv => NoRepeats
  BY DEF FeedInv, MarkInv, NoRepeats
<1>. QED  BY <1>1, FeedInvHolds, PTL

(* Between updates, what a site lists up to the mark of the feed has been   *)
(* shown, or the cache is full (server_rss.go 133-148).                     *)
THEOREM MarkedIsShownHolds == Spec => []MarkedIsShown
<1>1. FeedInv => MarkedIsShown
  <2>. SUFFICES ASSUME FeedInv, AtRest, ~overlapped, NEW f \in Feed, mark[f] # NoMark,
                       Len(cache) # Cap, NEW i \in Range(site[f]), ~Newer(i, mark[f])
                PROVE  i \in Range(cache)
    BY DEF MarkedIsShown
  <2>1. TypeOK /\ ShownInv
    BY DEF FeedInv, TypeInv
  <2>2. i \in Item /\ mark[f] \in Item
    BY <2>1 DEF TypeOK, Range
  <2>3. i.at <= mark[f].at
    BY <2>2, ItemFields DEF Newer
  <2>4. ~InHand(i)
    BY DEF InHand, AtRest, At
  <2>. QED  BY <2>1, <2>3, <2>4 DEF ShownInv
<1>. QED  BY <1>1, FeedInvHolds, PTL

(* The announced item never gives way to an older one, unless an update     *)
(* brings as many new items as the cache holds: up to there an item as new  *)
(* stays in the cache until it is sorted, whatever the feeds list           *)
(* (server_rss.go 143-158).                                                 *)
THEOREM NeverBackHolds == Spec => NeverBack
<1>1. ASSUME FeedInv, [Next]_vars, ~overlapped', latest # NoMark,
             \A u \in Updater : taken[u] < Cap
      PROVE  ~Newer(latest, latest')
  <2>1. TypeOK /\ LatestInv
    BY <1>1, OneNext DEF FeedInv, TypeInv
  <2>2. latest \in Item /\ latest.at \in Nat
    BY <1>1, <2>1, ItemFields DEF TypeOK
  <2>3. CASE latest' = latest
    BY <2>2, <2>3 DEF Newer
  <2>4. ASSUME NEW u \in Updater, Finish(u), cache # <<>>
        PROVE  ~Newer(latest, latest')
    <3>1. cache \in Seq(Item) /\ 1 \in 1..Len(cache)
      BY <2>1, <2>4 DEF TypeOK
    <3>2. cache' = Sorted(cache) /\ latest' = Head(cache')
      BY <2>4 DEF Finish
    <3>3. cache' \in Seq(Item) /\ Len(cache') = Len(cache)
      BY <3>1, <3>2, SortedIs
    <3>4. latest' = cache'[1] /\ cache'[1] \in Item
      BY <3>1, <3>2, <3>3
    <3>5. PICK k \in 1..Len(cache) : cache[k].at >= latest.at
      BY <1>1, <2>1 DEF LatestInv, Within
    <3>6. cache[k].at <= cache'[1].at /\ cache[k].at \in Nat /\ cache'[1].at \in Nat
      BY <3>1, <3>2, <3>4, SortedFirst, ItemFields
    <3>. QED  BY <2>2, <3>4, <3>5, <3>6 DEF Newer
  <2>5. CASE \A u \in Updater : Finish(u) => cache = <<>>
    <3>1. latest' = latest
      BY <1>1, <2>5, TickerAssumption
         DEF Next, Update, Tick, Request, Resubscribe, Call, Publish, Begin, Fetch,
             FetchFails, Compare, Prepend, Finish, vars
    <3>. QED  BY <2>3, <3>1
  <2>. QED  BY <2>4, <2>5
<1>2. FeedInv /\ [Next]_vars => [~overlapped' /\ latest # NoMark
                             /\ (\A u \in Updater : taken[u] < Cap)
                               => ~Newer(latest, latest')]_vars
  BY <1>1
<1>. QED  BY <1>2, FeedInvHolds, PTL DEF Spec, NeverBack
=============================================================================
