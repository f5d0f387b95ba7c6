--------------------------- MODULE LruCacheProofs ---------------------------
(***************************************************************************)
(* Proofs about LruCache for every capacity and every set of keys.  The    *)
(* list operators are shown to keep the list linked and sorted, whatever   *)
(* list they are given; the methods of the cache then follow.              *)
(***************************************************************************)
EXTENDS LruCache, FiniteSetTheorems, TLAPS

Lists == [head : Link, tail : Link, prev : [Keys -> Link], next : [Keys -> Link]]
Stamps == [Keys -> 0 .. MaxTouches]

\* The list l links exactly the keys of S.
EndsIn(l, S) ==
  /\ l.head = None <=> S = {}
  /\ l.tail = None <=> S = {}
  /\ l.head # None => l.head \in S
  /\ l.tail # None => l.tail \in S
EndsOnly(l, S) ==
  \A k \in S : (l.prev[k] = None <=> k = l.head) /\ (l.next[k] = None <=> k = l.tail)
Neighbours(l, S) ==
  \A k \in S :
    /\ l.next[k] # None => l.next[k] \in S /\ l.prev[l.next[k]] = k
    /\ l.prev[k] # None => l.prev[k] \in S /\ l.next[l.prev[k]] = k
Linked(l, S) == EndsIn(l, S) /\ EndsOnly(l, S) /\ Neighbours(l, S)

\* Its nodes are in the order of the stamps st, newest first.
Ordered(l, S, st) ==
  \A k \in S :
    l.next[k] # None =>
      /\ st[l.next[k]] < st[k]
      /\ \A j \in S : st[j] =< st[l.next[k]] \/ st[k] =< st[j]
Extremes(l, S, st) ==
  /\ \A k \in S \ {l.tail} : st[l.tail] < st[k]
  /\ \A k \in S \ {l.head} : st[k] < st[l.head]
Distinct(S, st) == \A j, k \in S : j # k => st[j] < st[k] \/ st[k] < st[j]
Sorted(l, S, st) == Ordered(l, S, st) /\ Extremes(l, S, st) /\ Distinct(S, st)

\* What RemoveNode and AddToHead write, link by link.
LEMMA RemoveNodeLinks ==
  ASSUME NEW l \in Lists, NEW node \in Keys
  PROVE  LET m == RemoveNode(l, node) IN
         /\ m \in Lists
         /\ m.head = IF l.prev[node] = None THEN l.next[node] ELSE l.head
         /\ m.tail = IF l.next[node] = None THEN l.prev[node] ELSE l.tail
         /\ \A k \in Keys : m.next[k] = IF k = l.prev[node] THEN l.next[node] ELSE l.next[k]
         /\ \A k \in Keys : m.prev[k] = IF k = l.next[node] THEN l.prev[node] ELSE l.prev[k]
<1> DEFINE before == l.prev[node]  after == l.next[node]
<1>1. before \in Link /\ after \in Link
  BY DEF Lists
<1>2. CASE before = None
  <2>1. CASE after = None
    BY <1>1, <1>2, <2>1, CacheAssumption DEF Lists, Link, RemoveNode
  <2>2. CASE after # None
    BY <1>1, <1>2, <2>2, CacheAssumption DEF Lists, Link, RemoveNode
  <2> QED
    BY <2>1, <2>2
<1>3. CASE before # None
  <2>1. CASE after = None
    BY <1>1, <1>3, <2>1, CacheAssumption DEF Lists, Link, RemoveNode
  <2>2. CASE after # None
    BY <1>1, <1>3, <2>2, CacheAssumption DEF Lists, Link, RemoveNode
  <2> QED
    BY <2>1, <2>2
<1> QED
  BY <1>2, <1>3

LEMMA AddToHeadLinks ==
  ASSUME NEW l \in Lists, NEW node \in Keys, node # l.head
  PROVE  LET m == AddToHead(l, node) IN
         /\ m \in Lists
         /\ m.head = node
         /\ m.tail = IF l.tail = None THEN node ELSE l.tail
         /\ \A k \in Keys : m.next[k] = IF k = node THEN l.head ELSE l.next[k]
         /\ \A k \in Keys : m.prev[k] = IF k = node THEN None
                                        ELSE IF k = l.head THEN node ELSE l.prev[k]
<1>1. CASE l.head = None
  BY <1>1, CacheAssumption DEF Lists, Link, AddToHead
<1>2. CASE l.head # None
  BY <1>2, CacheAssumption DEF Lists, Link, AddToHead
<1> QED
  BY <1>1, <1>2

LEMMA RemoveNodeLinked ==
  ASSUME NEW l \in Lists, NEW S \in SUBSET Keys, NEW st \in Stamps,
         Linked(l, S), Sorted(l, S, st), NEW node \in S
  PROVE  /\ RemoveNode(l, node) \in Lists
         /\ Linked(RemoveNode(l, node), S \ {node})
<1> DEFINE m == RemoveNode(l, node)
<1>1. m \in Lists
  BY RemoveNodeLinks
<1>2. /\ m.head = IF l.prev[node] = None THEN l.next[node] ELSE l.head
      /\ m.tail = IF l.next[node] = None THEN l.prev[node] ELSE l.tail
      /\ \A k \in S : m.next[k] = IF k = l.prev[node] THEN l.next[node] ELSE l.next[k]
      /\ \A k \in S : m.prev[k] = IF k = l.next[node] THEN l.prev[node] ELSE l.prev[k]
  BY RemoveNodeLinks
<1> HIDE DEF m
<1>3. None \notin S
  BY CacheAssumption
<1>4. EndsIn(l, S) /\ EndsOnly(l, S) /\ Neighbours(l, S)
  BY DEF Linked
<1>5. /\ l.next[node] # node
      /\ l.prev[node] # node
      /\ l.head = node /\ l.tail = node => S = {node}
  <2>1. \A k \in S : st[k] \in Int
    BY DEF Stamps
  <2>2. l.next[node] # None => st[l.next[node]] < st[node]
    BY DEF Sorted, Ordered
  <2>3. l.prev[node] # None => st[node] < st[l.prev[node]]
    BY <1>3, <1>4 DEF Sorted, Ordered, Neighbours
  <2>4. l.head = node /\ l.tail = node => S = {node}
    BY <2>1 DEF Sorted, Extremes
  <2> QED
    BY <1>3, <2>1, <2>2, <2>3, <2>4
<1>6. EndsIn(m, S \ {node})
  BY <1>2, <1>3, <1>4, <1>5 DEF EndsIn, EndsOnly, Neighbours
<1>7. EndsOnly(m, S \ {node})
  BY <1>2, <1>3, <1>4, <1>5 DEF EndsIn, EndsOnly, Neighbours
<1>8. Neighbours(m, S \ {node})
  BY <1>2, <1>3, <1>4, <1>5 DEF Neighbours
<1> QED
  BY <1>1, <1>6, <1>7, <1>8 DEF m, Linked

LEMMA AddToHeadLinked ==
  ASSUME NEW l \in Lists, NEW S \in SUBSET Keys, Linked(l, S), NEW node \in Keys \ S
  PROVE  /\ AddToHead(l, node) \in Lists
         /\ Linked(AddToHead(l, node), S \cup {node})
<1> DEFINE m == AddToHead(l, node)
<1>1. node # l.head /\ None \notin S \cup {node}
  BY CacheAssumption DEF Linked, EndsIn
<1>2. /\ m \in Lists
      /\ m.head = node
      /\ m.tail = IF l.tail = None THEN node ELSE l.tail
      /\ \A k \in S \cup {node} : m.next[k] = IF k = node THEN l.head ELSE l.next[k]
      /\ \A k \in S \cup {node} : m.prev[k] = IF k = node THEN None
                                     ELSE IF k = l.head THEN node ELSE l.prev[k]
  BY <1>1, AddToHeadLinks
<1> HIDE DEF m
<1>3. Linked(m, S \cup {node})
  BY <1>1, <1>2 DEF Linked, EndsIn, EndsOnly, Neighbours
<1> QED
  BY <1>2, <1>3 DEF m

LEMMA RemoveNodeSorted ==
  ASSUME NEW l \in Lists, NEW S \in SUBSET Keys, NEW st \in Stamps,
         Linked(l, S), Sorted(l, S, st), NEW node \in S
  PROVE  Sorted(RemoveNode(l, node), S \ {node}, st)
<1> DEFINE m == RemoveNode(l, node)
           before == l.prev[node]
           after == l.next[node]
<1>1. /\ m.head = IF before = None THEN after ELSE l.head
      /\ m.tail = IF after = None THEN before ELSE l.tail
      /\ \A k \in S : m.next[k] = IF k = before THEN after ELSE l.next[k]
  BY RemoveNodeLinks
<1>2. \A k \in S : st[k] \in Int
  BY DEF Stamps
<1>3. None \notin S
  BY CacheAssumption
<1>4. Linked(m, S \ {node})
  BY RemoveNodeLinked
<1> HIDE DEF m
<1>5. Ordered(m, S \ {node}, st)
  <2> SUFFICES ASSUME NEW k \in S \ {node}, m.next[k] # None
               PROVE  /\ st[m.next[k]] < st[k]
                      /\ \A j \in S \ {node} : st[j] =< st[m.next[k]] \/ st[k] =< st[j]
    BY DEF Ordered
  <2>1. CASE k # before
    BY <1>1, <2>1 DEF Sorted, Ordered
  <2>2. CASE k = before
    <3>1. l.next[k] = node /\ m.next[k] = after /\ after \in S
      BY <1>1, <1>3, <2>2 DEF Linked, Neighbours
    <3>2. st[after] < st[node] /\ st[node] < st[k]
      BY <1>3, <3>1 DEF Sorted, Ordered
    <3>3. \A j \in S : /\ st[j] =< st[after] \/ st[node] =< st[j]
                       /\ st[j] =< st[node] \/ st[k] =< st[j]
                       /\ j # node => st[j] < st[node] \/ st[node] < st[j]
      BY <1>3, <3>1 DEF Sorted, Ordered, Distinct
    <3>4. st[after] \in Int /\ st[node] \in Int /\ st[k] \in Int
      BY <1>2, <3>1
    <3>5. ASSUME NEW j \in S \ {node}
          PROVE  st[j] =< st[after] \/ st[k] =< st[j]
      <4>1. st[j] \in Int
        BY <1>2
      <4>2. /\ st[j] =< st[after] \/ st[node] =< st[j]
            /\ st[j] =< st[node] \/ st[k] =< st[j]
            /\ st[j] < st[node] \/ st[node] < st[j]
        BY <3>3
      <4> QED
        BY <3>4, <4>1, <4>2
    <3> QED
      BY <3>1, <3>2, <3>4, <3>5
  <2> QED
    BY <2>1, <2>2
<1>6. Extremes(m, S \ {node}, st)
  <2>1. \A k \in (S \ {node}) \ {m.tail} : st[m.tail] < st[k]
    <3>1. CASE after # None
      BY <1>1, <3>1 DEF Sorted, Extremes
    <3>2. CASE after = None /\ before # None
      <4>1. node = l.tail /\ l.next[before] = node /\ before \in S
        BY <3>2 DEF Linked, EndsOnly, Neighbours
      <4>2. \A j \in S : /\ st[j] =< st[node] \/ st[before] =< st[j]
                         /\ j # node => st[node] < st[j]
                         /\ j # before => st[j] < st[before] \/ st[before] < st[j]
        BY <1>3, <4>1 DEF Sorted, Ordered, Extremes, Distinct
      <4>3. m.tail = before
        BY <1>1, <3>2
      <4>4. ASSUME NEW k \in (S \ {node}) \ {before}
            PROVE  st[before] < st[k]
        <5>1. st[k] \in Int /\ st[before] \in Int /\ st[node] \in Int
          BY <1>2, <4>1
        <5>2. /\ st[k] =< st[node] \/ st[before] =< st[k]
              /\ st[node] < st[k]
              /\ st[k] < st[before] \/ st[before] < st[k]
          BY <4>2
        <5> QED
          BY <5>1, <5>2
      <4> QED
        BY <4>3, <4>4
    <3>3. CASE after = None /\ before = None
      <4>1. S \ {node} = {}
        BY <1>1, <1>4, <3>3 DEF Linked, EndsIn
      <4> QED
        BY <4>1
    <3> QED
      BY <3>1, <3>2, <3>3
  <2>2. \A k \in (S \ {node}) \ {m.head} : st[k] < st[m.head]
    <3>1. CASE before # None
      BY <1>1, <3>1 DEF Sorted, Extremes
    <3>2. CASE before = None /\ after # None
      <4>1. node = l.head /\ after \in S
        BY <3>2 DEF Linked, EndsOnly, Neighbours
      <4>2. \A j \in S : /\ st[j] =< st[after] \/ st[node] =< st[j]
                         /\ j # node => st[j] < st[node]
                         /\ j # after => st[j] < st[after] \/ st[after] < st[j]
        BY <3>2, <4>1 DEF Sorted, Ordered, Extremes, Distinct
      <4>3. m.head = after
        BY <1>1, <3>2
      <4>4. ASSUME NEW k \in (S \ {node}) \ {after}
            PROVE  st[k] < st[after]
        <5>1. st[k] \in Int /\ st[after] \in Int /\ st[node] \in Int
          BY <1>2, <4>1
        <5>2. /\ st[k] =< st[after] \/ st[node] =< st[k]
              /\ st[k] < st[node]
              /\ st[k] < st[after] \/ st[after] < st[k]
          BY <4>2
        <5> QED
          BY <5>1, <5>2
      <4> QED
        BY <4>3, <4>4
    <3>3. CASE after = None /\ before = None
      <4>1. S \ {node} = {}
        BY <1>1, <1>4, <3>3 DEF Linked, EndsIn
      <4> QED
        BY <4>1
    <3> QED
      BY <3>1, <3>2, <3>3
  <2> QED
    BY <2>1, <2>2 DEF Extremes
<1> QED
  BY <1>5, <1>6 DEF Sorted, Distinct, m

LEMMA AddToHeadSorted ==
  ASSUME NEW l \in Lists, NEW S \in SUBSET Keys, NEW st \in Stamps,
         Linked(l, S), Sorted(l, S, st), NEW node \in Keys \ S,
         NEW now \in 0 .. MaxTouches, \A k \in S : st[k] < now
  PROVE  Sorted(AddToHead(l, node), S \cup {node}, [st EXCEPT ![node] = now])
BY CacheAssumption DEF Lists, Stamps, Link, Linked, EndsIn, EndsOnly, Neighbours,
                        Sorted, Ordered, Extremes, Distinct, AddToHead

LEMMA MoveToHeadKeeps ==
  ASSUME NEW l \in Lists, NEW S \in SUBSET Keys, NEW st \in Stamps,
         Linked(l, S), Sorted(l, S, st), NEW node \in S,
         NEW now \in 0 .. MaxTouches, \A k \in S : st[k] < now
  PROVE  /\ MoveToHead(l, node) \in Lists
         /\ Linked(MoveToHead(l, node), S)
         /\ Sorted(MoveToHead(l, node), S, [st EXCEPT ![node] = now])
<1> DEFINE m == RemoveNode(l, node)
<1>1. m \in Lists /\ Linked(m, S \ {node}) /\ Sorted(m, S \ {node}, st)
  BY RemoveNodeLinked, RemoveNodeSorted
<1>2. node \in Keys \ (S \ {node}) /\ (S \ {node}) \cup {node} = S
  OBVIOUS
<1> HIDE DEF m
<1>3. /\ AddToHead(m, node) \in Lists
      /\ Linked(AddToHead(m, node), S)
      /\ Sorted(AddToHead(m, node), S, [st EXCEPT ![node] = now])
  BY <1>1, <1>2, AddToHeadLinked, AddToHeadSorted
<1> QED
  BY <1>3 DEF MoveToHead, m

-----------------------------------------------------------------------------
\* The inductive invariant.  TailIsLeastRecent needs the order of the whole list,
\* which needs the list to be linked and the stamps to lie in the past.
CacheInv ==
  /\ Shapes
  /\ Linked(list, items)
  /\ Sorted(list, items, lastAccess)
  /\ \A k \in Keys : lastAccess[k] =< clock
  /\ \A k \in Keys \ items : value[k] = None
  /\ \A k \in items : value[k] \in Values
  /\ IsFiniteSet(items)
  /\ Cardinality(items) =< Capacity

LEMMA InitEstablishes == Init => CacheInv
<1> SUFFICES ASSUME Init PROVE CacheInv
  OBVIOUS
<1>1. Shapes
  BY CacheAssumption DEF Init, Shapes, Link
<1>2. Linked(list, items) /\ Sorted(list, items, lastAccess)
  BY DEF Init, Linked, EndsIn, EndsOnly, Neighbours, Sorted, Ordered, Extremes, Distinct
<1>3. IsFiniteSet(items) /\ Cardinality(items) =< Capacity
  BY FS_EmptySet, CacheAssumption DEF Init
<1> QED
  BY <1>1, <1>2, <1>3 DEF Init, CacheInv

\* What a stamp adds: the key becomes the newest of all.
LEMMA StampIsNewest ==
  ASSUME CacheInv, NEW key \in Keys, Stamp(key)
  PROVE  /\ clock' \in 0 .. MaxTouches
         /\ lastAccess' = [lastAccess EXCEPT ![key] = clock']
         /\ lastAccess \in Stamps /\ lastAccess' \in Stamps
         /\ \A k \in Keys : lastAccess[k] < clock'
         /\ \A k \in Keys : lastAccess'[k] =< clock'
BY CacheAssumption DEF CacheInv, Shapes, Stamp, Stamps

LEMMA TouchPreserves ==
  ASSUME CacheInv, NEW key \in items, Stamp(key), list' = MoveToHead(list, key),
         UNCHANGED items
  PROVE  /\ list' \in Lists /\ Linked(list', items')
         /\ Sorted(list', items', lastAccess')
<1>1. key \in Keys /\ items \in SUBSET Keys /\ list \in Lists
  BY DEF CacheInv, Shapes, Lists
<1>2. /\ clock' \in 0 .. MaxTouches
      /\ lastAccess' = [lastAccess EXCEPT ![key] = clock']
      /\ lastAccess \in Stamps
      /\ \A k \in items : lastAccess[k] < clock'
  BY <1>1, StampIsNewest
<1>3. Linked(list, items) /\ Sorted(list, items, lastAccess)
  BY DEF CacheInv
<1> QED
  BY <1>1, <1>2, <1>3, MoveToHeadKeeps

LEMMA GetHitPreserves ==
  ASSUME CacheInv, NEW key \in Keys, GetHit(key)
  PROVE  CacheInv'
<1>1. key \in items /\ Stamp(key) /\ list' = MoveToHead(list, key) /\ UNCHANGED items
  BY DEF GetHit
<1>2. /\ list' \in Lists /\ Linked(list', items')
      /\ Sorted(list', items', lastAccess')
  BY <1>1, TouchPreserves
<1>3. /\ clock' \in 0 .. MaxTouches /\ lastAccess' \in Stamps
      /\ \A k \in Keys : lastAccess'[k] =< clock'
  BY <1>1, StampIsNewest
<1>4. Shapes'
  BY <1>2, <1>3 DEF CacheInv, Shapes, Lists, Stamps, GetHit
<1> QED
  BY <1>2, <1>3, <1>4 DEF CacheInv, GetHit

LEMMA SetExistingPreserves ==
  ASSUME CacheInv, NEW key \in Keys, NEW v \in Values, SetExisting(key, v)
  PROVE  CacheInv'
<1>1. key \in items /\ Stamp(key) /\ list' = MoveToHead(list, key) /\ UNCHANGED items
  BY DEF SetExisting
<1>2. /\ list' \in Lists /\ Linked(list', items')
      /\ Sorted(list', items', lastAccess')
  BY <1>1, TouchPreserves
<1>3. /\ clock' \in 0 .. MaxTouches /\ lastAccess' \in Stamps
      /\ \A k \in Keys : lastAccess'[k] =< clock'
  BY <1>1, StampIsNewest
<1>4. Shapes'
  BY <1>2, <1>3 DEF CacheInv, Shapes, Lists, Stamps, SetExisting
<1> QED
  BY <1>2, <1>3, <1>4 DEF CacheInv, SetExisting, Shapes

LEMMA SetNewPreserves ==
  ASSUME CacheInv, NEW key \in Keys, NEW v \in Values, SetNew(key, v)
  PROVE  CacheInv'
<1>1. /\ key \in Keys \ items /\ Stamp(key) /\ list' = AddToHead(list, key)
      /\ items' = items \cup {key} /\ items \in SUBSET Keys /\ list \in Lists
  BY DEF SetNew, CacheInv, Shapes, Lists
<1>2. /\ clock' \in 0 .. MaxTouches /\ lastAccess' \in Stamps /\ lastAccess \in Stamps
      /\ lastAccess' = [lastAccess EXCEPT ![key] = clock']
      /\ \A k \in items : lastAccess[k] < clock'
      /\ \A k \in Keys : lastAccess'[k] =< clock'
  BY <1>1, StampIsNewest
<1>3. Linked(list, items) /\ Sorted(list, items, lastAccess)
  BY DEF CacheInv
<1>4. /\ list' \in Lists /\ Linked(list', items')
      /\ Sorted(list', items', lastAccess')
  BY <1>1, <1>2, <1>3, AddToHeadLinked, AddToHeadSorted
<1>5. Shapes'
  BY <1>1, <1>2, <1>4 DEF CacheInv, Shapes, Lists, Stamps, SetNew
<1>6. IsFiniteSet(items') /\ Cardinality(items') = Cardinality(items) + 1
  BY <1>1, FS_AddElement DEF CacheInv
<1>7. Cardinality(items) \in Nat /\ Cardinality(items) < Capacity
  BY FS_CardinalityType DEF CacheInv, SetNew
<1>8. IsFiniteSet(items') /\ Cardinality(items') =< Capacity
  BY <1>6, <1>7, CacheAssumption
<1>9. /\ \A k \in Keys \ items' : value'[k] = None
      /\ \A k \in items' : value'[k] \in Values
  BY <1>1 DEF CacheInv, Shapes, SetNew
<1> QED
  BY <1>2, <1>4, <1>5, <1>8, <1>9 DEF CacheInv

LEMMA FullHasTail ==
  ASSUME CacheInv, Cardinality(items) >= Capacity
  PROVE  list.tail \in items
<1>1. items # {}
  BY FS_EmptySet, CacheAssumption
<1> QED
  BY <1>1, CacheAssumption DEF CacheInv, Linked, EndsIn, Shapes

LEMMA SetEvictingPreserves ==
  ASSUME CacheInv, NEW key \in Keys, NEW v \in Values, SetEvicting(key, v)
  PROVE  CacheInv'
<1> DEFINE victim == list.tail
           mid == RemoveNode(list, victim)
           rest == items \ {victim}
<1>1. victim \in items
  BY FullHasTail DEF SetEvicting
<1>2. /\ key \in Keys \ items /\ Stamp(key) /\ list' = AddToHead(mid, key)
      /\ items' = rest \cup {key} /\ items \in SUBSET Keys /\ list \in Lists
  BY DEF SetEvicting, CacheInv, Shapes, Lists
<1>3. /\ clock' \in 0 .. MaxTouches /\ lastAccess' \in Stamps /\ lastAccess \in Stamps
      /\ lastAccess' = [lastAccess EXCEPT ![key] = clock']
      /\ \A k \in items : lastAccess[k] < clock'
      /\ \A k \in Keys : lastAccess'[k] =< clock'
  BY <1>2, StampIsNewest
<1>4. Linked(list, items) /\ Sorted(list, items, lastAccess)
  BY DEF CacheInv
<1> HIDE DEF victim
<1>5. mid \in Lists /\ Linked(mid, rest) /\ Sorted(mid, rest, lastAccess)
  BY <1>1, <1>2, <1>3, <1>4, RemoveNodeLinked, RemoveNodeSorted
<1>6. key \in Keys \ rest /\ rest \in SUBSET Keys /\ \A k \in rest : lastAccess[k] < clock'
  BY <1>2, <1>3
<1> HIDE DEF mid, rest
<1>7. /\ list' \in Lists /\ Linked(list', items')
      /\ Sorted(list', items', lastAccess')
  BY <1>2, <1>3, <1>5, <1>6, AddToHeadLinked, AddToHeadSorted
<1>8. Shapes'
  BY <1>1, <1>2, <1>3, <1>7 DEF CacheInv, Shapes, Lists, Stamps, SetEvicting, victim, rest
<1>9. IsFiniteSet(items') /\ Cardinality(items') =< Capacity
  <2>1. IsFiniteSet(items) /\ Cardinality(items) =< Capacity /\ Cardinality(items) \in Nat
    BY FS_CardinalityType DEF CacheInv
  <2>2. IsFiniteSet(rest) /\ Cardinality(rest) = Cardinality(items) - 1
    BY <1>1, <2>1, FS_RemoveElement DEF rest
  <2>3. IsFiniteSet(items') /\ Cardinality(items') = Cardinality(rest) + 1
    BY <1>2, <1>6, <2>2, FS_AddElement
  <2> QED
    BY <2>1, <2>2, <2>3, CacheAssumption
<1>10. /\ \A k \in Keys \ items' : value'[k] = None
       /\ \A k \in items' : value'[k] \in Values
  BY <1>1, <1>2 DEF CacheInv, Shapes, SetEvicting, victim, rest
<1> QED
  BY <1>3, <1>7, <1>8, <1>9, <1>10 DEF CacheInv, Stamps

\* Unlinking a node, whoever does it.
LEMMA DropPreserves ==
  ASSUME CacheInv, NEW node \in items,
         items' = items \ {node},
         value' = [value EXCEPT ![node] = None],
         list' = RemoveNode(list, node),
         answer' \in Keys \cup Values \cup {None},
         UNCHANGED <<lastAccess, clock>>
  PROVE  CacheInv'
<1>1. items \in SUBSET Keys /\ list \in Lists /\ lastAccess \in Stamps
  BY DEF CacheInv, Shapes, Lists, Stamps
<1>2. Linked(list, items) /\ Sorted(list, items, lastAccess)
  BY DEF CacheInv
<1>3. list' \in Lists /\ Linked(list', items') /\ Sorted(list', items', lastAccess')
  BY <1>1, <1>2, RemoveNodeLinked, RemoveNodeSorted
<1>4. Shapes'
  BY <1>1, <1>3 DEF CacheInv, Shapes, Lists
<1>5. IsFiniteSet(items') /\ Cardinality(items') =< Capacity
  <2>1. IsFiniteSet(items) /\ Cardinality(items) =< Capacity /\ Cardinality(items) \in Nat
    BY FS_CardinalityType DEF CacheInv
  <2>2. IsFiniteSet(items') /\ Cardinality(items') = Cardinality(items) - 1
    BY <2>1, FS_RemoveElement
  <2> QED
    BY <2>1, <2>2, CacheAssumption
<1>6. /\ \A k \in Keys \ items' : value'[k] = None
      /\ \A k \in items' : value'[k] \in Values
  BY <1>1 DEF CacheInv, Shapes
<1> QED
  BY <1>3, <1>4, <1>5, <1>6 DEF CacheInv

\* A method that only answers.
LEMMA AnswerPreserves ==
  ASSUME CacheInv, answer' \in Keys \cup Values \cup {None},
         UNCHANGED <<items, value, list, lastAccess, clock>>
  PROVE  CacheInv'
BY DEF CacheInv, Shapes, Linked, EndsIn, EndsOnly, Neighbours, Sorted, Ordered, Extremes, Distinct

LEMMA RemovePreserves ==
  ASSUME CacheInv, NEW key \in Keys, Remove(key)
  PROVE  CacheInv'
<1>1. CASE key \in items
  BY <1>1, DropPreserves DEF Remove
<1>2. CASE key \notin items
  BY <1>2, AnswerPreserves DEF Remove
<1> QED
  BY <1>1, <1>2

LEMMA RemoveTailPreserves ==
  ASSUME CacheInv, RemoveTail
  PROVE  CacheInv'
<1>1. CASE list.tail = None
  BY <1>1, AnswerPreserves DEF RemoveTail
<1>2. CASE list.tail # None
  <2>1. list.tail \in items /\ list.tail \in Keys
    BY <1>2 DEF CacheInv, Linked, EndsIn, Shapes
  <2> QED
    BY <1>2, <2>1, DropPreserves DEF RemoveTail
<1> QED
  BY <1>1, <1>2

LEMMA NextPreserves == CacheInv /\ [Next]_cacheVars => CacheInv'
<1> SUFFICES ASSUME CacheInv, [Next]_cacheVars PROVE CacheInv'
  OBVIOUS
<1>1. CASE UNCHANGED cacheVars
  BY <1>1 DEF CacheInv, Shapes, Linked, EndsIn, EndsOnly, Neighbours,
              Sorted, Ordered, Extremes, Distinct, cacheVars
<1>2. ASSUME NEW key \in Keys, GetMiss(key) PROVE CacheInv'
  BY <1>2, AnswerPreserves DEF GetMiss
<1>3. CASE PeekTail
  <2>1. list.tail \in Keys \cup {None}
    BY DEF CacheInv, Shapes, Link
  <2> QED
    BY <1>3, <2>1, AnswerPreserves DEF PeekTail
<1> QED
  BY <1>1, <1>2, <1>3, GetHitPreserves, RemovePreserves, SetExistingPreserves,
     SetNewPreserves, SetEvictingPreserves, RemoveTailPreserves DEF Next

(***************************************************************************)
(* Every field keeps its type, and the head and the tail of the list are   *)
(* nodes of the map.                                                       *)
(***************************************************************************)
THEOREM CacheTyped == Spec => []TypeOK
<1>1. CacheInv => TypeOK
  BY DEF CacheInv, Linked, EndsIn, TypeOK
<1> QED
  BY InitEstablishes, NextPreserves, <1>1, PTL DEF Spec

(***************************************************************************)
(* Spec => []ListMatchesMap: the pointer surgery of removeNode, addToHead  *)
(* and moveToHead never loses, duplicates or mislinks a cached room.       *)
(***************************************************************************)
THEOREM ListStaysLinked == Spec => []ListMatchesMap
<1>1. CacheInv => ListMatchesMap
  BY DEF CacheInv, Linked, EndsIn, EndsOnly, Neighbours, ListMatchesMap, EndsAgree, NeighboursAgree
<1> QED
  BY InitEstablishes, NextPreserves, <1>1, PTL DEF Spec

(***************************************************************************)
(* The list is in the order of last use, newest first, after any sequence  *)
(* of lookups, insertions, removals and evictions.                         *)
(***************************************************************************)
THEOREM ListIsByUse == Spec => []OrderedByUse
<1>1. CacheInv => OrderedByUse
  BY DEF CacheInv, Sorted, Ordered, OrderedByUse
<1> QED
  BY InitEstablishes, NextPreserves, <1>1, PTL DEF Spec

(***************************************************************************)
(* Spec => []TailIsLeastRecent: the room an overflow evicts is the least   *)
(* recently used one (lru_cache.go:49), for every capacity.                *)
(***************************************************************************)
THEOREM VictimIsLeastRecent == Spec => []TailIsLeastRecent
<1>1. CacheInv => TailIsLeastRecent
  BY DEF CacheInv, Sorted, Extremes, TailIsLeastRecent
<1> QED
  BY InitEstablishes, NextPreserves, <1>1, PTL DEF Spec

(***************************************************************************)
(* Spec => []WithinCapacity: the cache never exceeds its capacity.         *)
(***************************************************************************)
THEOREM CapacityHolds == Spec => []WithinCapacity
<1>1. CacheInv => WithinCapacity
  BY DEF CacheInv, WithinCapacity
<1> QED
  BY InitEstablishes, NextPreserves, <1>1, PTL DEF Spec
-----------------------------------------------------------------------------
(***************************************************************************)
(* The refinement of AbstractLru: the order of use is the order of the     *)
(* stamps.                                                                 *)
(***************************************************************************)
OrderOf(S, st) == [keys |-> S, older |-> {p \in S \X S : st[p[1]] < st[p[2]]}]

LEMMA StampIsTouch ==
  ASSUME NEW S \in SUBSET Keys, NEW st \in Stamps, NEW key \in S,
         NEW now \in 0 .. MaxTouches, \A k \in S : st[k] < now
  PROVE  OrderOf(S, [st EXCEPT ![key] = now]) = Abstract!Touched(OrderOf(S, st), key)
<1> DEFINE new == [st EXCEPT ![key] = now]
<1>1. \A k \in S : st[k] \in Int /\ new[k] \in Int /\ new[k] = IF k = key THEN now ELSE st[k]
  BY CacheAssumption DEF Stamps
<1> HIDE DEF new
<1>2. ASSUME NEW p \in S \X S
      PROVE  new[p[1]] < new[p[2]] <=>
               (IF p[1] = key THEN FALSE ELSE p[2] = key \/ st[p[1]] < st[p[2]])
  <2>1. p[1] \in S /\ p[2] \in S
    OBVIOUS
  <2> QED
    BY <1>1, <2>1
<1>3. {p \in S \X S : new[p[1]] < new[p[2]]} =
      {p \in S \X S : IF p[1] = key THEN FALSE
                      ELSE p[2] = key \/ p \in {q \in S \X S : st[q[1]] < st[q[2]]}}
  BY <1>2
<1> QED
  BY <1>3 DEF OrderOf, Abstract!Touched, new

LEMMA StampIsInsert ==
  ASSUME NEW S \in SUBSET Keys, NEW st \in Stamps, NEW key \in Keys \ S,
         NEW now \in 0 .. MaxTouches, \A k \in S : st[k] < now
  PROVE  OrderOf(S \cup {key}, [st EXCEPT ![key] = now]) = Abstract!Inserted(OrderOf(S, st), key)
<1> DEFINE new == [st EXCEPT ![key] = now]
           T == S \cup {key}
<1>1. \A k \in S : st[k] \in Int /\ new[k] = st[k] /\ st[k] < now
  BY DEF Stamps
<1>2. new[key] = now /\ now \in Int
  BY CacheAssumption DEF Stamps
<1> HIDE DEF new
<1>3. ASSUME NEW a \in T, NEW b \in T
      PROVE  new[a] < new[b] <=> (a \in S /\ b \in S /\ st[a] < st[b]) \/ (a \in S /\ b = key)
  BY <1>1, <1>2
<1>4. {p \in T \X T : new[p[1]] < new[p[2]]} =
      {p \in S \X S : st[p[1]] < st[p[2]]} \cup (S \X {key})
  <2> DEFINE L == {p \in T \X T : new[p[1]] < new[p[2]]}
             R == {p \in S \X S : st[p[1]] < st[p[2]]} \cup (S \X {key})
  <2>1. ASSUME NEW p \in L PROVE p \in R
    <3>1. p \in T \X T /\ p = <<p[1], p[2]>> /\ p[1] \in T /\ p[2] \in T /\ new[p[1]] < new[p[2]]
      OBVIOUS
    <3> QED
      BY <3>1, <1>3
  <2>2. ASSUME NEW p \in R PROVE p \in L
    <3>1. p = <<p[1], p[2]>> /\ p[1] \in T /\ p[2] \in T
      OBVIOUS
    <3>2. new[p[1]] < new[p[2]]
      BY <1>3, <3>1
    <3> QED
      BY <3>1, <3>2
  <2> QED
    BY <2>1, <2>2
<1> QED
  BY <1>4 DEF OrderOf, Abstract!Inserted, new

LEMMA UnlinkIsDrop ==
  ASSUME NEW S \in SUBSET Keys, NEW st \in Stamps, NEW key \in S
  PROVE  OrderOf(S \ {key}, st) = Abstract!Dropped(OrderOf(S, st), key)
<1>1. {p \in (S \ {key}) \X (S \ {key}) : st[p[1]] < st[p[2]]} =
      {p \in {q \in S \X S : st[q[1]] < st[q[2]]} : p[1] # key /\ p[2] # key}
  OBVIOUS
<1> QED
  BY <1>1 DEF OrderOf, Abstract!Dropped

LEMMA TailIsOldest ==
  ASSUME CacheInv, list.tail \in items
  PROVE  Abstract!IsOldest(UseOrder, list.tail)
BY DEF CacheInv, Sorted, Extremes, UseOrder, Abstract!IsOldest

\* Every use of a cached key is a touch of the abstract order.
LEMMA TouchRefines ==
  ASSUME CacheInv, NEW key \in items, Stamp(key), UNCHANGED items
  PROVE  UseOrder' = Abstract!Touched(UseOrder, key)
<1>1. key \in Keys /\ items \in SUBSET Keys
  BY DEF CacheInv, Shapes
<1>2. /\ clock' \in 0 .. MaxTouches
      /\ lastAccess' = [lastAccess EXCEPT ![key] = clock']
      /\ lastAccess \in Stamps
      /\ \A k \in items : lastAccess[k] < clock'
  BY <1>1, StampIsNewest
<1>3. OrderOf(items, [lastAccess EXCEPT ![key] = clock']) =
        Abstract!Touched(OrderOf(items, lastAccess), key)
  BY <1>1, <1>2, StampIsTouch
<1> QED
  BY <1>2, <1>3 DEF UseOrder, OrderOf

\* The instance counts as this module does.
LEMMA SameCardinality == \A S : Abstract!Cardinality(S) = Cardinality(S)
BY DEF Abstract!Cardinality, Cardinality

LEMMA SetNewRefines ==
  ASSUME CacheInv, NEW key \in Keys, NEW v \in Values, SetNew(key, v)
  PROVE  Abstract!SetNew(key, v)
<1>1. key \in Keys \ items /\ Stamp(key) /\ items' = items \cup {key} /\ items \in SUBSET Keys
  BY DEF SetNew, CacheInv, Shapes
<1>2. /\ clock' \in 0 .. MaxTouches
      /\ lastAccess' = [lastAccess EXCEPT ![key] = clock']
      /\ lastAccess \in Stamps
      /\ \A k \in items : lastAccess[k] < clock'
  BY <1>1, StampIsNewest
<1>3. UseOrder' = Abstract!Inserted(UseOrder, key)
  BY <1>1, <1>2, StampIsInsert DEF UseOrder, OrderOf
<1>4. UseOrder.keys = items
  BY DEF UseOrder
<1>5. /\ Abstract!Cardinality(UseOrder.keys) < Capacity
      /\ value' = [value EXCEPT ![key] = v]
      /\ answer' = None
  BY <1>4, SameCardinality DEF SetNew
<1> QED
  BY <1>1, <1>3, <1>4, <1>5 DEF Abstract!SetNew

LEMMA SetEvictingRefines ==
  ASSUME CacheInv, NEW key \in Keys, NEW v \in Values, SetEvicting(key, v)
  PROVE  Abstract!SetEvicting(key, v)
<1> DEFINE victim == list.tail
           rest == items \ {victim}
<1>1. victim \in items /\ Abstract!IsOldest(UseOrder, victim)
  BY FullHasTail, TailIsOldest DEF SetEvicting
<1>2. /\ key \in Keys \ items /\ Stamp(key) /\ items' = rest \cup {key}
      /\ items \in SUBSET Keys /\ answer' = victim
      /\ value' = [value EXCEPT ![victim] = None, ![key] = v]
      /\ Cardinality(items) >= Capacity
  BY DEF SetEvicting, CacheInv, Shapes
<1>3. /\ clock' \in 0 .. MaxTouches
      /\ lastAccess' = [lastAccess EXCEPT ![key] = clock']
      /\ lastAccess \in Stamps
      /\ \A k \in items : lastAccess[k] < clock'
  BY <1>2, StampIsNewest
<1> HIDE DEF victim
<1>4. OrderOf(rest, lastAccess) = Abstract!Dropped(UseOrder, victim)
  BY <1>1, <1>2, <1>3, UnlinkIsDrop DEF UseOrder, OrderOf
<1>5. rest \in SUBSET Keys /\ key \in Keys \ rest /\ \A k \in rest : lastAccess[k] < clock'
  BY <1>2, <1>3
<1> HIDE DEF rest
<1>6. OrderOf(rest \cup {key}, [lastAccess EXCEPT ![key] = clock']) =
        Abstract!Inserted(OrderOf(rest, lastAccess), key)
  BY <1>3, <1>5, StampIsInsert
<1>7. UseOrder' = OrderOf(rest \cup {key}, [lastAccess EXCEPT ![key] = clock'])
  BY <1>2, <1>3 DEF UseOrder, OrderOf
<1>8. UseOrder' = Abstract!Inserted(Abstract!Dropped(UseOrder, victim), key)
  BY <1>4, <1>6, <1>7
<1>9. UseOrder.keys = items
  BY DEF UseOrder
<1>10. Abstract!Cardinality(UseOrder.keys) >= Capacity
  BY <1>2, <1>9, SameCardinality
<1> QED
  BY <1>1, <1>2, <1>8, <1>9, <1>10 DEF Abstract!SetEvicting

\* Unlinking a node drops its key from the abstract order.
LEMMA DropRefines ==
  ASSUME CacheInv, NEW node \in items, items' = items \ {node}, UNCHANGED lastAccess
  PROVE  UseOrder' = Abstract!Dropped(UseOrder, node)
<1>1. items \in SUBSET Keys /\ lastAccess \in Stamps
  BY DEF CacheInv, Shapes, Stamps
<1> QED
  BY <1>1, UnlinkIsDrop DEF UseOrder, OrderOf

LEMMA RemoveRefines ==
  ASSUME CacheInv, NEW key \in Keys, Remove(key)
  PROVE  Abstract!Remove(key)
<1>1. CASE key \in items
  <2>1. UseOrder' = Abstract!Dropped(UseOrder, key)
    BY <1>1, DropRefines DEF Remove
  <2> QED
    BY <1>1, <2>1 DEF Remove, Abstract!Remove, UseOrder
<1>2. CASE key \notin items
  <2>1. value = [value EXCEPT ![key] = None]
    BY <1>2 DEF CacheInv, Shapes
  <2>2. UseOrder' = UseOrder
    BY <1>2 DEF Remove, UseOrder
  <2> QED
    BY <1>2, <2>1, <2>2 DEF Remove, Abstract!Remove, UseOrder
<1> QED
  BY <1>1, <1>2

LEMMA PeekTailRefines ==
  ASSUME CacheInv, PeekTail
  PROVE  Abstract!PeekOldest
<1>1. UseOrder' = UseOrder /\ UseOrder.keys = items
  BY DEF PeekTail, UseOrder
<1>2. items = {} <=> list.tail = None
  BY DEF CacheInv, Linked, EndsIn
<1>3. list.tail # None => Abstract!IsOldest(UseOrder, list.tail)
  BY TailIsOldest DEF CacheInv, Linked, EndsIn
<1> QED
  BY <1>1, <1>2, <1>3 DEF PeekTail, Abstract!PeekOldest

LEMMA RemoveTailRefines ==
  ASSUME CacheInv, RemoveTail
  PROVE  Abstract!RemoveOldest
<1>1. UseOrder.keys = items
  BY DEF UseOrder
<1>2. CASE list.tail = None
  <2>1. items = {} /\ UseOrder' = UseOrder
    BY <1>2 DEF CacheInv, Linked, EndsIn, RemoveTail, UseOrder
  <2> QED
    BY <1>1, <1>2, <2>1 DEF RemoveTail, Abstract!RemoveOldest
<1>3. CASE list.tail # None
  <2>1. list.tail \in items
    BY <1>3 DEF CacheInv, Linked, EndsIn
  <2>2. Abstract!IsOldest(UseOrder, list.tail)
    BY <2>1, TailIsOldest
  <2>3. UseOrder' = Abstract!Dropped(UseOrder, list.tail)
    BY <1>3, <2>1, DropRefines DEF RemoveTail
  <2> QED
    BY <1>1, <1>3, <2>1, <2>2, <2>3 DEF RemoveTail, Abstract!RemoveOldest
<1> QED
  BY <1>2, <1>3

(***************************************************************************)
(* Spec => ImplementsLru: the map with its doubly linked list implements   *)
(* the abstract cache; every Get, Set, Remove, PeekTail and RemoveTail of  *)
(* lru_cache.go answers and evicts as the order of use says.               *)
(***************************************************************************)
THEOREM CacheImplementsLru == Spec => ImplementsLru
<1>1. Init => Abstract!Init
  BY DEF Init, Abstract!Init, UseOrder, Abstract!NothingCached
<1>2. CacheInv /\ [Next]_cacheVars => [Abstract!Next]_(Abstract!lruVars)
  <2> SUFFICES ASSUME CacheInv, [Next]_cacheVars
               PROVE  [Abstract!Next]_(Abstract!lruVars)
    OBVIOUS
  <2>1. CASE UNCHANGED cacheVars
    BY <2>1 DEF cacheVars, Abstract!lruVars, UseOrder
  <2>2. ASSUME NEW key \in Keys, GetHit(key) PROVE Abstract!GetHit(key)
    <3>1. UseOrder' = Abstract!Touched(UseOrder, key)
      BY <2>2, TouchRefines DEF GetHit
    <3> QED
      BY <2>2, <3>1 DEF GetHit, Abstract!GetHit, UseOrder
  <2>3. ASSUME NEW key \in Keys, GetMiss(key) PROVE Abstract!GetMiss(key)
    BY <2>3 DEF GetMiss, Abstract!GetMiss, UseOrder
  <2>4. ASSUME NEW key \in Keys, NEW v \in Values, SetExisting(key, v)
        PROVE  Abstract!SetExisting(key, v)
    <3>1. UseOrder' = Abstract!Touched(UseOrder, key)
      BY <2>4, TouchRefines DEF SetExisting
    <3> QED
      BY <2>4, <3>1 DEF SetExisting, Abstract!SetExisting, UseOrder
  <2> QED
    BY <2>1, <2>2, <2>3, <2>4, SetNewRefines, SetEvictingRefines, RemoveRefines,
       PeekTailRefines, RemoveTailRefines DEF Next, Abstract!Next
<1> QED
  BY <1>1, <1>2, InitEstablishes, NextPreserves, PTL
     DEF Spec, ImplementsLru, Abstract!Spec
=============================================================================
