------------------------------ MODULE LruCache ------------------------------
(***************************************************************************)
(* internal/pkg/trie/lru_cache.go: the map and the doubly linked list that *)
(* keep the rooms of a shard, most recently used at the head.  A node is   *)
(* named by its key: the map holds the only node of a key, and a removed   *)
(* node is never linked again (its own Prev and Next stay as they were).   *)
(* Every method runs under c.mu and is one action.                         *)
(***************************************************************************)
EXTENDS Integers, FiniteSets

CONSTANTS Keys,       \* room identifiers
          Values,     \* room objects
          None,       \* nil, and the empty answer
          Capacity,   \* 1000 in every shard
          MaxTouches  \* bound on the clock: uses of the cache in one behaviour

ASSUME CacheAssumption ==
  /\ None \notin Keys \cup Values
  /\ Capacity \in Nat \ {0}
  /\ MaxTouches \in Nat

VARIABLES items,       \* the keys of the map
          value,       \* node.Value, None for a key without a node
          list,        \* the list: head, tail, and node.Prev, node.Next
          lastAccess,  \* node.LastAccess
          clock,       \* time.Now(), one unit per use
          answer       \* what the last method returned

cacheVars == <<items, value, list, lastAccess, clock, answer>>

Link == Keys \cup {None}

\* removeNode, before and after a slip that forgets one end of the list
RemoveNodeKeepsTail(l, node) ==
  LET before == l.prev[node]  after == l.next[node] IN
  [head |-> IF before # None THEN l.head ELSE after,
   tail |-> l.tail,
   next |-> IF before # None THEN [l.next EXCEPT ![before] = after] ELSE l.next,
   prev |-> IF after # None THEN [l.prev EXCEPT ![after] = before] ELSE l.prev]

RemoveNode(l, node) ==
  LET before == l.prev[node]  after == l.next[node] IN
  [head |-> IF before # None THEN l.head ELSE after,
   tail |-> IF after # None THEN l.tail ELSE before,
   next |-> IF before # None THEN [l.next EXCEPT ![before] = after] ELSE l.next,
   prev |-> IF after # None THEN [l.prev EXCEPT ![after] = before] ELSE l.prev]

\* addToHead, without and with the back link of the old head
AddToHeadOneWay(l, node) ==
  [head |-> node,
   tail |-> IF l.tail = None THEN node ELSE l.tail,
   next |-> [l.next EXCEPT ![node] = l.head],
   prev |-> [l.prev EXCEPT ![node] = None]]

AddToHead(l, node) ==
  [head |-> node,
   tail |-> IF l.tail = None THEN node ELSE l.tail,
   next |-> [l.next EXCEPT ![node] = l.head],
   prev |-> IF l.head = None THEN [l.prev EXCEPT ![node] = None]
                             ELSE [l.prev EXCEPT ![node] = None, ![l.head] = node]]

MoveToHead(l, node) == AddToHead(RemoveNode(l, node), node)

Init == /\ items = {}
        /\ value = [k \in Keys |-> None]
        /\ list = [head |-> None, tail |-> None,
                   prev |-> [k \in Keys |-> None], next |-> [k \in Keys |-> None]]
        /\ lastAccess = [k \in Keys |-> 0]
        /\ clock = 0
        /\ answer = None

\* node.LastAccess = time.Now()
Stamp(key) == /\ clock < MaxTouches
              /\ clock' = clock + 1
              /\ lastAccess' = [lastAccess EXCEPT ![key] = clock']

\* Set when the key has a node
SetExisting(key, v) ==
  /\ key \in items
  /\ Stamp(key)
  /\ value' = [value EXCEPT ![key] = v]
  /\ list' = MoveToHead(list, key)
  /\ answer' = None
  /\ UNCHANGED items

\* Set of a new key while there is room
SetNew(key, v) ==
  /\ key \notin items
  /\ Cardinality(items) < Capacity
  /\ Stamp(key)
  /\ items' = items \cup {key}
  /\ value' = [value EXCEPT ![key] = v]
  /\ list' = AddToHead(list, key)
  /\ answer' = None

\* Set of a new key on a full cache: the tail goes, its key is returned.
\* The slip: the tail is unlinked and its map entry forgotten.
SetEvictingLeaksEntry(key, v) ==
  /\ key \notin items
  /\ Cardinality(items) >= Capacity
  /\ Stamp(key)
  /\ items' = items \cup {key}
  /\ value' = [value EXCEPT ![key] = v]
  /\ list' = AddToHead(RemoveNode(list, list.tail), key)
  /\ answer' = list.tail

SetEvicting(key, v) ==
  /\ key \notin items
  /\ Cardinality(items) >= Capacity
  /\ Stamp(key)
  /\ items' = (items \ {list.tail}) \cup {key}
  /\ value' = [value EXCEPT ![list.tail] = None, ![key] = v]
  /\ list' = AddToHead(RemoveNode(list, list.tail), key)
  /\ answer' = list.tail

GetHitStays(key) ==
  /\ key \in items
  /\ Stamp(key)
  /\ answer' = value[key]
  /\ UNCHANGED <<items, value, list>>

GetHit(key) ==
  /\ key \in items
  /\ Stamp(key)
  /\ list' = MoveToHead(list, key)
  /\ answer' = value[key]
  /\ UNCHANGED <<items, value>>

GetMiss(key) ==
  /\ key \notin items
  /\ answer' = None
  /\ UNCHANGED <<items, value, list, lastAccess, clock>>

Remove(key) ==
  /\ \/ /\ key \in items
        /\ items' = items \ {key}
        /\ value' = [value EXCEPT ![key] = None]
        /\ list' = RemoveNode(list, key)
     \/ key \notin items /\ UNCHANGED <<items, value, list>>
  /\ answer' = None
  /\ UNCHANGED <<lastAccess, clock>>

PeekTail ==
  /\ answer' = list.tail
  /\ UNCHANGED <<items, value, list, lastAccess, clock>>

RemoveTail ==
  /\ \/ list.tail = None /\ UNCHANGED <<items, value, list>>
     \/ /\ list.tail # None
        /\ items' = items \ {list.tail}
        /\ value' = [value EXCEPT ![list.tail] = None]
        /\ list' = RemoveNode(list, list.tail)
  /\ answer' = list.tail
  /\ UNCHANGED <<lastAccess, clock>>

Next ==
  \/ \E key \in Keys : GetHit(key) \/ GetMiss(key) \/ Remove(key)
  \/ \E key \in Keys, v \in Values :
       SetExisting(key, v) \/ SetNew(key, v) \/ SetEvicting(key, v)
  \/ PeekTail
  \/ RemoveTail

Spec == Init /\ [][Next]_cacheVars
-----------------------------------------------------------------------------
Shapes == /\ items \in SUBSET Keys
          /\ value \in [Keys -> Values \cup {None}]
          /\ list \in [head : Link, tail : Link, prev : [Keys -> Link], next : [Keys -> Link]]
          /\ lastAccess \in [Keys -> 0 .. MaxTouches]
          /\ clock \in 0 .. MaxTouches
          /\ answer \in Keys \cup Values \cup {None}

\* The ends of the list are nodes of the map, or nil.
TypeOK == Shapes /\ {list.head, list.tail} \subseteq items \cup {None}

(***************************************************************************)
(* Walking from the head by Next visits exactly the keys of the map and    *)
(* ends at the tail; walking back by Prev retraces it.  Local form: the    *)
(* ends are the only nodes without a neighbour, and neighbours agree.      *)
(***************************************************************************)
EndsAgree ==
  /\ list.head = None <=> items = {}
  /\ list.tail = None <=> items = {}
  /\ list.head # None => list.head \in items
  /\ list.tail # None => list.tail \in items
  /\ \A k \in items : list.prev[k] = None <=> k = list.head
  /\ \A k \in items : list.next[k] = None <=> k = list.tail

NeighboursAgree ==
  \A k \in items :
    /\ list.next[k] # None => list.next[k] \in items /\ list.prev[list.next[k]] = k
    /\ list.prev[k] # None => list.prev[k] \in items /\ list.next[list.prev[k]] = k

(***************************************************************************)
(* The list is in the order of last use, newest first: moveToHead and      *)
(* addToHead (lru_cache.go:93-121) leave no key between two neighbours     *)
(* that was used between them.                                             *)
(***************************************************************************)
OrderedByUse ==
  \A k \in items :
    list.next[k] # None =>
      /\ lastAccess[list.next[k]] < lastAccess[k]
      /\ \A j \in items : \/ lastAccess[j] =< lastAccess[list.next[k]]
                          \/ lastAccess[k] =< lastAccess[j]

(***************************************************************************)
(* The list links the keys of the map and nothing else, with both          *)
(* directions and both ends in step (removeNode, addToHead, moveToHead).   *)
(***************************************************************************)
ListMatchesMap == EndsAgree /\ NeighboursAgree

(***************************************************************************)
(* The node that an overflow evicts (lru_cache.go:49) is the least         *)
(* recently used one: no cached key was used before the tail.              *)
(***************************************************************************)
TailIsLeastRecent ==
  \A k \in items \ {list.tail} : lastAccess[list.tail] < lastAccess[k]

(***************************************************************************)
(* The cache never holds more than its capacity (SRS: "1000 elements").    *)
(***************************************************************************)
WithinCapacity == Cardinality(items) =< Capacity

\* The order of use the list stands for.
UseOrder == [keys  |-> items,
             older |-> {p \in items \X items : lastAccess[p[1]] < lastAccess[p[2]]}]

Abstract == INSTANCE AbstractLru WITH cached <- UseOrder

(***************************************************************************)
(* The map and the list implement AbstractLru: every method answers and    *)
(* evicts as a cache ordered by time of last use does.                     *)
(***************************************************************************)
ImplementsLru == Abstract!Spec
=============================================================================
