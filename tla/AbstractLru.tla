---------------------------- MODULE AbstractLru ----------------------------
(***************************************************************************)
(* The abstract least-recently-used cache: a map of at most Capacity keys, *)
(* ordered by last use.  Set on a full cache evicts the oldest key and     *)
(* says which one; the list that finds it is LruCache's business.          *)
(***************************************************************************)
EXTENDS RecencyOps, Integers, FiniteSets

CONSTANTS Keys, Values, None, Capacity

VARIABLES cached,  \* the keys and their order of use (see RecencyOps)
          value,   \* cached key -> its value, None for the others
          answer   \* what the last operation returned

lruVars == <<cached, value, answer>>

Init == /\ cached = NothingCached
        /\ value = [k \in Keys |-> None]
        /\ answer = None

GetHit(k) == /\ k \in cached.keys
             /\ cached' = Touched(cached, k)
             /\ answer' = value[k]
             /\ UNCHANGED value

GetMiss(k) == /\ k \notin cached.keys
              /\ answer' = None
              /\ UNCHANGED <<cached, value>>

SetExisting(k, v) == /\ k \in cached.keys
                     /\ cached' = Touched(cached, k)
                     /\ value' = [value EXCEPT ![k] = v]
                     /\ answer' = None

SetNew(k, v) == /\ k \notin cached.keys
                /\ Cardinality(cached.keys) < Capacity
                /\ cached' = Inserted(cached, k)
                /\ value' = [value EXCEPT ![k] = v]
                /\ answer' = None

SetEvicting(k, v) ==
  /\ k \notin cached.keys
  /\ Cardinality(cached.keys) >= Capacity
  /\ \E victim \in cached.keys :
       /\ IsOldest(cached, victim)
       /\ cached' = Inserted(Dropped(cached, victim), k)
       /\ value' = [value EXCEPT ![victim] = None, ![k] = v]
       /\ answer' = victim

Remove(k) == /\ cached' = IF k \in cached.keys THEN Dropped(cached, k) ELSE cached
             /\ value' = [value EXCEPT ![k] = None]
             /\ answer' = None

PeekOldest == \/ /\ cached.keys = {}
                 /\ answer' = None
                 /\ UNCHANGED <<cached, value>>
              \/ /\ IsOldest(cached, answer')
                 /\ UNCHANGED <<cached, value>>

RemoveOldest == \/ /\ cached.keys = {}
                   /\ answer' = None
                   /\ UNCHANGED <<cached, value>>
                \/ \E victim \in cached.keys :
                     /\ IsOldest(cached, victim)
                     /\ cached' = Dropped(cached, victim)
                     /\ value' = [value EXCEPT ![victim] = None]
                     /\ answer' = victim

Next == \/ \E k \in Keys : GetHit(k) \/ GetMiss(k) \/ Remove(k)
        \/ \E k \in Keys, v \in Values :
             SetExisting(k, v) \/ SetNew(k, v) \/ SetEvicting(k, v)
        \/ PeekOldest
        \/ RemoveOldest

Spec == Init /\ [][Next]_lruVars
=============================================================================
