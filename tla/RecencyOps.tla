----------------------------- MODULE RecencyOps -----------------------------
(***************************************************************************)
(* What a least-recently-used cache promises, as operators on a record r:  *)
(* r.keys is the set of cached keys, r.older the pairs <<a, b>> of cached  *)
(* keys such that a was used before b.                                     *)
(* Users: AbstractLru (which LruCache implements) and RoomShard (whose     *)
(* handlers look rooms up in the cache of their shard).                    *)
(***************************************************************************)

NothingCached == [keys |-> {}, older |-> {}]

\* k was used just now: every other key is older.
Touched(r, k) ==
  [keys  |-> r.keys,
   older |-> {p \in r.keys \X r.keys :
                IF p[1] = k THEN FALSE ELSE p[2] = k \/ p \in r.older}]

Dropped(r, k) ==
  [keys  |-> r.keys \ {k},
   older |-> {p \in r.older : p[1] # k /\ p[2] # k}]

\* A new key k enters as the most recent one.
Inserted(r, k) ==
  [keys  |-> r.keys \cup {k},
   older |-> r.older \cup (r.keys \X {k})]

\* k is the key an overflow evicts: every other key was used after it.
IsOldest(r, k) == k \in r.keys /\ \A other \in r.keys \ {k} : <<k, other>> \in r.older
=============================================================================
