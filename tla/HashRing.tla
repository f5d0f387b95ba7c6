------------------------------ MODULE HashRing ------------------------------
(***************************************************************************)
(* The consistent hash ring of cloud-routing-proxy (balancer.go), which    *)
(* picks the gateway for the socket of a room, and the WebSocket route     *)
(* that uses it.                                                           *)
(*                                                                         *)
(* The ring is a sorted slice of hashes.  It is kept here as the set of    *)
(* its points, in which the element that sort.Search finds is the least    *)
(* point not below the hash; a point that is in the slice twice changes    *)
(* nothing.  FNV-1a is any function into HashSpace.                        *)
(***************************************************************************)
EXTENDS Naturals, FiniteSets, Sequences

CONSTANTS Gateways, Rooms,
          VNodesFactor,   \* 50
          HashSpace,      \* 2^32
          NoGateway,
          MaxAdds         \* bound on the calls of AddNode

ASSUME RingAssumption ==
  /\ VNodesFactor \in Nat \ {0} /\ HashSpace \in Nat \ {0} /\ MaxAdds \in Nat
  /\ NoGateway \notin Gateways

VARIABLES vHash, roomHash,    \* the hash function
          ring, vNodeToNode,
          added,              \* history: the calls of AddNode, in order
          tunnels             \* history: sockets routed so far

hashes == <<vHash, roomHash>>
ringVars == <<hashes, ring, vNodeToNode, added, tunnels>>

Hash == 0 .. HashSpace - 1
VNodes == 0 .. VNodesFactor - 1
Tunnel == [room : Rooms, node : Gateways, era : 0 .. MaxAdds]

IsLeast(p, S) == p \in S /\ \A q \in S : p <= q
-----------------------------------------------------------------------------
RingInit ==
  /\ vHash \in [Gateways \X VNodes -> Hash] /\ roomHash \in [Rooms -> Hash]
  /\ ring = {} /\ vNodeToNode = [h \in {} |-> NoGateway]
  /\ added = <<>> /\ tunnels = {}

Points(n) == {vHash[<<n, i>>] : i \in VNodes}

\* A point two nodes hash to belongs to the one that was added last.  The
\* slip keeps its old owner.
AddNodePolite(n) ==
  /\ ring' = ring \union Points(n)
  /\ vNodeToNode' = [h \in ring' |-> IF h \in ring THEN vNodeToNode[h] ELSE n]
AddNode(n) ==
  /\ ring' = ring \union Points(n)
  /\ vNodeToNode' = [h \in ring' |-> IF h \in Points(n) THEN n ELSE vNodeToNode[h]]

\* The first point at or after the hash of the room, around the end the
\* first of all.  The slip takes the hash modulo the length of the slice.
TargetModulo(r) ==
  CHOOSE p \in ring :
    Cardinality({q \in ring : q < p}) = roomHash[r] % Cardinality(ring)
TargetVNode(r) ==
  LET after == {h \in ring : h >= roomHash[r]}
  IN  CHOOSE p \in ring : IsLeast(p, IF after = {} THEN ring ELSE after)

RouteRoom(r) == IF ring = {} THEN NoGateway ELSE vNodeToNode[TargetVNode(r)]

Add(n) ==
  /\ Len(added) < MaxAdds
  /\ AddNode(n)
  /\ added' = Append(added, n)
  /\ UNCHANGED <<hashes, tunnels>>

\* An empty ring is answered with an error and no tunnel.
HandleWebSocketProxy(r) ==
  /\ RouteRoom(r) # NoGateway
  /\ tunnels' = tunnels \union {[room |-> r, node |-> RouteRoom(r), era |-> Len(added)]}
  /\ UNCHANGED <<hashes, ring, vNodeToNode, added>>

RingNext == \/ \E n \in Gateways : Add(n)
            \/ \E r \in Rooms : HandleWebSocketProxy(r)

RingSpec == RingInit /\ [][RingNext]_ringVars
-----------------------------------------------------------------------------
\* Steps clockwise from the hash of a room to a point.
Ahead(r, h) == IF h >= roomHash[r] THEN h - roomHash[r]
                                   ELSE h + HashSpace - roomHash[r]
AddedNodes == {added[i] : i \in DOMAIN added}

\* A room goes to the node nearest clockwise, counted over the virtual nodes
\* of everything added; of nodes that share the point, to the latest
\* (RouteRoom over what AddNode appended, overwrote and sorted).
RoutesClockwise ==
  \A r \in Rooms : added # <<>> =>
    LET distance(n) == {Ahead(r, h) : h \in Points(n)}
        nearest == CHOOSE d \in 0 .. HashSpace - 1 :
                     IsLeast(d, UNION {distance(n) : n \in AddedNodes})
        last == CHOOSE i \in DOMAIN added :
                  /\ nearest \in distance(added[i])
                  /\ \A j \in DOMAIN added : nearest \in distance(added[j]) => j <= i
    IN  RouteRoom(r) = added[last]

\* Two sockets of one room are on different gateways only if the later one's
\* gateway was added in between: the ring never moves a room between nodes
\* that stay (SRS of cloud-routing-proxy: a room lands on one shard).
SplitOnlyByNewcomers ==
  \A t, u \in tunnels :
    (t.room = u.room /\ t.era <= u.era /\ t.node # u.node) =>
      \E i \in t.era + 1 .. u.era : added[i] = u.node
=============================================================================
