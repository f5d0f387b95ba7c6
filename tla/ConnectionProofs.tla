-------------------------- MODULE ConnectionProofs --------------------------
(***************************************************************************)
(* Theorems about how a user gets connected: the token it shows, the       *)
(* gateway its room is routed to and the negotiation with the others in    *)
(* the room.  The three share no state.                                    *)
(***************************************************************************)
EXTENDS AuthTokens, HashRing, MeshNegotiation, SequenceTheorems,
        WellFoundedInduction, TLAPS

(***************************************************************************)
(* The hash ring, for any gateways, rooms, virtual nodes and hash          *)
(* function: a room moves only to a gateway that is being added.           *)
(***************************************************************************)
RingTyped ==
  /\ vHash \in [Gateways \X VNodes -> Hash] /\ roomHash \in [Rooms -> Hash]
  /\ ring \in SUBSET Hash /\ vNodeToNode \in [ring -> Gateways]
  /\ added \in Seq(Gateways) /\ Len(added) <= MaxAdds
  /\ tunnels \in SUBSET Tunnel

\* Where a room goes now is where it went in the era of a tunnel, or a gateway
\* added since.
MovesToNewcomers ==
  /\ \A t \in tunnels :
       /\ ring # {} /\ t.era <= Len(added)
       /\ \/ RouteRoom(t.room) = t.node
          \/ \E i \in t.era + 1 .. Len(added) : added[i] = RouteRoom(t.room)
  /\ SplitOnlyByNewcomers

RingInv == RingTyped /\ MovesToNewcomers
-----------------------------------------------------------------------------
(***************************************************************************)
(* A set of hashes has a least element, and only one.                      *)
(***************************************************************************)
LEMMA LeastExists ==
  ASSUME NEW S \in SUBSET Hash, S # {}
  PROVE  \E p \in S : IsLeast(p, S)
<1>1. S \in SUBSET Nat
  BY RingAssumption DEF Hash
<1>2. PICK p \in S : \A q \in S : <<q, p>> \notin OpToRel(<, Nat)
  BY <1>1, NatLessThanWellFounded, WFMin
<1>3. \A q \in S : ~ (q < p)
  BY <1>1, <1>2 DEF OpToRel
<1>4. \A q \in S : p <= q
  BY <1>1, <1>3
<1> QED
  BY <1>4 DEF IsLeast

LEMMA LeastIsOne ==
  ASSUME NEW S \in SUBSET Hash, NEW p, NEW q, IsLeast(p, S), IsLeast(q, S)
  PROVE  p = q
<1>1. p \in Nat /\ q \in Nat /\ p <= q /\ q <= p
  BY RingAssumption DEF Hash, IsLeast
<1> QED
  BY <1>1

\* So the choice of one finds it.
LEMMA ChosenIsLeast ==
  ASSUME NEW R \in SUBSET Hash, NEW C \in SUBSET R, C # {},
         NEW p, p = CHOOSE q \in R : IsLeast(q, C)
  PROVE  p \in R /\ IsLeast(p, C)
<1>1. PICK q \in C : IsLeast(q, C)
  BY LeastExists
<1> QED
  BY <1>1

\* The points at or after the hash of a room, and those the search is among.
After(r) == {h \in ring : h >= roomHash[r]}
Candidates(r) == IF After(r) = {} THEN ring ELSE After(r)

(***************************************************************************)
(* The search finds the least candidate, a point of the ring (RouteRoom).  *)
(***************************************************************************)
LEMMA TargetIsLeast ==
  ASSUME RingTyped, NEW r \in Rooms, ring # {}
  PROVE  /\ TargetVNode(r) \in ring
         /\ IsLeast(TargetVNode(r), Candidates(r))
<1>1. ring \in SUBSET Hash /\ Candidates(r) \in SUBSET ring /\ Candidates(r) # {}
  BY DEF Candidates, After, RingTyped
<1>2. TargetVNode(r) = CHOOSE q \in ring : IsLeast(q, Candidates(r))
  BY DEF TargetVNode, Candidates, After
<1> QED
  BY <1>1, <1>2, ChosenIsLeast

LEMMA RouteIsOwner ==
  ASSUME RingTyped, NEW r \in Rooms, ring # {}
  PROVE  /\ RouteRoom(r) = vNodeToNode[TargetVNode(r)]
         /\ RouteRoom(r) \in Gateways
BY TargetIsLeast DEF RouteRoom, RingTyped
-----------------------------------------------------------------------------
LEMMA PointsAreHashes ==
  ASSUME RingTyped, NEW n \in Gateways
  PROVE  Points(n) \in SUBSET Hash /\ Points(n) # {}
<1>1. 0 \in VNodes
  BY RingAssumption DEF VNodes
<1>2. \A i \in VNodes : vHash[<<n, i>>] \in Hash
  BY DEF RingTyped
<1> QED
  BY <1>1, <1>2 DEF Points

LEMMA AddTyped ==
  ASSUME RingTyped, NEW n \in Gateways, Add(n)
  PROVE  RingTyped'
<1>1. ring' \in SUBSET Hash
  BY PointsAreHashes DEF Add, AddNode, RingTyped
<1>2. vNodeToNode' \in [ring' -> Gateways]
  BY DEF Add, AddNode, RingTyped
<1>3. added' \in Seq(Gateways) /\ Len(added') <= MaxAdds
  BY RingAssumption DEF Add, RingTyped
<1> QED
  BY <1>1, <1>2, <1>3 DEF Add, RingTyped, hashes

(***************************************************************************)
(* A node that is added takes rooms over and moves none between the nodes  *)
(* that were there (AddNode).                                              *)
(***************************************************************************)
LEMMA AddMovesToNewcomer ==
  ASSUME RingTyped, NEW n \in Gateways, Add(n), NEW r \in Rooms, ring # {}
  PROVE  RouteRoom(r)' \in {RouteRoom(r), n}
<1> DEFINE old == TargetVNode(r)
           new == TargetVNode(r)'
<1>1. RingTyped' /\ ring \in SUBSET ring' /\ ring' # {}
  BY AddTyped DEF Add, AddNode
<1>2. roomHash' = roomHash /\ ring' = ring \union Points(n)
  BY DEF Add, AddNode, hashes
<1>3. old \in ring /\ IsLeast(old, Candidates(r))
  BY TargetIsLeast
<1>4. new \in ring' /\ IsLeast(new, Candidates(r)')
  <2>1. ring' \in SUBSET Hash /\ Candidates(r)' \in SUBSET ring' /\ Candidates(r)' # {}
    BY <1>1 DEF Candidates, After, RingTyped
  <2>2. new = CHOOSE q \in ring' : IsLeast(q, Candidates(r)')
    BY DEF TargetVNode, Candidates, After
  <2> QED
    BY <2>1, <2>2, ChosenIsLeast
<1>5. RouteRoom(r) = vNodeToNode[old] /\ RouteRoom(r)' = vNodeToNode'[new]
  BY <1>1 DEF RouteRoom
<1> HIDE DEF old, new
<1>6. vNodeToNode'[new] = IF new \in Points(n) THEN n ELSE vNodeToNode[new]
  BY <1>4 DEF Add, AddNode
<1>7. ASSUME new \notin Points(n) PROVE new = old
  <2>1. new \in ring
    BY <1>2, <1>4, <1>7
  <2>2. After(r)' = After(r) \union {h \in Points(n) : h >= roomHash[r]}
    BY <1>2 DEF After
  <2>3. Candidates(r) \in SUBSET Candidates(r)' /\ new \in Candidates(r)
    <3>1. new \in Candidates(r)'
      BY <1>4 DEF IsLeast
    <3>2. CASE After(r) = {}
      BY <1>2, <1>7, <2>1, <2>2, <3>1, <3>2 DEF Candidates
    <3>3. CASE After(r) # {}
      BY <1>7, <2>2, <3>1, <3>3 DEF Candidates
    <3> QED
      BY <3>2, <3>3
  <2>4. IsLeast(new, Candidates(r))
    BY <1>4, <2>3 DEF IsLeast
  <2>5. Candidates(r) \in SUBSET Hash
    BY DEF Candidates, After, RingTyped
  <2> QED
    BY <1>3, <2>4, <2>5, LeastIsOne
<1> QED
  BY <1>5, <1>6, <1>7
-----------------------------------------------------------------------------
THEOREM RingAlwaysTyped == RingSpec => []RingTyped
<1>1. RingInit => RingTyped
  BY RingAssumption DEF RingInit, RingTyped
<1>2. RingTyped /\ [RingNext]_ringVars => RingTyped'
  <2> SUFFICES ASSUME RingTyped, [RingNext]_ringVars PROVE RingTyped'
    OBVIOUS
  <2>1. ASSUME NEW n \in Gateways, Add(n) PROVE RingTyped'
    BY <2>1, AddTyped
  <2>2. ASSUME NEW r \in Rooms, HandleWebSocketProxy(r) PROVE RingTyped'
    <3>1. ring # {} /\ Len(added) \in 0 .. MaxAdds
      BY <2>2, RingAssumption DEF HandleWebSocketProxy, RouteRoom, RingTyped
    <3>2. RouteRoom(r) \in Gateways
      BY <3>1, RouteIsOwner
    <3> QED
      BY <2>2, <3>1, <3>2 DEF HandleWebSocketProxy, RingTyped, Tunnel, hashes
  <2>3. CASE UNCHANGED ringVars
    BY <2>3 DEF RingTyped, ringVars, hashes
  <2> QED
    BY <2>1, <2>2, <2>3 DEF RingNext
<1> QED
  BY <1>1, <1>2, PTL DEF RingSpec
(***************************************************************************)
(* What a tunnel knows of its room stays true when a node is added: the    *)
(* room stays where it is or goes to the newcomer.                         *)
(***************************************************************************)
LEMMA AddKeepsMoves ==
  ASSUME RingInv, NEW n \in Gateways, Add(n)
  PROVE  MovesToNewcomers'
<1>1. /\ tunnels' = tunnels /\ tunnels \in SUBSET Tunnel
      /\ added' = Append(added, n) /\ added \in Seq(Gateways)
  BY DEF Add, RingInv, RingTyped
<1>2. /\ Len(added') = Len(added) + 1 /\ Len(added) \in Nat
      /\ added'[Len(added) + 1] = n
      /\ \A i \in 1 .. Len(added) : added'[i] = added[i]
  BY <1>1
<1>3. \A t \in tunnels : t.room \in Rooms /\ t.era \in Nat
  BY <1>1, RingAssumption DEF Tunnel
<1>4. ring # {} => ring' # {}
  BY DEF Add, AddNode
<1>5. ASSUME NEW t \in tunnels
      PROVE  /\ ring' # {} /\ t.era <= Len(added')
             /\ \/ RouteRoom(t.room)' = t.node
                \/ \E i \in t.era + 1 .. Len(added') : added'[i] = RouteRoom(t.room)'
  <2>1. ring # {} /\ t.era <= Len(added) /\ t.room \in Rooms /\ t.era \in Nat
    BY <1>3, <1>5 DEF RingInv, MovesToNewcomers
  <2>2. RouteRoom(t.room)' \in {RouteRoom(t.room), n}
    BY <2>1, AddMovesToNewcomer DEF RingInv
  <2>3. CASE RouteRoom(t.room)' = n
    BY <1>2, <1>4, <2>1, <2>3
  <2>4. CASE RouteRoom(t.room)' = RouteRoom(t.room)
    <3>1. CASE RouteRoom(t.room) = t.node
      BY <1>2, <1>4, <2>1, <2>4, <3>1
    <3>2. CASE \E i \in t.era + 1 .. Len(added) : added[i] = RouteRoom(t.room)
      BY <1>2, <1>4, <2>1, <2>4, <3>2
    <3> QED
      BY <1>5, <3>1, <3>2 DEF RingInv, MovesToNewcomers
  <2> QED
    BY <2>2, <2>3, <2>4
<1>6. SplitOnlyByNewcomers'
  <2> SUFFICES ASSUME NEW t \in tunnels, NEW u \in tunnels,
                      t.room = u.room, t.era <= u.era, t.node # u.node
               PROVE  \E i \in t.era + 1 .. u.era : added'[i] = u.node
    BY <1>1 DEF SplitOnlyByNewcomers
  <2>1. PICK i \in t.era + 1 .. u.era : added[i] = u.node
    BY DEF RingInv, MovesToNewcomers, SplitOnlyByNewcomers
  <2>2. u.era <= Len(added) /\ t.era \in Nat /\ u.era \in Nat
    BY <1>3 DEF RingInv, MovesToNewcomers
  <2> QED
    BY <1>2, <2>1, <2>2
<1> QED
  BY <1>1, <1>5, <1>6 DEF MovesToNewcomers

(***************************************************************************)
(* A new tunnel is where its room goes now, so it differs from an earlier  *)
(* one only by a newcomer (HandleWebSocketProxy).                          *)
(***************************************************************************)
LEMMA TunnelKeepsMoves ==
  ASSUME RingInv, NEW r \in Rooms, HandleWebSocketProxy(r)
  PROVE  MovesToNewcomers'
<1> DEFINE new == [room |-> r, node |-> RouteRoom(r), era |-> Len(added)]
<1>1. /\ tunnels' = tunnels \union {new} /\ ring # {}
      /\ added' = added /\ ring' = ring /\ vNodeToNode' = vNodeToNode /\ roomHash' = roomHash
  BY DEF HandleWebSocketProxy, RouteRoom, hashes
<1>2. \A q : RouteRoom(q)' = RouteRoom(q)
  BY <1>1 DEF RouteRoom, TargetVNode
<1>3. /\ Len(added) \in Nat
      /\ \A t \in tunnels : t.era \in Nat /\ t.era <= Len(added)
  BY RingAssumption DEF RingInv, RingTyped, MovesToNewcomers, Tunnel
<1>4. \A t \in tunnels' :
        /\ t.era <= Len(added) /\ t.era \in Nat
        /\ \/ RouteRoom(t.room) = t.node
           \/ \E i \in t.era + 1 .. Len(added) : added[i] = RouteRoom(t.room)
  BY <1>1, <1>3 DEF RingInv, MovesToNewcomers
<1>5. ASSUME NEW t \in tunnels', NEW u \in tunnels',
             t.room = u.room, t.era <= u.era, t.node # u.node
      PROVE  \E i \in t.era + 1 .. u.era : added[i] = u.node
  <2>1. CASE t \in tunnels /\ u \in tunnels
    BY <1>5, <2>1 DEF RingInv, MovesToNewcomers, SplitOnlyByNewcomers
  <2>2. CASE u = new
    BY <1>4, <1>5, <2>2
  <2>3. CASE t = new /\ u \in tunnels
    <3>1. u.era = Len(added) /\ t.node = RouteRoom(u.room)
      BY <1>3, <1>5, <2>3
    <3>2. RouteRoom(u.room) = u.node
      BY <1>3, <1>4, <1>5, <3>1
    <3> QED
      BY <1>5, <3>1, <3>2
  <2> QED
    BY <1>1, <2>1, <2>2, <2>3
<1> QED
  BY <1>1, <1>2, <1>4, <1>5 DEF MovesToNewcomers, SplitOnlyByNewcomers

(***************************************************************************)
(* Two sockets of one room are on different gateways only if the later     *)
(* one's gateway was added in between, whatever the hash function, the     *)
(* number of virtual nodes and the order of additions (balancer.go).       *)
(***************************************************************************)
THEOREM RoomsSplitOnlyByNewcomers == RingSpec => []SplitOnlyByNewcomers
<1>1. RingInit => MovesToNewcomers
  BY DEF RingInit, MovesToNewcomers, SplitOnlyByNewcomers
<1>2. RingInv /\ [RingNext]_ringVars => MovesToNewcomers'
  <2> SUFFICES ASSUME RingInv, [RingNext]_ringVars PROVE MovesToNewcomers'
    OBVIOUS
  <2>1. ASSUME NEW n \in Gateways, Add(n) PROVE MovesToNewcomers'
    BY <2>1, AddKeepsMoves
  <2>2. ASSUME NEW r \in Rooms, HandleWebSocketProxy(r) PROVE MovesToNewcomers'
    BY <2>2, TunnelKeepsMoves
  <2>3. CASE UNCHANGED ringVars
    <3>1. /\ ring' = ring /\ vNodeToNode' = vNodeToNode /\ roomHash' = roomHash
          /\ added' = added /\ tunnels' = tunnels
      BY <2>3 DEF ringVars, hashes
    <3>2. \A r : RouteRoom(r)' = RouteRoom(r)
      BY <3>1 DEF RouteRoom, TargetVNode
    <3> QED
      BY <3>1, <3>2 DEF RingInv, MovesToNewcomers, SplitOnlyByNewcomers
  <2> QED
    BY <2>1, <2>2, <2>3 DEF RingNext
<1>3. MovesToNewcomers => SplitOnlyByNewcomers
  BY DEF MovesToNewcomers
<1> QED
  BY <1>1, <1>2, <1>3, RingAlwaysTyped, PTL DEF RingSpec, RingInv
-----------------------------------------------------------------------------
\* The ring has the points of all that was added, and a point belongs to the
\* one that was added last.
OwnersOK ==
  /\ \A i \in DOMAIN added : Points(added[i]) \in SUBSET ring
  /\ \A h \in ring : \E i \in DOMAIN added :
       /\ h \in Points(added[i]) /\ vNodeToNode[h] = added[i]
       /\ \A j \in DOMAIN added : h \in Points(added[j]) => j <= i

LEMMA AddKeepsOwners ==
  ASSUME RingTyped, OwnersOK, NEW n \in Gateways, Add(n)
  PROVE  OwnersOK'
<1> DEFINE last == Len(added) + 1
<1>1. /\ ring' = ring \union Points(n) /\ vHash' = vHash /\ added' = Append(added, n)
      /\ vNodeToNode' = [h \in ring' |-> IF h \in Points(n) THEN n ELSE vNodeToNode[h]]
  BY DEF Add, AddNode, hashes
<1>2. \A m : Points(m)' = Points(m)
  BY <1>1 DEF Points
<1>3. /\ last \in Nat /\ DOMAIN added = 1 .. Len(added) /\ Len(added) \in Nat
      /\ DOMAIN added' = 1 .. last /\ added'[last] = n
      /\ \A i \in DOMAIN added : i \in DOMAIN added' /\ added'[i] = added[i]
  BY <1>1 DEF RingTyped
<1>4. \A i \in DOMAIN added' : i \in DOMAIN added \/ i = last
  BY <1>3
<1> HIDE DEF last
<1>5. \A i \in DOMAIN added' : Points(added'[i]) \in SUBSET ring'
  BY <1>1, <1>3, <1>4 DEF OwnersOK
<1>6. ASSUME NEW h \in ring'
      PROVE  \E i \in DOMAIN added' :
               /\ h \in Points(added'[i]) /\ vNodeToNode'[h] = added'[i]
               /\ \A j \in DOMAIN added' : h \in Points(added'[j]) => j <= i
  <2>1. CASE h \in Points(n)
    BY <1>1, <1>3, <1>6, <2>1
  <2>2. CASE h \notin Points(n)
    <3>1. h \in ring /\ vNodeToNode'[h] = vNodeToNode[h]
      BY <1>1, <1>6, <2>2
    <3>2. PICK i \in DOMAIN added :
            /\ h \in Points(added[i]) /\ vNodeToNode[h] = added[i]
            /\ \A j \in DOMAIN added : h \in Points(added[j]) => j <= i
      BY <3>1 DEF OwnersOK
    <3>3. i \in DOMAIN added' /\ added'[i] = added[i]
      BY <1>3, <3>2
    <3>4. \A j \in DOMAIN added' : h \in Points(added'[j]) => j <= i
      BY <1>3, <1>4, <2>2, <3>2
    <3> QED
      BY <3>1, <3>2, <3>3, <3>4
  <2> QED
    BY <2>1, <2>2
<1> QED
  BY <1>2, <1>5, <1>6 DEF OwnersOK

(***************************************************************************)
(* Of two points of the ring, the search prefers the one that is fewer     *)
(* steps ahead of the room, around the end of the ring too.                *)
(***************************************************************************)
LEMMA TargetIsNearest ==
  ASSUME RingTyped, NEW r \in Rooms, NEW h \in ring
  PROVE  /\ Ahead(r, h) \in Hash /\ Ahead(r, TargetVNode(r)) \in Hash
         /\ Ahead(r, TargetVNode(r)) <= Ahead(r, h)
         /\ Ahead(r, TargetVNode(r)) = Ahead(r, h) => h = TargetVNode(r)
<1> DEFINE t == TargetVNode(r)
<1>1. t \in ring /\ IsLeast(t, Candidates(r))
  BY TargetIsLeast
<1>2. /\ h \in Nat /\ t \in Nat /\ roomHash[r] \in Nat /\ HashSpace \in Nat
      /\ h < HashSpace /\ t < HashSpace /\ roomHash[r] < HashSpace
  <2>1. h \in Hash /\ t \in Hash /\ roomHash[r] \in Hash
    BY <1>1 DEF RingTyped
  <2> QED
    BY <2>1, RingAssumption DEF Hash
<1> HIDE DEF t
<1>3. /\ h >= roomHash[r] => t >= roomHash[r] /\ t <= h
      /\ (h < roomHash[r] /\ t < roomHash[r]) => t <= h
  <2>1. CASE After(r) = {}
    BY <1>1, <1>2, <2>1 DEF Candidates, After, IsLeast
  <2>2. CASE After(r) # {}
    BY <1>1, <1>2, <2>2 DEF Candidates, After, IsLeast
  <2> QED
    BY <2>1, <2>2
<1> QED
  BY <1>2, <1>3 DEF Ahead, Hash, t

(***************************************************************************)
(* The routes of a ring with owners as above go clockwise to the latest    *)
(* owner of the nearest point.                                             *)
(***************************************************************************)
LEMMA OwnersRoute ==
  ASSUME RingTyped, OwnersOK
  PROVE  RoutesClockwise
<1> SUFFICES ASSUME NEW r \in Rooms, added # <<>>
             PROVE  LET distance(n) == {Ahead(r, h) : h \in Points(n)}
                        nearest == CHOOSE d \in 0 .. HashSpace - 1 :
                                     IsLeast(d, UNION {distance(n) : n \in AddedNodes})
                        last == CHOOSE i \in DOMAIN added :
                                  /\ nearest \in distance(added[i])
                                  /\ \A j \in DOMAIN added : nearest \in distance(added[j]) => j <= i
                    IN  RouteRoom(r) = added[last]
  BY DEF RoutesClockwise
<1> DEFINE distance(n) == {Ahead(r, h) : h \in Points(n)}
           distances == UNION {distance(n) : n \in AddedNodes}
           nearest == CHOOSE d \in 0 .. HashSpace - 1 : IsLeast(d, distances)
           IsLast(i) == /\ nearest \in distance(added[i])
                        /\ \A j \in DOMAIN added : nearest \in distance(added[j]) => j <= i
           t == TargetVNode(r)
<1>1. \A i \in DOMAIN added : added[i] \in Gateways /\ i \in Nat
  BY DEF RingTyped
<1>2. 1 \in DOMAIN added
  BY DEF RingTyped
<1>3. ring # {}
  BY <1>1, <1>2, PointsAreHashes DEF OwnersOK
<1>4. t \in ring /\ RouteRoom(r) = vNodeToNode[t]
  BY <1>3, TargetIsLeast, RouteIsOwner
<1>5. PICK i \in DOMAIN added :
        /\ t \in Points(added[i]) /\ vNodeToNode[t] = added[i]
        /\ \A j \in DOMAIN added : t \in Points(added[j]) => j <= i
  BY <1>4 DEF OwnersOK
<1>6. \A d : d \in distances <=> \E j \in DOMAIN added : d \in distance(added[j])
  BY DEF AddedNodes
<1>7. \A j \in DOMAIN added : \A h \in Points(added[j]) :
        /\ Ahead(r, t) \in Hash /\ Ahead(r, h) \in Hash /\ Ahead(r, t) <= Ahead(r, h)
        /\ Ahead(r, t) = Ahead(r, h) => h = t
  BY TargetIsNearest DEF OwnersOK
<1>8. distances \in SUBSET Hash /\ IsLeast(Ahead(r, t), distances)
  BY <1>5, <1>6, <1>7 DEF IsLeast
<1>9. nearest = Ahead(r, t)
  <2>1. Ahead(r, t) \in 0 .. HashSpace - 1
    BY <1>5, <1>7 DEF Hash
  <2>2. IsLeast(nearest, distances)
    BY <1>8, <2>1
  <2> QED
    BY <1>8, <2>2, LeastIsOne
<1>10. \A j \in DOMAIN added : nearest \in distance(added[j]) <=> t \in Points(added[j])
  BY <1>7, <1>9
<1> HIDE DEF nearest, distance, t
<1>11. IsLast(i)
  BY <1>5, <1>10
<1>12. \A j \in DOMAIN added : IsLast(j) => j = i
  BY <1>1, <1>5, <1>11
<1>13. (CHOOSE j \in DOMAIN added : IsLast(j)) = i
  BY <1>11, <1>12
<1> QED
  BY <1>4, <1>5, <1>13 DEF nearest, distance

(***************************************************************************)
(* RouteRoom sends a room to the node nearest clockwise, and of nodes that *)
(* share its point to the one added last, for every hash function and      *)
(* every order of additions (AddNode, RouteRoom).                          *)
(***************************************************************************)
THEOREM RoutesAreClockwise == RingSpec => []RoutesClockwise
<1>1. RingInit => OwnersOK
  BY DEF RingInit, OwnersOK
<1>2. RingTyped /\ OwnersOK /\ [RingNext]_ringVars => OwnersOK'
  <2> SUFFICES ASSUME RingTyped, OwnersOK, [RingNext]_ringVars PROVE OwnersOK'
    OBVIOUS
  <2>1. ASSUME NEW n \in Gateways, Add(n) PROVE OwnersOK'
    BY <2>1, AddKeepsOwners
  <2>2. CASE (\E r \in Rooms : HandleWebSocketProxy(r)) \/ UNCHANGED ringVars
    <3>1. /\ ring' = ring /\ vNodeToNode' = vNodeToNode /\ added' = added /\ vHash' = vHash
      BY <2>2 DEF HandleWebSocketProxy, ringVars, hashes
    <3>2. \A n : Points(n)' = Points(n)
      BY <3>1 DEF Points
    <3> QED
      BY <3>1, <3>2 DEF OwnersOK
  <2> QED
    BY <2>1, <2>2 DEF RingNext
<1>3. RingTyped /\ OwnersOK => RoutesClockwise
  BY OwnersRoute
<1> QED
  BY <1>1, <1>2, <1>3, RingAlwaysTyped, PTL DEF RingSpec
-----------------------------------------------------------------------------
(***************************************************************************)
(* The tokens, for any length of a second and of a token's life, and any   *)
(* difference between the clocks of the two hosts.                         *)
(***************************************************************************)
Tokens == [claims : Claims, at : Nat, by : [email : Inputs, password : Inputs]]
Texts == [text : {"admin123", "user123"}]

\* A token that was judged is one of auth-service, or nothing that it will
\* ever issue.
TokensInv ==
  /\ time \in Nat /\ skew \in Int
  /\ issued \subseteq Tokens /\ \A t \in issued : t.claims.exp = Unix(t.at) + Life
  /\ \A r \in replies : r.jwtToken \in Texts
  /\ judged # None => judged.token \in issued \union Texts
  /\ TokensLiveTwoHours

LEMMA TextsAreNoTokens == Tokens \intersect Texts = {}
<1> SUFFICES ASSUME NEW t \in Tokens, t \in Texts PROVE FALSE
  OBVIOUS
<1>1. DOMAIN t = {"claims", "at", "by"}
  BY DEF Tokens
<1>2. DOMAIN t = {"text"}
  BY DEF Texts
<1> QED
  BY <1>1, <1>2

\* Whole seconds of a clock.
LEMMA UnixBounds ==
  ASSUME NEW t \in Int
  PROVE  /\ Unix(t) \in Int
         /\ Unix(t) * Second <= t /\ t < Unix(t) * Second + Second
BY TokenAssumption DEF Unix

LEMMA SecondsAreMonotone ==
  ASSUME NEW m \in Int, NEW n \in Int, m <= n
  PROVE  m * Second <= n * Second
BY TokenAssumption

\* What the gateway decides of a token of auth-service.
LEMMA JudgedInTime ==
  ASSUME NEW at \in Int, NEW now \in Int, NEW ahead \in Int
  PROVE  IF Unix(now + ahead) > Unix(at) + Life
         THEN now - at > Life * Second - ahead
         ELSE now - at < (Life + 1) * Second - ahead
<1> DEFINE u == Unix(at)
           v == Unix(now + ahead)
<1>1. Second \in Int /\ Life \in Int /\ Second > 0
  BY TokenAssumption
<1>2. u \in Int /\ u * Second <= at /\ at < u * Second + Second
  BY UnixBounds
<1>3. v \in Int /\ v * Second <= now + ahead /\ now + ahead < v * Second + Second
  BY UnixBounds
<1> HIDE DEF u, v
<1>4. /\ (u + Life) * Second = u * Second + Life * Second
      /\ (u + Life + 1) * Second = u * Second + Life * Second + Second
      /\ (Life + 1) * Second = Life * Second + Second
      /\ u * Second \in Int /\ v * Second \in Int /\ Life * Second \in Int
  BY <1>1, <1>2, <1>3
<1>5. CASE v > u + Life
  <2>1. (u + Life + 1) * Second <= v * Second
    BY <1>1, <1>2, <1>3, <1>5, SecondsAreMonotone
  <2>2. now - at > Life * Second - ahead
    BY <1>1, <1>2, <1>3, <1>4, <2>1
  <2> QED
    BY <1>5, <2>2 DEF u, v
<1>6. CASE ~ (v > u + Life)
  <2>1. v * Second <= (u + Life) * Second
    BY <1>1, <1>2, <1>3, <1>6, SecondsAreMonotone
  <2>2. now - at < (Life + 1) * Second - ahead
    BY <1>1, <1>2, <1>3, <1>4, <2>1
  <2> QED
    BY <1>6, <2>2 DEF u, v
<1> QED
  BY <1>5, <1>6

LEMMA TokensStart == TokenInit => TokensInv
BY TokenAssumption DEF TokenInit, TokensInv, TokensLiveTwoHours

LEMMA ProfilesOfUsers ==
  /\ \A u \in DOMAIN BootstrapMockProfiles :
       u \in {"user_david", "user_employee"} /\ BootstrapMockProfiles[u].role \in {"ORGANIZER", "EMPLOYEE"}
  /\ \A u \in DOMAIN BootstrapScyllaTables : BootstrapScyllaTables[u].password \in {"admin123", "user123"}
<1>1. /\ DOMAIN BootstrapMockProfiles = {"user_david", "user_employee"}
      /\ DOMAIN BootstrapScyllaTables = {"user_david", "user_employee"}
  BY DEF BootstrapMockProfiles, BootstrapScyllaTables
<1>2. /\ BootstrapMockProfiles["user_david"].role = "ORGANIZER"
      /\ BootstrapMockProfiles["user_employee"].role = "EMPLOYEE"
  BY DEF BootstrapMockProfiles
<1>3. /\ BootstrapScyllaTables["user_david"].password = "admin123"
      /\ BootstrapScyllaTables["user_employee"].password = "user123"
  BY DEF BootstrapScyllaTables
<1> QED
  BY <1>1, <1>2, <1>3

LEMMA LoginKeepsTokens ==
  ASSUME TokensInv, NEW email \in Inputs, NEW password \in Inputs, LoginSubscriber(email, password)
  PROVE  TokensInv'
<1>1. PICK u \in Authenticated(email, password) :
        issued' = issued \union
          {[claims |-> GenerateHmacJwt(u, Unix(time) + Life), at |-> time,
            by |-> [email |-> email, password |-> password]]}
  BY DEF LoginSubscriber
<1>2. UNCHANGED <<time, skew, replies, judged>>
  BY DEF LoginSubscriber
<1> DEFINE claims == GenerateHmacJwt(u, Unix(time) + Life)
           token == [claims |-> claims, at |-> time, by |-> [email |-> email, password |-> password]]
<1>3. Unix(time) + Life \in Int
  BY UnixBounds, TokenAssumption DEF TokensInv
<1>4. claims \in Claims /\ claims.exp = Unix(time) + Life
  <2>1. /\ u \in {"user_david", "user_employee"} /\ BootstrapMockProfiles[u].email \in Inputs
        /\ BootstrapMockProfiles[u].role \in {"ORGANIZER", "EMPLOYEE"}
    BY ProfilesOfUsers DEF Authenticated
  <2> QED
    BY <1>3, <2>1 DEF GenerateHmacJwt, Claims
<1>5. token \in Tokens /\ token.claims.exp = Unix(token.at) + Life
  <2> HIDE DEF claims
  <2> QED
    BY <1>4 DEF Tokens, TokensInv
<1> HIDE DEF claims, token
<1>6. issued' = issued \union {token}
  BY <1>1 DEF token, claims
<1>7. judged.token \in issued' => judged.token \in issued \/ judged = None
  BY <1>5, <1>6, TextsAreNoTokens DEF TokensInv
<1> QED
  BY <1>2, <1>5, <1>6, <1>7 DEF TokensInv, TokensLiveTwoHours

LEMMA SprLoginKeepsTokens ==
  ASSUME TokensInv, NEW email \in Inputs, SprLoginSubscriber(email)
  PROVE  TokensInv'
<1>1. \A u \in DOMAIN BootstrapScyllaTables : Text(BootstrapScyllaTables[u].password) \in Texts
  BY ProfilesOfUsers DEF Text, Texts
<1>2. \A r \in replies' : r.jwtToken \in Texts
  <2>1. PICK u \in DOMAIN BootstrapScyllaTables :
          replies' = replies \union {[email |-> email, jwtToken |-> Text(BootstrapScyllaTables[u].password)]}
    BY DEF SprLoginSubscriber, GetProfileByEmail
  <2> QED
    BY <1>1, <2>1 DEF TokensInv
<1> QED
  BY <1>2 DEF SprLoginSubscriber, TokensInv, TokensLiveTwoHours

LEMMA ValidateKeepsTokens ==
  ASSUME TokensInv, NEW token \in issued \union {r.jwtToken : r \in replies},
         ValidateAndParseJwt(token)
  PROVE  TokensInv'
<1>1. /\ judged' = [token |-> token, at |-> time,
                    claims |-> IF token \notin issued \/ Expired(token.claims)
                               THEN None ELSE token.claims]
      /\ UNCHANGED <<time, skew, issued, replies>>
  BY DEF ValidateAndParseJwt
<1>2. judged'.token = token /\ token \in issued \union Texts
  BY <1>1 DEF TokensInv
<1>3. ASSUME token \in issued
      PROVE  IF judged'.claims = None THEN judged'.at - token.at > Life * Second - skew
                                      ELSE judged'.at - token.at < (Life + 1) * Second - skew
  <2>1. token \in Tokens /\ token.claims.exp = Unix(token.at) + Life /\ time \in Nat /\ skew \in Int
    BY <1>3 DEF TokensInv
  <2>2. token.at \in Int /\ token.claims # None
    BY <2>1, TokenAssumption DEF Tokens
  <2>3. judged'.claims = None <=> Unix(time + skew) > Unix(token.at) + Life
    BY <1>1, <1>3, <2>1, <2>2 DEF Expired
  <2>4. judged'.at = time
    BY <1>1
  <2> QED
    BY <2>1, <2>2, <2>3, <2>4, JudgedInTime
<1> QED
  BY <1>1, <1>2, <1>3 DEF TokensInv, TokensLiveTwoHours

(***************************************************************************)
(* ValidateAndParseJwt accepts a token of AuthenticateUser for its two     *)
(* hours and less than a second more, by the gateway's clock, whatever a   *)
(* second, the life of a token and the skew of the clocks are.             *)
(***************************************************************************)
THEOREM TokensLastTwoHours == TokenSpec => []TokensLiveTwoHours
<1>1. TokensInv /\ [TokenNext]_tokenVars => TokensInv'
  <2> SUFFICES ASSUME TokensInv, [TokenNext]_tokenVars PROVE TokensInv'
    OBVIOUS
  <2>1. CASE Elapse
    BY <2>1 DEF Elapse, TokensInv, TokensLiveTwoHours
  <2>2. CASE UNCHANGED tokenVars
    BY <2>2 DEF tokenVars, TokensInv, TokensLiveTwoHours
  <2> QED
    BY <2>1, <2>2, LoginKeepsTokens, SprLoginKeepsTokens, ValidateKeepsTokens DEF TokenNext
<1>2. TokensInv => TokensLiveTwoHours
  BY DEF TokensInv
<1> QED
  BY TokensStart, <1>1, <1>2, PTL DEF TokenSpec
-----------------------------------------------------------------------------
(***************************************************************************)
(* The mesh of the browsers.  No frame is twice in a sequence, so that the *)
(* sequences can be read as the sets of frames that are on their way.      *)
(***************************************************************************)
Outbox(p) == Range(up[p])
Inbox(p) == Range(down[p])
Distinct(s) == \A i, j \in DOMAIN s : s[i] = s[j] => i = j

Others(p) == Peers \ {p}
OutFrames(p) == {Join(p)} \union {Frame(type, q) : type \in {"offer", "answer"}, q \in Others(p)}
InFrames(p) ==
  {Welcome(p, list) : list \in SUBSET Others(p)}
    \union {Frame(type, q) : type \in {"peer-joined", "peer-left", "offer", "answer"},
                             q \in Others(p)}

\* Nothing is in the empty sequence.
LEMMA NothingInEmpty == Range(<<>>) = {} /\ Distinct(<<>>)
BY DEF Range, Distinct

\* A frame that is not in a sequence can be appended to it.
LEMMA AppendedFrame ==
  ASSUME NEW S, NEW s \in Seq(S), NEW f \in S, Distinct(s), f \notin Range(s)
  PROVE  /\ Append(s, f) \in Seq(S) /\ Distinct(Append(s, f))
         /\ Range(Append(s, f)) = Range(s) \union {f}
<1>1. /\ Append(s, f) \in Seq(S) /\ Len(Append(s, f)) = Len(s) + 1 /\ Len(s) \in Nat
      /\ Append(s, f)[Len(s) + 1] = f
      /\ \A i \in 1 .. Len(s) : Append(s, f)[i] = s[i]
      /\ DOMAIN s = 1 .. Len(s) /\ DOMAIN Append(s, f) = 1 .. Len(s) + 1
  BY AppendProperties, LenProperties
<1>2. Range(Append(s, f)) = Range(s) \union {f}
  BY <1>1 DEF Range
<1>3. Distinct(Append(s, f))
  <2> SUFFICES ASSUME NEW i \in 1 .. Len(s) + 1, NEW j \in 1 .. Len(s) + 1,
                      Append(s, f)[i] = Append(s, f)[j]
               PROVE  i = j
    BY <1>1 DEF Distinct
  <2>1. CASE i \in 1 .. Len(s) /\ j \in 1 .. Len(s)
    BY <1>1, <2>1 DEF Distinct
  <2>2. \A k \in 1 .. Len(s) : Append(s, f)[k] # f
    BY <1>1 DEF Range
  <2>3. CASE i = Len(s) + 1 \/ j = Len(s) + 1
    BY <1>1, <2>2, <2>3
  <2> QED
    BY <1>1, <2>1, <2>3
<1> QED
  BY <1>1, <1>2, <1>3

\* Taking the head of a sequence takes the frame from it.
LEMMA TakenFrame ==
  ASSUME NEW S, NEW s \in Seq(S), s # <<>>, Distinct(s)
  PROVE  /\ Head(s) \in S /\ Head(s) \in Range(s)
         /\ Tail(s) \in Seq(S) /\ Distinct(Tail(s))
         /\ Range(Tail(s)) = Range(s) \ {Head(s)}
<1>1. Len(s) \in Nat /\ Len(s) # 0 /\ DOMAIN s = 1 .. Len(s)
  BY EmptySeq, LenProperties
<1>2. /\ Tail(s) \in Seq(S) /\ Head(s) \in S /\ Len(Tail(s)) = Len(s) - 1 /\ Head(s) = s[1]
      /\ DOMAIN Tail(s) = 1 .. Len(s) - 1
      /\ \A i \in 1 .. Len(s) - 1 : Tail(s)[i] = s[i + 1]
  BY <1>1, HeadTailProperties, LenProperties
<1>3. \A i \in 1 .. Len(s) : s[i] = s[1] => i = 1
  BY <1>1 DEF Distinct
<1>4. Range(Tail(s)) = Range(s) \ {Head(s)}
  <2>1. ASSUME NEW i \in 1 .. Len(s) - 1 PROVE Tail(s)[i] \in Range(s) \ {Head(s)}
    BY <1>1, <1>2, <1>3 DEF Range
  <2>2. ASSUME NEW f \in Range(s) \ {Head(s)} PROVE f \in Range(Tail(s))
    <3>1. PICK i \in 1 .. Len(s) : f = s[i]
      BY <1>1 DEF Range
    <3>2. i - 1 \in 1 .. Len(s) - 1 /\ Tail(s)[i - 1] = f
      BY <1>1, <1>2, <2>2, <3>1
    <3> QED
      BY <1>2, <3>2 DEF Range
  <2> QED
    BY <1>2, <2>1, <2>2 DEF Range
<1>5. Distinct(Tail(s))
  <2> SUFFICES ASSUME NEW i \in 1 .. Len(s) - 1, NEW j \in 1 .. Len(s) - 1,
                      Tail(s)[i] = Tail(s)[j]
               PROVE  i = j
    BY <1>2 DEF Distinct
  <2>1. s[i + 1] = s[j + 1] /\ i + 1 \in 1 .. Len(s) /\ j + 1 \in 1 .. Len(s)
    BY <1>1, <1>2
  <2> QED
    BY <1>1, <2>1 DEF Distinct
<1>6. Head(s) \in Range(s)
  BY <1>1, <1>2 DEF Range
<1> QED
  BY <1>2, <1>4, <1>5, <1>6
-----------------------------------------------------------------------------
InTyped == /\ DOMAIN down = Peers
           /\ \A p \in Peers : down[p] \in Seq(InFrames(p)) /\ Distinct(down[p])
OutTyped == /\ DOMAIN up = Peers
            /\ \A p \in Peers : up[p] \in Seq(OutFrames(p)) /\ Distinct(up[p])

\* Where a page and its handler are, together.
PagesServed ==
  \A p \in Peers :
    /\ page[p] = "shut" <=> handler[p] = "none"
    /\ page[p] = "open" => p \in conns
    /\ handler[p] \in {"leaving", "done"} => page[p] = "gone"
    /\ page[p] # "open" => todo[p] = {} /\ \A q \in Peers : pcs[p][q] = "none"
    /\ p \notin conns => up[p] = <<>>
    /\ p \notin roster[p]
    /\ p \notin todo[p]

\* A page is welcomed once, and before that it calls nobody.
Welcomed(p) == \E f \in Inbox(p) : f.type = "welcome"
WelcomedOnce ==
  \A p \in Peers :
    /\ Join(p) \in Outbox(p) => handler[p] = "reading" /\ ~ Welcomed(p) /\ todo[p] = {}
    /\ roster[p] # {} => handler[p] = "welcoming"
    /\ handler[p] = "welcoming" => ~ Welcomed(p) /\ todo[p] = {}
    /\ Welcomed(p) => todo[p] = {}
    /\ \A f, g \in Inbox(p) : f.type = "welcome" /\ g.type = "welcome" => f = g

\* The join of q is on its way, or not announced yet.
Underway(q) == handler[q] \in {"welcoming", "announcing"} \/ Join(q) \in Outbox(q)

\* A join is announced once, and a leave at the very end.
AnnouncedOnce ==
  \A p, q \in Peers :
    /\ Frame("peer-joined", p) \in Inbox(q) => page[p] # "shut" /\ ~ Underway(p)
    /\ Frame("peer-left", p) \in Inbox(q) => handler[p] = "done"

(***************************************************************************)
(* The call of q by p and its answer go through these stages, and are in   *)
(* one of them at a time.                                                  *)
(***************************************************************************)
InWelcome(p, q) == \E f \in Inbox(p) : f.type = "welcome" /\ q \in f.list
CallAhead(p, q) == \/ page[p] = "shut" \/ Join(p) \in Outbox(p) \/ q \in roster[p]
               \/ InWelcome(p, q) \/ q \in todo[p]
OfferOut(p, q) == Frame("offer", q) \in Outbox(p) \/ Frame("offer", p) \in Inbox(q)
AnswerOut(q, p) == Frame("answer", p) \in Outbox(q) \/ Frame("answer", q) \in Inbox(p)
Answers(q, p) == pcs[q][p] \in {"answering", "answerer"}

CallsOnce ==
  \A p \in Peers : \A q \in Others(p) :
    /\ CallAhead(p, q) => /\ pcs[p][q] \notin {"calling", "offering", "offerer"}
                      /\ ~ OfferOut(p, q) /\ ~ Answers(q, p) /\ ~ AnswerOut(q, p)
    /\ pcs[p][q] = "calling" => ~ OfferOut(p, q) /\ ~ Answers(q, p) /\ ~ AnswerOut(q, p)
    /\ OfferOut(p, q) => ~ Answers(q, p) /\ ~ AnswerOut(q, p)
    /\ ~ (Frame("offer", q) \in Outbox(p) /\ Frame("offer", p) \in Inbox(q))
    /\ pcs[q][p] = "answering" => ~ AnswerOut(q, p)
    /\ ~ (Frame("answer", p) \in Outbox(q) /\ Frame("answer", q) \in Inbox(p))

\* Between two that are not gone an answer on its way, and the one that made
\* an offerer, are those of an answerer.
Stays(p) == page[p] # "gone"
AnswersStand ==
  \A p \in Peers : \A q \in Others(p) :
    /\ Stays(p) /\ Stays(q)
    /\ AnswerOut(q, p) \/ pcs[p][q] = "offerer"
    => pcs[q][p] = "answerer"

MeshInv == /\ TypeOK /\ InTyped /\ OutTyped /\ PagesServed /\ WelcomedOnce /\ AnnouncedOnce
           /\ CallsOnce /\ AnswersStand
-----------------------------------------------------------------------------
(***************************************************************************)
(* What a step does to the frames on their way.                            *)
(***************************************************************************)
\* Frames are the same only if their types and peers are.
LEMMA FrameFacts ==
  /\ \A t, q : Frame(t, q).type = t /\ Frame(t, q).peer = q
  /\ \A t, q, t2, q2 : Frame(t, q) = Frame(t2, q2) => t = t2 /\ q = q2
  /\ \A p, list : Welcome(p, list).type = "welcome" /\ Welcome(p, list).list = list
                  /\ Welcome(p, list).peer = p
  /\ \A p, list, t, q : t # "welcome" => Welcome(p, list) # Frame(t, q)
  /\ \A p : Join(p) = Frame("join", p)
BY DEF Frame, Welcome, Join

\* Only a welcome lists participants.
LEMMA FramesHaveNoList == \A t, q : Frame(t, q).list = {}
BY DEF Frame

\* What a page can find in its socket, ...
LEMMA KindsOfIn ==
  ASSUME NEW p \in Peers, NEW f \in InFrames(p)
  PROVE  /\ f.type = "welcome" => f = Welcome(p, f.list) /\ f.list \in SUBSET Others(p)
         /\ f.type # "welcome" => f = Frame(f.type, f.peer) /\ f.peer \in Others(p)
BY DEF InFrames, Frame, Welcome

\* ... and the handler in its own.
LEMMA KindsOfOut ==
  ASSUME NEW p \in Peers, NEW f \in OutFrames(p)
  PROVE  /\ f.type = "join" => f = Join(p)
         /\ f.type # "join" => f = Frame(f.type, f.peer) /\ f.peer \in Others(p)
BY DEF OutFrames, Frame, Join

\* Every frame of another peer may be in the sequences of a peer.
LEMMA FramesOfPeers ==
  ASSUME NEW p \in Peers, NEW q \in Others(p)
  PROVE  /\ p \in Others(q) /\ q \in Peers /\ p # q
         /\ \A type \in {"peer-joined", "peer-left", "offer", "answer"} :
              Frame(type, q) \in InFrames(p)
         /\ \A type \in {"offer", "answer"} : Frame(type, q) \in OutFrames(p)
BY DEF Others, InFrames, OutFrames

InboxesSame == \A r \in Peers : Inbox(r)' = Inbox(r)
OutboxesSame == \A r \in Peers : Outbox(r)' = Outbox(r)
InboxesGet(ps, f) ==
  \A r \in Peers : Inbox(r)' = IF r \in ps /\ page[r] = "open" THEN Inbox(r) \union {f}
                                                               ELSE Inbox(r)
InboxLoses(p, f) ==
  \A r \in Peers : Inbox(r)' = IF r = p THEN Inbox(r) \ {f} ELSE Inbox(r)
OutboxGets(p, f) ==
  \A r \in Peers : Outbox(r)' = IF r = p THEN Outbox(r) \union {f} ELSE Outbox(r)
OutboxLoses(p, f) ==
  \A r \in Peers : Outbox(r)' = IF r = p THEN Outbox(r) \ {f} ELSE Outbox(r)

\* Sequences that stay have the same frames.
LEMMA SameInboxes == ASSUME UNCHANGED down PROVE InboxesSame
BY DEF InboxesSame, Inbox

\* Likewise on the way to the handlers.
LEMMA SameOutboxes == ASSUME UNCHANGED up PROVE OutboxesSame
BY DEF OutboxesSame, Outbox

\* A frame that is written gets to the open pages of the set.
LEMMA WrittenFrames ==
  ASSUME InTyped, NEW ps, NEW f, down' = Written(ps, f),
         \A q \in Peers : q \in ps /\ page[q] = "open" => f \in InFrames(q) /\ f \notin Inbox(q)
  PROVE  InTyped' /\ InboxesGet(ps, f)
<1>1. \A q \in Peers : down'[q] = IF q \in ps /\ page[q] = "open" THEN Append(down[q], f)
                                                                 ELSE down[q]
  BY DEF Written
<1>2. ASSUME NEW q \in Peers
      PROVE  /\ down'[q] \in Seq(InFrames(q)) /\ Distinct(down'[q])
             /\ Range(down'[q]) = IF q \in ps /\ page[q] = "open" THEN Range(down[q]) \union {f}
                                                                  ELSE Range(down[q])
  <2>1. CASE q \in ps /\ page[q] = "open"
    <3>1. /\ f \in InFrames(q) /\ f \notin Range(down[q]) /\ down[q] \in Seq(InFrames(q))
          /\ Distinct(down[q])
      BY <2>1 DEF InTyped, Inbox
    <3>2. /\ Append(down[q], f) \in Seq(InFrames(q)) /\ Distinct(Append(down[q], f))
          /\ Range(Append(down[q], f)) = Range(down[q]) \union {f}
      BY <3>1, AppendedFrame
    <3> QED
      BY <1>1, <2>1, <3>2
  <2>2. CASE ~ (q \in ps /\ page[q] = "open")
    BY <1>1, <2>2 DEF InTyped
  <2> QED
    BY <2>1, <2>2
<1> QED
  BY <1>2 DEF InTyped, InboxesGet, Inbox, Written

\* A page takes one frame from its socket.
LEMMA TakenFrames ==
  ASSUME InTyped, NEW p \in Peers, NEW type, Takes(p, type)
  PROVE  /\ InTyped' /\ InboxLoses(p, Head(down[p]))
         /\ Head(down[p]) \in Inbox(p) /\ Head(down[p]) \in InFrames(p)
         /\ Head(down[p]).type = type /\ page[p] = "open"
<1>1. /\ down[p] \in Seq(InFrames(p)) /\ down[p] # <<>> /\ Distinct(down[p]) /\ page[p] = "open"
      /\ down' = [down EXCEPT ![p] = Tail(down[p])] /\ DOMAIN down = Peers
      /\ Head(down[p]).type = type
  BY DEF Takes, InTyped
<1>2. /\ Head(down[p]) \in InFrames(p) /\ Head(down[p]) \in Range(down[p])
      /\ Tail(down[p]) \in Seq(InFrames(p)) /\ Distinct(Tail(down[p]))
      /\ Range(Tail(down[p])) = Range(down[p]) \ {Head(down[p])}
  BY <1>1, TakenFrame
<1>3. \A q \in Peers : down'[q] = IF q = p THEN Tail(down[p]) ELSE down[q]
  BY <1>1
<1> QED
  BY <1>1, <1>2, <1>3 DEF InTyped, InboxLoses, Inbox

\* A page sends a frame.
LEMMA SentFrames ==
  ASSUME OutTyped, NEW p \in Peers, NEW f \in OutFrames(p), f \notin Outbox(p),
         up' = [up EXCEPT ![p] = Append(@, f)]
  PROVE  OutTyped' /\ OutboxGets(p, f)
<1>1. /\ up[p] \in Seq(OutFrames(p)) /\ Distinct(up[p]) /\ DOMAIN up = Peers
      /\ f \notin Range(up[p])
      /\ \A q \in Peers : up'[q] = IF q = p THEN Append(up[p], f) ELSE up[q]
  BY DEF OutTyped, Outbox
<1>2. /\ Append(up[p], f) \in Seq(OutFrames(p)) /\ Distinct(Append(up[p], f))
      /\ Range(Append(up[p], f)) = Range(up[p]) \union {f}
  BY <1>1, AppendedFrame
<1> QED
  BY <1>1, <1>2 DEF OutTyped, OutboxGets, Outbox

\* A handler takes one frame from its socket.
LEMMA ConsumedFrames ==
  ASSUME OutTyped, NEW p \in Peers, up[p] # <<>>, Consumed(p)
  PROVE  /\ OutTyped' /\ OutboxLoses(p, NextFrame(p))
         /\ NextFrame(p) \in Outbox(p) /\ NextFrame(p) \in OutFrames(p)
<1>1. /\ up[p] \in Seq(OutFrames(p)) /\ up[p] # <<>> /\ Distinct(up[p]) /\ DOMAIN up = Peers
      /\ up' = [up EXCEPT ![p] = Tail(up[p])] /\ NextFrame(p) = Head(up[p])
  BY DEF Consumed, OutTyped, NextFrame
<1>2. /\ Head(up[p]) \in OutFrames(p) /\ Head(up[p]) \in Range(up[p])
      /\ Tail(up[p]) \in Seq(OutFrames(p)) /\ Distinct(Tail(up[p]))
      /\ Range(Tail(up[p])) = Range(up[p]) \ {Head(up[p])}
  BY <1>1, TakenFrame
<1>3. \A q \in Peers : up'[q] = IF q = p THEN Tail(up[p]) ELSE up[q]
  BY <1>1
<1> QED
  BY <1>1, <1>2, <1>3 DEF OutTyped, OutboxLoses, Outbox

\* The state of one connection of a page changes.
Changes(p, q, state) ==
  \A r, s \in Peers : pcs'[r][s] = IF r = p /\ s = q THEN state ELSE pcs[r][s]

\* Becomes is about one connection.
LEMMA BecomesChanges ==
  ASSUME TypeOK, NEW p \in Peers, NEW q \in Peers, NEW state \in States, Becomes(p, q, state)
  PROVE  pcs' \in [Peers -> [Peers -> States]] /\ Changes(p, q, state)
BY DEF TypeOK, Becomes, Changes

\* A frame of a peer is taken by the page that knows it as q.
LEMMA PeerFrameTaken ==
  ASSUME MeshInv, NEW p \in Peers, NEW type \in {"peer-joined", "peer-left", "offer", "answer"},
         Takes(p, type)
  PROVE  /\ Sender(p) \in Others(p) /\ Sender(p) \in Peers /\ Sender(p) # p
         /\ Frame(type, Sender(p)) \in Inbox(p) /\ InboxLoses(p, Frame(type, Sender(p)))
         /\ InTyped' /\ page[p] = "open"
<1>1. /\ InTyped' /\ InboxLoses(p, Head(down[p])) /\ Head(down[p]) \in Inbox(p)
      /\ Head(down[p]) \in InFrames(p) /\ Head(down[p]).type = type /\ page[p] = "open"
  BY TakenFrames DEF MeshInv
<1>2. Head(down[p]) = Frame(type, Sender(p)) /\ Sender(p) \in Others(p)
  BY <1>1, KindsOfIn DEF Sender
<1> QED
  BY <1>1, <1>2 DEF Others

\* The relay takes one offer or answer from the sequence of its sender and
\* writes it to the target, if that is registered.
LEMMA RelayMoves ==
  ASSUME MeshInv, NEW p \in Peers, Relay(p)
  PROVE  /\ InTyped' /\ OutTyped' /\ handler[p] = "reading"
         /\ UNCHANGED <<conns, handler, roster, page, todo, pcs, overlaps>>
         /\ \E q \in Others(p), type \in {"offer", "answer"} :
              /\ Frame(type, q) \in Outbox(p) /\ OutboxLoses(p, Frame(type, q))
              /\ InboxesGet({q} \intersect conns, Frame(type, p))
<1>1. /\ handler[p] = "reading" /\ up[p] # <<>> /\ Consumed(p)
      /\ NextFrame(p).type \in {"offer", "answer"}
      /\ down' = Written({NextFrame(p).peer} \intersect conns, Frame(NextFrame(p).type, p))
      /\ UNCHANGED <<conns, handler, roster, page, todo, pcs, overlaps>>
  BY DEF Relay, gateway, client
<1>2. /\ OutTyped' /\ OutboxLoses(p, NextFrame(p))
      /\ NextFrame(p) \in Outbox(p) /\ NextFrame(p) \in OutFrames(p)
  BY <1>1, ConsumedFrames DEF MeshInv
<1> DEFINE q == NextFrame(p).peer
           type == NextFrame(p).type
<1>3. NextFrame(p) = Frame(type, q) /\ q \in Others(p) /\ type \in {"offer", "answer"}
  BY <1>1, <1>2, KindsOfOut
<1>4. Frame(type, p) \in InFrames(q) /\ Frame(type, p) \notin Inbox(q)
  <2>3. Frame(type, q) \in Outbox(p)
    BY <1>2, <1>3
  <2> HIDE DEF q, type
  <2>1. p \in Others(q) /\ q \in Peers
    BY <1>3, FramesOfPeers
  <2>2. Frame(type, p) \in InFrames(q)
    BY <1>3, <2>1, FramesOfPeers
  <2>4. CASE type = "offer"
    BY <1>3, <2>2, <2>3, <2>4 DEF MeshInv, CallsOnce
  <2>5. CASE type = "answer"
    BY <1>3, <2>1, <2>2, <2>3, <2>5 DEF MeshInv, CallsOnce
  <2> QED
    BY <1>3, <2>2, <2>4, <2>5
<1>5. InTyped' /\ InboxesGet({q} \intersect conns, Frame(type, p))
  <2> HIDE DEF q, type
  <2>1. down' = Written({q} \intersect conns, Frame(type, p))
    BY <1>1 DEF q, type
  <2> QED
    BY <1>4, <2>1, WrittenFrames DEF MeshInv
<1> HIDE DEF q, type
<1>6. Frame(type, q) \in Outbox(p) /\ OutboxLoses(p, Frame(type, q))
  BY <1>2, <1>3
<1> QED
  BY <1>1, <1>2, <1>3, <1>5, <1>6

\* The frame passes from one side of the handler to the other: the stage of its
\* call stays what it was.
LEMMA RelayKeepsMesh ==
  ASSUME MeshInv, NEW p \in Peers, Relay(p)
  PROVE  MeshInv'
<1>1. /\ InTyped' /\ OutTyped' /\ handler[p] = "reading"
      /\ UNCHANGED <<conns, handler, roster, page, todo, pcs, overlaps>>
  BY RelayMoves
<1>2. PICK q \in Others(p), type \in {"offer", "answer"} :
        /\ Frame(type, q) \in Outbox(p) /\ OutboxLoses(p, Frame(type, q))
        /\ InboxesGet({q} \intersect conns, Frame(type, p))
  BY RelayMoves
<1>3. TypeOK'
  BY <1>1 DEF Relay, MeshInv, TypeOK, Written
<1>4. PagesServed'
  BY <1>1, RelayMoves DEF MeshInv, PagesServed, Relay, Consumed
<1>5. WelcomedOnce'
  BY <1>1, <1>2, FrameFacts DEF MeshInv, WelcomedOnce, OutboxLoses, InboxesGet, Welcomed
<1>6. AnnouncedOnce'
  BY <1>1, <1>2, FrameFacts DEF MeshInv, AnnouncedOnce, OutboxLoses, InboxesGet, Underway
<1>7. CallsOnce'
  BY <1>1, <1>2, FrameFacts DEF MeshInv, CallsOnce, OutboxLoses, InboxesGet, CallAhead,
     OfferOut, AnswerOut, Answers, InWelcome, Others
<1>8. AnswersStand'
  BY <1>1, <1>2, FrameFacts DEF MeshInv, AnswersStand, OutboxLoses, InboxesGet, AnswerOut,
     Stays, Others
<1> QED
  BY <1>1, <1>3, <1>4, <1>5, <1>6, <1>7, <1>8 DEF MeshInv
-----------------------------------------------------------------------------
\* A newcomer finds nothing of its own in the sequences and sends its join.
LEMMA ConnectMoves ==
  ASSUME MeshInv, NEW p \in Peers, Connect(p)
  PROVE  /\ InTyped' /\ OutTyped' /\ InboxesSame /\ OutboxGets(p, Join(p))
         /\ Outbox(p) = {} /\ Inbox(p) = {} /\ page[p] = "shut" /\ p \notin conns
<1>1. /\ page[p] = "shut" /\ up' = [up EXCEPT ![p] = <<Join(p)>>] /\ UNCHANGED down
  BY DEF Connect
<1>2. p \notin conns /\ up[p] = <<>> /\ down[p] = <<>>
  BY <1>1 DEF MeshInv, PagesServed, TypeOK
<1>3. Append(<<>>, Join(p)) = <<Join(p)>> /\ Join(p) \in OutFrames(p) /\ Join(p) \notin Range(<<>>)
  BY NothingInEmpty DEF OutFrames
<1>4. OutTyped' /\ OutboxGets(p, Join(p))
  BY <1>1, <1>2, <1>3, SentFrames DEF MeshInv, Outbox
<1>5. InTyped' /\ InboxesSame
  BY <1>1, SameInboxes DEF MeshInv, InTyped
<1> QED
  BY <1>1, <1>2, <1>4, <1>5, NothingInEmpty DEF Outbox, Inbox

\* A newcomer has not called anybody, and nobody knows it.
LEMMA ConnectKeepsMesh ==
  ASSUME MeshInv, NEW p \in Peers, Connect(p)
  PROVE  MeshInv'
<1>1. /\ InTyped' /\ OutTyped' /\ InboxesSame /\ OutboxGets(p, Join(p))
      /\ Outbox(p) = {} /\ Inbox(p) = {} /\ page[p] = "shut" /\ p \notin conns
  BY ConnectMoves
<1>2. /\ page' = [page EXCEPT ![p] = "open"] /\ conns' = conns \union {p}
      /\ handler' = [handler EXCEPT ![p] = "reading"]
      /\ UNCHANGED <<roster, todo, pcs, down>>
      /\ overlaps' = overlaps \cup {<<p, q>> : q \in {q \in conns : Joining(q)}}
      /\ handler[p] = "none" /\ todo[p] = {}
  BY <1>1 DEF Connect, MeshInv, PagesServed
<1>3. TypeOK'
  BY <1>1, <1>2 DEF MeshInv, TypeOK
<1>4. PagesServed'
  BY <1>1, <1>2 DEF MeshInv, PagesServed, TypeOK, Connect
<1>5. WelcomedOnce'
  BY <1>1, <1>2, FrameFacts DEF MeshInv, WelcomedOnce, OutboxGets, InboxesSame, Welcomed, TypeOK
<1>6. AnnouncedOnce'
  BY <1>1, <1>2, FrameFacts DEF MeshInv, AnnouncedOnce, OutboxGets, InboxesSame, Underway, TypeOK
<1>7. CallsOnce'
  BY <1>1, <1>2, FrameFacts DEF MeshInv, CallsOnce, OutboxGets, InboxesSame, CallAhead, OfferOut,
     AnswerOut, Answers, InWelcome, Others, TypeOK
<1>8. AnswersStand'
  BY <1>1, <1>2, FrameFacts DEF MeshInv, AnswersStand, OutboxGets, InboxesSame, AnswerOut, Stays,
     Others, TypeOK
<1> QED
  BY <1>1, <1>3, <1>4, <1>5, <1>6, <1>7, <1>8 DEF MeshInv

\* The handler takes the join, and writes nothing under the lock.
LEMMA HandleJoinMoves ==
  ASSUME MeshInv, NEW p \in Peers, HandleJoin(p)
  PROVE  /\ InTyped' /\ OutTyped' /\ InboxesSame
         /\ Join(p) \in Outbox(p) /\ OutboxLoses(p, Join(p))
<1>1. /\ up[p] # <<>> /\ Consumed(p) /\ NextFrame(p).type = "join" /\ UNCHANGED down
  BY DEF HandleJoin
<1>2. /\ OutTyped' /\ OutboxLoses(p, NextFrame(p))
      /\ NextFrame(p) \in Outbox(p) /\ NextFrame(p) \in OutFrames(p)
  BY <1>1, ConsumedFrames DEF MeshInv
<1>3. NextFrame(p) = Join(p)
  BY <1>1, <1>2, KindsOfOut
<1>4. InTyped' /\ InboxesSame
  BY <1>1, SameInboxes DEF MeshInv, InTyped
<1> QED
  BY <1>2, <1>3, <1>4

\* The calls of the newcomer pass from its join to the snapshot.
LEMMA HandleJoinKeepsMesh ==
  ASSUME MeshInv, NEW p \in Peers, HandleJoin(p)
  PROVE  MeshInv'
<1>1. /\ InTyped' /\ OutTyped' /\ InboxesSame
      /\ Join(p) \in Outbox(p) /\ OutboxLoses(p, Join(p))
  BY HandleJoinMoves
<1>2. /\ roster' = [roster EXCEPT ![p] = conns \ {p}]
      /\ handler' = [handler EXCEPT ![p] = "welcoming"] /\ handler[p] = "reading"
      /\ UNCHANGED <<conns, page, todo, pcs, down, overlaps>>
  BY DEF HandleJoin, Listed, client
<1>3. TypeOK'
  BY <1>1, <1>2 DEF MeshInv, TypeOK
<1>4. PagesServed'
  BY <1>1, <1>2 DEF MeshInv, PagesServed, TypeOK, HandleJoin, Consumed
<1>5. WelcomedOnce'
  BY <1>1, <1>2, FrameFacts DEF MeshInv, WelcomedOnce, OutboxLoses, InboxesSame, Welcomed, TypeOK
<1>6. AnnouncedOnce'
  BY <1>1, <1>2, FrameFacts DEF MeshInv, AnnouncedOnce, OutboxLoses, InboxesSame, Underway, TypeOK
<1>7. CallsOnce'
  BY <1>1, <1>2, FrameFacts DEF MeshInv, CallsOnce, OutboxLoses, InboxesSame, CallAhead, OfferOut,
     AnswerOut, Answers, InWelcome, Others, TypeOK
<1>8. AnswersStand'
  BY <1>1, <1>2, FrameFacts DEF MeshInv, AnswersStand, OutboxLoses, InboxesSame, AnswerOut, Stays,
     Others, TypeOK
<1> QED
  BY <1>1, <1>3, <1>4, <1>5, <1>6, <1>7, <1>8 DEF MeshInv

\* The only frame written is the welcome of the newcomer.
LEMMA WriteWelcomeMoves ==
  ASSUME MeshInv, NEW p \in Peers, WriteWelcome(p)
  PROVE  /\ InTyped' /\ OutTyped' /\ OutboxesSame /\ roster[p] \in SUBSET Others(p)
         /\ InboxesGet({p}, Welcome(p, roster[p]))
<1>1. /\ handler[p] = "welcoming" /\ down' = Written({p}, Welcome(p, roster[p])) /\ UNCHANGED up
  BY DEF WriteWelcome
<1>2. roster[p] \in SUBSET Others(p)
  BY DEF MeshInv, TypeOK, PagesServed, Others
<1>3. Welcome(p, roster[p]) \in InFrames(p) /\ Welcome(p, roster[p]) \notin Inbox(p)
  BY <1>1, <1>2, FrameFacts DEF MeshInv, WelcomedOnce, Welcomed, InFrames
<1>4. InTyped' /\ InboxesGet({p}, Welcome(p, roster[p]))
  BY <1>1, <1>3, WrittenFrames DEF MeshInv
<1>5. OutTyped' /\ OutboxesSame
  BY <1>1, SameOutboxes DEF MeshInv, OutTyped
<1> QED
  BY <1>2, <1>4, <1>5

\* The calls of the newcomer pass from the snapshot to the welcome.
LEMMA WriteWelcomeKeepsMesh ==
  ASSUME MeshInv, NEW p \in Peers, WriteWelcome(p)
  PROVE  MeshInv'
<1>1. /\ InTyped' /\ OutTyped' /\ OutboxesSame /\ roster[p] \in SUBSET Others(p)
      /\ InboxesGet({p}, Welcome(p, roster[p]))
  BY WriteWelcomeMoves
<1>2. /\ roster' = [roster EXCEPT ![p] = {}]
      /\ handler' = [handler EXCEPT ![p] = "announcing"] /\ handler[p] = "welcoming"
      /\ UNCHANGED <<conns, page, todo, pcs, up, overlaps>>
  BY DEF WriteWelcome, client
<1>3. TypeOK'
  BY <1>1, <1>2 DEF MeshInv, TypeOK, WriteWelcome, Written
<1>4. PagesServed'
  BY <1>1, <1>2 DEF MeshInv, PagesServed, TypeOK
<1>5. WelcomedOnce'
  BY <1>1, <1>2, FrameFacts DEF MeshInv, WelcomedOnce, OutboxesSame, InboxesGet, Welcomed, TypeOK
<1>6. AnnouncedOnce'
  BY <1>1, <1>2, FrameFacts DEF MeshInv, AnnouncedOnce, OutboxesSame, InboxesGet, Underway, TypeOK
<1>7. CallsOnce'
  BY <1>1, <1>2, FrameFacts DEF MeshInv, CallsOnce, OutboxesSame, InboxesGet, CallAhead, OfferOut,
     AnswerOut, Answers, InWelcome, Others, TypeOK
<1>8. AnswersStand'
  BY <1>1, <1>2, FrameFacts DEF MeshInv, AnswersStand, OutboxesSame, InboxesGet, AnswerOut, Stays,
     Others, TypeOK
<1> QED
  BY <1>1, <1>3, <1>4, <1>5, <1>6, <1>7, <1>8 DEF MeshInv

\* Everybody else that is registered and open gets the news.
LEMMA AnnounceJoinMoves ==
  ASSUME MeshInv, NEW p \in Peers, AnnounceJoin(p)
  PROVE  /\ InTyped' /\ OutTyped' /\ OutboxesSame
         /\ InboxesGet(conns \ {p}, Frame("peer-joined", p))
<1>1. /\ handler[p] = "announcing" /\ UNCHANGED up
      /\ down' = Written(conns \ {p}, Frame("peer-joined", p))
  BY DEF AnnounceJoin
<1>2. ASSUME NEW q \in Peers, q \in conns \ {p}
      PROVE  Frame("peer-joined", p) \in InFrames(q) /\ Frame("peer-joined", p) \notin Inbox(q)
  <2>1. p \in Others(q)
    BY <1>2 DEF Others
  <2>2. Frame("peer-joined", p) \in InFrames(q)
    BY <2>1, FramesOfPeers
  <2> QED
    BY <1>1, <2>2 DEF MeshInv, AnnouncedOnce, Underway
<1>3. InTyped' /\ InboxesGet(conns \ {p}, Frame("peer-joined", p))
  BY <1>1, <1>2, WrittenFrames DEF MeshInv
<1>4. OutTyped' /\ OutboxesSame
  BY <1>1, SameOutboxes DEF MeshInv, OutTyped
<1> QED
  BY <1>3, <1>4

\* The join is over once its news is written, so the news is out once.
LEMMA AnnounceJoinKeepsMesh ==
  ASSUME MeshInv, NEW p \in Peers, AnnounceJoin(p)
  PROVE  MeshInv'
<1>1. /\ InTyped' /\ OutTyped' /\ OutboxesSame
      /\ InboxesGet(conns \ {p}, Frame("peer-joined", p))
  BY AnnounceJoinMoves
<1>2. /\ handler' = [handler EXCEPT ![p] = "reading"] /\ handler[p] = "announcing"
      /\ Join(p) \notin Outbox(p) /\ page[p] # "shut"
      /\ UNCHANGED <<conns, roster, page, todo, pcs, up, overlaps>>
  BY DEF AnnounceJoin, client, MeshInv, WelcomedOnce, PagesServed
<1>3. TypeOK'
  BY <1>1, <1>2 DEF MeshInv, TypeOK, AnnounceJoin, Written
<1>4. PagesServed'
  BY <1>1, <1>2 DEF MeshInv, PagesServed, TypeOK
<1>5. WelcomedOnce'
  BY <1>1, <1>2, FrameFacts DEF MeshInv, WelcomedOnce, OutboxesSame, InboxesGet, Welcomed, TypeOK
<1>6. AnnouncedOnce'
  BY <1>1, <1>2, FrameFacts DEF MeshInv, AnnouncedOnce, OutboxesSame, InboxesGet, Underway, TypeOK
<1>7. CallsOnce'
  BY <1>1, <1>2, FrameFacts DEF MeshInv, CallsOnce, OutboxesSame, InboxesGet, CallAhead, OfferOut,
     AnswerOut, Answers, InWelcome, Others, TypeOK
<1>8. AnswersStand'
  BY <1>1, <1>2, FrameFacts DEF MeshInv, AnswersStand, OutboxesSame, InboxesGet, AnswerOut, Stays,
     Others, TypeOK
<1> QED
  BY <1>1, <1>3, <1>4, <1>5, <1>6, <1>7, <1>8 DEF MeshInv

\* What the page has sent and nobody has read is dropped.
LEMMA CleanupMoves ==
  ASSUME MeshInv, NEW p \in Peers, Cleanup(p)
  PROVE  /\ InTyped' /\ OutTyped' /\ InboxesSame
         /\ \A r \in Peers : Outbox(r)' = IF r = p THEN {} ELSE Outbox(r)
<1>1. up' = [up EXCEPT ![p] = <<>>] /\ UNCHANGED down
  BY DEF Cleanup
<1>2. <<>> \in Seq(OutFrames(p)) /\ DOMAIN up = Peers
  BY EmptySeq DEF MeshInv, OutTyped
<1>3. \A r \in Peers : up'[r] = IF r = p THEN <<>> ELSE up[r]
  BY <1>1, <1>2
<1>4. OutTyped'
  BY <1>1, <1>2, <1>3, NothingInEmpty DEF MeshInv, OutTyped
<1>5. \A r \in Peers : Outbox(r)' = IF r = p THEN {} ELSE Outbox(r)
  BY <1>3, NothingInEmpty DEF Outbox
<1>6. InTyped' /\ InboxesSame
  BY <1>1, SameInboxes DEF MeshInv, InTyped
<1> QED
  BY <1>4, <1>5, <1>6

\* A call whose offer is dropped is just over.
LEMMA CleanupKeepsMesh ==
  ASSUME MeshInv, NEW p \in Peers, Cleanup(p)
  PROVE  MeshInv'
<1>1. /\ InTyped' /\ OutTyped' /\ InboxesSame
      /\ \A r \in Peers : Outbox(r)' = IF r = p THEN {} ELSE Outbox(r)
  BY CleanupMoves
<1>2. /\ conns' = conns \ {p} /\ handler' = [handler EXCEPT ![p] = "leaving"]
      /\ handler[p] = "reading" /\ page[p] = "gone"
      /\ UNCHANGED <<roster, page, todo, pcs, down, overlaps>>
  BY DEF Cleanup, client
<1>3. TypeOK'
  BY <1>1, <1>2 DEF MeshInv, TypeOK
<1>4. PagesServed'
  BY <1>1, <1>2 DEF MeshInv, PagesServed, TypeOK, Cleanup, OutTyped
<1>5. WelcomedOnce'
  BY <1>1, <1>2, FrameFacts DEF MeshInv, WelcomedOnce, InboxesSame, Welcomed, TypeOK
<1>6. AnnouncedOnce'
  BY <1>1, <1>2, FrameFacts DEF MeshInv, AnnouncedOnce, InboxesSame, Underway, TypeOK
<1>7. CallsOnce'
  BY <1>1, <1>2, FrameFacts DEF MeshInv, CallsOnce, InboxesSame, CallAhead, OfferOut,
     AnswerOut, Answers, InWelcome, Others, TypeOK
<1>8. AnswersStand'
  BY <1>1, <1>2, FrameFacts DEF MeshInv, AnswersStand, InboxesSame, AnswerOut, Stays,
     Others, TypeOK
<1> QED
  BY <1>1, <1>3, <1>4, <1>5, <1>6, <1>7, <1>8 DEF MeshInv

\* Everybody that is still registered gets the news.
LEMMA AnnounceLeftMoves ==
  ASSUME MeshInv, NEW p \in Peers, AnnounceLeft(p)
  PROVE  /\ InTyped' /\ OutTyped' /\ OutboxesSame
         /\ InboxesGet(conns, Frame("peer-left", p)) /\ p \notin conns
<1>1. /\ handler[p] = "leaving" /\ UNCHANGED up
      /\ down' = Written(conns, Frame("peer-left", p))
  BY DEF AnnounceLeft
<1>2. p \notin conns
  BY <1>1 DEF MeshInv, TypeOK
<1>3. ASSUME NEW q \in Peers, q \in conns
      PROVE  Frame("peer-left", p) \in InFrames(q) /\ Frame("peer-left", p) \notin Inbox(q)
  <2>1. p \in Others(q)
    BY <1>2, <1>3 DEF Others
  <2>2. Frame("peer-left", p) \in InFrames(q)
    BY <2>1, FramesOfPeers
  <2> QED
    BY <1>1, <2>2 DEF MeshInv, AnnouncedOnce
<1>4. InTyped' /\ InboxesGet(conns, Frame("peer-left", p))
  BY <1>1, <1>3, WrittenFrames DEF MeshInv
<1>5. OutTyped' /\ OutboxesSame
  BY <1>1, SameOutboxes DEF MeshInv, OutTyped
<1> QED
  BY <1>2, <1>4, <1>5

\* The news is out once: the handler writes it last.
LEMMA AnnounceLeftKeepsMesh ==
  ASSUME MeshInv, NEW p \in Peers, AnnounceLeft(p)
  PROVE  MeshInv'
<1>1. /\ InTyped' /\ OutTyped' /\ OutboxesSame
      /\ InboxesGet(conns, Frame("peer-left", p)) /\ p \notin conns
  BY AnnounceLeftMoves
<1>2. /\ handler' = [handler EXCEPT ![p] = "done"] /\ handler[p] = "leaving"
      /\ UNCHANGED <<conns, roster, page, todo, pcs, up, overlaps>>
  BY DEF AnnounceLeft, client
<1>3. TypeOK'
  BY <1>1, <1>2 DEF MeshInv, TypeOK, AnnounceLeft, Written
<1>4. PagesServed'
  BY <1>1, <1>2 DEF MeshInv, PagesServed, TypeOK
<1>5. WelcomedOnce'
  BY <1>1, <1>2, FrameFacts DEF MeshInv, WelcomedOnce, OutboxesSame, InboxesGet, Welcomed, TypeOK
<1>6. AnnouncedOnce'
  BY <1>1, <1>2, FrameFacts DEF MeshInv, AnnouncedOnce, OutboxesSame, InboxesGet, Underway, TypeOK
<1>7. CallsOnce'
  BY <1>1, <1>2, FrameFacts DEF MeshInv, CallsOnce, OutboxesSame, InboxesGet, CallAhead, OfferOut,
     AnswerOut, Answers, InWelcome, Others, TypeOK
<1>8. AnswersStand'
  BY <1>1, <1>2, FrameFacts DEF MeshInv, AnswersStand, OutboxesSame, InboxesGet, AnswerOut, Stays,
     Others, TypeOK
<1> QED
  BY <1>1, <1>3, <1>4, <1>5, <1>6, <1>7, <1>8 DEF MeshInv

\* The page takes its welcome, which lists others only.
LEMMA OnWelcomeMoves ==
  ASSUME MeshInv, NEW p \in Peers, OnWelcome(p)
  PROVE  /\ InTyped' /\ OutTyped' /\ OutboxesSame /\ page[p] = "open"
         /\ \E f \in Inbox(p) : /\ f.type = "welcome" /\ f.list \in SUBSET Others(p)
                                /\ InboxLoses(p, f)
                                /\ todo' = [todo EXCEPT ![p] = f.list]
<1>1. /\ Takes(p, "welcome") /\ todo' = [todo EXCEPT ![p] = Head(down[p]).list] /\ UNCHANGED up
  BY DEF OnWelcome
<1>2. /\ InTyped' /\ InboxLoses(p, Head(down[p])) /\ Head(down[p]) \in Inbox(p)
      /\ Head(down[p]) \in InFrames(p) /\ Head(down[p]).type = "welcome" /\ page[p] = "open"
  BY <1>1, TakenFrames DEF MeshInv
<1>3. Head(down[p]).list \in SUBSET Others(p)
  BY <1>2, KindsOfIn
<1>4. OutTyped' /\ OutboxesSame
  BY <1>1, SameOutboxes DEF MeshInv, OutTyped
<1> QED
  BY <1>1, <1>2, <1>3, <1>4

\* The calls of the page pass from the welcome to its list.
LEMMA OnWelcomeKeepsMesh ==
  ASSUME MeshInv, NEW p \in Peers, OnWelcome(p)
  PROVE  MeshInv'
<1>1. /\ InTyped' /\ OutTyped' /\ OutboxesSame /\ page[p] = "open"
      /\ UNCHANGED <<conns, handler, roster, page, pcs, up, overlaps>>
  BY OnWelcomeMoves DEF OnWelcome, gateway
<1>2. PICK f \in Inbox(p) : /\ f.type = "welcome" /\ f.list \in SUBSET Others(p)
                           /\ InboxLoses(p, f) /\ todo' = [todo EXCEPT ![p] = f.list]
  BY OnWelcomeMoves
<1>3. TypeOK'
  BY <1>1, <1>2 DEF MeshInv, TypeOK, Others, OnWelcome, Takes
<1>4. PagesServed'
  BY <1>1, <1>2 DEF MeshInv, PagesServed, TypeOK, Others, OnWelcome, Takes
<1>5. WelcomedOnce'
  BY <1>1, <1>2, FrameFacts DEF MeshInv, WelcomedOnce, OutboxesSame, InboxLoses, Welcomed, TypeOK
<1>6. AnnouncedOnce'
  BY <1>1, <1>2, FrameFacts DEF MeshInv, AnnouncedOnce, OutboxesSame, InboxLoses, Underway, TypeOK
<1>7. CallsOnce'
  BY <1>1, <1>2, FrameFacts DEF MeshInv, CallsOnce, OutboxesSame, InboxLoses, CallAhead, OfferOut,
     AnswerOut, Answers, InWelcome, Others, TypeOK
<1>8. AnswersStand'
  BY <1>1, <1>2, FrameFacts DEF MeshInv, AnswersStand, OutboxesSame, InboxLoses, AnswerOut, Stays,
     Others, TypeOK
<1> QED
  BY <1>1, <1>3, <1>4, <1>5, <1>6, <1>7, <1>8 DEF MeshInv

\* Starting a call moves no frame.
LEMMA StartCallMoves ==
  ASSUME MeshInv, NEW p \in Peers, NEW q \in Peers, StartCall(p, q)
  PROVE  /\ InTyped' /\ OutTyped' /\ InboxesSame /\ OutboxesSame
         /\ page[p] = "open" /\ q \in todo[p] /\ q \in Others(p)
         /\ pcs' \in [Peers -> [Peers -> States]]
         /\ Changes(p, q, IF pcs[p][q] = "none" THEN "calling" ELSE pcs[p][q])
<1>1. /\ page[p] = "open" /\ q \in todo[p] /\ UNCHANGED <<up, down>>
      /\ Becomes(p, q, IF pcs[p][q] = "none" THEN "calling" ELSE pcs[p][q])
  BY DEF StartCall
<1>2. q \in Others(p)
  BY <1>1 DEF MeshInv, PagesServed, Others
<1>3. (IF pcs[p][q] = "none" THEN "calling" ELSE pcs[p][q]) \in States
  BY DEF MeshInv, TypeOK, States
<1>4. /\ pcs' \in [Peers -> [Peers -> States]]
      /\ Changes(p, q, IF pcs[p][q] = "none" THEN "calling" ELSE pcs[p][q])
  BY <1>1, <1>3, BecomesChanges DEF MeshInv
<1> QED
  BY <1>1, <1>2, <1>4, SameInboxes, SameOutboxes DEF MeshInv, InTyped, OutTyped

\* A call starts, unless the peer has called first or is known.
LEMMA StartCallKeepsMesh ==
  ASSUME MeshInv, NEW p \in Peers, NEW q \in Peers, StartCall(p, q)
  PROVE  MeshInv'
<1>1. /\ InTyped' /\ OutTyped' /\ InboxesSame /\ OutboxesSame
      /\ page[p] = "open" /\ q \in todo[p] /\ q \in Others(p)
      /\ pcs' \in [Peers -> [Peers -> States]]
      /\ Changes(p, q, IF pcs[p][q] = "none" THEN "calling" ELSE pcs[p][q])
  BY StartCallMoves
<1>2. /\ todo' = [todo EXCEPT ![p] = @ \ {q}]
      /\ UNCHANGED <<conns, handler, roster, page, up, down, overlaps>>
  BY DEF StartCall, gateway
<1>3. TypeOK'
  BY <1>1, <1>2 DEF MeshInv, TypeOK, Changes, Others
<1>4. PagesServed'
  BY <1>1, <1>2 DEF MeshInv, PagesServed, Changes, Others
<1>5. WelcomedOnce'
  BY <1>1, <1>2, FrameFacts DEF MeshInv, WelcomedOnce, InboxesSame, OutboxesSame, Welcomed, TypeOK
<1>6. AnnouncedOnce'
  BY <1>1, <1>2, FrameFacts DEF MeshInv, AnnouncedOnce, InboxesSame, OutboxesSame, Underway,
     TypeOK
<1>7. CallsOnce'
  <2>1. ~ CallAhead(p, q)'
    BY <1>1, <1>2, <1>5 DEF MeshInv, CallAhead, WelcomedOnce, InboxesSame, OutboxesSame,
       InWelcome,
       Welcomed, TypeOK
  <2>2. CallAhead(p, q)
    BY <1>1 DEF CallAhead
  <2> QED
    BY <1>1, <1>2, <2>1, <2>2, FrameFacts DEF MeshInv, CallsOnce, InboxesSame, OutboxesSame,
       Changes, CallAhead, OfferOut,
       AnswerOut, Answers, InWelcome, Others, TypeOK
<1>8. AnswersStand'
  BY <1>1, <1>2, FrameFacts DEF MeshInv, AnswersStand, InboxesSame, OutboxesSame, Changes,
     AnswerOut, Stays,
     Others
<1> QED
  BY <1>1, <1>3, <1>4, <1>5, <1>6, <1>7, <1>8 DEF MeshInv

\* The offer is sent, and there was none of this call before.
LEMMA FinishCallMoves ==
  ASSUME MeshInv, NEW p \in Peers, NEW q \in Peers, FinishCall(p, q)
  PROVE  /\ InTyped' /\ OutTyped' /\ InboxesSame /\ OutboxGets(p, Frame("offer", q))
         /\ page[p] = "open" /\ pcs[p][q] = "calling" /\ q \in Others(p)
         /\ pcs' \in [Peers -> [Peers -> States]] /\ Changes(p, q, "offering")
<1>1. /\ page[p] = "open" /\ pcs[p][q] = "calling" /\ UNCHANGED down
      /\ Becomes(p, q, "offering") /\ up' = [up EXCEPT ![p] = Append(@, Frame("offer", q))]
  BY DEF FinishCall, Sends
<1>2. q \in Others(p)
  BY <1>1 DEF MeshInv, TypeOK, Others
<1>3. pcs' \in [Peers -> [Peers -> States]] /\ Changes(p, q, "offering")
  BY <1>1, BecomesChanges DEF MeshInv, States
<1>4. Frame("offer", q) \in OutFrames(p) /\ p \in Others(q)
  BY <1>2, FramesOfPeers
<1>5. Frame("offer", q) \notin Outbox(p)
  BY <1>1, <1>2, <1>4 DEF MeshInv, CallsOnce, OfferOut, AnswerOut
<1>6. OutTyped' /\ OutboxGets(p, Frame("offer", q))
  BY <1>1, <1>4, <1>5, SentFrames DEF MeshInv
<1> QED
  BY <1>1, <1>2, <1>3, <1>6, SameInboxes DEF MeshInv, InTyped

\* The call passes from the browser to its offer.
LEMMA FinishCallKeepsMesh ==
  ASSUME MeshInv, NEW p \in Peers, NEW q \in Peers, FinishCall(p, q)
  PROVE  MeshInv'
<1>1. /\ InTyped' /\ OutTyped' /\ InboxesSame /\ OutboxGets(p, Frame("offer", q))
      /\ page[p] = "open" /\ pcs[p][q] = "calling" /\ q \in Others(p)
      /\ pcs' \in [Peers -> [Peers -> States]] /\ Changes(p, q, "offering")
  BY FinishCallMoves
<1>2. UNCHANGED <<conns, handler, roster, page, todo, down, overlaps>>
  BY DEF FinishCall, gateway
<1>3. TypeOK'
  BY <1>1, <1>2 DEF MeshInv, TypeOK, Changes, Others
<1>4. PagesServed'
  BY <1>1, <1>2 DEF MeshInv, PagesServed, TypeOK, Changes, Others, FinishCall, Sends
<1>5. WelcomedOnce'
  BY <1>1, <1>2, FrameFacts DEF MeshInv, WelcomedOnce, InboxesSame, OutboxGets, Welcomed
<1>6. AnnouncedOnce'
  BY <1>1, <1>2, FrameFacts DEF MeshInv, AnnouncedOnce, InboxesSame, OutboxGets, Underway
<1>7. CallsOnce'
  BY <1>1, <1>2, FrameFacts DEF MeshInv, CallsOnce, InboxesSame, OutboxGets, Changes, CallAhead,
     OfferOut,
     AnswerOut, Answers, InWelcome, Others
<1>8. AnswersStand'
  BY <1>1, <1>2, FrameFacts DEF MeshInv, AnswersStand, InboxesSame, OutboxGets, Changes,
     AnswerOut, Stays,
     Others
<1> QED
  BY <1>1, <1>3, <1>4, <1>5, <1>6, <1>7, <1>8 DEF MeshInv

\* The answer is sent, and there was none of this call before.
LEMMA FinishAnswerMoves ==
  ASSUME MeshInv, NEW p \in Peers, NEW q \in Peers, FinishAnswer(p, q)
  PROVE  /\ InTyped' /\ OutTyped' /\ InboxesSame /\ OutboxGets(p, Frame("answer", q))
         /\ page[p] = "open" /\ pcs[p][q] = "answering" /\ q \in Others(p)
         /\ pcs' \in [Peers -> [Peers -> States]] /\ Changes(p, q, "answerer")
<1>1. /\ page[p] = "open" /\ pcs[p][q] = "answering" /\ UNCHANGED down
      /\ Becomes(p, q, "answerer") /\ up' = [up EXCEPT ![p] = Append(@, Frame("answer", q))]
  BY DEF FinishAnswer, Sends
<1>2. q \in Others(p)
  BY <1>1 DEF MeshInv, TypeOK, Others
<1>3. pcs' \in [Peers -> [Peers -> States]] /\ Changes(p, q, "answerer")
  BY <1>1, BecomesChanges DEF MeshInv, States
<1>4. Frame("answer", q) \in OutFrames(p) /\ p \in Others(q)
  BY <1>2, FramesOfPeers
<1>5. Frame("answer", q) \notin Outbox(p)
  BY <1>1, <1>2, <1>4 DEF MeshInv, CallsOnce, OfferOut, AnswerOut
<1>6. OutTyped' /\ OutboxGets(p, Frame("answer", q))
  BY <1>1, <1>4, <1>5, SentFrames DEF MeshInv
<1> QED
  BY <1>1, <1>2, <1>3, <1>6, SameInboxes DEF MeshInv, InTyped

\* The call passes from the browser to its answer.
LEMMA FinishAnswerKeepsMesh ==
  ASSUME MeshInv, NEW p \in Peers, NEW q \in Peers, FinishAnswer(p, q)
  PROVE  MeshInv'
<1>1. /\ InTyped' /\ OutTyped' /\ InboxesSame /\ OutboxGets(p, Frame("answer", q))
      /\ page[p] = "open" /\ pcs[p][q] = "answering" /\ q \in Others(p)
      /\ pcs' \in [Peers -> [Peers -> States]] /\ Changes(p, q, "answerer")
  BY FinishAnswerMoves
<1>2. UNCHANGED <<conns, handler, roster, page, todo, down, overlaps>>
  BY DEF FinishAnswer, gateway
<1>3. TypeOK'
  BY <1>1, <1>2 DEF MeshInv, TypeOK, Changes, Others
<1>4. PagesServed'
  BY <1>1, <1>2 DEF MeshInv, PagesServed, TypeOK, Changes, Others, FinishAnswer, Sends
<1>5. WelcomedOnce'
  BY <1>1, <1>2, FrameFacts DEF MeshInv, WelcomedOnce, InboxesSame, OutboxGets, Welcomed
<1>6. AnnouncedOnce'
  BY <1>1, <1>2, FrameFacts DEF MeshInv, AnnouncedOnce, InboxesSame, OutboxGets, Underway
<1>7. CallsOnce'
  BY <1>1, <1>2, FrameFacts DEF MeshInv, CallsOnce, InboxesSame, OutboxGets, Changes, CallAhead,
     OfferOut,
     AnswerOut, Answers, InWelcome, Others
<1>8. AnswersStand'
  BY <1>1, <1>2, FrameFacts DEF MeshInv, AnswersStand, InboxesSame, OutboxGets, Changes,
     AnswerOut, Stays,
     Others
<1> QED
  BY <1>1, <1>3, <1>4, <1>5, <1>6, <1>7, <1>8 DEF MeshInv

\* The page takes the news of a peer that has joined.
LEMMA OnPeerJoinedMoves ==
  ASSUME MeshInv, NEW p \in Peers, OnPeerJoined(p)
  PROVE  /\ InTyped' /\ OutTyped' /\ OutboxesSame /\ page[p] = "open"
         /\ pcs' \in [Peers -> [Peers -> States]]
         /\ \E q \in Others(p) :
              /\ Frame("peer-joined", q) \in Inbox(p) /\ InboxLoses(p, Frame("peer-joined", q))
              /\ Changes(p, q, IF pcs[p][q] = "none" THEN "idle" ELSE pcs[p][q])
<1>1. Takes(p, "peer-joined") /\ UNCHANGED up
  BY DEF OnPeerJoined
<1> DEFINE q == Sender(p)
           state == IF pcs[p][q] = "none" THEN "idle" ELSE pcs[p][q]
<1>2. /\ q \in Others(p) /\ q \in Peers /\ Frame("peer-joined", q) \in Inbox(p)
      /\ InboxLoses(p, Frame("peer-joined", q)) /\ InTyped' /\ page[p] = "open"
  BY <1>1, PeerFrameTaken
<1>3. Becomes(p, q, state)
  BY DEF OnPeerJoined
<1> HIDE DEF q
<1>4. state \in States
  BY <1>2 DEF MeshInv, TypeOK, States
<1>5. pcs' \in [Peers -> [Peers -> States]] /\ Changes(p, q, state)
  <2> HIDE DEF state
  <2> QED
    BY <1>2, <1>3, <1>4, BecomesChanges DEF MeshInv
<1>6. OutTyped' /\ OutboxesSame
  BY <1>1, SameOutboxes DEF MeshInv, OutTyped
<1> QED
  BY <1>2, <1>5, <1>6

\* The news makes an idle connection at most.
LEMMA OnPeerJoinedKeepsMesh ==
  ASSUME MeshInv, NEW p \in Peers, OnPeerJoined(p)
  PROVE  MeshInv'
<1>1. /\ InTyped' /\ OutTyped' /\ OutboxesSame /\ page[p] = "open"
      /\ pcs' \in [Peers -> [Peers -> States]]
      /\ UNCHANGED <<conns, handler, roster, page, todo, up, overlaps>>
  BY OnPeerJoinedMoves DEF OnPeerJoined, gateway
<1>2. PICK q \in Others(p) :
        /\ Frame("peer-joined", q) \in Inbox(p) /\ InboxLoses(p, Frame("peer-joined", q))
        /\ Changes(p, q, IF pcs[p][q] = "none" THEN "idle" ELSE pcs[p][q])
  BY OnPeerJoinedMoves
<1>3. TypeOK'
  BY <1>1, <1>2 DEF MeshInv, TypeOK, Changes, Others, OnPeerJoined, Takes
<1>4. PagesServed'
  BY <1>1, <1>2 DEF MeshInv, PagesServed, Changes, Others
<1>5. WelcomedOnce'
  BY <1>1, <1>2, FrameFacts DEF MeshInv, WelcomedOnce, OutboxesSame, InboxLoses, Welcomed
<1>6. AnnouncedOnce'
  BY <1>1, <1>2, FrameFacts DEF MeshInv, AnnouncedOnce, OutboxesSame, InboxLoses, Underway
<1>7. CallsOnce'
  BY <1>1, <1>2, FrameFacts DEF MeshInv, CallsOnce, OutboxesSame, InboxLoses, Changes,
     CallAhead, OfferOut,
     AnswerOut, Answers, InWelcome, Others
<1>8. AnswersStand'
  BY <1>1, <1>2, FrameFacts DEF MeshInv, AnswersStand, OutboxesSame, InboxLoses, Changes,
     AnswerOut, Stays,
     Others
<1> QED
  BY <1>1, <1>3, <1>4, <1>5, <1>6, <1>7, <1>8 DEF MeshInv

\* The page takes the news of a peer that has left.
LEMMA OnPeerLeftMoves ==
  ASSUME MeshInv, NEW p \in Peers, OnPeerLeft(p)
  PROVE  /\ InTyped' /\ OutTyped' /\ OutboxesSame /\ page[p] = "open"
         /\ pcs' \in [Peers -> [Peers -> States]]
         /\ \E q \in Others(p) :
              /\ Frame("peer-left", q) \in Inbox(p) /\ InboxLoses(p, Frame("peer-left", q))
              /\ Changes(p, q, "none")
<1>1. Takes(p, "peer-left") /\ UNCHANGED up
  BY DEF OnPeerLeft
<1> DEFINE q == Sender(p)
           state == "none"
<1>2. /\ q \in Others(p) /\ q \in Peers /\ Frame("peer-left", q) \in Inbox(p)
      /\ InboxLoses(p, Frame("peer-left", q)) /\ InTyped' /\ page[p] = "open"
  BY <1>1, PeerFrameTaken
<1>3. Becomes(p, q, state)
  BY DEF OnPeerLeft
<1> HIDE DEF q
<1>4. state \in States
  BY <1>2 DEF MeshInv, TypeOK, States
<1>5. pcs' \in [Peers -> [Peers -> States]] /\ Changes(p, q, state)
  <2> HIDE DEF state
  <2> QED
    BY <1>2, <1>3, <1>4, BecomesChanges DEF MeshInv
<1>6. OutTyped' /\ OutboxesSame
  BY <1>1, SameOutboxes DEF MeshInv, OutTyped
<1> QED
  BY <1>2, <1>5, <1>6

\* A page forgets only one that is gone.
LEMMA OnPeerLeftKeepsMesh ==
  ASSUME MeshInv, NEW p \in Peers, OnPeerLeft(p)
  PROVE  MeshInv'
<1>1. /\ InTyped' /\ OutTyped' /\ OutboxesSame /\ page[p] = "open"
      /\ pcs' \in [Peers -> [Peers -> States]]
      /\ UNCHANGED <<conns, handler, roster, page, todo, up, overlaps>>
  BY OnPeerLeftMoves DEF OnPeerLeft, gateway
<1>2. PICK q \in Others(p) :
        /\ Frame("peer-left", q) \in Inbox(p) /\ InboxLoses(p, Frame("peer-left", q))
        /\ Changes(p, q, "none")
  BY OnPeerLeftMoves
<1>3. TypeOK'
  BY <1>1, <1>2 DEF MeshInv, TypeOK, Changes, Others, OnPeerLeft, Takes
<1>4. PagesServed'
  BY <1>1, <1>2 DEF MeshInv, PagesServed, Changes, Others
<1>5. WelcomedOnce'
  BY <1>1, <1>2, FrameFacts DEF MeshInv, WelcomedOnce, OutboxesSame, InboxLoses, Welcomed
<1>6. AnnouncedOnce'
  BY <1>1, <1>2, FrameFacts DEF MeshInv, AnnouncedOnce, OutboxesSame, InboxLoses, Underway
<1>7. CallsOnce'
  BY <1>1, <1>2, FrameFacts DEF MeshInv, CallsOnce, OutboxesSame, InboxLoses, Changes,
     CallAhead, OfferOut,
     AnswerOut, Answers, InWelcome, Others
<1>8. AnswersStand'
  <2>1. page[q] = "gone" /\ q \in Peers
    BY <1>2 DEF MeshInv, AnnouncedOnce, PagesServed, Others
  <2> QED
    BY <1>1, <1>2, <2>1, FrameFacts DEF MeshInv, AnswersStand, OutboxesSame, InboxLoses,
       Changes, AnswerOut, Stays,
     Others
<1> QED
  BY <1>1, <1>3, <1>4, <1>5, <1>6, <1>7, <1>8 DEF MeshInv

\* The page takes an offer.
LEMMA OnOfferMoves ==
  ASSUME MeshInv, NEW p \in Peers, OnOffer(p)
  PROVE  /\ InTyped' /\ OutTyped' /\ OutboxesSame /\ page[p] = "open"
         /\ pcs' \in [Peers -> [Peers -> States]]
         /\ \E q \in Others(p) :
              /\ Frame("offer", q) \in Inbox(p) /\ InboxLoses(p, Frame("offer", q))
              /\ Changes(p, q, "answering")
<1>1. Takes(p, "offer") /\ UNCHANGED up
  BY DEF OnOffer
<1> DEFINE q == Sender(p)
           state == "answering"
<1>2. /\ q \in Others(p) /\ q \in Peers /\ Frame("offer", q) \in Inbox(p)
      /\ InboxLoses(p, Frame("offer", q)) /\ InTyped' /\ page[p] = "open"
  BY <1>1, PeerFrameTaken
<1>3. Becomes(p, q, state)
  BY DEF OnOffer
<1> HIDE DEF q
<1>4. state \in States
  BY <1>2 DEF MeshInv, TypeOK, States
<1>5. pcs' \in [Peers -> [Peers -> States]] /\ Changes(p, q, state)
  <2> HIDE DEF state
  <2> QED
    BY <1>2, <1>3, <1>4, BecomesChanges DEF MeshInv
<1>6. OutTyped' /\ OutboxesSame
  BY <1>1, SameOutboxes DEF MeshInv, OutTyped
<1> QED
  BY <1>2, <1>5, <1>6

\* The call passes from its offer to the browser that answers; a call of its
\* own that the browser had out is rolled back.
LEMMA OnOfferKeepsMesh ==
  ASSUME MeshInv, NEW p \in Peers, OnOffer(p)
  PROVE  MeshInv'
<1>1. /\ InTyped' /\ OutTyped' /\ OutboxesSame /\ page[p] = "open"
      /\ pcs' \in [Peers -> [Peers -> States]]
      /\ UNCHANGED <<conns, handler, roster, page, todo, up, overlaps>>
  BY OnOfferMoves DEF OnOffer, gateway
<1>2. PICK q \in Others(p) :
        /\ Frame("offer", q) \in Inbox(p) /\ InboxLoses(p, Frame("offer", q))
        /\ Changes(p, q, "answering")
  BY OnOfferMoves
<1>3. TypeOK'
  BY <1>1, <1>2 DEF MeshInv, TypeOK, Changes, Others, OnOffer, Takes
<1>4. PagesServed'
  BY <1>1, <1>2 DEF MeshInv, PagesServed, Changes, Others
<1>5. WelcomedOnce'
  BY <1>1, <1>2, FrameFacts DEF MeshInv, WelcomedOnce, OutboxesSame, InboxLoses, Welcomed
<1>6. AnnouncedOnce'
  BY <1>1, <1>2, FrameFacts DEF MeshInv, AnnouncedOnce, OutboxesSame, InboxLoses, Underway
<1>7. CallsOnce'
  BY <1>1, <1>2, FrameFacts DEF MeshInv, CallsOnce, OutboxesSame, InboxLoses, Changes,
     CallAhead, OfferOut,
     AnswerOut, Answers, InWelcome, Others
<1>8. AnswersStand'
  BY <1>1, <1>2, FrameFacts DEF MeshInv, CallsOnce, OfferOut, Answers, AnswersStand,
     OutboxesSame, InboxLoses, Changes, AnswerOut, Stays,
     Others
<1> QED
  BY <1>1, <1>3, <1>4, <1>5, <1>6, <1>7, <1>8 DEF MeshInv

\* The page takes an answer.
LEMMA OnAnswerMoves ==
  ASSUME MeshInv, NEW p \in Peers, OnAnswer(p)
  PROVE  /\ InTyped' /\ OutTyped' /\ OutboxesSame /\ page[p] = "open"
         /\ pcs' \in [Peers -> [Peers -> States]]
         /\ \E q \in Others(p) :
              /\ Frame("answer", q) \in Inbox(p) /\ InboxLoses(p, Frame("answer", q))
              /\ Changes(p, q, IF pcs[p][q] = "offering" THEN "offerer" ELSE pcs[p][q])
<1>1. Takes(p, "answer") /\ UNCHANGED up
  BY DEF OnAnswer
<1> DEFINE q == Sender(p)
           state == IF pcs[p][q] = "offering" THEN "offerer" ELSE pcs[p][q]
<1>2. /\ q \in Others(p) /\ q \in Peers /\ Frame("answer", q) \in Inbox(p)
      /\ InboxLoses(p, Frame("answer", q)) /\ InTyped' /\ page[p] = "open"
  BY <1>1, PeerFrameTaken
<1>3. Becomes(p, q, state)
  BY DEF OnAnswer
<1> HIDE DEF q
<1>4. state \in States
  BY <1>2 DEF MeshInv, TypeOK, States
<1>5. pcs' \in [Peers -> [Peers -> States]] /\ Changes(p, q, state)
  <2> HIDE DEF state
  <2> QED
    BY <1>2, <1>3, <1>4, BecomesChanges DEF MeshInv
<1>6. OutTyped' /\ OutboxesSame
  BY <1>1, SameOutboxes DEF MeshInv, OutTyped
<1> QED
  BY <1>2, <1>5, <1>6

\* The call passes from its answer to an offerer, whose peer is an answerer.
LEMMA OnAnswerKeepsMesh ==
  ASSUME MeshInv, NEW p \in Peers, OnAnswer(p)
  PROVE  MeshInv'
<1>1. /\ InTyped' /\ OutTyped' /\ OutboxesSame /\ page[p] = "open"
      /\ pcs' \in [Peers -> [Peers -> States]]
      /\ UNCHANGED <<conns, handler, roster, page, todo, up, overlaps>>
  BY OnAnswerMoves DEF OnAnswer, gateway
<1>2. PICK q \in Others(p) :
        /\ Frame("answer", q) \in Inbox(p) /\ InboxLoses(p, Frame("answer", q))
        /\ Changes(p, q, IF pcs[p][q] = "offering" THEN "offerer" ELSE pcs[p][q])
  BY OnAnswerMoves
<1>3. TypeOK'
  BY <1>1, <1>2 DEF MeshInv, TypeOK, Changes, Others, OnAnswer, Takes
<1>4. PagesServed'
  BY <1>1, <1>2 DEF MeshInv, PagesServed, Changes, Others
<1>5. WelcomedOnce'
  BY <1>1, <1>2, FrameFacts DEF MeshInv, WelcomedOnce, OutboxesSame, InboxLoses, Welcomed
<1>6. AnnouncedOnce'
  BY <1>1, <1>2, FrameFacts DEF MeshInv, AnnouncedOnce, OutboxesSame, InboxLoses, Underway
<1>7. CallsOnce'
  BY <1>1, <1>2, FrameFacts DEF MeshInv, CallsOnce, OutboxesSame, InboxLoses, Changes,
     CallAhead, OfferOut,
     AnswerOut, Answers, InWelcome, Others
<1>8. AnswersStand'
  BY <1>1, <1>2, FrameFacts DEF MeshInv, AnswersStand, OutboxesSame, InboxLoses, Changes,
     AnswerOut, Stays,
     Others
<1> QED
  BY <1>1, <1>3, <1>4, <1>5, <1>6, <1>7, <1>8 DEF MeshInv

\* What the page has not read is lost; what it has sent is still there.
LEMMA LeaveMoves ==
  ASSUME MeshInv, NEW p \in Peers, Leave(p)
  PROVE  /\ InTyped' /\ OutTyped' /\ OutboxesSame
         /\ \A r \in Peers : Inbox(r)' = IF r = p THEN {} ELSE Inbox(r)
         /\ page[p] = "open" /\ pcs' \in [Peers -> [Peers -> States]]
         /\ \A r, s \in Peers : pcs'[r][s] = IF r = p THEN "none" ELSE pcs[r][s]
<1>1. /\ down' = [down EXCEPT ![p] = <<>>] /\ UNCHANGED up /\ page[p] = "open"
      /\ pcs' = [pcs EXCEPT ![p] = [q \in Peers |-> "none"]]
  BY DEF Leave
<1>2. <<>> \in Seq(InFrames(p)) /\ DOMAIN down = Peers
  BY EmptySeq DEF MeshInv, InTyped
<1>3. \A r \in Peers : down'[r] = IF r = p THEN <<>> ELSE down[r]
  BY <1>1, <1>2
<1>4. InTyped'
  BY <1>1, <1>2, <1>3, NothingInEmpty DEF MeshInv, InTyped
<1>5. \A r \in Peers : Inbox(r)' = IF r = p THEN {} ELSE Inbox(r)
  BY <1>3, NothingInEmpty DEF Inbox
<1>6. OutTyped' /\ OutboxesSame
  BY <1>1, SameOutboxes DEF MeshInv, OutTyped
<1>7. /\ pcs' \in [Peers -> [Peers -> States]]
      /\ \A r, s \in Peers : pcs'[r][s] = IF r = p THEN "none" ELSE pcs[r][s]
  BY <1>1 DEF MeshInv, TypeOK, States
<1> QED
  BY <1>1, <1>4, <1>5, <1>6, <1>7

\* A page that closes takes its ends of all calls with it.
LEMMA LeaveKeepsMesh ==
  ASSUME MeshInv, NEW p \in Peers, Leave(p)
  PROVE  MeshInv'
<1>1. /\ InTyped' /\ OutTyped' /\ OutboxesSame
      /\ \A r \in Peers : Inbox(r)' = IF r = p THEN {} ELSE Inbox(r)
      /\ page[p] = "open" /\ pcs' \in [Peers -> [Peers -> States]]
      /\ \A r, s \in Peers : pcs'[r][s] = IF r = p THEN "none" ELSE pcs[r][s]
  BY LeaveMoves
<1>2. /\ page' = [page EXCEPT ![p] = "gone"] /\ todo' = [todo EXCEPT ![p] = {}]
      /\ UNCHANGED <<conns, handler, roster, up, overlaps>>
  BY DEF Leave, gateway
<1>3. TypeOK'
  BY <1>1, <1>2 DEF MeshInv, TypeOK, Leave, InTyped
<1>4. PagesServed'
  BY <1>1, <1>2 DEF MeshInv, PagesServed, TypeOK
<1>5. WelcomedOnce'
  BY <1>1, <1>2, FrameFacts DEF MeshInv, WelcomedOnce, OutboxesSame, Welcomed, TypeOK
<1>6. AnnouncedOnce'
  BY <1>1, <1>2, FrameFacts DEF MeshInv, AnnouncedOnce, OutboxesSame, Underway, TypeOK
<1>7. CallsOnce'
  BY <1>1, <1>2, FrameFacts DEF MeshInv, CallsOnce, OutboxesSame, CallAhead, OfferOut,
     AnswerOut, Answers, InWelcome, Others, TypeOK
<1>8. AnswersStand'
  BY <1>1, <1>2, FrameFacts DEF MeshInv, AnswersStand, OutboxesSame, AnswerOut, Stays,
     Others, TypeOK
<1> QED
  BY <1>1, <1>3, <1>4, <1>5, <1>6, <1>7, <1>8 DEF MeshInv

\* At first nothing is on its way.
LEMMA MeshStarts == Init => MeshInv
<1> SUFFICES ASSUME Init PROVE MeshInv
  OBVIOUS
<1>1. /\ \A p \in Peers : /\ Outbox(p) = {} /\ Inbox(p) = {} /\ page[p] = "shut"
                            /\ handler[p] = "none" /\ todo[p] = {} /\ roster[p] = {}
                            /\ up[p] = <<>> /\ down[p] = <<>>
      /\ \A p, q \in Peers : pcs[p][q] = "none"
      /\ conns = {} /\ DOMAIN up = Peers /\ DOMAIN down = Peers
  BY NothingInEmpty DEF Init, Outbox, Inbox
<1>2. TypeOK
  BY <1>1 DEF Init, TypeOK, States
<1>3. InTyped /\ OutTyped
  BY <1>1, EmptySeq, NothingInEmpty DEF InTyped, OutTyped
<1>4. PagesServed /\ WelcomedOnce /\ AnnouncedOnce
  BY <1>1 DEF PagesServed, WelcomedOnce, Welcomed, AnnouncedOnce
<1>5. CallsOnce /\ AnswersStand
  BY <1>1 DEF CallsOnce, OfferOut, AnswerOut, Answers, AnswersStand, Others
<1> QED
  BY <1>2, <1>3, <1>4, <1>5 DEF MeshInv

\* A stuttering step keeps all of it.
LEMMA StillMesh == ASSUME MeshInv, UNCHANGED vars PROVE MeshInv'
<1>1. /\ UNCHANGED <<conns, handler, roster, page, todo, pcs, up, down, overlaps>>
      /\ InboxesSame /\ OutboxesSame
  BY SameInboxes, SameOutboxes DEF vars, gateway, client
<1>2. TypeOK' /\ InTyped' /\ OutTyped' /\ PagesServed'
  BY <1>1 DEF MeshInv, TypeOK, InTyped, OutTyped, PagesServed
<1>3. WelcomedOnce' /\ AnnouncedOnce'
  BY <1>1 DEF MeshInv, WelcomedOnce, AnnouncedOnce, Welcomed, Underway, InboxesSame, OutboxesSame
<1>4. CallsOnce' /\ AnswersStand'
  BY <1>1 DEF MeshInv, CallsOnce, CallAhead, InWelcome, OfferOut, AnswerOut, Answers,
     AnswersStand,
     Stays, Others, InboxesSame, OutboxesSame
<1> QED
  BY <1>2, <1>3, <1>4 DEF MeshInv

\* MeshInv is inductive.
LEMMA StepKeepsMesh == MeshInv /\ [Next]_vars => MeshInv'
<1> SUFFICES ASSUME MeshInv, [Next]_vars PROVE MeshInv'
  OBVIOUS
<1>1. ASSUME NEW p \in Peers, Handle(p) PROVE MeshInv'
  BY <1>1, HandleJoinKeepsMesh, WriteWelcomeKeepsMesh, AnnounceJoinKeepsMesh, RelayKeepsMesh,
     CleanupKeepsMesh, AnnounceLeftKeepsMesh DEF Handle
<1>2. ASSUME NEW p \in Peers, Browse(p) PROVE MeshInv'
  BY <1>2, OnWelcomeKeepsMesh, OnPeerJoinedKeepsMesh, OnPeerLeftKeepsMesh, OnOfferKeepsMesh,
     OnAnswerKeepsMesh, StartCallKeepsMesh, FinishCallKeepsMesh, FinishAnswerKeepsMesh DEF Browse
<1>3. ASSUME NEW p \in Peers, Connect(p) \/ Leave(p) PROVE MeshInv'
  BY <1>3, ConnectKeepsMesh, LeaveKeepsMesh
<1> QED
  BY <1>1, <1>2, <1>3, StillMesh DEF Next

(***************************************************************************)
(* No frame of the signaling is ever twice on its way, a page is welcomed  *)
(* once, a call is in one of its stages at a time, and an answer on its    *)
(* way belongs to a browser that answered: what the relay of               *)
(* HandleWsSignal and the handlers of socket_service.js and                *)
(* webrtc_signaling.js keep up together, for any set of peers, whoever     *)
(* leaves when.                                                            *)
(***************************************************************************)
THEOREM MeshStaysSound == Spec => []MeshInv
BY MeshStarts, StepKeepsMesh, PTL DEF Spec

(***************************************************************************)
(* Whoever takes itself for the offerer of a connection (its onAnswer has  *)
(* set the remote description) has an answerer at the other end, as long   *)
(* as that page is open: onOffer never makes two offers cross into a pair  *)
(* of offerers.                                                            *)
(***************************************************************************)
THEOREM RolesStayAgreed == Spec => []RolesAgree
<1>1. MeshInv => RolesAgree
  <2> SUFFICES ASSUME MeshInv, NEW p \in Peers, NEW q \in Peers,
                      pcs[p][q] = "offerer", page[q] = "open"
               PROVE  pcs[q][p] = "answerer"
    BY DEF RolesAgree
  <2>1. q \in Others(p) /\ Stays(p) /\ Stays(q)
    BY DEF MeshInv, TypeOK, PagesServed, Others, Stays
  <2> QED
    BY <2>1 DEF MeshInv, AnswersStand
<1> QED
  BY <1>1, MeshStaysSound, PTL
-----------------------------------------------------------------------------
(***************************************************************************)
(* How two peers that stay come to each other.                             *)
(***************************************************************************)
\* An offer that is out has its offer or its answer on the way, and whoever
\* is called or answers has called or answers itself.
OffersStand ==
  \A p \in Peers : \A q \in Others(p) :
    Stays(p) /\ Stays(q) =>
      /\ pcs[p][q] = "offering" => OfferOut(p, q) \/ pcs[q][p] = "answering" \/ AnswerOut(q, p)
      /\ OfferOut(p, q) \/ Answers(q, p)
           => pcs[p][q] \in {"offering", "offerer", "answering", "answerer"}

\* Whoever has joined is known to the others, or they are about to hear of it.
Met ==
  \A p \in Peers : \A q \in Others(p) :
    page[p] = "open" /\ Stays(q) /\ ~ Underway(p)
      => pcs[q][p] # "none" \/ Frame("peer-joined", p) \in Inbox(q) \/ CallAhead(q, p)

\* Nobody knows a peer that has not come yet.
Unknown(q) ==
  \A p \in Peers :
    /\ q \notin roster[p] /\ q \notin todo[p] /\ pcs[p][q] = "none"
    /\ \A f \in Inbox(p) : f.peer # q /\ q \notin f.list
    /\ \A f \in Outbox(p) : f.peer # q
NewcomersUnknown == \A q \in Peers : page[q] = "shut" => Unknown(q)

\* Of two whose joins do not overlap one comes first, and is called.
IsCalled(p, q) ==
  /\ ~ Underway(p) /\ ~ CallAhead(p, q) /\ ~ OfferOut(p, q)
  /\ pcs[p][q] \notin {"calling", "offering", "offerer"}
  /\ pcs[q][p] # "idle" /\ ~ Answers(q, p)
  /\ Frame("peer-joined", p) \notin Inbox(q)
Apart(p, q) == <<p, q>> \notin overlaps /\ <<q, p>> \notin overlaps
TurnsTaken ==
  \A p \in Peers : \A q \in Others(p) :
    page[p] = "open" /\ page[q] = "open" /\ Apart(p, q) => IsCalled(p, q) \/ IsCalled(q, p)

MeetingInv == OffersStand /\ Met /\ NewcomersUnknown /\ TurnsTaken

\* The operator of the specification, read on the set of frames.
LEMMA JoiningIsUnderway == \A p : Joining(p) <=> Underway(p)
BY DEF Joining, Underway, Outbox

\* Whoever is there and joined before the newcomer is called by it; any other
\* overlaps with it.
LEMMA ConnectKeepsMeeting ==
  ASSUME MeshInv, MeetingInv, NEW p \in Peers, Connect(p)
  PROVE  MeetingInv'
<1>1. /\ InTyped' /\ OutTyped' /\ InboxesSame /\ OutboxGets(p, Join(p))
      /\ Outbox(p) = {} /\ Inbox(p) = {} /\ page[p] = "shut" /\ p \notin conns
  BY ConnectMoves
<1>2. /\ page' = [page EXCEPT ![p] = "open"] /\ conns' = conns \union {p}
      /\ handler' = [handler EXCEPT ![p] = "reading"]
      /\ UNCHANGED <<roster, todo, pcs, down>>
      /\ overlaps' = overlaps \cup {<<p, q>> : q \in {q \in conns : Joining(q)}}
      /\ handler[p] = "none" /\ todo[p] = {}
  BY <1>1 DEF Connect, MeshInv, PagesServed
<1>3. OffersStand'
  BY <1>1, <1>2, FrameFacts DEF MeshInv, MeetingInv, OffersStand, OutboxGets, InboxesSame,
     OfferOut, AnswerOut, Answers, Stays, Others, TypeOK
<1>4. Met'
  BY <1>1, <1>2, FrameFacts DEF MeshInv, MeetingInv, Met, OutboxGets, InboxesSame,
     Underway, CallAhead, InWelcome, Stays, Others, TypeOK
<1>5. NewcomersUnknown'
  BY <1>1, <1>2, FrameFacts DEF MeshInv, MeetingInv, NewcomersUnknown, Unknown, OutboxGets,
     InboxesSame,
     Others, TypeOK
<1>6. TurnsTaken'
  <2>1. ASSUME NEW q \in Others(p), page[q] = "open", ~ Underway(q)
        PROVE  IsCalled(q, p)'
    <3>1. /\ Unknown(p) /\ q \in Peers /\ p # q /\ p \in Others(q)
          /\ pcs[p][q] = "none" /\ handler[q] \notin {"welcoming", "announcing"}
          /\ Join(q) \notin Outbox(q)
      BY <1>1, <2>1 DEF MeshInv, MeetingInv, NewcomersUnknown, PagesServed, Others, Underway
    <3>2. ~ Underway(q)' /\ ~ CallAhead(q, p)'
      BY <1>1, <1>2, <2>1, <3>1 DEF Underway, CallAhead, InWelcome, Unknown, OutboxGets,
         InboxesSame,
         MeshInv, TypeOK
    <3>3. ~ OfferOut(q, p)' /\ Frame("peer-joined", q) \notin Inbox(p)'
      BY <1>1, <3>1, FrameFacts DEF OfferOut, Unknown, OutboxGets, InboxesSame
    <3> QED
      BY <1>2, <3>1, <3>2, <3>3 DEF IsCalled, Answers, Unknown
  <2>2. ASSUME NEW q \in Others(p), page[q] = "open", Apart(p, q)'
        PROVE  ~ Underway(q)
    BY <1>2, <2>2, JoiningIsUnderway DEF Apart, MeshInv, PagesServed, Others
  <2> QED
    BY <1>1, <1>2, <2>1, <2>2, FrameFacts DEF MeshInv, MeetingInv, TurnsTaken, IsCalled, Apart,
       OutboxGets, InboxesSame, Underway, CallAhead, InWelcome, OfferOut, Answers, Others, TypeOK
<1> QED
  BY <1>3, <1>4, <1>5, <1>6 DEF MeetingInv

\* The snapshot has all that are registered, so nobody is missed.
LEMMA HandleJoinKeepsMeeting ==
  ASSUME MeshInv, MeetingInv, NEW p \in Peers, HandleJoin(p)
  PROVE  MeetingInv'
<1>1. /\ InTyped' /\ OutTyped' /\ InboxesSame
      /\ Join(p) \in Outbox(p) /\ OutboxLoses(p, Join(p))
  BY HandleJoinMoves
<1>2. /\ roster' = [roster EXCEPT ![p] = conns \ {p}]
      /\ handler' = [handler EXCEPT ![p] = "welcoming"] /\ handler[p] = "reading"
      /\ UNCHANGED <<conns, page, todo, pcs, down, overlaps>>
  BY DEF HandleJoin, Listed, client
<1>3. OffersStand'
  BY <1>1, <1>2, FrameFacts DEF MeshInv, MeetingInv, OffersStand, OutboxLoses, InboxesSame,
     OfferOut, AnswerOut, Answers, Stays, Others, TypeOK
<1>4. Met'
  <2>1. \A r \in Peers : page[r] \in {"shut", "open", "gone"} /\ (page[r] = "open" => r \in conns)
    BY DEF MeshInv, TypeOK, PagesServed
  <2> QED
    BY <2>1, <1>1, <1>2, FrameFacts DEF MeshInv, MeetingInv, Met, OutboxLoses, InboxesSame,
     Underway, CallAhead, InWelcome, Stays, Others, TypeOK
<1>5. NewcomersUnknown'
  <2> SUFFICES ASSUME NEW x \in Peers, page'[x] = "shut" PROVE Unknown(x)'
    BY DEF NewcomersUnknown
  <2>1. page[x] = "shut" /\ Unknown(x)
    BY <1>1, <1>2 DEF MeetingInv, NewcomersUnknown
  <2>2. x # p /\ x \notin conns
    BY <1>1, <1>2, <2>1, FrameFacts DEF Unknown, MeshInv, TypeOK, PagesServed, Others
  <2> QED
    BY <1>1, <1>2, <2>1, <2>2, FrameFacts, FramesHaveNoList DEF Unknown, OutboxLoses,
       InboxesSame, MeshInv, TypeOK, Others
<1>6. TurnsTaken'
  BY <1>1, <1>2, FrameFacts DEF MeshInv, MeetingInv, TurnsTaken, IsCalled, Apart, OutboxLoses,
     InboxesSame,
     Underway, CallAhead, InWelcome, OfferOut, Answers, Others, TypeOK
<1> QED
  BY <1>3, <1>4, <1>5, <1>6 DEF MeetingInv

\* The welcome has all of the snapshot.
LEMMA WriteWelcomeKeepsMeeting ==
  ASSUME MeshInv, MeetingInv, NEW p \in Peers, WriteWelcome(p)
  PROVE  MeetingInv'
<1>1. /\ InTyped' /\ OutTyped' /\ OutboxesSame /\ roster[p] \in SUBSET Others(p)
      /\ InboxesGet({p}, Welcome(p, roster[p]))
  BY WriteWelcomeMoves
<1>2. /\ roster' = [roster EXCEPT ![p] = {}]
      /\ handler' = [handler EXCEPT ![p] = "announcing"] /\ handler[p] = "welcoming"
      /\ UNCHANGED <<conns, page, todo, pcs, up, overlaps>>
  BY DEF WriteWelcome, client
<1>3. OffersStand'
  BY <1>1, <1>2, FrameFacts DEF MeshInv, MeetingInv, OffersStand, OutboxesSame, InboxesGet,
     OfferOut, AnswerOut, Answers, Stays, Others, TypeOK
<1>4. Met'
  BY <1>1, <1>2, FrameFacts DEF MeshInv, MeetingInv, Met, OutboxesSame, InboxesGet,
     Underway, CallAhead, InWelcome, Stays, Others, TypeOK
<1>5. NewcomersUnknown'
  BY <1>1, <1>2, FrameFacts DEF MeshInv, MeetingInv, NewcomersUnknown, Unknown, OutboxesSame,
     InboxesGet,
     Others, TypeOK
<1>6. TurnsTaken'
  BY <1>1, <1>2, FrameFacts DEF MeshInv, MeetingInv, TurnsTaken, IsCalled, Apart, OutboxesSame,
     InboxesGet,
     Underway, CallAhead, InWelcome, OfferOut, Answers, Others, TypeOK
<1> QED
  BY <1>3, <1>4, <1>5, <1>6 DEF MeetingInv

\* Nobody that is called by the newcomer hears of it before it calls.
LEMMA AnnounceJoinKeepsMeeting ==
  ASSUME MeshInv, MeetingInv, NEW p \in Peers, AnnounceJoin(p)
  PROVE  MeetingInv'
<1>1. /\ InTyped' /\ OutTyped' /\ OutboxesSame
      /\ InboxesGet(conns \ {p}, Frame("peer-joined", p))
  BY AnnounceJoinMoves
<1>2. /\ handler' = [handler EXCEPT ![p] = "reading"] /\ handler[p] = "announcing"
      /\ Join(p) \notin Outbox(p) /\ page[p] # "shut"
      /\ UNCHANGED <<conns, roster, page, todo, pcs, up, overlaps>>
  BY DEF AnnounceJoin, client, MeshInv, WelcomedOnce, PagesServed
<1>3. OffersStand'
  BY <1>1, <1>2, FrameFacts DEF MeshInv, MeetingInv, OffersStand, OutboxesSame, InboxesGet,
     OfferOut, AnswerOut, Answers, Stays, Others, TypeOK
<1>4. Met'
  <2>1. \A r \in Peers : page[r] \in {"shut", "open", "gone"} /\ (page[r] = "open" => r \in conns)
    BY DEF MeshInv, TypeOK, PagesServed
  <2> QED
    BY <2>1, <1>1, <1>2, FrameFacts DEF MeshInv, MeetingInv, Met, OutboxesSame, InboxesGet,
     Underway, CallAhead, InWelcome, Stays, Others, TypeOK
<1>5. NewcomersUnknown'
  <2> SUFFICES ASSUME NEW x \in Peers, page'[x] = "shut" PROVE Unknown(x)'
    BY DEF NewcomersUnknown
  <2>1. page[x] = "shut" /\ Unknown(x)
    BY <1>1, <1>2 DEF MeetingInv, NewcomersUnknown
  <2>2. x # p
    BY <1>1, <1>2, <2>1, FrameFacts DEF Unknown, MeshInv, PagesServed, Others
  <2> QED
    BY <1>1, <1>2, <2>1, <2>2, FrameFacts, FramesHaveNoList DEF Unknown, OutboxesSame,
       InboxesGet, MeshInv, TypeOK, Others
<1>6. TurnsTaken'
  BY <1>1, <1>2, FrameFacts DEF MeshInv, MeetingInv, TurnsTaken, IsCalled, Apart, OutboxesSame,
     InboxesGet,
     Underway, CallAhead, InWelcome, OfferOut, Answers, Others, TypeOK
<1> QED
  BY <1>3, <1>4, <1>5, <1>6 DEF MeetingInv

\* An offer to one that is open reaches it: the open ones are registered.
LEMMA RelayKeepsMeeting ==
  ASSUME MeshInv, MeetingInv, NEW p \in Peers, Relay(p)
  PROVE  MeetingInv'
<1>1. /\ InTyped' /\ OutTyped' /\ handler[p] = "reading"
      /\ UNCHANGED <<conns, handler, roster, page, todo, pcs, overlaps>>
  BY RelayMoves
<1>2. PICK q \in Others(p), type \in {"offer", "answer"} :
        /\ Frame(type, q) \in Outbox(p) /\ OutboxLoses(p, Frame(type, q))
        /\ InboxesGet({q} \intersect conns, Frame(type, p))
  BY RelayMoves
<1>3. OffersStand'
  <2>1. \A r \in Peers : page[r] \in {"shut", "open", "gone"} /\ (page[r] = "open" => r \in conns)
    BY DEF MeshInv, TypeOK, PagesServed
  <2>2. page[q] # "shut"
    BY <1>2, FrameFacts DEF MeetingInv, NewcomersUnknown, Unknown, Others
  <2> QED
    BY <2>1, <2>2, <1>1, <1>2, FrameFacts DEF MeshInv, MeetingInv, OffersStand, OutboxLoses,
       InboxesGet,
     OfferOut, AnswerOut, Answers, Stays, Others, TypeOK
<1>4. Met'
  BY <1>1, <1>2, FrameFacts DEF MeshInv, MeetingInv, Met, OutboxLoses, InboxesGet,
     Underway, CallAhead, InWelcome, Stays, Others, TypeOK
<1>5. NewcomersUnknown'
  <2> SUFFICES ASSUME NEW x \in Peers, page'[x] = "shut" PROVE Unknown(x)'
    BY DEF NewcomersUnknown
  <2>1. page[x] = "shut" /\ Unknown(x)
    BY <1>1, <1>2 DEF MeetingInv, NewcomersUnknown
  <2>2. x # p
    BY <1>1, <1>2, <2>1, FrameFacts DEF Unknown, MeshInv, PagesServed, Others
  <2> QED
    BY <1>1, <1>2, <2>1, <2>2, FrameFacts, FramesHaveNoList DEF Unknown, OutboxLoses,
       InboxesGet, MeshInv, TypeOK, Others
<1>6. TurnsTaken'
  BY <1>1, <1>2, FrameFacts DEF MeshInv, MeetingInv, TurnsTaken, IsCalled, Apart, OutboxLoses,
     InboxesGet,
     Underway, CallAhead, InWelcome, OfferOut, Answers, Others, TypeOK
<1> QED
  BY <1>3, <1>4, <1>5, <1>6 DEF MeetingInv

\* Only one that is gone loses its frames.
LEMMA CleanupKeepsMeeting ==
  ASSUME MeshInv, MeetingInv, NEW p \in Peers, Cleanup(p)
  PROVE  MeetingInv'
<1>1. /\ InTyped' /\ OutTyped' /\ InboxesSame
      /\ \A r \in Peers : Outbox(r)' = IF r = p THEN {} ELSE Outbox(r)
  BY CleanupMoves
<1>2. /\ conns' = conns \ {p} /\ handler' = [handler EXCEPT ![p] = "leaving"]
      /\ handler[p] = "reading" /\ page[p] = "gone"
      /\ UNCHANGED <<roster, page, todo, pcs, down, overlaps>>
  BY DEF Cleanup, client
<1>3. OffersStand'
  BY <1>1, <1>2, FrameFacts DEF MeshInv, MeetingInv, OffersStand, InboxesSame,
     OfferOut, AnswerOut, Answers, Stays, Others, TypeOK
<1>4. Met'
  BY <1>1, <1>2, FrameFacts DEF MeshInv, MeetingInv, Met, InboxesSame,
     Underway, CallAhead, InWelcome, Stays, Others, TypeOK
<1>5. NewcomersUnknown'
  BY <1>1, <1>2, FrameFacts DEF MeshInv, MeetingInv, NewcomersUnknown, Unknown, InboxesSame,
     Others, TypeOK
<1>6. TurnsTaken'
  BY <1>1, <1>2, FrameFacts DEF MeshInv, MeetingInv, TurnsTaken, IsCalled, Apart, InboxesSame,
     Underway, CallAhead, InWelcome, OfferOut, Answers, Others, TypeOK
<1> QED
  BY <1>3, <1>4, <1>5, <1>6 DEF MeetingInv

\* The news of one that is gone says nothing of two that stay.
LEMMA AnnounceLeftKeepsMeeting ==
  ASSUME MeshInv, MeetingInv, NEW p \in Peers, AnnounceLeft(p)
  PROVE  MeetingInv'
<1>1. /\ InTyped' /\ OutTyped' /\ OutboxesSame
      /\ InboxesGet(conns, Frame("peer-left", p)) /\ p \notin conns
  BY AnnounceLeftMoves
<1>2. /\ handler' = [handler EXCEPT ![p] = "done"] /\ handler[p] = "leaving"
      /\ UNCHANGED <<conns, roster, page, todo, pcs, up, overlaps>>
  BY DEF AnnounceLeft, client
<1>3. OffersStand'
  BY <1>1, <1>2, FrameFacts DEF MeshInv, MeetingInv, OffersStand, OutboxesSame, InboxesGet,
     OfferOut, AnswerOut, Answers, Stays, Others, TypeOK
<1>4. Met'
  BY <1>1, <1>2, FrameFacts DEF MeshInv, MeetingInv, Met, OutboxesSame, InboxesGet,
     Underway, CallAhead, InWelcome, Stays, Others, TypeOK
<1>5. NewcomersUnknown'
  <2> SUFFICES ASSUME NEW x \in Peers, page'[x] = "shut" PROVE Unknown(x)'
    BY DEF NewcomersUnknown
  <2>1. page[x] = "shut" /\ Unknown(x)
    BY <1>1, <1>2 DEF MeetingInv, NewcomersUnknown
  <2>2. x # p
    BY <1>1, <1>2, <2>1, FrameFacts DEF Unknown, MeshInv, PagesServed, Others
  <2> QED
    BY <1>1, <1>2, <2>1, <2>2, FrameFacts, FramesHaveNoList DEF Unknown, OutboxesSame,
       InboxesGet, MeshInv, TypeOK, Others
<1>6. TurnsTaken'
  <2>1. ASSUME NEW x \in Peers, NEW y \in Others(x), IsCalled(x, y), page[x] = "open"
        PROVE  IsCalled(x, y)'
    <3>1. ~ Underway(x)'
      BY <1>1, <1>2, <2>1 DEF IsCalled, Underway, OutboxesSame, MeshInv, TypeOK
    <3>2. ~ CallAhead(x, y)' /\ ~ OfferOut(x, y)' /\ Frame("peer-joined", x) \notin Inbox(y)'
      BY <1>1, <1>2, <2>1, FrameFacts DEF IsCalled, CallAhead, InWelcome, OfferOut, OutboxesSame,
         InboxesGet, Others
    <3> QED
      BY <1>2, <2>1, <3>1, <3>2 DEF IsCalled, Answers
  <2> QED
    BY <1>2, <2>1 DEF MeetingInv, TurnsTaken, Apart, Others
<1> QED
  BY <1>3, <1>4, <1>5, <1>6 DEF MeetingInv

\* The calls are still ahead.
LEMMA OnWelcomeKeepsMeeting ==
  ASSUME MeshInv, MeetingInv, NEW p \in Peers, OnWelcome(p)
  PROVE  MeetingInv'
<1>1. /\ InTyped' /\ OutTyped' /\ OutboxesSame /\ page[p] = "open"
      /\ UNCHANGED <<conns, handler, roster, page, pcs, up, overlaps>>
  BY OnWelcomeMoves DEF OnWelcome, gateway
<1>2. PICK f \in Inbox(p) : /\ f.type = "welcome" /\ f.list \in SUBSET Others(p)
                           /\ InboxLoses(p, f) /\ todo' = [todo EXCEPT ![p] = f.list]
  BY OnWelcomeMoves
<1>3. OffersStand'
  BY <1>1, <1>2, FrameFacts DEF MeshInv, MeetingInv, OffersStand, OutboxesSame, InboxLoses,
     OfferOut, AnswerOut, Answers, Stays, Others, TypeOK
<1>4. Met'
  <2> SUFFICES ASSUME NEW x \in Peers, NEW y \in Others(x),
                      (page[x] = "open" /\ Stays(y) /\ ~ Underway(x))'
               PROVE  (\/ pcs[y][x] # "none" \/ Frame("peer-joined", x) \in Inbox(y)
                       \/ CallAhead(y, x))'
    BY DEF Met
  <2>1. y \in Peers /\ x # y /\ page[x] = "open" /\ Stays(y) /\ ~ Underway(x)
    BY <1>1 DEF Others, Stays, Underway, OutboxesSame
  <2>2. pcs[y][x] # "none" \/ Frame("peer-joined", x) \in Inbox(y) \/ CallAhead(y, x)
    BY <2>1 DEF MeetingInv, Met
  <2>3. ASSUME CallAhead(y, x) PROVE CallAhead(y, x)'
    <3>1. (\A g \in Inbox(p) : g.type = "welcome" => g = f) /\ todo[p] = {}
      BY <1>2 DEF MeshInv, WelcomedOnce, Welcomed
    <3> QED
      BY <1>1, <1>2, <2>3, <3>1 DEF CallAhead, InWelcome, OutboxesSame, InboxLoses, MeshInv,
         TypeOK, Others
  <2>4. ASSUME Frame("peer-joined", x) \in Inbox(y)
        PROVE  (pcs[y][x] # "none" \/ Frame("peer-joined", x) \in Inbox(y))'
    BY <1>1, <1>2, <2>1, <2>4, FrameFacts DEF OutboxesSame, InboxLoses
  <2>5. ASSUME pcs[y][x] # "none" PROVE pcs[y][x]' # "none"
    BY <1>1, <1>2, <2>1, <2>5 DEF Changes
  <2> QED
    BY <2>2, <2>3, <2>4, <2>5
<1>5. NewcomersUnknown'
  BY <1>1, <1>2, FrameFacts DEF MeshInv, MeetingInv, NewcomersUnknown, Unknown, OutboxesSame,
     InboxLoses,
     Others, TypeOK
<1>6. TurnsTaken'
  BY <1>1, <1>2, FrameFacts DEF MeshInv, MeetingInv, TurnsTaken, IsCalled, Apart, OutboxesSame,
     InboxLoses,
     Underway, CallAhead, InWelcome, OfferOut, Answers, Others, TypeOK
<1> QED
  BY <1>3, <1>4, <1>5, <1>6 DEF MeetingInv

\* Whoever is called has not been known, or has called.
LEMMA StartCallKeepsMeeting ==
  ASSUME MeshInv, MeetingInv, NEW p \in Peers, NEW q \in Peers, StartCall(p, q)
  PROVE  MeetingInv'
<1>1. /\ InTyped' /\ OutTyped' /\ InboxesSame /\ OutboxesSame
      /\ page[p] = "open" /\ q \in todo[p] /\ q \in Others(p)
      /\ pcs' \in [Peers -> [Peers -> States]]
      /\ Changes(p, q, IF pcs[p][q] = "none" THEN "calling" ELSE pcs[p][q])
  BY StartCallMoves
<1>2. /\ todo' = [todo EXCEPT ![p] = @ \ {q}]
      /\ UNCHANGED <<conns, handler, roster, page, up, down, overlaps>>
  BY DEF StartCall, gateway
<1>3. OffersStand'
  <2>1. \A x, y \in Peers : pcs'[x][y] # pcs[x][y] => /\ x = p /\ y = q
                                                     /\ pcs'[x][y] = "calling" /\ pcs[x][y] = "none"
    BY <1>1 DEF Changes
  <2>2. \A x, y \in Peers : /\ OfferOut(x, y)' = OfferOut(x, y)
                           /\ AnswerOut(x, y)' = AnswerOut(x, y) /\ Stays(x)' = Stays(x)
    BY <1>1, <1>2 DEF OfferOut, AnswerOut, Stays, InboxesSame, OutboxesSame
  <2> QED
    BY <2>1, <2>2 DEF MeetingInv, OffersStand, Answers, Others
<1>4. Met'
  BY <1>1, <1>2, FrameFacts DEF MeshInv, MeetingInv, Met, InboxesSame, OutboxesSame, Changes,
     Underway, CallAhead, InWelcome, Stays, Others, TypeOK
<1>5. NewcomersUnknown'
  BY <1>1, <1>2, FrameFacts DEF MeshInv, MeetingInv, NewcomersUnknown, Unknown, InboxesSame,
     OutboxesSame, Changes,
     Others, TypeOK
<1>6. TurnsTaken'
  BY <1>1, <1>2, FrameFacts DEF MeshInv, MeetingInv, TurnsTaken, IsCalled, Apart, InboxesSame,
     OutboxesSame, Changes,
     Underway, CallAhead, InWelcome, OfferOut, Answers, Others, TypeOK
<1> QED
  BY <1>3, <1>4, <1>5, <1>6 DEF MeetingInv

\* The offer is out.
LEMMA FinishCallKeepsMeeting ==
  ASSUME MeshInv, MeetingInv, NEW p \in Peers, NEW q \in Peers, FinishCall(p, q)
  PROVE  MeetingInv'
<1>1. /\ InTyped' /\ OutTyped' /\ InboxesSame /\ OutboxGets(p, Frame("offer", q))
      /\ page[p] = "open" /\ pcs[p][q] = "calling" /\ q \in Others(p)
      /\ pcs' \in [Peers -> [Peers -> States]] /\ Changes(p, q, "offering")
  BY FinishCallMoves
<1>2. UNCHANGED <<conns, handler, roster, page, todo, down, overlaps>>
  BY DEF FinishCall, gateway
<1>3. OffersStand'
  BY <1>1, <1>2, FrameFacts DEF MeshInv, MeetingInv, OffersStand, InboxesSame, OutboxGets,
     Changes,
     OfferOut, AnswerOut, Answers, Stays, Others
<1>4. Met'
  BY <1>1, <1>2, FrameFacts DEF MeshInv, MeetingInv, Met, InboxesSame, OutboxGets, Changes,
     Underway, CallAhead, InWelcome, Stays, Others
<1>5. NewcomersUnknown'
  <2> SUFFICES ASSUME NEW x \in Peers, page'[x] = "shut" PROVE Unknown(x)'
    BY DEF NewcomersUnknown
  <2>1. page[x] = "shut" /\ Unknown(x)
    BY <1>1, <1>2 DEF MeetingInv, NewcomersUnknown
  <2>2. x # p /\ x # q
    BY <1>1, <1>2, <2>1, FrameFacts DEF Unknown, MeshInv, PagesServed, Others
  <2> QED
    BY <1>1, <1>2, <2>1, <2>2, FrameFacts, FramesHaveNoList DEF Unknown, InboxesSame,
       OutboxGets, Changes, MeshInv, TypeOK, Others
<1>6. TurnsTaken'
  BY <1>1, <1>2, FrameFacts DEF MeshInv, MeetingInv, TurnsTaken, IsCalled, Apart, InboxesSame,
     OutboxGets, Changes,
     Underway, CallAhead, InWelcome, OfferOut, Answers, Others
<1> QED
  BY <1>3, <1>4, <1>5, <1>6 DEF MeetingInv

\* The answer is out.
LEMMA FinishAnswerKeepsMeeting ==
  ASSUME MeshInv, MeetingInv, NEW p \in Peers, NEW q \in Peers, FinishAnswer(p, q)
  PROVE  MeetingInv'
<1>1. /\ InTyped' /\ OutTyped' /\ InboxesSame /\ OutboxGets(p, Frame("answer", q))
      /\ page[p] = "open" /\ pcs[p][q] = "answering" /\ q \in Others(p)
      /\ pcs' \in [Peers -> [Peers -> States]] /\ Changes(p, q, "answerer")
  BY FinishAnswerMoves
<1>2. UNCHANGED <<conns, handler, roster, page, todo, down, overlaps>>
  BY DEF FinishAnswer, gateway
<1>3. OffersStand'
  BY <1>1, <1>2, FrameFacts DEF MeshInv, MeetingInv, OffersStand, InboxesSame, OutboxGets,
     Changes,
     OfferOut, AnswerOut, Answers, Stays, Others
<1>4. Met'
  BY <1>1, <1>2, FrameFacts DEF MeshInv, MeetingInv, Met, InboxesSame, OutboxGets, Changes,
     Underway, CallAhead, InWelcome, Stays, Others
<1>5. NewcomersUnknown'
  <2> SUFFICES ASSUME NEW x \in Peers, page'[x] = "shut" PROVE Unknown(x)'
    BY DEF NewcomersUnknown
  <2>1. page[x] = "shut" /\ Unknown(x)
    BY <1>1, <1>2 DEF MeetingInv, NewcomersUnknown
  <2>2. x # p /\ x # q
    BY <1>1, <1>2, <2>1, FrameFacts DEF Unknown, MeshInv, PagesServed, Others
  <2> QED
    BY <1>1, <1>2, <2>1, <2>2, FrameFacts, FramesHaveNoList DEF Unknown, InboxesSame,
       OutboxGets, Changes, MeshInv, TypeOK, Others
<1>6. TurnsTaken'
  BY <1>1, <1>2, FrameFacts DEF MeshInv, MeetingInv, TurnsTaken, IsCalled, Apart, InboxesSame,
     OutboxGets, Changes,
     Underway, CallAhead, InWelcome, OfferOut, Answers, Others
<1> QED
  BY <1>3, <1>4, <1>5, <1>6 DEF MeetingInv

\* Whoever is heard of is known from here on.
LEMMA OnPeerJoinedKeepsMeeting ==
  ASSUME MeshInv, MeetingInv, NEW p \in Peers, OnPeerJoined(p)
  PROVE  MeetingInv'
<1>1. /\ InTyped' /\ OutTyped' /\ OutboxesSame /\ page[p] = "open"
      /\ pcs' \in [Peers -> [Peers -> States]]
      /\ UNCHANGED <<conns, handler, roster, page, todo, up, overlaps>>
  BY OnPeerJoinedMoves DEF OnPeerJoined, gateway
<1>2. PICK q \in Others(p) :
        /\ Frame("peer-joined", q) \in Inbox(p) /\ InboxLoses(p, Frame("peer-joined", q))
        /\ Changes(p, q, IF pcs[p][q] = "none" THEN "idle" ELSE pcs[p][q])
  BY OnPeerJoinedMoves
<1>3. OffersStand'
  BY <1>1, <1>2, FrameFacts DEF MeshInv, MeetingInv, OffersStand, OutboxesSame, InboxLoses,
     Changes,
     OfferOut, AnswerOut, Answers, Stays, Others
<1>4. Met'
  <2> SUFFICES ASSUME NEW x \in Peers, NEW y \in Others(x),
                      (page[x] = "open" /\ Stays(y) /\ ~ Underway(x))'
               PROVE  (\/ pcs[y][x] # "none" \/ Frame("peer-joined", x) \in Inbox(y)
                       \/ CallAhead(y, x))'
    BY DEF Met
  <2>1. y \in Peers /\ x # y /\ page[x] = "open" /\ Stays(y) /\ ~ Underway(x)
    BY <1>1 DEF Others, Stays, Underway, OutboxesSame
  <2>2. pcs[y][x] # "none" \/ Frame("peer-joined", x) \in Inbox(y) \/ CallAhead(y, x)
    BY <2>1 DEF MeetingInv, Met
  <2>3. ASSUME CallAhead(y, x) PROVE CallAhead(y, x)'
    BY <1>1, <1>2, <2>3, FrameFacts DEF CallAhead, InWelcome, OutboxesSame, InboxLoses, Changes,
       MeshInv, TypeOK, Others
  <2>4. ASSUME Frame("peer-joined", x) \in Inbox(y)
        PROVE  (pcs[y][x] # "none" \/ Frame("peer-joined", x) \in Inbox(y))'
    BY <1>1, <1>2, <2>1, <2>4, FrameFacts DEF OutboxesSame, InboxLoses, Changes
  <2>5. ASSUME pcs[y][x] # "none" PROVE pcs[y][x]' # "none"
    BY <1>1, <1>2, <2>1, <2>5 DEF Changes
  <2> QED
    BY <2>2, <2>3, <2>4, <2>5
<1>5. NewcomersUnknown'
  <2> SUFFICES ASSUME NEW x \in Peers, page'[x] = "shut" PROVE Unknown(x)'
    BY DEF NewcomersUnknown
  <2>1. page[x] = "shut" /\ Unknown(x)
    BY <1>1, <1>2 DEF MeetingInv, NewcomersUnknown
  <2>2. x # p /\ x # q
    BY <1>1, <1>2, <2>1, FrameFacts DEF Unknown, MeshInv, PagesServed, Others
  <2> QED
    BY <1>1, <1>2, <2>1, <2>2, FrameFacts, FramesHaveNoList DEF Unknown, OutboxesSame,
       InboxLoses, Changes, MeshInv, TypeOK, Others
<1>6. TurnsTaken'
  BY <1>1, <1>2, FrameFacts DEF MeshInv, MeetingInv, TurnsTaken, IsCalled, Apart, OutboxesSame,
     InboxLoses, Changes,
     Underway, CallAhead, InWelcome, OfferOut, Answers, Others
<1> QED
  BY <1>3, <1>4, <1>5, <1>6 DEF MeetingInv

\* The peer that is forgotten is gone.
LEMMA OnPeerLeftKeepsMeeting ==
  ASSUME MeshInv, MeetingInv, NEW p \in Peers, OnPeerLeft(p)
  PROVE  MeetingInv'
<1>1. /\ InTyped' /\ OutTyped' /\ OutboxesSame /\ page[p] = "open"
      /\ pcs' \in [Peers -> [Peers -> States]]
      /\ UNCHANGED <<conns, handler, roster, page, todo, up, overlaps>>
  BY OnPeerLeftMoves DEF OnPeerLeft, gateway
<1>2. PICK q \in Others(p) :
        /\ Frame("peer-left", q) \in Inbox(p) /\ InboxLoses(p, Frame("peer-left", q))
        /\ Changes(p, q, "none")
  BY OnPeerLeftMoves
<1>3. OffersStand'
  <2>1. page[q] = "gone" /\ q \in Peers
    BY <1>2 DEF MeshInv, AnnouncedOnce, PagesServed, Others
  <2> QED
    BY <2>1, <1>1, <1>2, FrameFacts DEF MeshInv, MeetingInv, OffersStand, OutboxesSame,
       InboxLoses, Changes,
     OfferOut, AnswerOut, Answers, Stays, Others
<1>4. Met'
  <2>1. page[q] = "gone" /\ q \in Peers
    BY <1>2 DEF MeshInv, AnnouncedOnce, PagesServed, Others
  <2> QED
    BY <2>1, <1>1, <1>2, FrameFacts DEF MeshInv, MeetingInv, Met, OutboxesSame, InboxLoses,
       Changes,
     Underway, CallAhead, InWelcome, Stays, Others
<1>5. NewcomersUnknown'
  BY <1>1, <1>2, FrameFacts DEF MeshInv, MeetingInv, NewcomersUnknown, Unknown, OutboxesSame,
     InboxLoses, Changes,
     Others
<1>6. TurnsTaken'
  <2>1. page[q] = "gone" /\ q \in Peers
    BY <1>2 DEF MeshInv, AnnouncedOnce, PagesServed, Others
  <2>2. ASSUME NEW x \in Peers, NEW y \in Others(x), page[x] = "open", page[y] = "open",
               IsCalled(x, y)
        PROVE  IsCalled(x, y)'
    <3>1. y \in Peers /\ x # y
      BY DEF Others
    <3>2. ~ Underway(x)' /\ ~ CallAhead(x, y)' /\ ~ OfferOut(x, y)'
      BY <1>1, <1>2, <2>2, <3>1 DEF IsCalled, Underway, CallAhead, InWelcome, OfferOut,
         OutboxesSame, InboxLoses
    <3>3. Frame("peer-joined", x) \notin Inbox(y)'
      BY <1>2, <2>2, <3>1 DEF IsCalled, InboxLoses
    <3>4. pcs'[x][y] \notin {"calling", "offering", "offerer"}
      BY <1>2, <2>1, <2>2, <3>1 DEF IsCalled, Changes
    <3>5. pcs'[y][x] # "idle" /\ ~ Answers(y, x)'
      BY <1>2, <2>1, <2>2, <3>1 DEF IsCalled, Answers, Changes
    <3> QED
      BY <3>2, <3>3, <3>4, <3>5 DEF IsCalled
  <2> QED
    BY <1>1, <2>2 DEF MeetingInv, TurnsTaken, Apart, Others
<1> QED
  BY <1>3, <1>4, <1>5, <1>6 DEF MeetingInv

\* An offer that rolls back another is of a pair that overlaps; in the other
\* pairs the one that is called answers.
LEMMA OnOfferKeepsMeeting ==
  ASSUME MeshInv, MeetingInv, NEW p \in Peers, OnOffer(p)
  PROVE  MeetingInv'
<1>1. /\ InTyped' /\ OutTyped' /\ OutboxesSame /\ page[p] = "open"
      /\ pcs' \in [Peers -> [Peers -> States]]
      /\ UNCHANGED <<conns, handler, roster, page, todo, up, overlaps>>
  BY OnOfferMoves DEF OnOffer, gateway
<1>2. PICK q \in Others(p) :
        /\ Frame("offer", q) \in Inbox(p) /\ InboxLoses(p, Frame("offer", q))
        /\ Changes(p, q, "answering")
  BY OnOfferMoves
<1>3. OffersStand'
  BY <1>1, <1>2, FrameFacts DEF MeshInv, MeetingInv, OffersStand, OutboxesSame, InboxLoses,
     Changes,
     OfferOut, AnswerOut, Answers, Stays, Others
<1>4. Met'
  <2> SUFFICES ASSUME NEW x \in Peers, NEW y \in Others(x),
                      (page[x] = "open" /\ Stays(y) /\ ~ Underway(x))'
               PROVE  (\/ pcs[y][x] # "none" \/ Frame("peer-joined", x) \in Inbox(y)
                       \/ CallAhead(y, x))'
    BY DEF Met
  <2>1. y \in Peers /\ x # y /\ page[x] = "open" /\ Stays(y) /\ ~ Underway(x)
    BY <1>1 DEF Others, Stays, Underway, OutboxesSame
  <2>2. pcs[y][x] # "none" \/ Frame("peer-joined", x) \in Inbox(y) \/ CallAhead(y, x)
    BY <2>1 DEF MeetingInv, Met
  <2>3. ASSUME CallAhead(y, x) PROVE CallAhead(y, x)'
    BY <1>1, <1>2, <2>3, FrameFacts DEF CallAhead, InWelcome, OutboxesSame, InboxLoses, Changes,
       MeshInv, TypeOK, Others
  <2>4. ASSUME Frame("peer-joined", x) \in Inbox(y)
        PROVE  (pcs[y][x] # "none" \/ Frame("peer-joined", x) \in Inbox(y))'
    BY <1>1, <1>2, <2>1, <2>4, FrameFacts DEF OutboxesSame, InboxLoses, Changes
  <2>5. ASSUME pcs[y][x] # "none" PROVE pcs[y][x]' # "none"
    BY <1>1, <1>2, <2>1, <2>5 DEF Changes
  <2> QED
    BY <2>2, <2>3, <2>4, <2>5
<1>5. NewcomersUnknown'
  <2> SUFFICES ASSUME NEW x \in Peers, page'[x] = "shut" PROVE Unknown(x)'
    BY DEF NewcomersUnknown
  <2>1. page[x] = "shut" /\ Unknown(x)
    BY <1>1, <1>2 DEF MeetingInv, NewcomersUnknown
  <2>2. x # p /\ x # q
    BY <1>1, <1>2, <2>1, FrameFacts DEF Unknown, MeshInv, PagesServed, Others
  <2> QED
    <3>1. \A r \in Peers : pcs'[r][x] = "none"
      BY <1>2, <2>1, <2>2 DEF Unknown, Changes
    <3>2. \A r \in Peers : Inbox(r)' \subseteq Inbox(r) /\ Outbox(r)' = Outbox(r)
      BY <1>1, <1>2 DEF InboxLoses, OutboxesSame
    <3> QED
      BY <1>1, <2>1, <3>1, <3>2 DEF Unknown
<1>6. TurnsTaken'
  <2>1. ~ IsCalled(q, p) /\ q \in Peers
    BY <1>2 DEF IsCalled, OfferOut, Others
  <2>2. ASSUME NEW x \in Peers, NEW y \in Others(x), page[x] = "open", page[y] = "open",
               IsCalled(x, y)
        PROVE  IsCalled(x, y)'
    <3>1. y \in Peers /\ x # y
      BY DEF Others
    <3>2. ~ Underway(x)' /\ ~ CallAhead(x, y)' /\ ~ OfferOut(x, y)'
      BY <1>1, <1>2, <2>2, <3>1 DEF IsCalled, Underway, CallAhead, InWelcome, OfferOut,
         OutboxesSame, InboxLoses
    <3>3. Frame("peer-joined", x) \notin Inbox(y)'
      BY <1>2, <2>2, <3>1 DEF IsCalled, InboxLoses
    <3>4. pcs'[x][y] \notin {"calling", "offering", "offerer"}
      BY <1>2, <2>1, <2>2, <3>1 DEF IsCalled, Changes
    <3>5. pcs'[y][x] # "idle" /\ ~ Answers(y, x)'
      BY <1>2, <2>1, <2>2, <3>1 DEF IsCalled, Answers, Changes
    <3> QED
      BY <3>2, <3>3, <3>4, <3>5 DEF IsCalled
  <2> QED
    BY <1>1, <2>2 DEF MeetingInv, TurnsTaken, Apart, Others
<1> QED
  BY <1>3, <1>4, <1>5, <1>6 DEF MeetingInv

\* The answer belongs to the offer that is out.
LEMMA OnAnswerKeepsMeeting ==
  ASSUME MeshInv, MeetingInv, NEW p \in Peers, OnAnswer(p)
  PROVE  MeetingInv'
<1>1. /\ InTyped' /\ OutTyped' /\ OutboxesSame /\ page[p] = "open"
      /\ pcs' \in [Peers -> [Peers -> States]]
      /\ UNCHANGED <<conns, handler, roster, page, todo, up, overlaps>>
  BY OnAnswerMoves DEF OnAnswer, gateway
<1>2. PICK q \in Others(p) :
        /\ Frame("answer", q) \in Inbox(p) /\ InboxLoses(p, Frame("answer", q))
        /\ Changes(p, q, IF pcs[p][q] = "offering" THEN "offerer" ELSE pcs[p][q])
  BY OnAnswerMoves
<1>3. OffersStand'
  BY <1>1, <1>2, FrameFacts DEF MeshInv, MeetingInv, OffersStand, OutboxesSame, InboxLoses,
     Changes,
     OfferOut, AnswerOut, Answers, Stays, Others
<1>4. Met'
  BY <1>1, <1>2, FrameFacts DEF MeshInv, MeetingInv, Met, OutboxesSame, InboxLoses, Changes,
     Underway, CallAhead, InWelcome, Stays, Others
<1>5. NewcomersUnknown'
  BY <1>1, <1>2, FrameFacts DEF MeshInv, MeetingInv, NewcomersUnknown, Unknown, OutboxesSame,
     InboxLoses, Changes,
     Others
<1>6. TurnsTaken'
  BY <1>1, <1>2, FrameFacts DEF MeshInv, MeetingInv, TurnsTaken, IsCalled, Apart, OutboxesSame,
     InboxLoses, Changes,
     Underway, CallAhead, InWelcome, OfferOut, Answers, Others
<1> QED
  BY <1>3, <1>4, <1>5, <1>6 DEF MeetingInv

\* Whoever leaves is no longer of two that stay.
LEMMA LeaveKeepsMeeting ==
  ASSUME MeshInv, MeetingInv, NEW p \in Peers, Leave(p)
  PROVE  MeetingInv'
<1>1. /\ InTyped' /\ OutTyped' /\ OutboxesSame
      /\ \A r \in Peers : Inbox(r)' = IF r = p THEN {} ELSE Inbox(r)
      /\ page[p] = "open" /\ pcs' \in [Peers -> [Peers -> States]]
      /\ \A r, s \in Peers : pcs'[r][s] = IF r = p THEN "none" ELSE pcs[r][s]
  BY LeaveMoves
<1>2. /\ page' = [page EXCEPT ![p] = "gone"] /\ todo' = [todo EXCEPT ![p] = {}]
      /\ UNCHANGED <<conns, handler, roster, up, overlaps>>
  BY DEF Leave, gateway
<1>3. OffersStand'
  BY <1>1, <1>2, FrameFacts DEF MeshInv, MeetingInv, OffersStand, OutboxesSame,
     OfferOut, AnswerOut, Answers, Stays, Others, TypeOK
<1>4. Met'
  BY <1>1, <1>2, FrameFacts DEF MeshInv, MeetingInv, Met, OutboxesSame,
     Underway, CallAhead, InWelcome, Stays, Others, TypeOK
<1>5. NewcomersUnknown'
  BY <1>1, <1>2, FrameFacts DEF MeshInv, MeetingInv, NewcomersUnknown, Unknown, OutboxesSame,
     Others, TypeOK
<1>6. TurnsTaken'
  BY <1>1, <1>2, FrameFacts DEF MeshInv, MeetingInv, TurnsTaken, IsCalled, Apart, OutboxesSame,
     Underway, CallAhead, InWelcome, OfferOut, Answers, Others, TypeOK
<1> QED
  BY <1>3, <1>4, <1>5, <1>6 DEF MeetingInv

\* At first nobody is there.
LEMMA MeetingStarts == Init => MeetingInv
<1> SUFFICES ASSUME Init PROVE MeetingInv
  OBVIOUS
<1>1. /\ \A p \in Peers : /\ Outbox(p) = {} /\ Inbox(p) = {} /\ page[p] = "shut"
                          /\ todo[p] = {} /\ roster[p] = {}
      /\ \A p, q \in Peers : pcs[p][q] = "none"
  BY NothingInEmpty DEF Init, Outbox, Inbox
<1> QED
  BY <1>1 DEF MeetingInv, OffersStand, Met, NewcomersUnknown, Unknown, TurnsTaken, OfferOut,
     Answers,
     Others

\* A stuttering step keeps all of it.
LEMMA StillMeeting == ASSUME MeetingInv, UNCHANGED vars PROVE MeetingInv'
<1>1. /\ UNCHANGED <<conns, handler, roster, page, todo, pcs, up, down, overlaps>>
      /\ InboxesSame /\ OutboxesSame
  BY SameInboxes, SameOutboxes DEF vars, gateway, client
<1>2. OffersStand' /\ NewcomersUnknown'
  BY <1>1 DEF MeetingInv, OffersStand, NewcomersUnknown, Unknown, OfferOut, AnswerOut, Answers,
     Stays, Others, InboxesSame, OutboxesSame
<1>3. Met' /\ TurnsTaken'
  BY <1>1 DEF MeetingInv, Met, TurnsTaken, IsCalled, Apart, Underway, CallAhead, InWelcome,
     OfferOut,
     Answers, Stays, Others, InboxesSame, OutboxesSame
<1> QED
  BY <1>2, <1>3 DEF MeetingInv

\* MeetingInv is inductive, given MeshInv.
LEMMA StepKeepsMeeting == MeshInv /\ MeetingInv /\ [Next]_vars => MeetingInv'
<1> SUFFICES ASSUME MeshInv, MeetingInv, [Next]_vars PROVE MeetingInv'
  OBVIOUS
<1>1. ASSUME NEW p \in Peers, Handle(p) PROVE MeetingInv'
  BY <1>1, HandleJoinKeepsMeeting, WriteWelcomeKeepsMeeting, AnnounceJoinKeepsMeeting,
     RelayKeepsMeeting, CleanupKeepsMeeting, AnnounceLeftKeepsMeeting DEF Handle
<1>2. ASSUME NEW p \in Peers, Browse(p) PROVE MeetingInv'
  BY <1>2, OnWelcomeKeepsMeeting, OnPeerJoinedKeepsMeeting, OnPeerLeftKeepsMeeting,
     OnOfferKeepsMeeting, OnAnswerKeepsMeeting, StartCallKeepsMeeting, FinishCallKeepsMeeting,
     FinishAnswerKeepsMeeting DEF Browse
<1>3. ASSUME NEW p \in Peers, Connect(p) \/ Leave(p) PROVE MeetingInv'
  BY <1>3, ConnectKeepsMeeting, LeaveKeepsMeeting
<1> QED
  BY <1>1, <1>2, <1>3, StillMeeting DEF Next

(***************************************************************************)
(* What the handlers of two joins promise about the two newcomers: each    *)
(* has heard of the other, or will; an offer that is out is still to be    *)
(* answered; and when the join of the first was over before the second     *)
(* came, the second calls the first and not the other way round.           *)
(***************************************************************************)
THEOREM MeetingsStaySound == Spec => [](MeshInv /\ MeetingInv)
BY MeshStarts, MeetingStarts, StepKeepsMesh, StepKeepsMeeting, PTL DEF Spec

\* What rest means for two peers that stay.
LEMMA AtRest ==
  ASSUME MeshInv, Quiet, NEW p \in Peers, NEW q \in Peers, BothStay(p, q)
  PROVE  /\ q \in Others(p) /\ Stays(p) /\ Stays(q)
         /\ ~ OfferOut(p, q) /\ ~ AnswerOut(q, p) /\ ~ CallAhead(p, q) /\ ~ Underway(p)
         /\ Frame("peer-joined", p) \notin Inbox(q)
         /\ pcs[p][q] \in {"none", "idle", "offering", "offerer", "answerer"}
<1>1. \A r \in Peers : Outbox(r) = {} /\ Inbox(r) = {} /\ todo[r] = {}
  BY NothingInEmpty DEF Quiet, Outbox, Inbox
<1>2. handler[p] \in {"none", "reading", "done"} /\ roster[p] = {}
  BY DEF Quiet, MeshInv, WelcomedOnce
<1>3. q \in Others(p) /\ Stays(p) /\ Stays(q) /\ page[p] = "open"
  BY DEF BothStay, Others, Stays
<1>4. pcs[p][q] \in {"none", "idle", "offering", "offerer", "answerer"}
  BY DEF Quiet, MeshInv, TypeOK, States
<1> QED
  BY <1>1, <1>2, <1>3, <1>4 DEF OfferOut, AnswerOut, CallAhead, InWelcome, Underway

\* Two that stay are settled once everything is at rest.
LEMMA RestSettles ==
  ASSUME MeshInv, MeetingInv, Quiet, NEW p \in Peers, NEW q \in Peers, BothStay(p, q)
  PROVE  <<pcs[p][q], pcs[q][p]>> \in Outcomes
<1>1. BothStay(q, p)
  BY DEF BothStay
<1>2. pcs[p][q] \in {"idle", "offerer", "answerer"} /\ pcs[q][p] \in {"idle", "offerer", "answerer"}
  <2>1. ASSUME NEW x \in Peers, NEW y \in Peers, BothStay(x, y), BothStay(y, x)
        PROVE  pcs[x][y] \in {"idle", "offerer", "answerer"}
    <3>1. /\ y \in Others(x) /\ Stays(x) /\ Stays(y) /\ ~ OfferOut(x, y) /\ ~ AnswerOut(y, x)
          /\ ~ CallAhead(x, y) /\ pcs[x][y] \in {"none", "idle", "offering", "offerer", "answerer"}
      BY <2>1, AtRest
    <3>2. /\ x \in Others(y) /\ ~ Underway(y) /\ Frame("peer-joined", y) \notin Inbox(x)
          /\ pcs[y][x] # "answering" /\ page[y] = "open"
      BY <2>1, AtRest DEF BothStay
    <3>3. pcs[x][y] # "none"
      BY <3>1, <3>2 DEF MeetingInv, Met
    <3>4. pcs[x][y] # "offering"
      BY <3>1, <3>2 DEF MeetingInv, OffersStand
    <3> QED
      BY <3>1, <3>3, <3>4
  <2> QED
    BY <1>1, <2>1
<1>3. /\ pcs[p][q] = "offerer" => pcs[q][p] = "answerer"
      /\ pcs[q][p] = "offerer" => pcs[p][q] = "answerer"
  BY <1>1, AtRest DEF MeshInv, AnswersStand
<1>4. /\ pcs[p][q] = "answerer" => pcs[q][p] \in {"offerer", "answerer"}
      /\ pcs[q][p] = "answerer" => pcs[p][q] \in {"offerer", "answerer"}
  BY <1>1, <1>2, AtRest DEF MeetingInv, OffersStand, Answers
<1> QED
  BY <1>2, <1>3, <1>4 DEF Outcomes

(***************************************************************************)
(* Once all sockets are read and all browsers idle, any two pages that     *)
(* stay have come to one of the outcomes of the negotiation: connected,    *)
(* both answerers after a rollback in onOffer, or both idle because each   *)
(* heard of the other in peer-joined first. Nobody has an offer out or     *)
(* has never heard of the other: between the snapshot and the broadcast    *)
(* of HandleWsSignal no newcomer falls through.                            *)
(***************************************************************************)
THEOREM PairsAlwaysSettle == Spec => []PairsSettle
<1>1. MeshInv /\ MeetingInv => PairsSettle
  BY RestSettles DEF PairsSettle
<1> QED
  BY <1>1, MeetingsStaySound, PTL

(***************************************************************************)
(* Two pages whose joins did not overlap are connected once all is at      *)
(* rest, one as the offerer and the other as the answerer: whoever came    *)
(* first is called by the other, so no two offers of theirs can collide.   *)
(***************************************************************************)
THEOREM TurnsAlwaysConnect == Spec => []TurnsConnect
<1>1. MeshInv /\ MeetingInv => TurnsConnect
  <2> SUFFICES ASSUME MeshInv, MeetingInv, Quiet, NEW p \in Peers, NEW q \in Peers,
                      BothStay(p, q), {<<p, q>>, <<q, p>>} \intersect overlaps = {}
               PROVE  Connected(p, q)
    BY DEF TurnsConnect
  <2>1. /\ <<pcs[p][q], pcs[q][p]>> \in Outcomes
        /\ IsCalled(p, q) \/ IsCalled(q, p)
    BY RestSettles, AtRest DEF MeetingInv, TurnsTaken, Apart, BothStay
  <2>2. \/ pcs[p][q] = "answerer" /\ pcs[q][p] = "offerer"
        \/ pcs[p][q] = "offerer" /\ pcs[q][p] = "answerer"
    BY <2>1 DEF IsCalled, Answers, Outcomes
  <2> QED
    BY <2>2 DEF Connected, Negotiated
<1> QED
  BY <1>1, MeetingsStaySound, PTL
-----------------------------------------------------------------------------
(***************************************************************************)
(* How a page parts from a peer that has left.                             *)
(***************************************************************************)
\* The news comes after everything else of q that is still in the inbox.
NewsIsLast(p, q) ==
  \E k \in DOMAIN down[p] : /\ down[p][k] = Frame("peer-left", q)
                            /\ \A j \in DOMAIN down[p] : j > k => down[p][j].peer # q
NotYetAnswered == {"none", "calling", "offering"}
Forgotten(p, q) == pcs[p][q] \in NotYetAnswered /\ \A f \in Inbox(p) : f.peer # q
PartingInv ==
  \A p \in Peers : \A q \in Others(p) :
    page[p] = "open" /\ handler[q] = "done" => NewsIsLast(p, q) \/ Forgotten(p, q)

\* Frames of others behind the news, or before it, change nothing, ...
LEMMA PartingHolds ==
  ASSUME InTyped, NEW p \in Peers, NEW q \in Others(p), NewsIsLast(p, q) \/ Forgotten(p, q),
         down'[p] = down[p] \/ \E f : f.peer # q /\ down'[p] = Append(down[p], f),
         pcs[p][q] \in NotYetAnswered => pcs'[p][q] \in NotYetAnswered
  PROVE  (NewsIsLast(p, q) \/ Forgotten(p, q))'
<1>1. CASE down'[p] = down[p]
  BY <1>1 DEF NewsIsLast, Forgotten, Inbox
<1>2. ASSUME NEW f, f.peer # q, down'[p] = Append(down[p], f)
      PROVE  (NewsIsLast(p, q) \/ Forgotten(p, q))'
  <2>0. down[p] \in Seq(InFrames(p) \union {f})
    BY SeqMonotonic DEF InTyped
  <2>1. /\ Len(down[p]) \in Nat /\ DOMAIN down[p] = 1 .. Len(down[p])
        /\ DOMAIN down'[p] = 1 .. Len(down[p]) + 1 /\ down'[p][Len(down[p]) + 1] = f
        /\ \A i \in 1 .. Len(down[p]) : down'[p][i] = down[p][i]
    BY <1>2, <2>0, AppendProperties, LenProperties
  <2>2. ASSUME NewsIsLast(p, q) PROVE NewsIsLast(p, q)'
    <3>1. PICK k \in DOMAIN down[p] : /\ down[p][k] = Frame("peer-left", q)
                                      /\ \A j \in DOMAIN down[p] : j > k => down[p][j].peer # q
      BY <2>2 DEF NewsIsLast
    <3>2. k \in DOMAIN down'[p] /\ down'[p][k] = Frame("peer-left", q)
      BY <2>1, <3>1
    <3>3. ASSUME NEW j \in DOMAIN down'[p], j > k PROVE down'[p][j].peer # q
      <4>1. CASE j = Len(down[p]) + 1
        BY <1>2, <2>1, <4>1
      <4>2. CASE j \in 1 .. Len(down[p])
        BY <2>1, <3>1, <3>3, <4>2
      <4> QED
        BY <2>1, <4>1, <4>2
    <3> QED
      BY <3>2, <3>3 DEF NewsIsLast
  <2>3. ASSUME Forgotten(p, q) PROVE Forgotten(p, q)'
    <3>1. \A g \in Inbox(p)' : g = f \/ g \in Inbox(p)
      BY <2>1 DEF Inbox, Range
    <3> QED
      BY <1>2, <2>3, <3>1 DEF Forgotten
  <2> QED
    BY <2>2, <2>3
<1> QED
  BY <1>1, <1>2

\* ... and neither does taking the next frame, up to the news itself.
LEMMA PartingGoesOn ==
  ASSUME InTyped, NEW p \in Peers, NEW q \in Others(p), NewsIsLast(p, q) \/ Forgotten(p, q),
         down[p] # <<>>, down'[p] = Tail(down[p]),
         Head(down[p]).peer # q /\ pcs[p][q] \in NotYetAnswered => pcs'[p][q] \in NotYetAnswered,
         Head(down[p]) = Frame("peer-left", q) => pcs'[p][q] = "none"
  PROVE  (NewsIsLast(p, q) \/ Forgotten(p, q))'
<1>1. /\ Len(down[p]) \in Nat /\ DOMAIN down[p] = 1 .. Len(down[p]) /\ Len(down[p]) # 0
      /\ DOMAIN down'[p] = 1 .. Len(down[p]) - 1 /\ Head(down[p]) = down[p][1]
      /\ \A i \in 1 .. Len(down[p]) - 1 : down'[p][i] = down[p][i + 1]
  BY EmptySeq, HeadTailProperties, LenProperties DEF InTyped
<1>2. ASSUME Forgotten(p, q) PROVE Forgotten(p, q)'
  <2>1. \A f \in Inbox(p)' : f \in Inbox(p)
    BY <1>1 DEF Inbox, Range
  <2>2. Head(down[p]) \in Inbox(p)
    BY <1>1 DEF Inbox, Range
  <2> QED
    BY <1>2, <2>1, <2>2 DEF Forgotten
<1>3. ASSUME NewsIsLast(p, q) PROVE (NewsIsLast(p, q) \/ Forgotten(p, q))'
  <2>1. PICK k \in DOMAIN down[p] : /\ down[p][k] = Frame("peer-left", q)
                                    /\ \A j \in DOMAIN down[p] : j > k => down[p][j].peer # q
    BY <1>3 DEF NewsIsLast
  <2>2. CASE k = 1
    <3>1. pcs'[p][q] = "none"
      BY <1>1, <2>1, <2>2
    <3>2. \A i \in 1 .. Len(down[p]) - 1 : down'[p][i].peer # q
      BY <1>1, <2>1, <2>2
    <3>3. \A f \in Inbox(p)' : f.peer # q
      BY <1>1, <3>2 DEF Inbox, Range
    <3> QED
      BY <3>1, <3>3 DEF Forgotten, NotYetAnswered
  <2>3. CASE k # 1
    <3>1. k - 1 \in DOMAIN down'[p] /\ down'[p][k - 1] = Frame("peer-left", q)
      <4>1. k \in 1 .. Len(down[p]) /\ k - 1 \in 1 .. Len(down[p]) - 1 /\ (k - 1) + 1 = k
        BY <1>1, <2>1, <2>3
      <4>2. down'[p][k - 1] = down[p][(k - 1) + 1]
        BY <1>1, <4>1
      <4> QED
        BY <1>1, <2>1, <4>1, <4>2
    <3>2. ASSUME NEW j \in DOMAIN down'[p], j > k - 1 PROVE down'[p][j].peer # q
      <4>1. j + 1 \in DOMAIN down[p] /\ j + 1 > k /\ down'[p][j] = down[p][j + 1]
        BY <1>1, <2>1, <3>2
      <4> QED
        BY <2>1, <4>1
    <3> QED
      BY <3>1, <3>2 DEF NewsIsLast
  <2> QED
    BY <2>2, <2>3
<1> QED
  BY <1>2, <1>3

\* A write of somebody that is not done.
LEMMA WritesKeepParting ==
  ASSUME InTyped, PartingInv, NEW ps, NEW f, handler[f.peer] # "done",
         down' = Written(ps, f), UNCHANGED <<page, pcs>>,
         \A q \in Peers : handler'[q] = "done" => handler[q] = "done"
  PROVE  PartingInv'
<1> SUFFICES ASSUME NEW p \in Peers, NEW q \in Others(p), page'[p] = "open", handler'[q] = "done"
             PROVE  (NewsIsLast(p, q) \/ Forgotten(p, q))'
  BY DEF PartingInv, Others
<1>1. /\ NewsIsLast(p, q) \/ Forgotten(p, q)
      /\ f.peer # q /\ pcs'[p][q] = pcs[p][q]
  BY DEF PartingInv, Others
<1>2. down'[p] = down[p] \/ down'[p] = Append(down[p], f)
  BY DEF Written
<1> QED
  BY <1>1, <1>2, PartingHolds

\* A step that moves no frame to a page.
LEMMA CallsKeepParting ==
  ASSUME InTyped, PartingInv, UNCHANGED down,
         \A p \in Peers : page'[p] = "open" => page[p] = "open",
         \A q \in Peers : handler'[q] = "done" => handler[q] = "done",
         \A p, q \in Peers : pcs[p][q] \in NotYetAnswered /\ page'[p] = "open"
                                => pcs'[p][q] \in NotYetAnswered
  PROVE  PartingInv'
<1> SUFFICES ASSUME NEW p \in Peers, NEW q \in Others(p), page'[p] = "open", handler'[q] = "done"
             PROVE  (NewsIsLast(p, q) \/ Forgotten(p, q))'
  BY DEF PartingInv, Others
<1>1. /\ NewsIsLast(p, q) \/ Forgotten(p, q)
      /\ pcs[p][q] \in NotYetAnswered => pcs'[p][q] \in NotYetAnswered
  BY DEF PartingInv, Others
<1> QED
  BY <1>1, PartingHolds

\* A step of a page that takes a frame.
LEMMA TakingKeepsParting ==
  ASSUME InTyped, PartingInv, NEW r \in Peers, NEW type, Takes(r, type),
         UNCHANGED <<page, handler>>,
         \A p, q \in Peers : p # r => pcs'[p][q] = pcs[p][q],
         \A q \in Others(r) : Head(down[r]).peer # q /\ pcs[r][q] \in NotYetAnswered
                                => pcs'[r][q] \in NotYetAnswered,
         \A q \in Others(r) : Head(down[r]) = Frame("peer-left", q) => pcs'[r][q] = "none"
  PROVE  PartingInv'
<1> SUFFICES ASSUME NEW p \in Peers, NEW q \in Others(p), page'[p] = "open", handler'[q] = "done"
             PROVE  (NewsIsLast(p, q) \/ Forgotten(p, q))'
  BY DEF PartingInv, Others
<1>1. (NewsIsLast(p, q) \/ Forgotten(p, q)) /\ q \in Peers
  BY DEF PartingInv, Others
<1>2. CASE p = r
  <2>1. down[p] # <<>> /\ down'[p] = Tail(down[p])
    BY <1>2 DEF Takes, InTyped
  <2> QED
    BY <1>1, <1>2, <2>1, PartingGoesOn
<1>3. CASE p # r
  <2>1. down'[p] = down[p] /\ pcs'[p][q] = pcs[p][q]
    BY <1>1, <1>3 DEF Takes
  <2> QED
    BY <1>1, <2>1, PartingHolds
<1> QED
  BY <1>2, <1>3

\* A newcomer has not heard of anybody.
LEMMA ConnectKeepsParting ==
  ASSUME MeshInv, PartingInv, NEW r \in Peers, Connect(r)
  PROVE  PartingInv'
<1> SUFFICES ASSUME NEW p \in Peers, NEW q \in Others(p), page'[p] = "open", handler'[q] = "done"
             PROVE  (NewsIsLast(p, q) \/ Forgotten(p, q))'
  BY DEF PartingInv, Others
<1>1. InboxesSame /\ Inbox(r) = {} /\ page[r] = "shut" /\ q \in Peers
  BY ConnectMoves DEF Others
<1>2. CASE p = r
  <2>1. pcs'[p][q] = "none"
    BY <1>1, <1>2 DEF Connect, MeshInv, PagesServed
  <2> QED
    BY <1>1, <1>2, <2>1 DEF Forgotten, NotYetAnswered, InboxesSame
<1>3. CASE p # r
  <2>1. page[p] = "open" /\ handler[q] = "done"
    BY <1>1, <1>3 DEF Connect, MeshInv, TypeOK
  <2>2. NewsIsLast(p, q) \/ Forgotten(p, q)
    BY <2>1 DEF PartingInv
  <2>3. down'[p] = down[p] /\ pcs'[p][q] = pcs[p][q]
    BY DEF Connect
  <2> QED
    BY <2>2, <2>3, PartingHolds DEF MeshInv
<1> QED
  BY <1>2, <1>3

\* The news of q is written behind all else of q.
LEMMA AnnounceLeftKeepsParting ==
  ASSUME MeshInv, PartingInv, NEW r \in Peers, AnnounceLeft(r)
  PROVE  PartingInv'
<1> SUFFICES ASSUME NEW p \in Peers, NEW q \in Others(p), page'[p] = "open", handler'[q] = "done"
             PROVE  (NewsIsLast(p, q) \/ Forgotten(p, q))'
  BY DEF PartingInv, Others
<1> DEFINE f == Frame("peer-left", r)
<1>1. /\ down' = Written(conns, f) /\ UNCHANGED <<page, pcs>> /\ page[p] = "open" /\ q \in Peers
      /\ handler' = [handler EXCEPT ![r] = "done"] /\ f.peer = r /\ p \in conns
  BY FrameFacts DEF AnnounceLeft, client, Others, MeshInv, PagesServed
<1>2. down'[p] = Append(down[p], f)
  BY <1>1 DEF Written
<1>3. CASE q = r
  <2>1. f \in InFrames(p)
    BY <1>3, FramesOfPeers
  <2>2. /\ Len(down[p]) \in Nat /\ DOMAIN down'[p] = 1 .. Len(down[p]) + 1
        /\ down'[p][Len(down[p]) + 1] = Frame("peer-left", q)
    BY <1>2, <1>3, <2>1, AppendProperties, LenProperties DEF MeshInv, InTyped
  <2> QED
    BY <2>2 DEF NewsIsLast
<1>4. CASE q # r
  <2>1. handler[q] = "done"
    BY <1>1, <1>4 DEF MeshInv, TypeOK
  <2>2. NewsIsLast(p, q) \/ Forgotten(p, q)
    BY <1>1, <2>1 DEF PartingInv
  <2> HIDE DEF f
  <2> QED
    BY <1>1, <1>2, <1>4, <2>2, PartingHolds DEF MeshInv
<1> QED
  BY <1>3, <1>4

\* The other steps of the handlers, ...
LEMMA HandlersKeepParting ==
  ASSUME MeshInv, PartingInv, NEW r \in Peers, Handle(r)
  PROVE  PartingInv'
<1>1. CASE HandleJoin(r) \/ Cleanup(r)
  <2>1. /\ UNCHANGED <<down, page, pcs>>
        /\ \A q \in Peers : handler'[q] = "done" => handler[q] = "done"
    BY <1>1 DEF HandleJoin, Cleanup, client, MeshInv, TypeOK
  <2> QED
    BY <2>1, CallsKeepParting DEF MeshInv
<1>2. CASE WriteWelcome(r)
  <2>1. /\ down' = Written({r}, Welcome(r, roster[r])) /\ UNCHANGED <<page, pcs>>
        /\ handler[r] = "welcoming" /\ \A q \in Peers : handler'[q] = "done" => handler[q] = "done"
    BY <1>2 DEF WriteWelcome, client, MeshInv, TypeOK
  <2>2. Welcome(r, roster[r]).peer = r
    BY FrameFacts
  <2> QED
    BY <2>1, <2>2, WritesKeepParting DEF MeshInv
<1>3. CASE AnnounceJoin(r)
  <2>1. /\ down' = Written(conns \ {r}, Frame("peer-joined", r)) /\ UNCHANGED <<page, pcs>>
        /\ handler[r] = "announcing" /\ \A q \in Peers : handler'[q] = "done" => handler[q] = "done"
    BY <1>3 DEF AnnounceJoin, client, MeshInv, TypeOK
  <2>2. Frame("peer-joined", r).peer = r
    BY FrameFacts
  <2> QED
    BY <2>1, <2>2, WritesKeepParting DEF MeshInv
<1>4. CASE Relay(r)
  <2>1. /\ down' = Written({NextFrame(r).peer} \intersect conns, Frame(NextFrame(r).type, r))
        /\ UNCHANGED <<page, pcs, handler>> /\ handler[r] = "reading"
    BY <1>4 DEF Relay, gateway, client
  <2>2. Frame(NextFrame(r).type, r).peer = r
    BY FrameFacts
  <2> QED
    BY <2>1, <2>2, WritesKeepParting DEF MeshInv
<1>5. CASE AnnounceLeft(r)
  BY <1>5, AnnounceLeftKeepsParting
<1> QED
  BY <1>1, <1>2, <1>3, <1>4, <1>5 DEF Handle

\* ... and those of the pages.
LEMMA BrowsersKeepParting ==
  ASSUME MeshInv, PartingInv, NEW r \in Peers, Browse(r)
  PROVE  PartingInv'
<1>1. CASE OnWelcome(r)
  <2>1. Takes(r, "welcome") /\ UNCHANGED <<page, handler, pcs>>
    BY <1>1 DEF OnWelcome, gateway
  <2>2. Head(down[r]).type = "welcome"
    BY <2>1 DEF Takes
  <2>3. \A q : Head(down[r]) # Frame("peer-left", q)
    BY <2>2, FrameFacts
  <2> QED
    BY <2>1, <2>3, TakingKeepsParting DEF MeshInv
<1>2. ASSUME NEW type \in {"peer-joined", "peer-left", "offer", "answer"}, Takes(r, type),
             UNCHANGED gateway, UNCHANGED page, NEW state \in States, Becomes(r, Sender(r), state),
             type = "peer-left" => state = "none"
      PROVE  PartingInv'
  <2>1. Sender(r) \in Peers /\ Sender(r) = Head(down[r]).peer /\ Head(down[r]).type = type
    BY <1>2, PeerFrameTaken DEF Sender, Takes
  <2>2. Changes(r, Sender(r), state)
    BY <1>2, <2>1, BecomesChanges DEF MeshInv
  <2>3. \A p, q \in Peers : p # r => pcs'[p][q] = pcs[p][q]
    BY <2>2 DEF Changes
  <2>4. \A q \in Others(r) : Head(down[r]).peer # q => pcs'[r][q] = pcs[r][q]
    BY <2>1, <2>2 DEF Changes, Others
  <2>5. \A q \in Others(r) : Head(down[r]) = Frame("peer-left", q) => pcs'[r][q] = "none"
    BY <1>2, <2>1, <2>2, FrameFacts DEF Changes, Others
  <2> QED
    BY <1>2, <2>3, <2>4, <2>5, TakingKeepsParting DEF MeshInv, gateway
<1>3. CASE OnPeerJoined(r) \/ OnPeerLeft(r) \/ OnOffer(r) \/ OnAnswer(r)
  <2> DEFINE was == pcs[r][Sender(r)]
  <2>1. ASSUME NEW type \in {"peer-joined", "peer-left", "offer", "answer"}, Takes(r, type)
        PROVE  was \in States
    BY <2>1, PeerFrameTaken DEF MeshInv, TypeOK
  <2>2. CASE OnPeerJoined(r)
    BY <1>2, <2>1, <2>2 DEF OnPeerJoined, States
  <2>3. CASE OnPeerLeft(r)
    BY <1>2, <2>3 DEF OnPeerLeft, States
  <2>4. CASE OnOffer(r)
    BY <1>2, <2>4 DEF OnOffer, States
  <2>5. CASE OnAnswer(r)
    BY <1>2, <2>1, <2>5 DEF OnAnswer, States
  <2> QED
    BY <1>3, <2>2, <2>3, <2>4, <2>5
<1>4. ASSUME NEW q \in Peers, StartCall(r, q) \/ FinishCall(r, q) \/ FinishAnswer(r, q)
      PROVE  PartingInv'
  <2>1. UNCHANGED <<down, page, handler>>
    BY <1>4 DEF StartCall, FinishCall, FinishAnswer, gateway
  <2>2. \A x, y \in Peers : pcs[x][y] \in NotYetAnswered => pcs'[x][y] \in NotYetAnswered
    BY <1>4, StartCallMoves, FinishCallMoves, FinishAnswerMoves DEF Changes, NotYetAnswered
  <2> QED
    BY <2>1, <2>2, CallsKeepParting DEF MeshInv
<1> QED
  BY <1>1, <1>3, <1>4 DEF Browse

\* PartingInv is inductive, given MeshInv.
LEMMA StepKeepsParting == MeshInv /\ PartingInv /\ [Next]_vars => PartingInv'
<1> SUFFICES ASSUME MeshInv, PartingInv, [Next]_vars PROVE PartingInv'
  OBVIOUS
<1>1. ASSUME NEW p \in Peers, Leave(p) PROVE PartingInv'
  <2> SUFFICES ASSUME NEW x \in Peers, NEW y \in Others(x), page'[x] = "open", handler'[y] = "done"
               PROVE  (NewsIsLast(x, y) \/ Forgotten(x, y))'
    BY DEF PartingInv, Others
  <2>1. /\ x # p /\ page[x] = "open" /\ handler[y] = "done" /\ down'[x] = down[x]
        /\ pcs'[x][y] = pcs[x][y]
    BY <1>1 DEF Leave, gateway, MeshInv, TypeOK
  <2>2. NewsIsLast(x, y) \/ Forgotten(x, y)
    BY <2>1 DEF PartingInv
  <2> QED
    BY <2>1, <2>2, PartingHolds DEF MeshInv
<1>2. CASE UNCHANGED vars
  BY <1>2, CallsKeepParting DEF vars, gateway, client, MeshInv
<1> QED
  BY <1>1, <1>2, ConnectKeepsParting, HandlersKeepParting, BrowsersKeepParting DEF Next

(***************************************************************************)
(* Once all is at rest, no open page keeps a negotiated connection, the    *)
(* one that has a video tile, to a peer that is gone: its peer-left is     *)
(* written after everything else of that peer, so nothing can bring the    *)
(* tile back after removePeerVideo.                                        *)
(***************************************************************************)
THEOREM NoTileStaysFrozen == Spec => []NoFrozenTiles
<1>1. Init => PartingInv
  BY DEF Init, PartingInv
<1>2. MeshInv /\ PartingInv => NoFrozenTiles
  <2> SUFFICES ASSUME MeshInv, PartingInv, Quiet, NEW p \in Peers, NEW q \in Peers,
                      page[p] = "open", page[q] = "gone"
               PROVE  pcs[p][q] \in {"none", "offering"}
    BY DEF NoFrozenTiles
  <2>1. /\ q \in Others(p) /\ handler[q] = "done" /\ down[p] = <<>> /\ pcs[p][q] # "calling"
    BY DEF Quiet, Others
  <2>2. NewsIsLast(p, q) \/ Forgotten(p, q)
    BY <2>1 DEF PartingInv
  <2>3. ~ NewsIsLast(p, q)
    BY <2>1 DEF NewsIsLast
  <2> QED
    BY <2>1, <2>2, <2>3 DEF Forgotten, NotYetAnswered
<1> QED
  BY <1>1, <1>2, MeshStarts, StepKeepsMesh, StepKeepsParting, PTL DEF Spec
=============================================================================
