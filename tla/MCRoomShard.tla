----------------------------- MODULE MCRoomShard -----------------------------
(***************************************************************************)
(* One room that two guests and a moderator use; guest g1 comes back on a  *)
(* second connection, as the client does 400 ms after room_activated.      *)
(***************************************************************************)
EXTENDS RoomShard, TLC
CONSTANTS r1, g1, g2, david, c1, c2, c3, c4

MCRooms == {r1}
MCPeers == {g1, g2, david}
MCConns == {c1, c2, c3, c4}
MCRoomOf == [c \in MCConns |-> r1]
MCPeerOf == (c1 :> g1) @@ (c2 :> g1) @@ (c3 :> david) @@ (c4 :> g2)
MCModerators == {c3}
MCTypedLimits == {0, 1, 3}
MCCreateLimits == {1}

\* The two connections of g1 are alike.
AnyOrder == Permutations({c1, c2})
=============================================================================
