---------------------------- MODULE MCRoomOverflow ----------------------------
(***************************************************************************)
(* Two rooms in a cache that holds one: whoever opens a room evicts the    *)
(* other.  A guest and the moderator use the first room, and the guest     *)
(* also the second.                                                        *)
(***************************************************************************)
EXTENDS RoomShard, TLC
CONSTANTS r1, r2, g1, david, c1, c3, c4

MCRooms == {r1, r2}
MCPeers == {g1, david}
MCConns == {c1, c3, c4}
MCRoomOf == (c1 :> r1) @@ (c3 :> r1) @@ (c4 :> r2)
MCPeerOf == (c1 :> g1) @@ (c3 :> david) @@ (c4 :> g1)
MCModerators == {c3}
MCTypedLimits == {0, 2, 3}
MCCreateLimits == {1}
=============================================================================
