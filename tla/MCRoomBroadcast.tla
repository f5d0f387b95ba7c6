--------------------------- MODULE MCRoomBroadcast ---------------------------
(***************************************************************************)
(* Ann talks, bob comes and goes and has a frame relayed, a gRPC call      *)
(* takes the lock in between; either of them may break off at any time.    *)
(***************************************************************************)
EXTENDS RoomBroadcast, TLC

CONSTANTS ann, bob

MCChats == (ann :> 2) @@ (bob :> 0)
MCRelays == (ann :> 0) @@ (bob :> 1)

Spec == BroadcastSpec /\ BroadcastFairness
=============================================================================
