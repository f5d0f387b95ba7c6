------------------------- MODULE MCMeshNegotiation -------------------------
(***************************************************************************)
(* Three peers: a comes at any time, b and c in turn, and c may leave.     *)
(***************************************************************************)
EXTENDS MeshNegotiation
CONSTANTS a, b, c

MCPeers == {a, b, c}
MCLeavers == {c}
MCPatient == {b, c}
=============================================================================
