CONSTANTS
  a = a
  b = b
  c = c
  Peers <- MCPeers
  MayLeave <- MCLeavers
  InTurn <- MCPatient
SPECIFICATION FairSpec
CHECK_DEADLOCK FALSE
INVARIANTS  RolesAgree  NoFrozenTiles
 
