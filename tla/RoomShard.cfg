CONSTANTS
  r1 = r1
  g1 = g1
  g2 = g2
  david = david
  c1 = c1
  c2 = c2
  c3 = c3
  c4 = c4
  NoConn = NoConn
  NoRoom = NoRoom
  Rooms <- MCRooms
  Peers <- MCPeers
  Conns <- MCConns
  RoomOf <- MCRoomOf
  PeerOf <- MCPeerOf
  Moderators <- MCModerators
  NumSlots = 2
  LruCapacity = 2
  DefaultCapacity = 2
  DefaultMinutes = 1
  PauseMinutes = 2
  TypedLimits <- MCTypedLimits
  CreateLimits <- MCCreateLimits
  MaxCreates = 1
SPECIFICATION Spec
INVARIANTS TypeOK SessionsHaveHandlers  NoEntryOutlivesRoom  
SYMMETRY AnyOrder
