CONSTANTS
  r1 = r1
  r2 = r2
  g1 = g1
  david = david
  c1 = c1
  c3 = c3
  c4 = c4
  NoConn = NoConn
  NoRoom = NoRoom
  Rooms <- MCRooms
  Peers <- MCPeers
  Conns <- MCConns
  RoomOf <- MCRoomOf
  PeerOf <- MCPeerOf
  Moderators <- MCModerators
  NumSlots = 2
  LruCapacity = 1
  DefaultCapacity = 2
  DefaultMinutes = 1
  PauseMinutes = 2
  TypedLimits <- MCTypedLimits
  CreateLimits <- MCCreateLimits
  MaxCreates = 1
SPECIFICATION FairSpec
INVARIANT NoRoomForgotten
PROPERTY RoomsReclaimed
