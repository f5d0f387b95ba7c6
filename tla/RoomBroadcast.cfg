\* The lock of a shard and the sockets of a room.
CONSTANTS
  ann = ann
  bob = bob
  Peers = {ann, bob}
  Clerk = Clerk
  None = None
  Lecture = TRUE
  MaxChats <- MCChats
  MaxRelays <- MCRelays
  MaxCalls = 1
SPECIFICATION Spec
INVARIANTS
  NobodyMissesAChat
  ChatsInOrder

  
CHECK_DEADLOCK FALSE
