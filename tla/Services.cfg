\* Chat log, word completion, hash ring and tokens; one of them per behaviour.
CONSTANTS
  ra = ra
  rb = rb
  k = k
  comma = comma
  q = q
  ann = ann
  bob = bob
  c1 = c1
  c2 = c2
  g1 = g1
  g2 = g2
  g3 = g3
  room = room
  Senders = {ann, bob}
  QueueSize = 2
  BatchSize = 2
  MaxSent = 2
  MaxStarts = 2
  Runes <- MCRunes
  Keyboard = {ra, comma}
  Dictionary <- MCDictionary
  LayoutTable <- MCLayoutTable
  TranslitEn <- MCTranslitEn
  TranslitRu <- MCTranslitRu
  Question = q
  Calls = {c1, c2}
  MaxText = 3
  Gateways = {g1, g2, g3}
  Rooms = {room}
  VNodesFactor = 2
  HashSpace = 3
  NoGateway = NoGateway
  MaxAdds = 3
  Inputs <- MCInputs
  Second = 2
  Life = 2
  MaxSkew = 1
  MaxTime = 8
  MaxTokens = 2
  None = None
SPECIFICATION Spec
INVARIANTS
  MessagesAccounted
  
  AnswersFromDictionary
  
  RoutesClockwise
  
  TokensLiveTwoHours
PROPERTY
  BatchesReachDisk
CHECK_DEADLOCK FALSE
