SPECIFICATION Spec
CONSTANTS
  TsMod = 2
  TsWide = 4
  kDefaultChunk = 2
  kOutChunk = 3
  Lengths = {3, 4}
  MaxMessages = 7
  MaxWire = 2
CHECK_DEADLOCK FALSE
INVARIANTS
  ChunkBoundariesAgree
  TimestampsFollow
PROPERTIES
  MessagesDelivered
