CONSTANTS
  GET = GET
  HEAD = HEAD
  FLV = FLV
  HTML = HTML
  TS = TS
  M3U8 = M3U8
  M4S = M4S
  MP4 = MP4
  MPD = MPD
  Audio = Audio
  Video = Video
  Underscore = Underscore
  SecWebSocketKey = SecWebSocketKey
  Host = Host
  HTTP = HTTP
  One = One
  POST = POST
  Live = Live
  Demo = Demo
  Index = Index
  Seven = Seven
  Eight = Eight
  Key = Key
  Agent = Agent
  Words <- MCWords
  XorOf <- MCXor
  Sizes = {1, 2}
  Times <- MCTimes
  Streams <- MCStreams
  Files <- MCFiles
  Held <- MCHeld
  Requests <- MCRequests
  Versions = {"3", "6"}
  Bodies = {"c1.digest0", "c1.digest1", "c1.random"}
  MaxRead = 40
  MaxTags = 2
SPECIFICATION Spec
CHECK_DEADLOCK FALSE
INVARIANTS
  AnsweredAsAsked
  HandshakeInStep
  TagsChain
