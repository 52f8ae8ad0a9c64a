SPECIFICATION Spec
CONSTANTS
  Video = video
  Audio = audio
  Pat = pat
  Pmt = pmt
  VideoShapes <- MCVideoShapes
  AudioShapes <- MCAudioShapes
  First = 2
  Wrap = 4
  NoStamp = NoStamp
  MaxUnits = 3
  MaxPackets = 8
  PerMessage = 2
INVARIANTS
  IntactUnitsDelivered
  
  ParameterSetsFirst
CHECK_DEADLOCK FALSE
