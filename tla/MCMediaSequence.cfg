SPECIFICATION Spec
CONSTANTS
  VideoCap = 6
  AudioCap = 2
  MinTs = 4
  MaxVideo = 10
  MaxAudio = 1
INVARIANT MediaSequenceIsFirstSegment
