SPECIFICATION Spec
CONSTANTS
  VideoCap = 6
  AudioCap = 2
  MinTs = 4
  MaxVideo = 10
  MaxAudio = 3
INVARIANTS
  FastOutDecodable
  FastOutAudioComplete
  TsContiguous
  PlaylistServable
  ServedWhileFresh
  SegmentsStartWithKeyFrame
PROPERTIES
  AdvertisedSegmentsFrozen
  PlaylistAdvancesByOne
