CONSTANTS
  DASH_CACHE = 1
  DASH_FRAGMENT_DURATION = 2
  None = None
  k1M = 2
  Preamble = 3
  Stale = 5
  Steps <- MCSteps
  MaxFrames = 5
  MaxFaults = 1
SPECIFICATION Spec
CHECK_DEADLOCK FALSE
INVARIANTS
  TimeShiftBufferHeld
  FragmentsTile
  InitFitsSegments
  EndsOnlyWhenReplaced
  SamplesWhereTablesSay
