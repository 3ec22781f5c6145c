CONSTANTS
  Word = 16
  TrackTimes = {3, 11}
  FadeTimes = {0, 2, 14}
  Durations = {0, 1, 2}
  Longest = 2
  Buffers = {b1}
  EnableFIFOfull = TRUE
  Recompiled = FALSE
  MaxSignals = 3
  MaxPlay = 14
SPECIFICATION FairSpec
INVARIANTS VolumeInRange SignalsHeeded NotCutShort FullHasTimer
PROPERTIES TrackEnds
