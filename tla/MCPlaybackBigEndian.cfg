CONSTANTS
  Word = 16
  TrackTimes = {3}
  FadeTimes = {2}
  Durations = {0, 1, 2}
  Longest = 2
  Buffers = {b1}
  EnableFIFOfull = TRUE
  Recompiled = TRUE
  MaxSignals = 0
  MaxPlay = 14
SPECIFICATION Spec
INVARIANTS WritesBigEndian
