CONSTANTS
  Entries = 2
  Pages = 16
  DirectFirst = 8
  DirectLast = 11
  PhysPages = 2
  Vector = 8
  MaskWrites = {0, 3}
  HiWrites <- MCHiWrites
  LoWrites <- MCLoWrites
  FileEntries <- MCFileEntries
  WiredWrites = {0, 1}
  Touched = {2}
SPECIFICATION Spec
INVARIANTS NoStaleTranslation LooksUpLikeSearch DirectSegmentsKept ProbeFindsMapping
PROPERTIES RunningCodeStaysMapped WiredKept
