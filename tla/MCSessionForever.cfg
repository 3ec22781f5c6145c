CONSTANTS
  Files <- MCFiles
  Content <- MCContent
  CommandLines <- MCCommandLines
  Word = 16
  DefaultTrack = 3
  DefaultFade = 1
  MaxDepth = 3
SPECIFICATION Spec
INVARIANTS ForeverIsForever
