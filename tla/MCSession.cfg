CONSTANTS
  Files <- MCFiles
  Content <- MCContent
  CommandLines <- MCCommandLines
  Word = 16
  DefaultTrack = 3
  DefaultFade = 1
  MaxDepth = 3
SPECIFICATION FairSpec
INVARIANTS FirstFileDecides LengthIsTheFiles NothingLeaks
PROPERTIES SessionEnds
