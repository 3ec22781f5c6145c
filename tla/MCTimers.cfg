CONSTANTS
  Half = 24
  MaxOvershoot = 7
  ViDelays = {9}
  AiDelays = {8}
  CompareWrites = {0, 23}
  CountWrites = {0}
SPECIFICATION FairSpec
INVARIANT EarliestFirst
PROPERTIES ImplementsDeadlines TimersRunOut
