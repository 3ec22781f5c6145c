CONSTANTS
  Half = 30
  MaxOvershoot = 9
  ViDelays = {10}
  AiDelays = {10}
  CompareWrites = {0, 29}
  CountWrites = {0}
SPECIFICATION Spec
INVARIANTS FrozenCompareIsFar AstrayOnlyAtHalfTurn
PROPERTIES NoDriftOutsideWait
