CONSTANTS
  r1 = r1
  p1 = p1
  p2 = p2
  p0 = p0
  noreg = noreg
SPECIFICATION Spec
PROPERTIES
  RecoveryEnds
  EveryInsnLeaves
