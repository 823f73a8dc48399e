CONSTANTS
  RobSize = 3
  AllocWidth = 2
  DeallocWidth = 2
  ArchReg = {r1}
  NoReg = noreg
  PhyReg = {p1, p2, p3}
  ZeroPhy = p0
  Kind = {"ALU", "BRU", "LDU"}
  Speculation = TRUE
  LoadFaults = TRUE
  FaultingRd = {r1, noreg}
  TraceOn = TRUE
SPECIFICATION Spec
INVARIANTS
  RegistersConserved
  RenameTableRestored
  BusyListSound
  CommitsOnlyTheProgram
  LateWriteBackHarmless
PROPERTIES
  OnlyWrongPathSquashed
VIEW View
SYMMETRY Symmetry
CHECK_DEADLOCK FALSE
