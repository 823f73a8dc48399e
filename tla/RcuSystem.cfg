CONSTANTS
  RobSize = 3
  AllocWidth = 1
  DeallocWidth = 2
  ArchReg = {r1}
  NoReg = noreg
  PhyReg = {p1, p2, p3}
  ZeroPhy = p0
  Kind = {"BRU", "LDU", "STU", "CSR", "FENCEI", "MRET"}
  Speculation = TRUE
  LoadFaults = FALSE
  FaultingRd = {noreg}
  TraceOn = TRUE
SPECIFICATION Spec
INVARIANTS
  TypeOK
  RecoveryTargetLive
  CsrNotSpeculative
  CommitsOnlyTheProgram
  LateWriteBackHarmless
VIEW View
SYMMETRY Symmetry
