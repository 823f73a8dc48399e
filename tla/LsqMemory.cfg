CONSTANTS
  LdqSize = 2
  StqSize = 2
  WindowSize = 3
  Addr = {a1}
  NoAddr = NoAddr
  Value = {v1, v2}
  NoValue = NoValue
  Speculation = TRUE
  LoadFaults = TRUE
  ExcpOps = {}
SPECIFICATION Spec
SYMMETRY Symmetry
VIEW View
PROPERTY ImplementsInOrderMemory
