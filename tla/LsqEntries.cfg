CONSTANTS
  LdqSize = 2
  StqSize = 2
  WindowSize = 4
  Addr = {a1}
  NoAddr = NoAddr
  Value = {v1}
  NoValue = NoValue
  Speculation = TRUE
  LoadFaults = TRUE
  ExcpOps = {"LDU", "BRU"}
SPECIFICATION Spec
VIEW View
INVARIANTS
  TypeOK
  QueuesMatchWindow
  WaitsForYoungestOlderStore
  AnswersFindTheirEntry
  LateAddressHarmless
