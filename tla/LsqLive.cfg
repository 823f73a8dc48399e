CONSTANTS
  a1 = a1
  v1 = v1
  NoAddr = NoAddr
  NoValue = NoValue
SPECIFICATION Spec
PROPERTY EntriesLeave
