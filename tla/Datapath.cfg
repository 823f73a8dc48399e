CONSTANTS
  XLEN = 8
  WordsFetched <- MCWordsFetched
  HalvesFetched <- MCHalves
  Executed <- MCExecuted
  RegisterValues <- MCRegisterValues
  LineValues <- MCLineValues
  Pcs <- MCPcs
  CsrNumbers <- MCCsrNumbers
SPECIFICATION Spec
INVARIANTS DecodesAsIsa ResultsAsIsa FollowsTheProgram
