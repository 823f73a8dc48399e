CONSTANTS
  Programs <- MCPrograms
  Confs <- MCConfs
  FetchByteWidth = 4
  BootPc = 0
  Targets <- MCTargets
  MaxRedirects = 2
  BootSendSuccess = {FALSE}
  Nowhere <- MCNowhere
SPECIFICATION FairSpec
INVARIANTS TypeOK HalfMeetsItsOther OneRunOfLines
PROPERTIES ImplementsInsnStream InsnsArrive
