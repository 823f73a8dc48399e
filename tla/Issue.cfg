CONSTANTS
  Configs <- MCConfigs
  MaxInsns = 3
  Wirings = {"trait", "rvh1", "eight", "z506", "rest1", "rest2", "rest3"}
SPECIFICATION Spec
INVARIANTS TypeOK NoAssertFires NeitherLostNorDoubled FlushedOut OperandsCurrent RedirectMatchesRecovery
PROPERTIES OnlyFaultsSquashSideEffects EveryDispatchedInsnLeaves
