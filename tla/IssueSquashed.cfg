CONSTANTS
  Configs <- MCConfigs
  MaxInsns = 4
  Wirings = {"squashed"}
SPECIFICATION Spec
INVARIANT NoAssertFires
