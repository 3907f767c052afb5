CONSTANTS
  Names <- MCTempNames
  Data <- MCData
  Paths <- MCTempPaths
  MaxLen = 3
  MaxFds = 1
  MaxIno = 2
  MaxAliases = 1
  MaxNlink = 2
  MaxReboots = 1
  NameOrder <- MCTempOrder
  NowEpoch <- MCEpoch
  TempPrefixes <- MCTempPrefixes
  Modes = {511, 365}
  Ops <- ContentOps
SPECIFICATION Spec
INVARIANT InoUnique

