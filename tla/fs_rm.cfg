CONSTANTS
  Names <- MCNames
  Data <- MCData
  Paths <- MCPaths
  MaxLen = 4
  MaxFds = 1
  MaxIno = 2
  MaxAliases = 1
  MaxNlink = 2
  MaxReboots = 1
  NameOrder <- MCNameOrder
  NowEpoch <- MCEpoch
  TempPrefixes <- NoPrefixes
  Modes = {511}
  Ops <- HandleOps
SPECIFICATION Spec
PROPERTY RmRemovesTree
