SPECIFICATION ServerSpec
CONSTANTS
  Chunk = 3
  LargestBytes = 5
  LargestRows = 4
  MaxPrinted = 7
  ByteLimits <- MCByteLimits
  RowLimits <- MCRowLimits
  Queries <- MCQueries
  Words = {"ERROR", "WARN", "x"}
  Patterns = {"x", "("}
  MaxLines = 3
  MaxWords = 2
  LineLimits = {2, 9}
  FindLimits = {0, 2}
  LargestLines = 8
  LargestMatches = 3
  MaxSamples = 1
  MaxText = 1
  Tree <- MCTree
  Rel <- MCRel
  DotNames = {".git", ".", ".."}
  FileLimits = {0, 9}
  SearchLimits = {2, 9}
  ReadLimits = {0, 3}
  LargestLimit = 8
  MaxFileBytes = 2
  MaxExtensions = 2
  MaxSize = 3
  MaxChanges = 2
INVARIANTS
  IInv
  LogIsReported
  WorkspaceIsReported
PROPERTY ServersAnswer
