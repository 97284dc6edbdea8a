CONSTANTS
  NewLine = "n"
  Return = "r"
  Hole = "0"
  Chars = {"a", "n", "r", "0"}
  ChunkSize = 2
  MaxInt = 8
  MaxOpens = 2
  MaxAwaits = 1
  MaxText = 3
  s1 = s1
  s2 = s2
  Scripts = {s1, s2}
  NoScript = NoScript
  Paths <- MCPaths
  MaxSize <- MCMaxSize
  Data <- MCData
  Worlds <- MCWorlds
SPECIFICATION FairSpec
CHECK_DEADLOCK FALSE
INVARIANTS TypeOK ReadsAreRight AppendArrives OwnFile WithHoldsNothing VerdictIsOwn
PROPERTY ReadingEnds
