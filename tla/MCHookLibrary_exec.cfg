CONSTANTS
  BufSize = 16
  MaxArgc = 8
  ProxyLen = 1
  IdLen = 1
  PrefixLen = 2
  PathMax = 3
  Lengths = {0, 1, 2, 3, 4}
  MaxArgs = 3
  Characters = {"a", "b", "x", ":", "/"}
  Separator = ":"
  Slash = "/"
  None = None
  StaticSize = 4
  MaxPath = 5
  DefaultPath <- MCDefaultPath
  Calls <- MCCalls
SPECIFICATION LibSpec
CHECK_DEADLOCK FALSE
INVARIANTS TypeOK IInv StaysInBounds VectorIsWhole ArgumentsKept GivesUpOnlyWhenFull FindsTheFirst
