CONSTANTS
  BufSize = 16
  MaxArgc = 8
  ProxyLen = 1
  IdLen = 1
  PrefixLen = 2
  PathMax = 3
  Lengths = {0, 1, 3}
  MaxArgs = 3
SPECIFICATION Spec
CHECK_DEADLOCK FALSE
INVARIANT ExecutionProceeds
