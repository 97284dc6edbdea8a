CONSTANTS
  c1 = c1
  c2 = c2
  c3 = c3
  Conn = {c1, c2, c3}
  RootConn = c1
  Background = {c2}
  Abrupt = {c1}
  PerPoll = 2
  CreateReads = 1
  DecisionReads = 3
  ReportReads = 1
SPECIFICATION FairSpec
INVARIANT TypeOK
INVARIANT HandlesCloseOnce
INVARIANT ServedAreRead
PROPERTY LoopReturns
