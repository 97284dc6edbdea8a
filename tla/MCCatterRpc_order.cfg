CONSTANTS
  p1 = p1
  p2 = p2
  p3 = p3
  p4 = p4
  Proxy = {p1, p2, p3}
  Root = p1
  Codes = {0, 1}
  Background = FALSE
  Faults = {"accept", "crash"}
  Builds = {"debug", "release"}
SPECIFICATION Spec
SYMMETRY Nested
INVARIANT TypeOK
INVARIANT CommandsRun
INVARIANT LedgerComplete
INVARIANT IdsAreOwn
INVARIANT RunsOnlyDecided
INVARIANT ParentIsOlder
PROPERTY KeepsLifecycle
