CONSTANTS
  p1 = p1
  p2 = p2
  p3 = p3
  p4 = p4
  Proxy = {p1, p2, p3}
  Root = p1
  Codes = {0, 1}
  Background = FALSE
  Faults = {}
  Builds = {"debug", "release"}
SPECIFICATION Spec
SYMMETRY Nested
INVARIANT ParentIsLauncher
