CONSTANTS
  p1 = p1
  p2 = p2
  p3 = p3
  p4 = p4
  Proxy = {p1, p2}
  Root = p1
  Codes = {1}
  Background = TRUE
  Faults = {"boot", "connect", "accept", "locate", "spawn", "signal", "wait", "kill", "crash", "misuse"}
  Builds = {"debug", "release"}
SPECIFICATION FairSpec
INVARIANT FinishIsTrue
INVARIANT OneVerdict
INVARIANT ExitCodeTransparent
PROPERTY ProxiesEnd
PROPERTY ServerStops
