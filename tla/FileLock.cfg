CONSTANTS
  p1 = p1
  p2 = p2
  p3 = p3
  p4 = p4
  h1 = h1
  NoCaller = NoCaller
  Host = {h1}
  Process = {p1, p2, p3, p4}
  Caller = {p1, p2, p3, p4}
  ProcOf <- Itself
  HostOf <- OneHost
SYMMETRY Interchangeable
SPECIFICATION QuietSpec
INVARIANTS OwnerKeepsLock
PROPERTIES ImplementsMutex
CHECK_DEADLOCK FALSE
