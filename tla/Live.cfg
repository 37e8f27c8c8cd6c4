CONSTANTS
  c1 = c1  c2 = c2  c3 = c3  c4 = c4
  p1 = p1  p2 = p2  p3 = p3
  h1 = h1  h2 = h2
  NoCaller = NoCaller
  Process = {p1, p2, p3}
  Caller = {c1, c2, c3, c4}
  Host = {h1, h2}
  ProcOf <- MCProcOf
  HostOf <- MCHostOf
  Services = 2
  FailureThreshold = 2
  MaxRestarts = 2
  Attempts = 2
SPECIFICATION LiveSpec
INVARIANTS QueueExact NothingLeftBehind OneProcessPerService
PROPERTIES OrphanKept CallSettles DeadOwnerReclaimed OutageHandled
CHECK_DEADLOCK FALSE
