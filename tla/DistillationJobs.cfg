CONSTANTS
  w1 = w1
  w2 = w2
  codex = codex
  m1 = m1
  p1 = p1
  r1 = r1
  Nobody = Nobody
  NoProject = NoProject
  Unset = Unset
  Harness = {codex}
  Target = {"l2", "l4"}
  Project = {p1}
  Ref = {r1}
  Memory = {m1}
  Worker = {w1, w2}
  HarnessOf <- MCHarnessOf
  LeaseTime <- MCLeaseTime
  MinRemaining = 2
  RequestTime = 1
  MaxTime = 3
  MaxJobs = 2
  MaxTokens = 2
SPECIFICATION Spec
INVARIANTS SoleHolder WriteFenced
PROPERTIES SettledForGood
CHECK_DEADLOCK FALSE
