CONSTANTS
  a = a  b = b  c = c  bb = bb  t1 = t1
  Word = {a, b, c, bb}
  Key <- MCKey
  Todo = {t1}
  Caller = {k1, k2}
  Request <- MCRequest
  Projects0 <- MCProjects0
  MaxProjects = 3
  None = None
  Used = Used
  Proposal <- MCProposal
  Direct <- MCDirect
  Auth = {u1}
  Job = {j1}
SPECIFICATION GovernanceSpec
PROPERTIES ApprovedProjectOnly
CHECK_DEADLOCK FALSE
