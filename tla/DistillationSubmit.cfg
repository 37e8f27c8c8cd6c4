CONSTANTS
  p1 = p1  r1 = r1  r2 = r2
  Job0 <- MCJob0
  Target <- MCTarget
  Harness = {h1}
  Project = {p1}
  Ref = {r1, r2}
  Memory = {g1, g2}
  Heading = {e1}
  Nobody = Nobody
  NoProject = NoProject
  Unset = Unset
  NoCommit = NoCommit
  MaxTokens = 1
  ReconcileRefused = FALSE
SYMMETRY MCSymmetry
SPECIFICATION Spec
INVARIANTS TypeOK NoDuplicateWrite CompletedNamesWrite NoLostWrite TimelinePreserved
CHECK_DEADLOCK FALSE
