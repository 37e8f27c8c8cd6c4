CONSTANTS
  e1 = e1  e2 = e2  e3 = e3
  ask = ask  reply = reply  note = note  hint = hint
  Event = {e1, e2}
  Private = {}
  Text = {ask, reply, note}
  NoText = NoText
  Hint = {hint}
  Project = {q1}
  NoProject = NoProject
  Post <- MCPost
  Poster = {p1, p2}
  Sweeper = {s1}
  Rerouted = {hint}
  File0 <- MCFile0
  Marked0 = {e2}
  None = None
  Torn = Torn
SPECIFICATION Spec
INVARIANTS IndexTrue MarkerBacked
PROPERTIES ImplementsEvidence
