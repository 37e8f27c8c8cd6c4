CONSTANTS
  e1 = e1  e2 = e2  e3 = e3
  ask = ask  reply = reply  note = note  hint = hint
  Event = {e1, e3}
  Private = {e3}
  Text = {ask, reply, note}
  NoText = NoText
  Hint = {hint}
  Project = {q1}
  NoProject = NoProject
  Post <- MCPostPlain
  Poster = {p1}
  Sweeper = {s1}
  Rerouted = {}
  File0 <- MCFile0
  Marked0 = {}
  None = None
  Torn = Torn
SPECIFICATION FairSpec
PROPERTIES FrozenRecovered
