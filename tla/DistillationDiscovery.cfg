CONSTANTS
  p1 = p1  p2 = p2
  Turns = 2
  Project = {p1, p2}
  HintOf <- MCHintOf
  Scan = {sweep, turn}
  Sweeper = sweep
  Threshold = 2
  MaxMerges = 1  MaxRetired = 1  MaxFaults = 1
  All = All  Nothing = Nothing
SPECIFICATION FairSpec
INVARIANT ClaimedOncePerProject
PROPERTY ClaimedUnlessRetired
