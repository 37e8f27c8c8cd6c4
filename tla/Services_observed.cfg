CONSTANTS
  a = a  b = b  c = c  bb = bb  t1 = t1
  Word = {a, b, c, bb}
  Key <- MCKey
  Todo = {t1}
  Caller = {k1, k2}
  Request <- MCRequest
  Projects0 <- MCProjects0
  MaxProjects = 3
  None = None
  Used = Used
  Proposal <- MCProposal
  Direct <- MCDirect
  Auth = {u1}
  Job = {l1}
  x = x  x2 = x2  x22 = x22  y = y  y2 = y2
  Label = {x, x2, x22, y, y2}
  Candidates <- MCCandidates
  Goal = {g1, g2}
  MaxBranches = 3
  Text = {d1, d2}
  Seeds = {Nothing, d1}
  ChangePlan = {p1, p2, p3}
  Session = {h1, h2}
  MaxEdits = 1
  Nothing = Nothing
  Revision = {r1, r2}
  Retirer = {f1, f2}
  Completed = {r1}
  NoCall = NoCall
  Version = {v1, v2, v3}
  Current = v1
  SkillPlan = {sp1, sp2}
  Curator = {q1, q2}
  MaxSkillEdits = 1
  NoSkill = NoSkill
  Execution = {z1, z2}
  Skill = {sk1, sk2}
  Recorder = {w1, w2}
  NoRecord = NoRecord
  MaxEvents = 5
  Body = {b1, b2}
  Approval = {a1, a2}
  Turn = {n1}
  Executor = {e1, e2}
  Absent = Absent
  Record = {o1, o2}
  Value = {y1, y2}
  Stamps = 2
  MaxWrites = 2
  NoFile = NoFile
  j1 = j1  j2 = j2  m1 = m1  m2 = m2
  Username = {j1, j2}
  Email = {m1, m2}
  Sub = {sub1, sub2}
  Unset = Unset
  Browser = {br}
  JitName <- MCJit
  s1 = s1  s2 = s2  s3 = s3  pa = pa  pb = pb
  Source = {s1, s2, s3}
  Project = {pa, pb}
  ProjectOf <- MCProjectOf
  Earlier = {s3}
  Reviewer = {i1, i2}
  NoReview = NoReview
  ha = ha  wo = wo  qa = qa  qb = qb  th = th
  Events = 2
  Shape <- MCShape
  LateHinted = {}
  Restored = {2}
  Unreadable = {}
  Alias = {ha, wo}
  Place = {qa, qb}
  Registry0 <- MCRegistry0
  Changed <- MCChangedBack
  Assignment <- MCAssignments
  Backfiller = {bf1, bf2}
  Writer = {wr}
  Batch = 1
  MaxBindings = 1
  Nil = Nil
  Global = Global
  Unresolved = Unresolved
  Editor = {k1}
  Ask <- MCAsk
  Memory <- MCMemory
  Fresh <- MCFresh
  Charted = {a, b}
  Rank <- MCRank
  Excerpt <- MCExcerpt
  ChartSize = 4
  ItemCap = 4
  TotalCap = 11
  na = na  nb = nb  c1 = c1  c2 = c2
  Namespace = {na, nb}
  L1 = {c1, c2}
  Hinted <- MCHinted
  CoreHas <- MCHinted
  Usable = {c1, c2}
  Confirming = {c2}
  Ledger0 <- MCLedger0
  MaxRows = 5
  NamedRefs <- MCNamedRefs
  Submitter = {su}
  Unscoped = Unscoped
  rd1 = rd1  rd2 = rd2  ac1 = ac1  ac2 = ac2
  Client = {rd1, rd2}
  AccountOf <- MCAccountOf
  LongText <- MCLongText
  Chunk = {2, 3}
  FirstChunk = 3
  ResultTTL = 1
  MaxCount = 2
  MaxChars = 9
  MaxBytes = 12
  SpoolScan = 1
  MaxClock = 3
SPECIFICATION ServicesSpec
SYMMETRY MCInterchanged
INVARIANTS AssignmentFollows AuditMirrors NoBorrowedMemory OwnArchitecture TwoProjects
INVARIANTS EveryIdActs ResolvedIsListed OneOutcome RoutingRederived
PROPERTY ShownOnly
CHECK_DEADLOCK FALSE
