-------------------------- MODULE GovernanceProofs --------------------------
(***************************************************************************)
(* Proofs about what is changed by plans that are prepared, confirmed and  *)
(* executed: ArchitectureGovernance, MemoryRetirement, SkillGovernance,    *)
(* UserAuthorizedMemory and CoreMigration.                                 *)
(***************************************************************************)
EXTENDS ArchitectureGovernance, MemoryRetirement, SkillGovernance,
        UserAuthorizedMemory, CoreMigration, TLAPS

(***************************************************************************)
(* Proofs about ArchitectureGovernance, for any contents, plans, sessions  *)
(* and any number of writes.  AuditTrail is not inductive: a write and a   *)
(* commit rely on the revision that their execution prepared, so the       *)
(* strengthening says what an execution at each stage has left behind, and *)
(* that no two executions and no waiting plan go by one revision.          *)
(***************************************************************************)

Running(s) == executing[s] # Nothing

\* What the execution of s has done so far.
Left(s) ==
  LET e == executing[s]
  IN /\ planned[e.plan] = Nothing
     /\ e.stage \in {"taken", "checked"} => history[e.plan] = Nothing
     /\ e.stage \in {"prepared", "written"} =>
          history[e.plan] = [before |-> e.expected, proposed |-> e.content,
                             status |-> "prepared", after |-> Nothing]
     /\ e.stage = "written" => IsWritten(e.plan)
ExecutionsApart ==
  \A s, q \in Session : (s # q /\ Running(s) /\ Running(q)) =>
                           executing[s].plan # executing[q].plan
PlansFresh == \A p \in ChangePlan : planned[p] # Nothing => history[p] = Nothing

ArchitectureInv ==
  /\ ArchitectureTypeOK /\ AuditTrail /\ ExecutionsApart /\ PlansFresh
  /\ \A s \in Session : Running(s) => Left(s)

\* The trail does not look at plans, executions and the repository.
LEMMA TrailKept ==
  ASSUME AuditTrail, UNCHANGED <<managed, history, written>>
  PROVE  AuditTrail'
BY DEF AuditTrail, WritesTraced, ReplacedIs, DocumentTraced, CommitsTrue, Committed, IsWritten

\* A change of the revisions that leaves what they say of before and proposed, and
\* that says committed of writes only, leaves the trail.
LEMMA TrailAmended ==
  ASSUME AuditTrail, written \in Seq(ChangePlan), UNCHANGED <<managed, written>>,
         \A k \in DOMAIN written :
            /\ history'[written[k]] # Nothing
            /\ history'[written[k]].before = history[written[k]].before
            /\ history'[written[k]].proposed = history[written[k]].proposed,
         CommitsTrue'
  PROVE  AuditTrail'
<1>1. /\ Len(written) \in Nat /\ DOMAIN written = 1..Len(written)
      /\ written # <<>> => Len(written) \in DOMAIN written
  OBVIOUS
<1>2. DocumentTraced'
  BY <1>1 DEF AuditTrail, DocumentTraced
<1>3. ASSUME NEW k \in DOMAIN written
      PROVE  ReplacedIs(history[written[k]].before, k)'
  <2>1. ReplacedIs(history[written[k]].before, k)
    BY DEF AuditTrail, WritesTraced
  <2>2. k # 1 => k - 1 \in DOMAIN written
    BY <1>1
  <2>3. history'[written[k]].before = history[written[k]].before
    OBVIOUS
  <2>. QED BY <2>1, <2>2, <2>3 DEF ReplacedIs
<1>4. WritesTraced'
  BY <1>3 DEF WritesTraced
<1>. QED BY <1>2, <1>4 DEF AuditTrail

\* Preparing a revision that is in nobody's trail leaves the trail.
LEMMA TrailPrepared ==
  ASSUME AuditTrail, ArchitectureTypeOK, NEW p \in ChangePlan, history[p] = Nothing,
         NEW r, r.status = "prepared", history' = [history EXCEPT ![p] = r],
         UNCHANGED <<managed, written>>
  PROVE  AuditTrail'
<1>1. written \in Seq(ChangePlan) /\ DOMAIN history = ChangePlan
  BY DEF ArchitectureTypeOK
<1>2. \A q \in ChangePlan : history'[q] = IF q = p THEN r ELSE history[q]
  BY <1>1
<1>3. \A k \in DOMAIN written : written[k] \in ChangePlan
  BY <1>1
<1>4. \A k \in DOMAIN written : history[written[k]] # Nothing
  BY DEF AuditTrail, WritesTraced
<1>5. \A k \in DOMAIN written : written[k] # p
  BY <1>4
<1>6. \A k \in DOMAIN written : history'[written[k]] = history[written[k]]
  BY <1>2, <1>3, <1>5
<1>7. CommitsTrue'
  BY <1>2 DEF AuditTrail, CommitsTrue, Committed, IsWritten
<1>. QED BY <1>1, <1>4, <1>6, <1>7, TrailAmended

\* Committing the revision of a write keeps what it says of before and after.
LEMMA TrailCommitted ==
  ASSUME AuditTrail, ArchitectureTypeOK, NEW p \in ChangePlan, IsWritten(p),
         history[p] \in RevisionRecord,
         history' = [history EXCEPT ![p] =
                       [@ EXCEPT !.status = "committed", !.after = history[p].proposed]],
         UNCHANGED <<managed, written>>
  PROVE  AuditTrail'
<1>1. written \in Seq(ChangePlan) /\ DOMAIN history = ChangePlan
  BY DEF ArchitectureTypeOK
<1>. DEFINE r == [history[p] EXCEPT !.status = "committed", !.after = history[p].proposed]
<1>2. history' = [history EXCEPT ![p] = r]
  OBVIOUS
<1>3. r \in RevisionRecord
  BY DEF RevisionRecord
<1>4. /\ r.before = history[p].before /\ r.proposed = history[p].proposed
      /\ r.after = r.proposed /\ r # Nothing
  BY <1>3, NothingAssumption DEF RevisionRecord
<1>. HIDE DEF r
<1>5. \A q \in ChangePlan : history'[q] = IF q = p THEN r ELSE history[q]
  BY <1>1, <1>2
<1>6. \A k \in DOMAIN written : written[k] \in ChangePlan /\ history[written[k]] # Nothing
  BY <1>1 DEF AuditTrail, WritesTraced
<1>7. CommitsTrue'
  <2>1. \A q : IsWritten(q)' <=> IsWritten(q)
    BY DEF IsWritten
  <2>2. \A q \in ChangePlan : q # p => (Committed(q)' <=> Committed(q))
    BY <1>5 DEF Committed
  <2>3. \A q \in ChangePlan \ {p} :
           Committed(q)' => IsWritten(q) /\ history'[q].after = history'[q].proposed
    BY <1>5, <2>2 DEF AuditTrail, CommitsTrue
  <2>4. history'[p].after = history'[p].proposed
    BY <1>4, <1>5
  <2>. QED BY <2>1, <2>3, <2>4 DEF CommitsTrue
<1>. QED BY <1>1, <1>4, <1>5, <1>6, <1>7, TrailAmended

\* A revision whose content was just written, if what it holds of before is what
\* was there, continues the trail.
LEMMA TrailContinued ==
  ASSUME AuditTrail, ArchitectureTypeOK, NEW p \in ChangePlan, history[p] # Nothing,
         history[p].before = Inspect, managed' = history[p].proposed,
         written' = Append(written, p), history' = history
  PROVE  AuditTrail'
<1>0. PICK n : n = Len(written)
  OBVIOUS
<1>1. written \in Seq(ChangePlan) /\ n \in Nat /\ DOMAIN written = 1..n
  BY <1>0 DEF ArchitectureTypeOK
<1>2. /\ DOMAIN written' = 1..(n + 1) /\ Len(written') = n + 1
      /\ \A k \in 1..n : written'[k] = written[k]
      /\ written'[n + 1] = p /\ written' # <<>>
  BY <1>0, <1>1
<1>3. n = 0 <=> written = <<>>
  BY <1>0, <1>1
<1>4. DocumentTraced'
  BY <1>2 DEF DocumentTraced
<1>5. ASSUME NEW q, IsWritten(q) PROVE IsWritten(q)'
  BY <1>1, <1>2, <1>5 DEF IsWritten
<1>6. CommitsTrue'
  BY <1>5 DEF AuditTrail, CommitsTrue, Committed
<1>7. ReplacedIs(history[p].before, n + 1)'
  <2>1. CASE n = 0
    <3>1. managed = Nothing
      BY <1>3, <2>1 DEF AuditTrail, DocumentTraced
    <3>2. history[p].before.exists = FALSE
      BY <3>1 DEF Inspect
    <3>. QED BY <2>1, <3>2 DEF ReplacedIs
  <2>2. CASE n # 0
    <3>1. n \in 1..n /\ n + 1 # 1 /\ (n + 1) - 1 = n
      BY <1>1, <2>2
    <3>2. managed = history[written[n]].proposed
      BY <1>0, <1>3, <2>2 DEF AuditTrail, DocumentTraced
    <3>3. managed # Nothing
      <4>1. written[n] \in ChangePlan
        BY <1>1, <3>1
      <4>2. history[written[n]] \in RevisionRecord
        BY <1>1, <3>1, <4>1 DEF AuditTrail, WritesTraced, ArchitectureTypeOK
      <4>3. managed \in Text
        BY <3>2, <4>2 DEF RevisionRecord
      <4>. QED BY <4>3, TextAssumption
    <3>4. history[p].before = [exists |-> TRUE, content |-> managed]
      BY <3>3 DEF Inspect
    <3>5. written'[(n + 1) - 1] = written[n]
      BY <1>2, <3>1
    <3>. QED BY <3>1, <3>2, <3>4, <3>5 DEF ReplacedIs
  <2>. QED BY <2>1, <2>2
<1>8. ASSUME NEW k \in 1..n PROVE ReplacedIs(history[written[k]].before, k)'
  <2>1. ReplacedIs(history[written[k]].before, k)
    BY <1>1 DEF AuditTrail, WritesTraced
  <2>2. written'[k] = written[k] /\ (k # 1 => written'[k - 1] = written[k - 1])
    BY <1>1, <1>2
  <2>. QED BY <2>1, <2>2 DEF ReplacedIs
<1>9. WritesTraced'
  <2>. SUFFICES ASSUME NEW k \in 1..(n + 1)
                PROVE  /\ history'[written'[k]] # Nothing
                       /\ ReplacedIs(history[written[k]].before, k)'
    BY <1>0, <1>2 DEF WritesTraced
  <2>1. CASE k \in 1..n
    BY <1>1, <1>2, <1>8, <2>1 DEF AuditTrail, WritesTraced
  <2>2. CASE k = n + 1
    BY <1>2, <1>7, <2>2
  <2>. QED BY <1>1, <2>1, <2>2
<1>. QED BY <1>4, <1>6, <1>9 DEF AuditTrail

LEMMA InspectIsDocument == ArchitectureTypeOK => Inspect \in Document
BY DEF ArchitectureTypeOK, Inspect, Document

\* One session's execution moves on, ends or starts: what is left to say.
LEMMA OneMoves ==
  ASSUME ArchitectureInv, NEW s \in Session, NEW e \in ExecutionRecord \cup {Nothing},
         executing' = [executing EXCEPT ![s] = e],
         ArchitectureTypeOK', AuditTrail', PlansFresh',
         e # Nothing => Left(s)',
         e # Nothing => \A q \in Session \ {s} : Running(q) => executing[q].plan # e.plan,
         \A q \in Session \ {s} : Running(q) =>
            /\ planned'[executing[q].plan] = planned[executing[q].plan]
            /\ history'[executing[q].plan] = history[executing[q].plan],
         \A p \in ChangePlan : IsWritten(p) => IsWritten(p)'
  PROVE  ArchitectureInv'
<1>1. \A q \in Session : executing'[q] = IF q = s THEN e ELSE executing[q]
  BY DEF ArchitectureInv, ArchitectureTypeOK
<1>2. ExecutionsApart'
  BY <1>1 DEF ArchitectureInv, ExecutionsApart, Running
<1>3. ASSUME NEW q \in Session, Running(q)' PROVE Left(q)'
  <2>1. CASE q = s
    BY <1>1, <1>3, <2>1 DEF Running
  <2>2. CASE q # s
    <3>1. executing'[q] = executing[q] /\ Running(q)
      BY <1>1, <1>3, <2>2 DEF Running
    <3>2. executing[q].plan \in ChangePlan
      BY <3>1 DEF ArchitectureInv, ArchitectureTypeOK, Running, ExecutionRecord
    <3>3. Left(q)
      BY <3>1 DEF ArchitectureInv
    <3>. QED BY <2>2, <3>1, <3>2, <3>3 DEF Left
  <2>. QED BY <2>1, <2>2
<1>. QED BY <1>2, <1>3 DEF ArchitectureInv

\* No step of a plan, an execution or a seed takes a document out of step with its
\* prepared and committed revisions.
LEMMA ArchitectureStep ==
  ArchitectureInv /\ [ArchitectureNext]_architectureVars => ArchitectureInv'
<1>. SUFFICES ASSUME ArchitectureInv, [ArchitectureNext]_architectureVars
              PROVE  ArchitectureInv'
  OBVIOUS
<1>t. ArchitectureTypeOK
  BY DEF ArchitectureInv
<1>1. ASSUME NEW p \in ChangePlan, NEW t \in Text, PlanChange(p, t)
      PROVE  ArchitectureInv'
  <2>. USE <1>1 DEF PlanChange
  <2>1. ArchitectureTypeOK'
    BY <1>t, InspectIsDocument DEF ArchitectureTypeOK, PlanRecord
  <2>2. AuditTrail'
    BY TrailKept DEF ArchitectureInv
  <2>3. \A q \in ChangePlan : q # p => planned'[q] = planned[q]
    BY <1>t DEF ArchitectureTypeOK
  <2>4. PlansFresh'
    BY <2>3 DEF ArchitectureInv, PlansFresh
  <2>5. ASSUME NEW s \in Session, Running(s) PROVE Left(s)'
    <3>1. executing[s].plan # p /\ executing[s].plan \in ChangePlan
      BY <1>t, <2>5 DEF Running, Idle, ArchitectureTypeOK, ExecutionRecord
    <3>2. planned'[executing[s].plan] = planned[executing[s].plan]
      BY <2>3, <3>1
    <3>. QED BY <2>5, <3>2 DEF ArchitectureInv, Left, IsWritten
  <2>. QED BY <2>1, <2>2, <2>4, <2>5 DEF ArchitectureInv, ExecutionsApart, Running
<1>2. ASSUME NEW p \in ChangePlan, ExpirePlan(p)
      PROVE  ArchitectureInv'
  <2>. USE <1>2 DEF ExpirePlan
  <2>1. planned[p] \in PlanRecord
    BY <1>t DEF ArchitectureTypeOK
  <2>2. [planned[p] EXCEPT !.expired = TRUE] \in PlanRecord
    BY <2>1 DEF PlanRecord
  <2>3. ArchitectureTypeOK'
    BY <1>t, <2>2 DEF ArchitectureTypeOK
  <2>4. AuditTrail'
    BY TrailKept DEF ArchitectureInv
  <2>5. \A q \in ChangePlan : q # p => planned'[q] = planned[q]
    BY <1>t DEF ArchitectureTypeOK
  <2>6. PlansFresh'
    BY <2>5 DEF ArchitectureInv, PlansFresh
  <2>7. ASSUME NEW s \in Session, Running(s) PROVE Left(s)'
    <3>1. executing[s].plan \in ChangePlan /\ planned[executing[s].plan] = Nothing
      BY <1>t, <2>7 DEF ArchitectureInv, Left, Running, ArchitectureTypeOK, ExecutionRecord
    <3>2. planned'[executing[s].plan] = planned[executing[s].plan]
      BY <2>5, <3>1
    <3>. QED BY <2>7, <3>2 DEF ArchitectureInv, Left, IsWritten
  <2>. QED BY <2>3, <2>4, <2>6, <2>7 DEF ArchitectureInv, ExecutionsApart, Running
<1>3. ASSUME NEW s \in Session, NEW p \in ChangePlan, TakePlan(s, p)
      PROVE  ArchitectureInv'
  <2>. USE <1>3 DEF TakePlan
  <2>. DEFINE e == IF planned[p].expired THEN Nothing
                   ELSE [plan |-> p, stage |-> "taken", expected |-> planned[p].expected,
                         content |-> planned[p].content]
  <2>1. planned[p] \in PlanRecord
    BY <1>t DEF ArchitectureTypeOK
  <2>2. e \in ExecutionRecord \cup {Nothing}
    BY <2>1 DEF PlanRecord, ExecutionRecord, Stage
  <2>3. executing' = [executing EXCEPT ![s] = e]
    OBVIOUS
  <2>4. e # Nothing => e.plan = p /\ e.stage = "taken"
    OBVIOUS
  <2>. HIDE DEF e
  <2>5. ArchitectureTypeOK'
    BY <1>t, <2>2, <2>3 DEF ArchitectureTypeOK
  <2>6. AuditTrail'
    BY TrailKept DEF ArchitectureInv
  <2>7. /\ planned'[p] = Nothing
        /\ \A q \in ChangePlan : q # p => planned'[q] = planned[q]
    BY <1>t DEF ArchitectureTypeOK
  <2>8. PlansFresh' /\ history[p] = Nothing
    BY <2>7 DEF ArchitectureInv, PlansFresh
  <2>9. e # Nothing => Left(s)'
    <3>1. executing'[s] = e
      BY <1>t, <2>3 DEF ArchitectureTypeOK
    <3>. QED BY <2>4, <2>7, <2>8, <3>1 DEF Left
  <2>10. \A q \in Session \ {s} : Running(q) =>
            executing[q].plan \in ChangePlan /\ executing[q].plan # p
    BY <1>t DEF ArchitectureInv, Left, Running, ArchitectureTypeOK, ExecutionRecord
  <2>11. \A q \in ChangePlan : IsWritten(q) => IsWritten(q)'
    BY DEF IsWritten
  <2>12. \A q \in Session \ {s} : Running(q) =>
            /\ planned'[executing[q].plan] = planned[executing[q].plan]
            /\ history'[executing[q].plan] = history[executing[q].plan]
    BY <2>7, <2>10
  <2>13. e # Nothing => \A q \in Session \ {s} : Running(q) => executing[q].plan # e.plan
    BY <2>4, <2>10
  <2>. HIDE <1>3 DEF TakePlan
  <2>. QED BY <2>2, <2>3, <2>5, <2>6, <2>8, <2>9, <2>11, <2>12, <2>13, OneMoves
<1>4. ASSUME NEW s \in Session, Check(s) \/ Prepare(s) \/ Write(s) \/ Commit(s)
      PROVE  ArchitectureInv'
  <2>. DEFINE e == executing[s]
              p == e.plan
  <2>1. Running(s) /\ e \in ExecutionRecord /\ Left(s)
    BY <1>4, <1>t DEF Check, Prepare, Write, Commit, At, Running, ArchitectureTypeOK,
                      ArchitectureInv
  <2>2. p \in ChangePlan
    BY <2>1 DEF ExecutionRecord
  <2>3. \A q \in Session \ {s} : Running(q) =>
           executing[q].plan \in ChangePlan /\ executing[q].plan # p
    BY <1>t, <2>1 DEF ArchitectureInv, ExecutionsApart, Running, ArchitectureTypeOK,
                      ExecutionRecord
  <2>4. ASSUME NEW stage \in Stage
        PROVE  /\ [e EXCEPT !.stage = stage] \in ExecutionRecord
               /\ [e EXCEPT !.stage = stage].plan = p
               /\ [e EXCEPT !.stage = stage].stage = stage
               /\ [e EXCEPT !.stage = stage].expected = e.expected
               /\ [e EXCEPT !.stage = stage].content = e.content
    BY <2>1 DEF ExecutionRecord
  <2>5. \A stage : Go(s, stage) => executing' = [executing EXCEPT ![s] = [e EXCEPT !.stage = stage]]
    BY DEF Go
  <2>6. DOMAIN executing = Session /\ DOMAIN history = ChangePlan /\ written \in Seq(ChangePlan)
    BY <1>t DEF ArchitectureTypeOK
  <2>7. planned[p] = Nothing
    BY <2>1 DEF Left
  <2>. HIDE DEF e, p
  \* Ending an execution that changes nothing else.
  <2>8. ASSUME Leave(s), UNCHANGED <<managed, repository, edits, planned, history, written>>
        PROVE  ArchitectureInv'
    <3>. USE <2>8 DEF Leave
    <3>1. ArchitectureTypeOK'
      BY <1>t DEF ArchitectureTypeOK
    <3>2. AuditTrail' /\ PlansFresh'
      BY TrailKept DEF ArchitectureInv, PlansFresh
    <3>3. \A q \in ChangePlan : IsWritten(q) => IsWritten(q)'
      BY DEF IsWritten
    <3>. QED BY <3>1, <3>2, <3>3, OneMoves
  <2>9. CASE Check(s)
    <3>. USE <2>9 DEF Check
    <3>. DEFINE f == [e EXCEPT !.stage = "checked"]
    <3>1. CASE Go(s, "checked")
      <4>1. executing' = [executing EXCEPT ![s] = f]
        BY <2>5, <3>1
      <4>2. /\ f \in ExecutionRecord /\ f.plan = p /\ f.stage = "checked"
            /\ f.expected = e.expected /\ f.content = e.content
        BY <2>4 DEF Stage
      <4>. HIDE DEF f
      <4>3. ArchitectureTypeOK'
        BY <1>t, <4>1, <4>2 DEF ArchitectureTypeOK
      <4>4. AuditTrail' /\ PlansFresh'
        BY TrailKept DEF ArchitectureInv, PlansFresh
      <4>5. \A q \in ChangePlan : IsWritten(q) => IsWritten(q)'
        BY DEF IsWritten
      <4>6. history[p] = Nothing
        BY <2>1 DEF Left, At, e, p
      <4>7. Left(s)'
        BY <2>6, <2>7, <4>1, <4>2, <4>6 DEF Left
      <4>. QED BY <2>3, <4>1, <4>2, <4>3, <4>4, <4>5, <4>7, OneMoves
    <3>. QED BY <2>8, <3>1
  <2>10. CASE Prepare(s)
    <3>. USE <2>10 DEF Prepare
    <3>. DEFINE f == [e EXCEPT !.stage = "prepared"]
                r == [before |-> e.expected, proposed |-> e.content,
                      status |-> "prepared", after |-> Nothing]
    <3>1. executing' = [executing EXCEPT ![s] = f] /\ history' = [history EXCEPT ![p] = r]
      BY <2>5 DEF e, p
    <3>2. /\ f \in ExecutionRecord /\ f.plan = p /\ f.stage = "prepared"
          /\ f.expected = e.expected /\ f.content = e.content
      BY <2>4 DEF Stage
    <3>3. r \in RevisionRecord /\ r.status = "prepared"
      BY <2>1 DEF ExecutionRecord, RevisionRecord
    <3>4. history[p] = Nothing
      BY <2>1 DEF Left, At, e, p
    <3>. HIDE DEF f
    <3>5. ArchitectureTypeOK'
      <4>. HIDE DEF r
      <4>. QED BY <1>t, <2>2, <3>1, <3>2, <3>3 DEF ArchitectureTypeOK
    <3>6. AuditTrail'
      <4>. HIDE DEF r
      <4>. QED BY <1>t, <2>2, <3>1, <3>3, <3>4, TrailPrepared DEF ArchitectureInv
    <3>7. history'[p] = r /\ \A q \in ChangePlan : q # p => history'[q] = history[q]
      BY <2>2, <2>6, <3>1
    <3>8. PlansFresh'
      BY <2>7, <3>7 DEF ArchitectureInv, PlansFresh
    <3>9. Left(s)'
      BY <2>6, <2>7, <3>1, <3>2, <3>7 DEF Left
    <3>10. \A q \in ChangePlan : IsWritten(q) => IsWritten(q)'
      BY DEF IsWritten
    <3>. QED BY <2>3, <3>1, <3>2, <3>5, <3>6, <3>7, <3>8, <3>9, <3>10, OneMoves
  <2>11. CASE Write(s)
    <3>. USE <2>11 DEF Write
    <3>. DEFINE f == [e EXCEPT !.stage = "written"]
    <3>1. CASE Inspect = e.expected
      <4>1. /\ managed' = e.content /\ written' = Append(written, p)
            /\ executing' = [executing EXCEPT ![s] = f]
        BY <2>5, <3>1 DEF e, p
      <4>2. /\ f \in ExecutionRecord /\ f.plan = p /\ f.stage = "written"
            /\ f.expected = e.expected /\ f.content = e.content
        BY <2>4 DEF Stage
      <4>3. history[p] = [before |-> e.expected, proposed |-> e.content,
                          status |-> "prepared", after |-> Nothing]
        BY <2>1 DEF Left, At, e, p
      <4>4. e.content \in Text
        BY <2>1 DEF ExecutionRecord
      <4>. HIDE DEF f
      <4>5. ArchitectureTypeOK'
        BY <1>t, <2>2, <4>1, <4>2, <4>4 DEF ArchitectureTypeOK
      <4>6. history[p] # Nothing
        <5>1. history[p] \in RevisionRecord
          BY <2>1, <4>3 DEF ExecutionRecord, RevisionRecord
        <5>. QED BY <5>1, NothingAssumption
      <4>7. history[p].before = Inspect /\ history[p].proposed = e.content
        BY <3>1, <4>3
      <4>8. AuditTrail'
        BY <1>t, <2>2, <4>1, <4>6, <4>7, TrailContinued DEF ArchitectureInv
      <4>9. PlansFresh'
        BY DEF ArchitectureInv, PlansFresh
      <4>10. DOMAIN written' = DOMAIN written \cup {Len(written) + 1}
             /\ (\A k \in DOMAIN written : written'[k] = written[k])
             /\ written'[Len(written) + 1] = p
        BY <2>2, <2>6, <4>1
      <4>11. \A q \in ChangePlan : IsWritten(q) => IsWritten(q)'
        BY <4>10 DEF IsWritten
      <4>12. executing'[s] = f
        BY <2>6, <4>1
      <4>13. IsWritten(executing[s].plan)'
        BY <4>2, <4>10, <4>12 DEF IsWritten
      <4>14. planned' = planned /\ history' = history
        OBVIOUS
      <4>15. Left(s)'
        <5>. HIDE <2>11 DEF Write
        <5>. QED BY <2>7, <4>2, <4>3, <4>12, <4>13, <4>14 DEF Left
      <4>. QED BY <2>3, <4>1, <4>2, <4>5, <4>8, <4>9, <4>11, <4>15, OneMoves
    <3>2. CASE Inspect # e.expected
      BY <2>8, <3>2 DEF e
    <3>. QED BY <3>1, <3>2
  <2>12. CASE Commit(s)
    <3>. USE <2>12 DEF Commit
    <3>1. /\ IsWritten(p) /\ history[p].proposed = e.content
          /\ history[p] = [before |-> e.expected, proposed |-> e.content,
                           status |-> "prepared", after |-> Nothing]
      BY <2>1 DEF Left, At, e, p
    <3>2. history[p] \in RevisionRecord
      BY <2>1, <3>1 DEF ExecutionRecord, RevisionRecord
    <3>. DEFINE r == [history[p] EXCEPT !.status = "committed", !.after = history[p].proposed]
    <3>3. history' = [history EXCEPT ![p] = r] /\ executing' = [executing EXCEPT ![s] = Nothing]
      BY <3>1 DEF e, p, Leave
    <3>4. r \in RevisionRecord
      BY <3>2 DEF RevisionRecord
    <3>5. AuditTrail'
      BY <1>t, <2>2, <3>1, <3>2, <3>3, TrailCommitted DEF ArchitectureInv
    <3>. HIDE DEF r
    <3>6. ArchitectureTypeOK'
      BY <1>t, <2>2, <3>3, <3>4 DEF ArchitectureTypeOK
    <3>7. \A q \in ChangePlan : q # p => history'[q] = history[q]
      BY <2>6, <3>3
    <3>8. PlansFresh'
      BY <2>7, <3>7 DEF ArchitectureInv, PlansFresh
    <3>9. \A q \in ChangePlan : IsWritten(q) => IsWritten(q)'
      BY DEF IsWritten
    <3>. QED BY <2>3, <3>3, <3>5, <3>6, <3>7, <3>8, <3>9, OneMoves
  <2>. QED BY <1>4, <2>9, <2>10, <2>11, <2>12
<1>5. ASSUME NEW t \in Seeds, EditRepository(t)
      PROVE  ArchitectureInv'
  <2>. USE <1>5 DEF EditRepository
  <2>1. ArchitectureTypeOK'
    BY <1>t, TextAssumption DEF ArchitectureTypeOK
  <2>2. AuditTrail'
    BY TrailKept DEF ArchitectureInv
  <2>. QED BY <2>1, <2>2 DEF ArchitectureInv, ExecutionsApart, PlansFresh, Running, Left, IsWritten
<1>6. CASE CrashArchitecture
  <2>. USE <1>6 DEF CrashArchitecture
  <2>1. ArchitectureTypeOK'
    BY <1>t DEF ArchitectureTypeOK
  <2>2. AuditTrail'
    BY TrailKept DEF ArchitectureInv
  <2>. QED BY <2>1, <2>2 DEF ArchitectureInv, ExecutionsApart, PlansFresh, Running
<1>7. CASE UNCHANGED architectureVars
  <2>. USE <1>7 DEF architectureVars
  <2>1. AuditTrail'
    BY TrailKept DEF ArchitectureInv
  <2>. QED BY <2>1 DEF ArchitectureInv, ArchitectureTypeOK, ExecutionsApart, PlansFresh, Running,
                       Left, IsWritten
<1>. QED BY <1>1, <1>2, <1>3, <1>4, <1>5, <1>6, <1>7 DEF ArchitectureNext

\* "history_preserved, rollback_available" (architecture-governance.ts): the revisions
\* tell every content the document had, whatever races and crashes there were.
THEOREM ArchitectureAudited == ArchitectureSpec => []AuditTrail
<1>1. ArchitectureInit => ArchitectureInv
  <2>. SUFFICES ASSUME ArchitectureInit PROVE ArchitectureInv
    OBVIOUS
  <2>. USE DEF ArchitectureInit
  <2>1. ArchitectureTypeOK
    BY TextAssumption DEF ArchitectureTypeOK
  <2>2. AuditTrail
    BY DEF AuditTrail, WritesTraced, DocumentTraced, CommitsTrue, Committed
  <2>. QED BY <2>1, <2>2 DEF ArchitectureInv, ExecutionsApart, PlansFresh, Running
<1>2. ArchitectureInv => AuditTrail
  BY DEF ArchitectureInv
<1>. QED BY <1>1, <1>2, ArchitectureStep, PTL DEF ArchitectureSpec

-----------------------------------------------------------------------------

(***************************************************************************)
(* MemoryRetirement.  Every quarantine takes over whatever is in           *)
(* quarantine already, so the generation of a revision is the last call    *)
(* that took it.  A call that took the revision out of use itself, and     *)
(* from which nobody has taken it over, is the only one that can make Core *)
(* touch it: a revision in use is in no call and in no late request.       *)
(***************************************************************************)
Retires(c) == retiring[c] # NoCall
\* No call but this one, and no request given up on, is about r.
OnlyFor(r, c) == /\ \A m \in late : r \notin m.revisions
                 /\ \A d \in Retirer \ {c} : Retires(d) => r \notin retiring[d].revisions

CallShape(c) ==
  Retires(c) => /\ retiring[c].previous \subseteq retiring[c].revisions
                 /\ \A r \in retiring[c].previous :
                      retiring[c].before[r] \notin {"absent", "pending", retiring[c].operation}
\* What is in a call's quarantine, and may be put back into use by it.
QuarantineInv(c, r) ==
  /\ Retires(c) /\ r \in Mine(c) => operation[r] = retiring[c].operation
  /\ /\ In(c, "asking") \/ In(c, "restoring")
     /\ r \in Restorable(c) /\ retiring[c].before[r] = "none"
     => OnlyFor(r, c) /\ ~touched[r]
  /\ /\ In(c, "applied") \/ In(c, "finalizing")
     /\ r \in Mine(c)
     => gone[r]
InUseInv(r) ==
  /\ retirement[r] \in {"absent", "none"} =>
       /\ \A m \in late : r \notin m.revisions
       /\ \A c \in Retirer : Retires(c) => r \notin retiring[c].revisions
  /\ retirement[r] = "pending" => /\ operation[r] \in Operation
                                  /\ memory = "deleted" => gone[r]
RetirementInv ==
  /\ RetirementTypeOK
  /\ \A c \in Retirer : CallShape(c) /\ \A r \in Revision : QuarantineInv(c, r)
  /\ \A r \in Revision : InUseInv(r)

RetirementCall ==
  [stage : {"asking", "applied", "finalizing", "restoring"},
   operation : Operation, revisions : SUBSET Revision, retrying : BOOLEAN,
   previous : SUBSET Revision, before : [Revision -> Retirement]]

\* A call that goes on is still about what it took.
LEMMA NextPhase ==
  ASSUME RetirementTypeOK, NEW c \in Retirer, Retires(c),
         NEW stage \in {"asking", "applied", "finalizing", "restoring"}, Step(c, stage)
  PROVE  /\ retiring' \in [Retirer -> {NoCall} \cup RetirementCall]
         /\ retiring'[c].stage = stage
         /\ \A d \in Retirer : d # c => retiring'[d] = retiring[d]
         /\ /\ retiring'[c].operation = retiring[c].operation
            /\ retiring'[c].revisions = retiring[c].revisions
            /\ retiring'[c].previous = retiring[c].previous
            /\ retiring'[c].before = retiring[c].before
<1>1. retiring[c] \in RetirementCall
  BY DEF RetirementTypeOK, RetirementCall, Retires
<1> DEFINE call == [retiring[c] EXCEPT !.stage = stage]
<1>2. /\ call \in RetirementCall
      /\ call.stage = stage /\ call.operation = retiring[c].operation
      /\ call.revisions = retiring[c].revisions /\ call.previous = retiring[c].previous
      /\ call.before = retiring[c].before
  BY <1>1 DEF RetirementCall
<1>3. /\ retiring'[c] = call
      /\ \A d \in Retirer : d # c => retiring'[d] = retiring[d]
  BY DEF RetirementTypeOK, Step
<1>4. retiring' \in [Retirer -> {NoCall} \cup RetirementCall]
  BY <1>2 DEF RetirementTypeOK, RetirementCall, Step
<1> HIDE DEF call
<1> QED  BY <1>2, <1>3, <1>4

LEMMA RetirementInvInit == RetirementInit => RetirementInv
<1> SUFFICES ASSUME RetirementInit PROVE RetirementInv
    OBVIOUS
<1>1. RetirementTypeOK
  BY CompletedAssumption DEF RetirementInit, RetirementTypeOK, Retirement, Operation
<1> QED
  BY <1>1 DEF RetirementInit, RetirementInv, CallShape, QuarantineInv, InUseInv, Retires,
              In

LEMMA RetirementTypeNext ==
  RetirementInv /\ [RetirementNext]_retirementVars => RetirementTypeOK'
<1> SUFFICES ASSUME RetirementInv, [RetirementNext]_retirementVars
             PROVE  RetirementTypeOK'
    OBVIOUS
<1> RetirementTypeOK
    BY DEF RetirementInv
<1> USE DEF RetirementTypeOK
<1>0. \A c \in Retirer : Retires(c) => retiring[c] \in RetirementCall
  BY DEF RetirementCall, Retires
<1>00. \A c \in Retirer : Done(c) => retiring' \in [Retirer -> {NoCall} \cup RetirementCall]
  BY DEF RetirementCall, Done
<1>1. ASSUME NEW c \in Retirer, NEW op \in Operation, Quarantine(c, op)
      PROVE  RetirementTypeOK'
  <2> DEFINE call == [stage |-> "asking", operation |-> op, revisions |-> InUse(op),
                      retrying |-> Retrying(op), previous |-> Previous(op),
                      before |-> retirement]
  <2>1. call \in RetirementCall
    BY DEF RetirementCall, InUse, Rows, Retrying, Previous
  <2>2. retiring' = [retiring EXCEPT ![c] = call]
    BY <1>1 DEF Quarantine
  <2> HIDE DEF call
  <2>3. retiring' \in [Retirer -> {NoCall} \cup RetirementCall]
    BY <2>1, <2>2 DEF RetirementCall
  <2>4. /\ retirement' \in [Revision -> Retirement]
        /\ generation' \in [Revision -> Retirer \cup {NoCall}]
        /\ operation' \in [Revision -> Operation \cup {"none"}]
    BY <1>1 DEF Quarantine, Retirement
  <2>5. touched' \in [Revision -> BOOLEAN] /\ gone' \in [Revision -> BOOLEAN]
    <3>1. touched' = [r \in Revision |-> touched[r] /\ r \notin Previous(op)]
      BY <1>1 DEF Quarantine
    <3>2. gone' = [r \in Revision |->
                     IF r \in Previous(op) THEN memory = "deleted" ELSE gone[r]]
      BY <1>1 DEF Quarantine
    <3> QED  BY <3>1, <3>2, Zenon
  <2> QED  BY <1>1, <2>3, <2>4, <2>5 DEF Quarantine, RetirementCall
<1>2. ASSUME NEW m, m \in [operation : Operation, revisions : SUBSET Revision], CoreApply(m)
      PROVE  /\ memory' \in {"live", "archived", "deleted"}
             /\ touched' \in [Revision -> BOOLEAN] /\ gone' \in [Revision -> BOOLEAN]
  <2>1. /\ touched' = [r \in Revision |-> touched[r] \/ r \in m.revisions]
        /\ gone' = [r \in Revision |-> gone[r] \/ retirement[r] = "pending"]
    BY <1>2 DEF CoreApply
  <2>2. touched' \in [Revision -> BOOLEAN] /\ gone' \in [Revision -> BOOLEAN]
    BY <2>1, Zenon
  <2> QED  BY <1>2, <2>2 DEF CoreApply, Operation
<1>3. \A c \in Retirer : Retires(c) =>
        Message(c) \in [operation : Operation, revisions : SUBSET Revision]
  BY <1>0 DEF Message, RetirementCall
<1>4. ASSUME NEW c \in Retirer, Apply(c)  PROVE RetirementTypeOK'
  <2>1. Retires(c)
    BY <1>4 DEF Apply, In, Retires
  <2> QED  BY <1>2, <1>3, <1>4, <2>1, NextPhase DEF Apply, RetirementCall
<1>5. ASSUME NEW c \in Retirer, Answered(c)  PROVE RetirementTypeOK'
  <2>1. Retires(c)
    BY <1>5 DEF Answered, In, Retires
  <2> QED  BY <1>5, <2>1, NextPhase DEF Answered, RetirementCall
<1>6. ASSUME NEW c \in Retirer, GiveUp(c) \/ CrashRetirer(c)  PROVE RetirementTypeOK'
  <2>1. Retires(c)
    BY <1>6 DEF GiveUp, CrashRetirer, In, Retires
  <2> QED  BY <1>00, <1>3, <1>6, <2>1 DEF GiveUp, CrashRetirer, RetirementCall
<1>7. ASSUME NEW c \in Retirer, NEW status \in {404, 500}, Refused(c, status)
      PROVE  RetirementTypeOK'
  <2>1. Retires(c)
    BY <1>7 DEF Refused, In, Retires
  <2> QED  BY <1>00, <1>7, <2>1, NextPhase DEF Refused, RetirementCall
<1>8. ASSUME NEW c \in Retirer, Restore(c)  PROVE RetirementTypeOK'
  <2>1. retiring[c] \in RetirementCall
    BY <1>0, <1>8 DEF Restore, In, Retires
  <2>2. \A r \in Revision : retiring[c].before[r] \in Retirement
    BY <2>1 DEF RetirementCall
  <2>3. retirement' \in [Revision -> Retirement]
    BY <1>8, <2>2 DEF Restore
  <2>4. generation' \in [Revision -> Retirer \cup {NoCall}]
    BY <1>8 DEF Restore
  <2>5. operation' \in [Revision -> Operation \cup {"none"}]
    <3>1. \A r \in Restorable(c) : retiring[c].before[r] \in {"none", "archived", "deleted"}
      BY <1>8, <2>2 DEF Restore, In, Restorable, RetirementInv, CallShape, Retires,
                        Retirement, Mine
    <3> QED  BY <1>8, <3>1 DEF Restore, Operation
  <2> QED  BY <1>00, <1>8, <2>3, <2>4, <2>5 DEF Restore, RetirementCall
<1>9. ASSUME NEW c \in Retirer, Finalize(c)  PROVE RetirementTypeOK'
  <2>1. retiring[c] \in RetirementCall
    BY <1>0, <1>9 DEF Finalize, In, Retires
  <2>2. retirement' \in [Revision -> Retirement]
    BY <1>9, <2>1 DEF Finalize, Retirement, RetirementCall, Operation
  <2> QED  BY <1>00, <1>9, <2>2 DEF Finalize, RetirementCall
<1>10. ASSUME NEW r \in Revision, Revise(r)  PROVE RetirementTypeOK'
  BY <1>10 DEF Revise, Retirement
<1>11. ASSUME NEW m \in late, Late(m)  PROVE RetirementTypeOK'
  BY <1>2, <1>11 DEF Late
<1>12. CASE UNCHANGED retirementVars
  BY <1>12 DEF retirementVars
<1> HIDE DEF RetirementTypeOK
<1> QED  BY <1>1, <1>4, <1>5, <1>6, <1>7, <1>8, <1>9, <1>10, <1>11, <1>12 DEF RetirementNext

\* What a revision's part of the invariant says is kept by every step.
LEMMA RetirementPartsNext ==
  ASSUME RetirementInv, RetirementNext, NEW d \in Retirer, NEW r \in Revision
  PROVE  CallShape(d)' /\ QuarantineInv(d, r)' /\ InUseInv(r)'
<1> RetirementTypeOK
    BY DEF RetirementInv
<1>0. \A c \in Retirer : Retires(c) => retiring[c] \in RetirementCall
  BY DEF RetirementTypeOK, RetirementCall, Retires
<1>i. /\ \A c \in Retirer : CallShape(c) /\ QuarantineInv(c, r)
      /\ InUseInv(r)
  BY DEF RetirementInv
<1> USE DEF CallShape, QuarantineInv, InUseInv, Retires, Mine, In, Restorable, OnlyFor
\* A call's end leaves nothing to show for it.
<1>d. ASSUME NEW c \in Retirer, Done(c)
      PROVE  /\ retiring'[c] = NoCall
             /\ \A e \in Retirer : e # c => retiring'[e] = retiring[e]
  BY <1>d DEF Done, RetirementTypeOK
<1>1. ASSUME NEW c \in Retirer, NEW op \in Operation, Quarantine(c, op)
      PROVE  CallShape(d)' /\ QuarantineInv(d, r)' /\ InUseInv(r)'
  <2> DEFINE call == [stage |-> "asking", operation |-> op, revisions |-> InUse(op),
                      retrying |-> Retrying(op), previous |-> Previous(op),
                      before |-> retirement]
  <2>1. /\ retiring[c] = NoCall /\ retiring'[c] = call
        /\ \A e \in Retirer : e # c => retiring'[e] = retiring[e]
    BY <1>1 DEF Quarantine, RetirementTypeOK
  <2>2. /\ call.stage = "asking" /\ call.operation = op /\ call.revisions = InUse(op)
        /\ call.previous = Previous(op) /\ call.before = retirement
    OBVIOUS
  <2> HIDE DEF call
  <2>3. /\ r \in InUse(op) <=> retirement[r] \notin {"absent", op}
        /\ r \in Previous(op) <=> retirement[r] \notin {"absent", "pending", op}
        /\ op \notin {"absent", "none", "pending"}
    BY DEF InUse, Previous, Rows, Operation
  <2>4. /\ r \in InUse(op) => /\ retirement'[r] = "pending" /\ generation'[r] = c
                               /\ operation'[r] = op
        /\ r \notin InUse(op) => retirement'[r] = retirement[r]
        /\ generation'[r] # c => r \notin InUse(op)
    BY <1>1 DEF Quarantine, RetirementTypeOK
  <2>5. /\ r \in Previous(op) => ~touched'[r] /\ (memory = "deleted" => gone'[r])
        /\ r \notin Previous(op) => gone'[r] = gone[r]
    BY <1>1 DEF Quarantine
  <2>6. UNCHANGED <<memory, late>>
    BY <1>1 DEF Quarantine
  <2>7. CallShape(d)'
    <3>1. CASE d # c
      BY <1>i, <2>1, <3>1
    <3>2. CASE d = c
      BY <2>1, <2>2, <3>2 DEF Previous, InUse, Rows
    <3> QED  BY <3>1, <3>2
  <2>8. QuarantineInv(d, r)'
    <3>1. CASE d # c
      BY <2>1, <2>3, <2>4, <3>1
    <3>2. CASE d = c
      BY <1>i, <2>1, <2>2, <2>3, <2>4, <2>5, <2>6, <3>2
    <3> QED  BY <3>1, <3>2
  <2>9. InUseInv(r)'
    <3>1. retirement'[r] \in {"absent", "none"} => retirement[r] = "absent" /\ r \notin InUse(op)
      BY <2>3, <2>4
    <3>2. retirement'[r] \in {"absent", "none"} =>
            \A e \in Retirer : Retires(e)' => r \notin retiring'[e].revisions
      BY <1>i, <2>1, <2>2, <3>1
    <3>3. retirement'[r] = "pending" =>
            operation'[r] \in Operation /\ (memory = "deleted" => gone'[r])
      BY <1>i, <2>3, <2>4, <2>5
    <3> QED  BY <1>i, <2>6, <3>1, <3>2, <3>3
  <2> QED  BY <2>7, <2>8, <2>9
<1>3. ASSUME NEW c \in Retirer, Apply(c)
      PROVE  CallShape(d)' /\ QuarantineInv(d, r)' /\ InUseInv(r)'
  <2>1. Retires(c) /\ Step(c, "applied") /\ CoreApply(Message(c))
    BY <1>3 DEF Apply
  <2>2. UNCHANGED <<retirement, generation, operation, late>>
    BY <1>3 DEF Apply
  <2>3. /\ retiring'[c].stage = "applied"
        /\ \A e \in Retirer : e # c => retiring'[e] = retiring[e]
        /\ retiring'[c].operation = retiring[c].operation
        /\ retiring'[c].revisions = retiring[c].revisions
        /\ retiring'[c].previous = retiring[c].previous
        /\ retiring'[c].before = retiring[c].before
    BY <2>1, NextPhase
  <2>4. /\ retirement[r] = "pending" => gone'[r]
        /\ ~touched[r] /\ r \notin retiring[c].revisions => ~touched'[r]
    BY <2>1 DEF CoreApply, Message, RetirementTypeOK
  <2>5. CallShape(d)'
    BY <1>i, <2>1, <2>3
  <2>6. InUseInv(r)'
    BY <1>i, <2>1, <2>2, <2>3, <2>4
  <2>7. QuarantineInv(d, r)'
    <3>1. CASE d # c
      BY <1>i, <2>1, <2>2, <2>3, <2>4, <3>1
    <3>2. CASE d = c
      BY <1>i, <2>1, <2>2, <2>3, <2>4, <3>2
    <3> QED  BY <3>1, <3>2
  <2> QED  BY <2>5, <2>6, <2>7
<1>4. ASSUME NEW c \in Retirer, Answered(c)
      PROVE  CallShape(d)' /\ QuarantineInv(d, r)' /\ InUseInv(r)'
  <2>1. Retires(c) /\ Step(c, "finalizing") /\ retiring[c].stage = "applied"
    BY <1>4 DEF Answered
  <2>2. UNCHANGED <<retirement, generation, operation, memory, late, touched, gone>>
    BY <1>4 DEF Answered
  <2>3. /\ retiring'[c].stage = "finalizing"
        /\ \A e \in Retirer : e # c => retiring'[e] = retiring[e]
        /\ retiring'[c].operation = retiring[c].operation
        /\ retiring'[c].revisions = retiring[c].revisions
        /\ retiring'[c].previous = retiring[c].previous
        /\ retiring'[c].before = retiring[c].before
    BY <2>1, NextPhase
  <2>4. CASE d # c
    BY <1>i, <2>1, <2>2, <2>3, <2>4
  <2>5. CASE d = c
    BY <1>i, <2>1, <2>2, <2>3, <2>5
  <2> QED  BY <2>4, <2>5
<1>5. ASSUME NEW c \in Retirer, GiveUp(c) \/ CrashRetirer(c)
      PROVE  CallShape(d)' /\ QuarantineInv(d, r)' /\ InUseInv(r)'
  <2>1. Retires(c) /\ Done(c)
    BY <1>5 DEF GiveUp, CrashRetirer
  <2>2. UNCHANGED <<retirement, generation, operation, memory, touched, gone>>
    BY <1>5 DEF GiveUp, CrashRetirer
  <2>3. \A m \in late' : m \in late \/ m.revisions = retiring[c].revisions
    BY <1>5 DEF GiveUp, CrashRetirer, Message
  <2>4. CASE d # c
    BY <1>d, <1>i, <2>1, <2>2, <2>3, <2>4
  <2>5. CASE d = c
    BY <1>d, <1>i, <2>1, <2>2, <2>3, <2>5
  <2> QED  BY <2>4, <2>5
<1>6. ASSUME NEW c \in Retirer, NEW status \in {404, 500}, Refused(c, status)
      PROVE  CallShape(d)' /\ QuarantineInv(d, r)' /\ InUseInv(r)'
  <2>1. Retires(c) /\ retiring[c].stage = "asking"
    BY <1>6 DEF Refused
  <2>2. UNCHANGED <<retirement, generation, operation, memory, late, touched, gone>>
    BY <1>6 DEF Refused
  <2>3. \/ Step(c, "finalizing") /\ memory = "deleted"
        \/ Step(c, "restoring")
        \/ Done(c)
    BY <1>6 DEF Refused
  <2>4. ASSUME Done(c)  PROVE CallShape(d)' /\ QuarantineInv(d, r)' /\ InUseInv(r)'
    BY <1>d, <1>i, <2>2, <2>4
  <2>5. ASSUME NEW stage \in {"finalizing", "restoring"}, Step(c, stage),
               stage = "finalizing" => memory = "deleted"
        PROVE  CallShape(d)' /\ QuarantineInv(d, r)' /\ InUseInv(r)'
    <3>1. /\ retiring'[c].stage = stage
          /\ \A e \in Retirer : e # c => retiring'[e] = retiring[e]
          /\ retiring'[c].operation = retiring[c].operation
          /\ retiring'[c].revisions = retiring[c].revisions
          /\ retiring'[c].previous = retiring[c].previous
          /\ retiring'[c].before = retiring[c].before
      BY <2>1, <2>5, NextPhase
    <3>2. CASE d # c
      BY <1>i, <2>1, <2>2, <3>1, <3>2
    <3>3. CASE d = c
      BY <1>i, <2>1, <2>2, <2>5, <3>1, <3>3
    <3> QED  BY <3>2, <3>3
  <2> QED  BY <2>3, <2>4, <2>5
<1>7. ASSUME NEW c \in Retirer, Restore(c)
      PROVE  CallShape(d)' /\ QuarantineInv(d, r)' /\ InUseInv(r)'
  <2>1. Retires(c) /\ retiring[c].stage = "restoring" /\ Done(c)
    BY <1>7 DEF Restore
  <2>2. UNCHANGED <<memory, late, touched, gone>>
    BY <1>7 DEF Restore
  <2>3. CASE r \notin Restorable(c)
    <3>1. /\ retirement'[r] = retirement[r] /\ generation'[r] = generation[r]
          /\ operation'[r] = operation[r]
      BY <1>7, <2>3 DEF Restore, RetirementTypeOK
    <3> QED  BY <1>d, <1>i, <2>1, <2>2, <3>1
  <2>4. CASE r \in Restorable(c)
    <3>1. retirement'[r] = retiring[c].before[r]
      BY <1>7, <2>4 DEF Restore, RetirementTypeOK
    <3>2. retirement'[r] \notin {"absent", "pending"}
      BY <1>i, <2>1, <2>4, <3>1
    <3>3. InUseInv(r)'
      BY <1>d, <1>i, <2>1, <2>2, <2>4, <3>1, <3>2
    <3> QED  BY <1>d, <1>i, <2>1, <2>2, <3>2, <3>3
  <2> QED  BY <2>3, <2>4
<1>8. ASSUME NEW c \in Retirer, Finalize(c)
      PROVE  CallShape(d)' /\ QuarantineInv(d, r)' /\ InUseInv(r)'
  <2>1. Retires(c) /\ retiring[c].stage = "finalizing" /\ Done(c)
    BY <1>8 DEF Finalize
  <2>2. UNCHANGED <<generation, operation, memory, late, touched, gone>>
    BY <1>8 DEF Finalize
  <2>3. retiring[c].operation \in Operation
    BY <1>0, <2>1 DEF RetirementCall
  <2>4. retirement'[r] = retirement[r] \/ retirement'[r] = retiring[c].operation
    BY <1>8 DEF Finalize, RetirementTypeOK
  <2>5. retirement'[r] \in {"absent", "none", "pending"} => retirement'[r] = retirement[r]
    BY <2>3, <2>4 DEF Operation
  <2>6. CASE d # c
    BY <1>d, <1>i, <2>1, <2>2, <2>5, <2>6
  <2>7. CASE d = c
    BY <1>d, <1>i, <2>1, <2>2, <2>5, <2>7
  <2> QED  BY <2>6, <2>7
<1>9. ASSUME NEW q \in Revision, Revise(q)
      PROVE  CallShape(d)' /\ QuarantineInv(d, r)' /\ InUseInv(r)'
  BY <1>9, <1>i DEF Revise, RetirementTypeOK
<1>10. ASSUME NEW m \in late, Late(m)
       PROVE  CallShape(d)' /\ QuarantineInv(d, r)' /\ InUseInv(r)'
  <2>1. UNCHANGED <<retirement, generation, operation, retiring>> /\ late' \subseteq late
    BY <1>10 DEF Late
  <2>2. CASE UNCHANGED <<memory, touched, gone>>
    BY <1>i, <2>1, <2>2
  <2>3. CASE CoreApply(m)
    <3>1. /\ retirement[r] = "pending" => gone'[r]
          /\ ~touched[r] /\ r \notin m.revisions => ~touched'[r]
      BY <2>3 DEF CoreApply, RetirementTypeOK
    <3> QED  BY <1>i, <2>1, <3>1
  <2> QED  BY <1>10, <2>2, <2>3 DEF Late
<1> HIDE DEF CallShape, QuarantineInv, InUseInv
<1> QED
  BY <1>1, <1>3, <1>4, <1>5, <1>6, <1>7, <1>8, <1>9, <1>10 DEF RetirementNext

\* A job in quarantine, the call to Core that put it there and the answer that takes
\* it out again belong together, in every state.
THEOREM RetirementInvariant == RetirementSpec => []RetirementInv
<1>1. RetirementInv /\ [RetirementNext]_retirementVars => RetirementInv'
  <2> SUFFICES ASSUME RetirementInv, [RetirementNext]_retirementVars
               PROVE  RetirementInv'
      OBVIOUS
  <2>1. CASE RetirementNext
    <3>1. RetirementTypeOK'
      BY <2>1, RetirementTypeNext
    <3>2. ASSUME NEW c \in Retirer  PROVE CallShape(c)'
      <4>1. CASE Revision = {}
        BY <3>1, <4>1 DEF CallShape, Retires, RetirementTypeOK
      <4>2. CASE Revision # {}
        BY <2>1, <4>2, RetirementPartsNext
      <4> QED  BY <4>1, <4>2
    <3>3. ASSUME NEW c \in Retirer, NEW r \in Revision  PROVE QuarantineInv(c, r)'
      BY <2>1, RetirementPartsNext
    <3>4. ASSUME NEW r \in Revision  PROVE InUseInv(r)'
      <4>1. CASE Retirer = {}
        <5> RetirementTypeOK /\ InUseInv(r)
            BY DEF RetirementInv
        <5>1. ASSUME NEW m \in late, Late(m)  PROVE InUseInv(r)'
          <6>1. CASE UNCHANGED <<memory, touched, gone>>
            BY <5>1, <6>1, <4>1 DEF Late, InUseInv
          <6>2. CASE CoreApply(m)
            <7>1. retirement[r] = "pending" => gone'[r]
              BY <6>2 DEF CoreApply, RetirementTypeOK
            <7> QED  BY <4>1, <5>1, <7>1 DEF Late, InUseInv
          <6> QED  BY <5>1, <6>1, <6>2 DEF Late
        <5>2. ASSUME NEW q \in Revision, Revise(q)  PROVE InUseInv(r)'
          BY <4>1, <5>2 DEF Revise, InUseInv, RetirementTypeOK
        <5> QED  BY <2>1, <4>1, <5>1, <5>2 DEF RetirementNext
      <4>2. CASE Retirer # {}
        BY <2>1, <4>2, RetirementPartsNext
      <4> QED  BY <4>1, <4>2
    <3> QED  BY <3>1, <3>2, <3>3, <3>4 DEF RetirementInv
  <2>2. CASE UNCHANGED retirementVars
    BY <2>2, RetirementTypeNext
       DEF retirementVars, RetirementInv, CallShape, QuarantineInv, InUseInv, Retires,
           Mine, In, Restorable, OnlyFor
  <2> QED  BY <2>1, <2>2
<1> QED  BY <1>1, RetirementInvInit, PTL DEF RetirementSpec

\* No revision is put back into use after Core carried out a call that had it in
\* quarantine, for any number of revisions and callers, answers lost and requests
\* late.
THEOREM RetirementRestoredOnlyIfRefused == RetirementSpec => RestoredOnlyIfRefused
<1> DEFINE Kept == \A r \in Revision :
                     retirement[r] = "pending" /\ retirement'[r] = "none" => ~touched[r]
<1>1. RetirementInv /\ [RetirementNext]_retirementVars => [Kept]_retirementVars
  <2> SUFFICES ASSUME RetirementInv, RetirementNext, NEW r \in Revision,
                      retirement[r] = "pending", retirement'[r] = "none"
               PROVE  ~touched[r]
      OBVIOUS
  <2> RetirementTypeOK
      BY DEF RetirementInv
  <2>1. PICK c \in Retirer : Restore(c) \/ Finalize(c)
    BY DEF RetirementNext, Quarantine, Apply, Answered, GiveUp, Refused, CrashRetirer,
           Late, Revise, RetirementTypeOK, InUse, Rows
  <2>2. ~Finalize(c)
    BY DEF Finalize, RetirementTypeOK, In, Operation
  <2>3. Restore(c) /\ r \in Restorable(c) /\ retiring[c].before[r] = "none"
    BY <2>1, <2>2 DEF Restore, RetirementTypeOK
  <2> QED  BY <2>3 DEF Restore, RetirementInv, QuarantineInv
<1> QED  BY <1>1, RetirementInvariant, PTL DEF RetirementSpec, RestoredOnlyIfRefused

\* No revision is marked retired unless Core carried out a call, or had deleted the
\* memory, while it was in quarantine.
THEOREM RetirementRetiredOnlyIfGone == RetirementSpec => RetiredOnlyIfGone
<1> DEFINE Kept == \A r \in Revision :
                     retirement[r] = "pending" /\ retirement'[r] = operation[r] => gone[r]
<1>1. RetirementInv /\ [RetirementNext]_retirementVars => [Kept]_retirementVars
  <2> SUFFICES ASSUME RetirementInv, RetirementNext, NEW r \in Revision,
                      retirement[r] = "pending", retirement'[r] = operation[r]
               PROVE  gone[r]
      OBVIOUS
  <2> RetirementTypeOK
      BY DEF RetirementInv
  <2>0. operation[r] \in Operation
    BY DEF RetirementInv, InUseInv
  <2>1. PICK c \in Retirer : Restore(c) \/ Finalize(c)
    BY <2>0
       DEF RetirementNext, Quarantine, Apply, Answered, GiveUp, Refused, CrashRetirer,
           Late, Revise, RetirementTypeOK, InUse, Rows, Operation
  <2>2. CASE Restore(c)
    <3>1. r \in Restorable(c) /\ operation[r] = retiring[c].before[r]
      BY <2>0, <2>2 DEF Restore, RetirementTypeOK, Operation
    <3>2. Retires(c) /\ r \in Mine(c) /\ r \in retiring[c].previous
      BY <2>2, <3>1 DEF Restore, In, Retires, Restorable
    <3>3. operation[r] = retiring[c].operation
      BY <3>2 DEF RetirementInv, QuarantineInv
    <3> QED  BY <3>1, <3>2, <3>3 DEF RetirementInv, CallShape
  <2>3. CASE Finalize(c)
    <3>1. In(c, "finalizing") /\ r \in Mine(c)
      BY <2>0, <2>3 DEF Finalize, RetirementTypeOK, Operation
    <3> QED  BY <3>1 DEF RetirementInv, QuarantineInv
  <2> QED  BY <2>1, <2>2, <2>3
<1> QED  BY <1>1, RetirementInvariant, PTL DEF RetirementSpec, RetiredOnlyIfGone

-----------------------------------------------------------------------------

(***************************************************************************)
(* SkillGovernance.  While nothing was retired, one active version is      *)
(* under no execution's archiving: the version a revise makes is new, and  *)
(* no execution can have loaded it before it was there.                    *)
(***************************************************************************)
Spared(v) == /\ skill[v].status = "activated"
             /\ \A c \in Curator : Curating(c, "archiving") => curating[c].version # v
SkillInv ==
  /\ SkillTypeOK
  /\ \A c \in Curator :
       curating[c] # NoSkill => skill[curating[c].version].status # "absent"
  /\ ~retired => \E v \in Version : Spared(v)

LEMMA SkillInvInit == SkillInit => SkillInv
<1> SUFFICES ASSUME SkillInit PROVE SkillInv
    OBVIOUS
<1>1. SkillTypeOK
  <2>1. \A status \in {"activated", "absent"} : [status |-> status, edits |-> 0] \in SkillRow
    BY SkillAssumption DEF SkillRow
  <2> QED  BY <2>1 DEF SkillInit, SkillTypeOK
<1>2. Spared(Current)
  BY SkillAssumption DEF SkillInit, Spared, Curating
<1> QED  BY <1>1, <1>2, SkillAssumption DEF SkillInit, SkillInv

SkillPlanRow ==
  [version : Version, operation : {"revise", "retire"}, expected : SkillRow,
   state : {"open", "expired", "used"}]
CuratingRow == [version : Version, loaded : SkillRow, stage : CuratingStage]

\* An execution that goes on is still about the version it loaded.
LEMMA NextStage ==
  ASSUME SkillTypeOK, NEW c \in Curator, curating[c] # NoSkill, NEW stage \in CuratingStage,
         curating' = [curating EXCEPT ![c].stage = stage]
  PROVE  /\ curating' \in [Curator -> {NoSkill} \cup CuratingRow]
         /\ curating'[c].stage = stage
         /\ \A d \in Curator : /\ curating'[d].version = curating[d].version
                               /\ d # c => curating'[d] = curating[d]
<1>1. curating[c] \in CuratingRow
  BY DEF SkillTypeOK, CuratingRow
<1>2. /\ [curating[c] EXCEPT !.stage = stage] \in CuratingRow
      /\ [curating[c] EXCEPT !.stage = stage].version = curating[c].version
      /\ [curating[c] EXCEPT !.stage = stage].stage = stage
  BY <1>1 DEF CuratingRow
<1>3. /\ curating'[c] = [curating[c] EXCEPT !.stage = stage]
      /\ \A d \in Curator : d # c => curating'[d] = curating[d]
  BY DEF SkillTypeOK
<1>4. curating' \in [Curator -> {NoSkill} \cup CuratingRow]
  BY <1>2 DEF SkillTypeOK, CuratingRow
<1> QED  BY <1>2, <1>3, <1>4

LEMMA SkillTypeNext == SkillTypeOK /\ [SkillNext]_skillVars => SkillTypeOK'
<1> SUFFICES ASSUME SkillTypeOK, [SkillNext]_skillVars PROVE SkillTypeOK'
    OBVIOUS
<1> USE SkillAssumption DEF SkillTypeOK, SkillRow, CuratingStage
<1>1. ASSUME NEW c \in Curator, NEW v \in Version, LoadSkill(c, v)  PROVE SkillTypeOK'
  BY <1>1 DEF LoadSkill
<1>2. ASSUME NEW c \in Curator, NEW a \in SkillPlan, NEW op \in {"revise", "retire"},
             PlanSkill(c, a, op)
      PROVE  SkillTypeOK'
  BY <1>2 DEF PlanSkill, Curating, EndCurating
<1>3. ASSUME NEW c \in Curator, NEW a \in SkillPlan, TakeSkillPlan(c, a)  PROVE SkillTypeOK'
  <2>1. curating' \in [Curator -> {NoSkill} \cup CuratingRow]
    <3>1. curating[c] # NoSkill
      BY <1>3 DEF TakeSkillPlan, Curating
    <3>2. FirstStage(skillPlans[a].operation) \in CuratingStage
      BY DEF FirstStage, CuratingStage
    <3>3. CASE SkillFits(c, a)
      BY <1>3, <3>1, <3>2, <3>3, NextStage DEF TakeSkillPlan
    <3>4. CASE ~SkillFits(c, a)
      BY <1>3, <3>4 DEF TakeSkillPlan, EndCurating, CuratingRow
    <3> QED  BY <3>3, <3>4
  <2>2. retired' \in BOOLEAN
    <3>1. CASE SkillFits(c, a)
      BY <1>3, <3>1, Zenon DEF TakeSkillPlan
    <3>2. CASE ~SkillFits(c, a)
      BY <1>3, <3>2, Zenon DEF TakeSkillPlan
    <3> QED  BY <3>1, <3>2
  <2>3. skillPlans' \in [SkillPlan -> {NoSkill} \cup SkillPlanRow]
    BY <1>3 DEF TakeSkillPlan, SkillPlanRow
  <2>4. UNCHANGED skill
    BY <1>3 DEF TakeSkillPlan
  <2> QED  BY <2>1, <2>2, <2>3, <2>4 DEF CuratingRow, SkillPlanRow
<1>4. ASSUME NEW c \in Curator, ReviseSkill(c)  PROVE SkillTypeOK'
  BY <1>4 DEF ReviseSkill, Curating, EndCurating
<1>5. ASSUME NEW c \in Curator, ArchiveSkill(c)  PROVE SkillTypeOK'
  BY <1>5 DEF ArchiveSkill, Curating, EndCurating
<1>6. ASSUME NEW a \in SkillPlan, ExpireSkillPlan(a)  PROVE SkillTypeOK'
  BY <1>6 DEF ExpireSkillPlan
<1>7. ASSUME NEW v \in Version, EditSkill(v)  PROVE SkillTypeOK'
  BY <1>7 DEF EditSkill
<1>8. CASE CrashCurator
  <2>1. ASSUME NEW a \in SkillPlan, skillPlans[a] # NoSkill
        PROVE  [skillPlans[a] EXCEPT !.state = "used"] \in SkillPlanRow
    BY <2>1 DEF SkillPlanRow
  <2>2. skillPlans' \in [SkillPlan -> {NoSkill} \cup SkillPlanRow]
    BY <1>8, <2>1 DEF CrashCurator
  <2>3. curating' \in [Curator -> {NoSkill} \cup CuratingRow]
    BY <1>8 DEF CrashCurator
  <2>4. UNCHANGED <<skill, retired>>
    BY <1>8 DEF CrashCurator
  <2> QED  BY <2>2, <2>3, <2>4 DEF CuratingRow, SkillPlanRow
<1>9. CASE UNCHANGED skillVars
  BY <1>9 DEF skillVars
<1> HIDE DEF SkillTypeOK
<1> QED  BY <1>1, <1>2, <1>3, <1>4, <1>5, <1>6, <1>7, <1>8, <1>9 DEF SkillNext

LEMMA SkillSparedNext == SkillInv /\ [SkillNext]_skillVars => SkillInv'
<1> SUFFICES ASSUME SkillInv, [SkillNext]_skillVars PROVE SkillInv'
    OBVIOUS
<1>0. SkillTypeOK'
  BY SkillTypeNext DEF SkillInv
<1> USE <1>0 DEF SkillInv, Spared, Curating, SkillTypeOK
<1>1. ASSUME NEW c \in Curator, NEW v \in Version, LoadSkill(c, v)  PROVE SkillInv'
  BY <1>1 DEF LoadSkill
<1>2. ASSUME NEW c \in Curator, NEW a \in SkillPlan, NEW op \in {"revise", "retire"},
             PlanSkill(c, a, op)
      PROVE  SkillInv'
  BY <1>2 DEF PlanSkill, EndCurating
<1>3. ASSUME NEW c \in Curator, NEW a \in SkillPlan, TakeSkillPlan(c, a)  PROVE SkillInv'
  <2>1. \A d \in Curator : curating'[d] # NoSkill =>
          /\ curating[d] # NoSkill /\ curating'[d].version = curating[d].version
    BY <1>3 DEF TakeSkillPlan, EndCurating
  <2>2. \A d \in Curator : ~retired' /\ Curating(d, "archiving")' => Curating(d, "archiving")
    BY <1>3 DEF TakeSkillPlan, EndCurating, FirstStage
  <2>3. ~retired' => ~retired
    BY <1>3 DEF TakeSkillPlan
  <2>4. skill' = skill
    BY <1>3 DEF TakeSkillPlan
  <2> QED  BY <2>1, <2>2, <2>3, <2>4
<1>4. ASSUME NEW c \in Curator, ReviseSkill(c)  PROVE SkillInv'
  <2>1. CASE EndCurating(c) /\ UNCHANGED skill
    BY <1>4, <2>1 DEF ReviseSkill, EndCurating
  <2>2. ASSUME NEW v \in Version, skill[v].status = "absent",
               skill' = [skill EXCEPT ![v].status = "activated"],
               \/ curating' = [curating EXCEPT ![c].stage = "archiving"]
               \/ EndCurating(c)
        PROVE  SkillInv'
    <3>1. /\ skill'[v].status = "activated"
          /\ \A w \in Version : w # v => skill'[w] = skill[w]
      BY <2>2 DEF SkillRow
    <3>2. curating[c] # NoSkill
      BY <1>4 DEF ReviseSkill
    <3>3. CASE curating' = [curating EXCEPT ![c].stage = "archiving"]
      <4>1. \A d \in Curator : curating'[d].version = curating[d].version
        BY <3>2, <3>3, NextStage DEF CuratingStage
      <4>2. \A d \in Curator : curating'[d] # NoSkill => curating[d] # NoSkill
        BY <3>2, <3>3
      <4>3. \A d \in Curator : curating'[d] # NoSkill => curating'[d].version # v
        BY <2>2, <4>1, <4>2
      <4>4. Spared(v)'
        BY <3>1, <4>3
      <4> QED  BY <1>4, <3>1, <4>1, <4>2, <4>3, <4>4 DEF ReviseSkill
    <3>4. CASE EndCurating(c)
      BY <1>4, <2>2, <3>1, <3>4 DEF ReviseSkill, EndCurating
    <3> QED  BY <2>2, <3>3, <3>4
  <2> HIDE DEF SkillInv
  <2> QED  BY <1>4, <2>1, <2>2 DEF ReviseSkill
<1>5. ASSUME NEW c \in Curator, ArchiveSkill(c)  PROVE SkillInv'
  <2>1. \A w \in Version : w # curating[c].version => skill'[w] = skill[w]
    BY <1>5 DEF ArchiveSkill
  <2>2. \A w \in Version : skill[w].status # "absent" => skill'[w].status # "absent"
    BY <1>5 DEF ArchiveSkill, SkillRow
  <2> QED  BY <1>5, <2>1, <2>2 DEF ArchiveSkill, EndCurating
<1>6. ASSUME NEW a \in SkillPlan, ExpireSkillPlan(a)  PROVE SkillInv'
  BY <1>6 DEF ExpireSkillPlan
<1>7. ASSUME NEW v \in Version, EditSkill(v)  PROVE SkillInv'
  <2>1. \A w \in Version : skill'[w].status = skill[w].status
    BY <1>7 DEF EditSkill, SkillRow
  <2> QED  BY <1>7, <2>1 DEF EditSkill
<1>8. CASE CrashCurator
  BY <1>8 DEF CrashCurator
<1>9. CASE UNCHANGED skillVars
  BY <1>9 DEF skillVars
<1> QED  BY <1>1, <1>2, <1>3, <1>4, <1>5, <1>6, <1>7, <1>8, <1>9 DEF SkillNext

\* Unless a retirement was approved, some version is active and no execution is
\* about to archive it.
THEOREM SkillInvariant == SkillSpec => []SkillInv
BY SkillInvInit, SkillSparedNext, PTL DEF SkillSpec

\* A Skill that nobody approved to retire has an active version at every moment, for
\* any number of versions, plans and crossing executions, crashes included.
THEOREM SkillNeverNone == SkillSpec => []NeverNone
<1>1. SkillInv => NeverNone
  BY DEF SkillInv, Spared, NeverNone
<1> QED  BY <1>1, SkillInvariant, PTL

-----------------------------------------------------------------------------

(***************************************************************************)
(* UserAuthorizedMemory.  What an execution under way has made sure of, as *)
(* far as it is: what it read is still so unless another write came after. *)
(***************************************************************************)
Executing(e) ==
  replacing[e] # Absent =>
    LET a == replacing[e].approval
        t == replacing[e].turn
    IN /\ approval[a] # Absent
       /\ replacing[e].stage \in {"read", "confirmed"} =>
            canonical = approval[a].expected \/ overtaken[e]
       /\ replacing[e].stage = "confirmed" => captured[t] # Absent /\ a \in captured[t]
AuthorizedInv == AuthorizedTypeOK /\ \A e \in Executor : Executing(e)

LEMMA AuthorizedInvInit == AuthorizedInit => AuthorizedInv
BY DEF AuthorizedInit, AuthorizedInv, AuthorizedTypeOK, Executing

LEMMA AuthorizedTypeNext ==
  AuthorizedInv /\ [AuthorizedNext]_authorizedVars => AuthorizedTypeOK'
<1> SUFFICES ASSUME AuthorizedInv, [AuthorizedNext]_authorizedVars
             PROVE  AuthorizedTypeOK'
    OBVIOUS
<1> USE AbsentAssumption DEF AuthorizedTypeOK, AuthorizedInv, ReplacementPlan, ReplacementRun
<1>1. ASSUME NEW a \in Approval, ExpireApproval(a)  PROVE AuthorizedTypeOK'
  <2>1. [approval[a] EXCEPT !.state = "expired"] \in ReplacementPlan
    BY <1>1 DEF ExpireApproval
  <2> QED  BY <1>1, <2>1 DEF ExpireApproval
<1>2. ASSUME NEW a \in Approval, NEW text \in Body, PlanReplacement(a, text)
      PROVE  AuthorizedTypeOK'
  <2>1. [text |-> text, expected |-> canonical, state |-> "open"] \in ReplacementPlan
    OBVIOUS
  <2> QED  BY <1>2, <2>1 DEF PlanReplacement
<1>3. ASSUME NEW t \in Turn, CaptureTurn(t)  PROVE AuthorizedTypeOK'
  <2> DEFINE before == {a \in Approval : approval[a] # Absent}
  <2>1. captured' = [captured EXCEPT ![t] = before] /\ before \in SUBSET Approval
    BY <1>3 DEF CaptureTurn
  <2> HIDE DEF before
  <2> QED  BY <1>3, <2>1 DEF CaptureTurn
<1>4. ASSUME NEW e \in Executor, NEW a \in Approval, NEW t \in Turn, TakeApproval(e, a, t)
      PROVE  AuthorizedTypeOK'
  <2>1. [approval[a] EXCEPT !.state = "used"] \in ReplacementPlan
    BY <1>4 DEF TakeApproval
  <2>2. [approval |-> a, turn |-> t, stage |-> "taken"] \in ReplacementRun
    OBVIOUS
  <2> QED  BY <1>4, <2>1, <2>2 DEF TakeApproval
<1>5. ASSUME NEW e \in Executor, ReadCanonical(e) \/ Confirm(e)  PROVE AuthorizedTypeOK'
  <2>1. replacing[e] \in ReplacementRun
    BY <1>5 DEF ReadCanonical, Confirm, Replacing
  <2>2. /\ [replacing[e] EXCEPT !.stage = "read"] \in ReplacementRun
        /\ [replacing[e] EXCEPT !.stage = "confirmed"] \in ReplacementRun
    BY <2>1
  <2>3. replacing' \in [Executor -> {Absent} \cup ReplacementRun]
    BY <1>5, <2>2 DEF ReadCanonical, Confirm, Proceed, EndReplacing
  <2> QED  BY <1>5, <2>3 DEF ReadCanonical, Confirm
<1>6. ASSUME NEW e \in Executor, WriteCanonical(e)  PROVE AuthorizedTypeOK'
  <2>1. replacing[e] \in ReplacementRun
    BY <1>6 DEF WriteCanonical, Replacing
  <2>2. [replacing[e] EXCEPT !.stage = "written"] \in ReplacementRun
    BY <2>1
  <2>3. approval[replacing[e].approval].text \in Body
    BY <1>6, <2>1 DEF WriteCanonical, Replacing, Executing
  <2>4. replacing' \in [Executor -> {Absent} \cup ReplacementRun]
    BY <1>6, <2>2 DEF WriteCanonical, Proceed, EndReplacing
  <2>5. Overtake(e) => overtaken' \in [Executor -> BOOLEAN]
    BY Zenon DEF Overtake
  <2>7. overtaken' \in [Executor -> BOOLEAN]
    BY <1>6, <2>5 DEF WriteCanonical
  <2>8. confirmed' \in [Approval -> BOOLEAN]
    BY <1>6, <2>1 DEF WriteCanonical
  <2>6. canonical' \in Body \cup {Absent}
    BY <1>6, <2>3 DEF WriteCanonical
  <2> QED  BY <1>6, <2>4, <2>6, <2>7, <2>8 DEF WriteCanonical
<1>7. ASSUME NEW e \in Executor, RecordRevision(e)  PROVE AuthorizedTypeOK'
  <2>1. replacing[e] \in ReplacementRun
    BY <1>7 DEF RecordRevision, Replacing
  <2>3. approval[replacing[e].approval].text \in Body
    BY <1>7, <2>1 DEF RecordRevision, Replacing, AuthorizedInv, Executing
  <2> QED  BY <1>7, <2>3 DEF RecordRevision, EndReplacing
<1>8. ASSUME NEW text \in Body, Distill(text) \/ CompleteDistillation(text)
      PROVE  AuthorizedTypeOK'
  BY <1>8 DEF Distill, CompleteDistillation
<1>9. CASE CrashExecutor
  <2>1. \A a \in Approval : approval[a] # Absent =>
          [approval[a] EXCEPT !.state = "used"] \in ReplacementPlan
    OBVIOUS
  <2> QED  BY <1>9, <2>1 DEF CrashExecutor
<1>10. CASE UNCHANGED authorizedVars
  BY <1>10 DEF authorizedVars
<1> QED  BY <1>1, <1>2, <1>3, <1>4, <1>5, <1>6, <1>7, <1>8, <1>9, <1>10 DEF AuthorizedNext

\* An authorization that is used up or expires is still the plan it was.
LEMMA StaysPlanned ==
  ASSUME AuthorizedTypeOK, NEW a \in Approval, approval[a] # Absent, NEW state,
         state \in {"open", "expired", "used"},
         approval' = [approval EXCEPT ![a].state = state]
  PROVE  /\ [approval[a] EXCEPT !.state = state] \in ReplacementPlan
         /\ approval' \in [Approval -> {Absent} \cup ReplacementPlan]
         /\ \A b \in Approval : approval[b] # Absent =>
              approval'[b] # Absent /\ approval'[b].expected = approval[b].expected
<1>1. approval[a] \in ReplacementPlan
  BY DEF AuthorizedTypeOK
<1>2. /\ [approval[a] EXCEPT !.state = state] \in ReplacementPlan
      /\ [approval[a] EXCEPT !.state = state].expected = approval[a].expected
  BY <1>1 DEF ReplacementPlan
<1>3. /\ approval'[a] = [approval[a] EXCEPT !.state = state]
      /\ \A b \in Approval : b # a => approval'[b] = approval[b]
  BY DEF AuthorizedTypeOK
<1>4. approval' \in [Approval -> {Absent} \cup ReplacementPlan]
  BY <1>2 DEF AuthorizedTypeOK
<1> QED  BY <1>2, <1>3, <1>4, AbsentAssumption

LEMMA ExecutingNext ==
  AuthorizedInv /\ [AuthorizedNext]_authorizedVars => \A e \in Executor : Executing(e)'
<1> SUFFICES ASSUME AuthorizedInv, [AuthorizedNext]_authorizedVars, NEW f \in Executor
             PROVE  Executing(f)'
    OBVIOUS
<1> USE DEF AuthorizedInv, AuthorizedTypeOK, Executing,
           ReplacementPlan, ReplacementRun
<1>1. ASSUME NEW a \in Approval, ExpireApproval(a)  PROVE Executing(f)'
  <2>1. \A b \in Approval : approval[b] # Absent =>
          approval'[b] # Absent /\ approval'[b].expected = approval[b].expected
    BY <1>1, StaysPlanned DEF ExpireApproval
  <2> QED  BY <1>1, <2>1 DEF ExpireApproval
<1>2. ASSUME NEW a \in Approval, NEW text \in Body, PlanReplacement(a, text)
      PROVE  Executing(f)'
  BY <1>2 DEF PlanReplacement
<1>3. ASSUME NEW t \in Turn, CaptureTurn(t)  PROVE Executing(f)'
  BY <1>3 DEF CaptureTurn
<1>4. ASSUME NEW e \in Executor, NEW a \in Approval, NEW t \in Turn, TakeApproval(e, a, t)
      PROVE  Executing(f)'
  <2>1. approval[a] # Absent
    BY <1>4 DEF TakeApproval
  <2>2. \A b \in Approval : approval[b] # Absent =>
          approval'[b] # Absent /\ approval'[b].expected = approval[b].expected
    BY <1>4, StaysPlanned DEF TakeApproval
  <2> QED  BY <1>4, <2>1, <2>2 DEF TakeApproval
<1>5. ASSUME NEW e \in Executor, ReadCanonical(e)  PROVE Executing(f)'
  BY <1>5 DEF ReadCanonical, Replacing, Proceed, EndReplacing
<1>6. ASSUME NEW e \in Executor, Confirm(e)  PROVE Executing(f)'
  BY <1>6 DEF Confirm, Confirms, Replacing, Proceed, EndReplacing
<1>7. ASSUME NEW e \in Executor, WriteCanonical(e)  PROVE Executing(f)'
  <2>1. /\ replacing[e] # Absent
        /\ replacing'[e] # Absent => /\ replacing'[e].approval = replacing[e].approval
                                     /\ replacing'[e].stage = "written"
    BY <1>7 DEF WriteCanonical, Replacing, Proceed, EndReplacing
  <2>2. f # e => replacing'[f] = replacing[f]
    BY <1>7 DEF WriteCanonical, Proceed, EndReplacing
  <2>3. UNCHANGED <<approval, captured>>
    BY <1>7 DEF WriteCanonical
  <2>4. f # e => \/ overtaken'[f]
                 \/ overtaken'[f] = overtaken[f] /\ canonical' = canonical
    BY <1>7 DEF WriteCanonical, Overtake
  <2>5. CASE f = e
    BY <2>1, <2>3, <2>5
  <2>6. CASE f # e
    BY <2>2, <2>3, <2>4, <2>6
  <2> QED  BY <2>5, <2>6
<1>8. ASSUME NEW e \in Executor, RecordRevision(e)  PROVE Executing(f)'
  BY <1>8 DEF RecordRevision, Replacing, EndReplacing
<1>9. ASSUME NEW text \in Body, Distill(text) \/ CompleteDistillation(text)
      PROVE  Executing(f)'
  BY <1>9 DEF Distill, CompleteDistillation
<1>10. CASE CrashExecutor
  BY <1>10 DEF CrashExecutor
<1>11. CASE UNCHANGED authorizedVars
  BY <1>11 DEF authorizedVars
<1> QED
  BY <1>1, <1>2, <1>3, <1>4, <1>5, <1>6, <1>7, <1>8, <1>9, <1>10, <1>11 DEF AuthorizedNext

\* An execution past its reading of Core has the text of its plan before it, unless
\* another write overtook it, and past its check a turn that confirms the plan.
THEOREM AuthorizedInvariant == AuthorizedSpec => []AuthorizedInv
<1>1. AuthorizedInv /\ [AuthorizedNext]_authorizedVars => AuthorizedInv'
  BY AuthorizedTypeNext, ExecutingNext DEF AuthorizedInv
<1> QED  BY <1>1, AuthorizedInvInit, PTL DEF AuthorizedSpec

\* A canonical text is written only on a confirmation captured after its plan, and
\* over what the plan showed unless another write came after the execution's reading:
\* for any number of plans, turns, executions and other writers, crashes included.
THEOREM AuthorizedNoBlindOverwrite == AuthorizedSpec => NoBlindOverwrite
<1> DEFINE Shown ==
      \A a \in Approval :
        ~confirmed[a] /\ confirmed'[a] =>
          \E e \in Executor :
             /\ replacing[e] # Absent /\ replacing[e].approval = a
             /\ captured[replacing[e].turn] # Absent
             /\ a \in captured[replacing[e].turn]
             /\ canonical = approval[a].expected \/ overtaken[e]
<1>1. AuthorizedInv /\ [AuthorizedNext]_authorizedVars => [Shown]_authorizedVars
  <2> SUFFICES ASSUME AuthorizedInv, AuthorizedNext,
                      NEW a \in Approval, ~confirmed[a], confirmed'[a]
               PROVE  \E e \in Executor :
                        /\ replacing[e] # Absent /\ replacing[e].approval = a
                        /\ captured[replacing[e].turn] # Absent
                        /\ a \in captured[replacing[e].turn]
                        /\ canonical = approval[a].expected \/ overtaken[e]
      OBVIOUS
  <2>1. PICK e \in Executor : WriteCanonical(e) /\ confirmed' # confirmed
    BY DEF AuthorizedNext, ExpireApproval, PlanReplacement, CaptureTurn, TakeApproval,
           ReadCanonical, Confirm, RecordRevision, Distill, CompleteDistillation, CrashExecutor
  <2>2. replacing[e].approval = a /\ replacing[e] # Absent /\ replacing[e].stage = "confirmed"
    BY <2>1 DEF WriteCanonical, Replacing, AuthorizedInv, AuthorizedTypeOK
  <2> QED  BY <2>2 DEF AuthorizedInv, Executing
<1> QED  BY <1>1, AuthorizedInvariant, PTL DEF AuthorizedSpec, NoBlindOverwrite

-----------------------------------------------------------------------------

(***************************************************************************)
(* CoreMigration.  A baseline stands as it is from the backup on; the      *)
(* manifest is written from it, and stages order the two.                  *)
(***************************************************************************)
BaselineInv(s) ==
  /\ manifest[s] # NoFile => /\ preflight[s] = "done"
                             /\ baseline[s] = manifest[s] /\ baseline[s] \in past
  /\ preflight[s] = "copied" => baseline[s] \in past
  /\ verified[s] = "exact" => manifest[s] # NoFile /\ live = baseline[s]
MigrationInv == /\ MigrationTypeOK
                /\ live \in past
                /\ \A s \in Stamp : BaselineInv(s)

LEMMA MigrationInvInit == MigrationInit => MigrationInv
BY MigrationAssumption
   DEF MigrationInit, MigrationInv, MigrationTypeOK, BaselineInv

LEMMA MigrationInvNext == MigrationInv /\ [MigrationNext]_migrationVars => MigrationInv'
<1> SUFFICES ASSUME MigrationInv, [MigrationNext]_migrationVars PROVE MigrationInv'
    OBVIOUS
<1> USE MigrationAssumption DEF MigrationInv
<1>1. ASSUME NEW r \in Record, NEW v \in Value \cup {NoFile}, CoreWrites(r, v)
      PROVE  MigrationInv'
  <2>1. live' \in Database
    BY <1>1 DEF CoreWrites, MigrationTypeOK, Database
  <2>2. MigrationTypeOK'
    <3>1. UNCHANGED <<healthy, runtime, preflight, baseline, manifest>>
      BY <1>1 DEF CoreWrites
    <3>2. writes' \in 0..MaxWrites
      BY <1>1 DEF CoreWrites, MigrationTypeOK
    <3>3. verified' \in [Stamp -> {"no", "exact", "preserved"}]
      BY <1>1 DEF CoreWrites
    <3>4. past' \subseteq Database
      BY <1>1, <2>1 DEF CoreWrites, MigrationTypeOK
    <3> QED  BY <2>1, <3>1, <3>2, <3>3, <3>4 DEF MigrationTypeOK
  <2>3. live' \in past'
    BY <1>1 DEF CoreWrites
  <2>4. ASSUME NEW s \in Stamp  PROVE BaselineInv(s)'
    <3>1. BaselineInv(s) /\ verified'[s] = "no" /\ past \subseteq past'
      BY <1>1 DEF CoreWrites
    <3>2. UNCHANGED <<preflight, baseline, manifest>>
      BY <1>1 DEF CoreWrites
    <3> QED  BY <3>1, <3>2 DEF BaselineInv
  <2> QED  BY <2>2, <2>3, <2>4
<1>2. ASSUME NEW s \in Stamp, Inspected(s)  PROVE MigrationInv'
  <2>1. MigrationTypeOK'
    BY <1>2 DEF Inspected, Reach, MigrationTypeOK
  <2> QED  BY <1>2, <2>1 DEF Inspected, Reach, BaselineInv, MigrationTypeOK
<1>3. ASSUME NEW s \in Stamp, Backup(s)  PROVE MigrationInv'
  <2>1. MigrationTypeOK'
    BY <1>3 DEF Backup, Reach, MigrationTypeOK
  <2> QED  BY <1>3, <2>1 DEF Backup, Reach, BaselineInv, MigrationTypeOK
<1>4. ASSUME NEW s \in Stamp, WriteManifest(s)  PROVE MigrationInv'
  <2>1. MigrationTypeOK'
    BY <1>4 DEF WriteManifest, Fingerprint, Reach, MigrationTypeOK
  <2> QED  BY <1>4, <2>1 DEF WriteManifest, Fingerprint, Reach, BaselineInv, MigrationTypeOK
<1>5. ASSUME NEW s \in Stamp, CrashPreflight(s)  PROVE MigrationInv'
  <2>1. MigrationTypeOK'
    BY <1>5 DEF CrashPreflight, Reach, MigrationTypeOK
  <2> QED  BY <1>5, <2>1 DEF CrashPreflight, Reach, BaselineInv, MigrationTypeOK
<1>6. ASSUME NEW s \in Stamp, Verify(s) \/ Preserved(s)  PROVE MigrationInv'
  <2>1. MigrationTypeOK'
    BY <1>6 DEF Verify, Preserved, Finds, MigrationTypeOK
  <2> QED  BY <1>6, <2>1 DEF Verify, Preserved, Named, Finds, BaselineInv, MigrationTypeOK
<1>7. CASE UNCHANGED migrationVars
  BY <1>7 DEF migrationVars, BaselineInv, MigrationTypeOK
<1> QED  BY <1>1, <1>2, <1>3, <1>4, <1>5, <1>6, <1>7 DEF MigrationNext

\* A baseline that was copied or vouched for is a content the live database once
\* had, and its content of now while a verify stands.
THEOREM MigrationInvariant == MigrationSpec => []MigrationInv
BY MigrationInvInit, MigrationInvNext, PTL DEF MigrationSpec

\* A manifest vouches for a complete backup that the live database once was, and
\* while a verify stands the baseline is the live database, for any number of
\* preflights and whatever Core writes.
THEOREM MigrationManifestVouches == MigrationSpec => []ManifestVouches
<1>1. MigrationInv => ManifestVouches
  BY DEF MigrationInv, BaselineInv, ManifestVouches
<1> QED  BY <1>1, MigrationInvariant, PTL

=============================================================================
