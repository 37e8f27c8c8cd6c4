-------------------- MODULE DistillationDiscoveryProofs --------------------
(***************************************************************************)
(* Type correctness of DistillationDiscovery, and that no two L2 jobs of a *)
(* project ever hold the same turn: for any number of turns, projects,     *)
(* concurrent scans, merges, retirements and faults.                       *)
(***************************************************************************)
EXTENDS DistillationDiscovery, TLAPS

USE TurnsAssumption, HintOfAssumption, SweeperAssumption

LEMMA IngestedTurns == ASSUME log \in Seq(Turn) PROVE Ingested \subseteq Turn
  BY DEF Ingested

LEMMA IdleType == Idle \in ScanState
  BY DEF Idle, ScanState

LEMMA RipeType ==
  ASSUME NEW p \in Project, NEW group \in SUBSET Turn
  PROVE  Ripe(p, group) \subseteq Batch
  <1>1. ASSUME NEW c \in Batches(group) PROVE c \in SUBSET Turn
    BY DEF Batches
  <1> QED BY <1>1 DEF Ripe, Batch

LEMMA UsedType == Used \subseteq Project \X Turn
  BY DEF Used

LEMMA ReadLedgerType ==
  ASSUME TypeOK, NEW s \in Scan, NEW scope \in Project \cup {All}, ReadLedger(s, scope)
  PROVE  scans' \in [Scan -> ScanState]
  <1>1. [Idle EXCEPT !.at = "ledger", !.scope = scope, !.used = Used] \in ScanState
    BY UsedType, IdleType DEF Idle, ScanState
  <1> QED BY <1>1 DEF ReadLedger, TypeOK

LEMMA ReadTurnsType ==
  ASSUME TypeOK, NEW s \in Scan, ReadTurns(s)
  PROVE  scans' \in [Scan -> ScanState]
  <1> DEFINE sc == scans[s]
             todo == UNION {Ripe(p, Fresh(sc, p)) : p \in Project}
             waiting == {g \in {Fresh(sc, p) : p \in Project} : \E b \in Batches(g) : ~Ready(g, b)}
             clean == \A t \in Ingested : Resolves(sc.scope, t)
  <1>1. \A p \in Project : Fresh(sc, p) \in SUBSET Turn
    BY IngestedTurns DEF Fresh, TypeOK
  <1>2. todo \in SUBSET Batch
    BY <1>1, RipeType
  <1>3. waiting \in SUBSET SUBSET Turn
    BY <1>1
  <1>4. Len(log) \in Nat
    BY DEF TypeOK
  <1>5. sc \in ScanState
    BY DEF TypeOK
  <1>6. clean \in BOOLEAN
    OBVIOUS
  <1>7. scans' = [scans EXCEPT ![s] = [sc EXCEPT !.at = "batches", !.used = {}, !.todo = todo,
                    !.waiting = waiting, !.mark = Len(log), !.clean = clean]]
    BY DEF ReadTurns
  <1> HIDE DEF sc, todo, waiting, clean
  <1>8. [sc EXCEPT !.at = "batches", !.used = {}, !.todo = todo, !.waiting = waiting,
                   !.mark = Len(log), !.clean = clean] \in ScanState
    BY <1>2, <1>3, <1>4, <1>5, <1>6 DEF ScanState
  <1> QED BY <1>7, <1>8 DEF TypeOK

LEMMA RetireRow ==
  ASSUME NEW row \in Row PROVE [row EXCEPT !.retired = TRUE] \in Row
  BY DEF Row

LEMMA RetireType ==
  ASSUME TypeOK, NEW j \in DOMAIN jobs, Retire(j) PROVE jobs' \in Seq(Row)
  <1>1. jobs \in Seq(Row) /\ jobs' = [jobs EXCEPT ![j].retired = TRUE]
    BY DEF Retire, TypeOK
  <1>2. jobs[j] \in Row
    BY <1>1
  <1>3. jobs' = [jobs EXCEPT ![j] = [jobs[j] EXCEPT !.retired = TRUE]]
    BY <1>1
  <1> QED BY <1>1, <1>2, <1>3, RetireRow

LEMMA DropBatch ==
  ASSUME NEW sc \in ScanState, NEW b PROVE [sc EXCEPT !.todo = @ \ {b}] \in ScanState
  BY DEF ScanState

LEMMA EnqueueType ==
  ASSUME TypeOK, NEW s \in Scan, NEW b \in scans[s].todo, Enqueue(s, b)
  PROVE  jobs' \in Seq(Row) /\ scans' \in [Scan -> ScanState]
  <1> DEFINE row == [project |-> b.project, refs |-> b.refs, retired |-> FALSE]
  <1>1. scans[s] \in ScanState /\ jobs \in Seq(Row) /\ scans \in [Scan -> ScanState]
    BY DEF TypeOK
  <1>2. b \in Batch
    BY <1>1 DEF ScanState
  <1>3. row \in Row
    BY <1>2 DEF Batch, Row
  <1>4. jobs' = jobs \/ jobs' = Append(jobs, row)
    BY DEF Enqueue
  <1>5. scans' = [scans EXCEPT ![s] = [scans[s] EXCEPT !.todo = @ \ {b}]]
    BY <1>1 DEF Enqueue
  <1> HIDE DEF row
  <1>6. jobs' \in Seq(Row)
    BY <1>1, <1>3, <1>4
  <1>7. [scans[s] EXCEPT !.todo = @ \ {b}] \in ScanState
    BY <1>1, DropBatch
  <1> QED BY <1>1, <1>5, <1>6, <1>7

LEMMA TypeStep == TypeOK /\ [Next]_vars => TypeOK'
  <1> SUFFICES ASSUME TypeOK, [Next]_vars PROVE TypeOK'
    OBVIOUS
  <1> USE DEF TypeOK
  <1>1. ASSUME NEW t \in Turn, Ingest(t) PROVE TypeOK'
    <2>1. log' \in Seq(Turn) /\ Len(log') = Len(log) + 1
      BY <1>1 DEF Ingest
    <2> QED BY <1>1, <2>1 DEF Ingest
  <1>2. CASE Settle
    BY <1>2 DEF Settle
  <1>3. CASE Forget
    BY <1>3 DEF Forget
  <1>4. CASE Restart
    BY <1>4, IdleType DEF Restart
  <1>5. ASSUME NEW p \in Project, NEW q \in Project, Merge(p, q) PROVE TypeOK'
    BY <1>5 DEF Merge
  <1>6. ASSUME NEW j \in DOMAIN jobs, Retire(j) PROVE TypeOK'
    BY <1>6, RetireType DEF Retire
  <1>7. ASSUME NEW s \in Scan, NEW p \in due, AfterTurn(s, p) PROVE TypeOK'
    <2>1. p \in Project \cup {All}
      OBVIOUS
    <2>2. scans' \in [Scan -> ScanState]
      BY <1>7, <2>1, ReadLedgerType DEF AfterTurn
    <2> QED BY <1>7, <2>2 DEF AfterTurn, ReadLedger
  <1>8. CASE Sweep
    <2>1. scans' \in [Scan -> ScanState]
      BY <1>8, ReadLedgerType DEF Sweep
    <2> QED BY <1>8, <2>1 DEF Sweep, ReadLedger
  <1>9. ASSUME NEW s \in Scan, ReadTurns(s) PROVE TypeOK'
    BY <1>9, ReadTurnsType DEF ReadTurns
  <1>10. ASSUME NEW s \in Scan, Finish(s) PROVE TypeOK'
    <2>1. remembered' \in [mark : Nat, waiting : SUBSET SUBSET Turn] \cup {Nothing}
      BY <1>10 DEF Finish, ScanState
    <2> QED BY <1>10, <2>1, IdleType DEF Finish
  <1>11. ASSUME NEW s \in Scan, NEW b \in scans[s].todo, Enqueue(s, b) PROVE TypeOK'
    BY <1>11, EnqueueType DEF Enqueue
  <1>12. ASSUME NEW s \in Scan, Throw(s) PROVE TypeOK'
    BY <1>12, IdleType DEF Throw
  <1>13. CASE UNCHANGED vars
    BY <1>13 DEF vars
  <1> QED
    BY <1>1, <1>2, <1>3, <1>4, <1>5, <1>6, <1>7, <1>8, <1>9, <1>10, <1>11, <1>12, <1>13
    DEF Next, ScanStep

(***************************************************************************)
(* Every variable keeps its type in every behaviour of the discovery.      *)
(***************************************************************************)
THEOREM DiscoveryTypeOK == Spec => []TypeOK
  <1>1. Init => TypeOK
    BY IdleType DEF Init, TypeOK
  <1> QED BY <1>1, TypeStep, PTL DEF Spec

LEMMA AppendClaimsOnce ==
  ASSUME TypeOK, ClaimedOncePerProject, NEW s \in Scan, NEW b \in scans[s].todo, Enqueue(s, b)
  PROVE  ClaimedOncePerProject'
  <1>1. CASE Overlaps(b)
    BY <1>1 DEF Enqueue, ClaimedOncePerProject
  <1>2. CASE ~Overlaps(b)
    <2> DEFINE row == [project |-> b.project, refs |-> b.refs, retired |-> FALSE]
    <2>1. jobs' = Append(jobs, row)
      BY <1>2 DEF Enqueue
    <2>2. jobs \in Seq(Row) /\ row \in Row
      BY DEF TypeOK, ScanState, Batch, Row
    <2>3. DOMAIN jobs' = 1..Len(jobs) + 1 /\ DOMAIN jobs = 1..Len(jobs) /\ Len(jobs) \in Nat
      BY <2>1, <2>2
    <2>4. \A i \in DOMAIN jobs : jobs'[i] = jobs[i]
      BY <2>1, <2>2
    <2>5. jobs'[Len(jobs) + 1] = row
      BY <2>1, <2>2
    <2>6. \A j \in DOMAIN jobs : jobs[j].project = b.project => jobs[j].refs \cap b.refs = {}
      BY <1>2 DEF Overlaps
    <2> SUFFICES ASSUME NEW i \in DOMAIN jobs', NEW j \in DOMAIN jobs',
                        i # j, jobs'[i].project = jobs'[j].project
                 PROVE  jobs'[i].refs \cap jobs'[j].refs = {}
      BY DEF ClaimedOncePerProject
    <2>7. CASE i \in DOMAIN jobs /\ j \in DOMAIN jobs
      BY <2>4, <2>7 DEF ClaimedOncePerProject
    <2>8. CASE i = Len(jobs) + 1
      <3>1. j \in DOMAIN jobs
        BY <2>3, <2>8
      <3> QED BY <2>4, <2>5, <2>6, <2>8, <3>1
    <2>9. CASE j = Len(jobs) + 1
      <3>1. i \in DOMAIN jobs
        BY <2>3, <2>9
      <3> QED BY <2>4, <2>5, <2>6, <2>9, <3>1
    <2> QED BY <2>3, <2>7, <2>8, <2>9
  <1> QED BY <1>1, <1>2

LEMMA RetireClaimsOnce ==
  ASSUME TypeOK, ClaimedOncePerProject, NEW j \in DOMAIN jobs, Retire(j)
  PROVE  ClaimedOncePerProject'
  <1>1. DOMAIN jobs' = DOMAIN jobs
    BY DEF Retire
  <1>2. \A i \in DOMAIN jobs : jobs'[i].project = jobs[i].project /\ jobs'[i].refs = jobs[i].refs
    BY DEF Retire, TypeOK, Row
  <1> QED BY <1>1, <1>2 DEF ClaimedOncePerProject

(***************************************************************************)
(* No two L2 jobs of a project ever hold the same turn, however many scans *)
(* run at once on however old a reading of the ledger (enqueueJob looks    *)
(* for overlap again inside the locked mutation).                          *)
(***************************************************************************)
THEOREM DiscoveryClaimedOncePerProject == Spec => []ClaimedOncePerProject
  <1>1. Init => ClaimedOncePerProject
    BY DEF Init, ClaimedOncePerProject
  <1>2. TypeOK /\ ClaimedOncePerProject /\ [Next]_vars => ClaimedOncePerProject'
    <2> SUFFICES ASSUME TypeOK, ClaimedOncePerProject, [Next]_vars
                 PROVE  ClaimedOncePerProject'
      OBVIOUS
    <2>1. ASSUME NEW s \in Scan, NEW b \in scans[s].todo, Enqueue(s, b)
          PROVE  ClaimedOncePerProject'
      BY <2>1, AppendClaimsOnce
    <2>2. ASSUME NEW j \in DOMAIN jobs, Retire(j) PROVE ClaimedOncePerProject'
      BY <2>2, RetireClaimsOnce
    <2>3. CASE UNCHANGED jobs
      BY <2>3 DEF ClaimedOncePerProject
    <2>4. \/ UNCHANGED jobs
          \/ \E s \in Scan : \E b \in scans[s].todo : Enqueue(s, b)
          \/ \E j \in DOMAIN jobs : Retire(j)
      BY DEF Next, ScanStep, Ingest, Settle, Forget, Restart, Merge, AfterTurn, Sweep,
             ReadLedger, ReadTurns, Finish, Throw, vars
    <2> QED BY <2>1, <2>2, <2>3, <2>4
  <1> QED BY <1>1, <1>2, DiscoveryTypeOK, PTL DEF Spec
=============================================================================
