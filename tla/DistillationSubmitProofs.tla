---------------------- MODULE DistillationSubmitProofs ----------------------
(***************************************************************************)
(* Proofs about DistillationSubmit, for any rows, candidates, generations  *)
(* and leases.  RecordInv says what the commit record and the submit under *)
(* way know of Core and of the ledger; it needs nothing of how Core        *)
(* answers, and gives CompletedNamesWrite and TimelinePreserved.  WriteInv *)
(* accounts for every write that was ever sent and gives NoDuplicateWrite  *)
(* and NoLostWrite; it needs that a reconciliation is never answered with  *)
(* a definite refusal.                                                     *)
(***************************************************************************)
EXTENDS DistillationSubmit, SequenceTheorems, WellFoundedInduction, TLAPS

\* The writes that were sent: Core applied them or still may.
Entry(i) == [gen |-> core[i].gen, cand |-> core[i].cand]
Sent == wire \cup {Entry(i) : i \in DOMAIN core}

\* Where the submit is between the fencing of its record and its answer.
Recorded == {"send", "await", "reconcile", "reject", "failJob", "result", "respond"}
Asking == {"prepare", "open"}

IsCompleted(j) == jobs[j].status = "completed"

-----------------------------------------------------------------------------
\* Generations are drawn once: an entry is known by its own.
SentOnce ==
  /\ \A e \in Sent : e.gen \in spent
  /\ \A d, e \in Sent : d.gen = e.gen => d = e
  /\ \A i, k \in DOMAIN core : core[i].gen = core[k].gen => i = k
  /\ \A e \in wire, i \in DOMAIN core : e.gen # core[i].gen

\* A submit under way has a candidate, and once it has its record, that is the
\* artifact's record and still open.
SubmitInv ==
  /\ pc # "free" => cand \in Candidate /\ cred \in Nat /\ done \in BOOLEAN
  /\ pc \in Asking => /\ Open(commit) => Replays(cand)
                      /\ Replays(cand) => Open(commit)
                      /\ done => Replays(cand)
                      /\ ~Replays(cand) /\ IsCompleted(cand.job)
                           => jobs[cand.job].result = "noop"
  /\ pc \in Recorded => commit \in Commit /\ commit.cand = cand
  /\ pc \in Recorded \ {"failJob"} => Open(commit)
  /\ pc \notin {"free", "failJob"} /\ done => IsCompleted(cand.job)
  /\ pc = "respond" => IsCompleted(cand.job)
  /\ pc = "send" => \A e \in Sent : e.gen # commit.gen

\* The record holds the candidate of its write and what Core made of it, and a
\* job that is completed under an open record was completed by it or skipped.
RecordTrue ==
  commit # NoCommit =>
    /\ commit.gen \in spent
    /\ \A e \in Sent : e.gen = commit.gen => e.cand = commit.cand
    /\ commit.result = "stable" =>
         \E i \in DOMAIN core : core[i].gen = commit.gen /\ core[i].stable
    /\ Open(commit) /\ IsCompleted(commit.cand.job) =>
         jobs[commit.cand.job].result \in {commit.gen, "noop"}

ResultsOnlyCompleted == \A j \in DOMAIN jobs : ~IsCompleted(j) => jobs[j].result = Unset

\* What an open record may still complete comes after all that is completed, and
\* holds its headings.
TimelineInv ==
  /\ TimelinePreserved
  /\ Open(commit) => \A m \in DOMAIN core : core[m].gen = commit.gen
                       => \A i \in CompletedWrites : i <= m
  /\ pc \notin {"free", "failJob", "respond"} =>
       \A i \in CompletedWrites : core[i].cand.content \subseteq cand.content

RecordInv ==
  /\ TypeOK /\ SentOnce /\ SubmitInv /\ RecordTrue /\ ResultsOnlyCompleted
  /\ CompletedNamesWrite /\ TimelineInv

-----------------------------------------------------------------------------
\* What was sent and not given up is on the open record, or its job is settled.
Accounted ==
  \A e \in Sent :
    \/ e.gen \in abandoned
    \/ Open(commit) /\ e.gen = commit.gen
    \/ IsCompleted(e.cand.job) /\ jobs[e.cand.job].result \in {e.gen, "noop"}

\* No two writes of one job that were not given up: not among those sent, and
\* not one sent and one that the open record or the submit under way may send.
SingleWrite ==
  /\ \A d, e \in Sent : d # e /\ d.cand.job = e.cand.job
                          => d.gen \in abandoned \/ e.gen \in abandoned
  /\ Open(commit) => \A e \in Sent : e.cand.job = commit.cand.job /\ e.gen # commit.gen
                                       => e.gen \in abandoned
  /\ pc \in Asking /\ ~Replays(cand) =>
       \A e \in Sent : e.cand.job = cand.job => e.gen \in abandoned

\* A refused write is no longer to be applied.
RefusedGone == pc = "reject" => \A e \in Sent : e.gen # commit.gen

WriteInv == Accounted /\ SingleWrite /\ RefusedGone

-----------------------------------------------------------------------------
(* The ledger *)

\* A mutation that completes no row but as skipped, and leaves completed ones alone.
QuietRow(old, new) ==
  \/ new = old
  \/ /\ new \in Job /\ old.status # "completed"
     /\ \/ new.status # "completed" /\ new.result = old.result
        \/ new.status = "completed" /\ new.result = "noop"

Quiet == /\ jobs' \in [DOMAIN Job0 -> Job]
         /\ \A j \in DOMAIN Job0 : QuietRow(jobs[j], jobs'[j])

\* The mutations of a row make rows.
LEMMA RowTypes ==
  ASSUME NEW row \in Job
  PROVE  /\ Released(row) \in Job
         /\ \A h \in Harness, token \in Nat : Leased(row, h, token, 1) \in Job
         /\ \A t \in Int : [row EXCEPT !.lease.until = t] \in Job
         /\ \A r \in Memory \cup {"noop", Unset} : Completed(row, r) \in Job
         /\ \A k \in FailureKind : Failed(row, k) \in Job
         /\ Retried(row) \in Job
<1>1. NoLease \in LeaseFields
  BY DEF NoLease, LeaseFields, NoToken
<1>2. Released(row) \in Job
  BY <1>1 DEF Released, Job
<1>3. ASSUME NEW h \in Harness, NEW token \in Nat PROVE Leased(row, h, token, 1) \in Job
  <2>1. [by |-> h, token |-> token, until |-> 1] \in LeaseFields
    BY DEF LeaseFields
  <2>2. row.attempts + 1 \in Nat
    BY DEF Job
  <2>. QED BY <2>1, <2>2 DEF Leased, Job, Status
<1>4. ASSUME NEW t \in Int PROVE [row EXCEPT !.lease.until = t] \in Job
  BY DEF Job, LeaseFields
<1>5. ASSUME NEW r \in Memory \cup {"noop", Unset} PROVE Completed(row, r) \in Job
  BY <1>2 DEF Completed, Job, Status
<1>6. ASSUME NEW k \in FailureKind PROVE Failed(row, k) \in Job
  BY <1>2 DEF Failed, Job, Status
<1>7. Retried(row) \in Job
  BY <1>2 DEF Retried, Job, Status, FailureKind
<1>. QED BY <1>2, <1>3, <1>4, <1>5, <1>6, <1>7

\* An update of one row that is quiet there is quiet.
LEMMA QuietUpdate ==
  ASSUME TypeOK, NEW j \in DOMAIN Job0, NEW row \in Job, QuietRow(jobs[j], row),
         Update(j, row)
  PROVE  Quiet
BY DEF TypeOK, Update, Quiet, QuietRow

\* An update that keeps the status away from completed and the result is quiet.
LEMMA LeaseQuiet ==
  ASSUME TypeOK, NEW h \in Harness, NEW tok \in BOOLEAN, Lease(h, tok)
  PROVE  Quiet /\ issued' \in 0..MaxTokens
<1>. DEFINE token == IF tok THEN issued + 1 ELSE NoToken
<1>1. token \in Nat /\ issued' \in 0..MaxTokens
  BY TokenBoundAssumption DEF TypeOK, Lease, NoToken
<1>2. PICK j \in DOMAIN jobs : Leasable(jobs[j], Now, tok)
                                 /\ Update(j, Leased(jobs[j], h, token, 1))
  BY DEF Lease
<1>. HIDE DEF token
<1>3. j \in DOMAIN Job0 /\ jobs[j] \in Job
  BY <1>2 DEF TypeOK
<1>4. Leased(jobs[j], h, token, 1) \in Job
  BY <1>1, <1>3, RowTypes
<1>5. QuietRow(jobs[j], Leased(jobs[j], h, token, 1))
  BY <1>2, <1>3, <1>4 DEF QuietRow, Leased, Leasable, Expired, Job
<1>. QED BY <1>1, <1>2, <1>3, <1>4, <1>5, QuietUpdate

LEMMA RowStepsQuiet ==
  ASSUME TypeOK, NEW j \in DOMAIN jobs, ExpireLease(j) \/ Skip(j) \/ Retry(j)
  PROVE  Quiet
<1>1. j \in DOMAIN Job0 /\ jobs[j] \in Job
  BY DEF TypeOK
<1>2. CASE ExpireLease(j)
  <2>. DEFINE new == [jobs[j] EXCEPT !.lease.until = 0]
  <2>1. new \in Job
    BY <1>1, RowTypes
  <2>2. QuietRow(jobs[j], new)
    BY <1>1, <1>2, <2>1 DEF QuietRow, ExpireLease, Job
  <2>. QED BY <1>1, <1>2, <2>1, <2>2, QuietUpdate DEF ExpireLease
<1>3. CASE Skip(j)
  <2>1. Completed(jobs[j], "noop") \in Job
    BY <1>1, RowTypes
  <2>2. QuietRow(jobs[j], Completed(jobs[j], "noop"))
    BY <1>1, <1>3, <2>1
    DEF QuietRow, Skip, ActiveLease, Presents, Completed, Released, Job
  <2>. QED BY <1>1, <1>3, <2>1, <2>2, QuietUpdate DEF Skip
<1>4. CASE Retry(j)
  <2>1. Retried(jobs[j]) \in Job
    BY <1>1, RowTypes
  <2>2. QuietRow(jobs[j], Retried(jobs[j]))
    BY <1>1, <1>4, <2>1 DEF QuietRow, Retry, Retryable, Retried, Released, Job
  <2>. QED BY <1>1, <1>4, <2>1, <2>2, QuietUpdate DEF Retry
<1>. QED BY <1>2, <1>3, <1>4

LEMMA PreparedQuiet ==
  ASSUME TypeOK, NEW j \in DOMAIN Job0, ActiveLease(jobs[j], cand.harness, cred, Now)
  PROVE  Prepared(jobs[j], Now, 1) \in Job /\ QuietRow(jobs[j], Prepared(jobs[j], Now, 1))
<1>1. jobs[j] \in Job
  BY DEF TypeOK
<1>2. [jobs[j] EXCEPT !.lease.until = 1] \in Job
  BY <1>1, RowTypes
<1>3. Prepared(jobs[j], Now, 1) \in {jobs[j], [jobs[j] EXCEPT !.lease.until = 1]}
  BY DEF Prepared, Now
<1>4. jobs[j].status # "completed"
  BY DEF ActiveLease, Presents
<1>. QED BY <1>1, <1>2, <1>3, <1>4 DEF QuietRow, Job

LEMMA FailQuiet ==
  ASSUME TypeOK, NEW j \in DOMAIN Job0, NEW kind \in FailureKind, jobs[j].status = "leased"
  PROVE  Failed(jobs[j], kind) \in Job /\ QuietRow(jobs[j], Failed(jobs[j], kind))
<1>1. jobs[j] \in Job /\ Failed(jobs[j], kind) \in Job
  BY RowTypes DEF TypeOK
<1>. QED BY <1>1 DEF QuietRow, Failed, Released, Job

LEMMA StillQuiet == TypeOK /\ UNCHANGED jobs => Quiet
BY DEF TypeOK, Quiet, QuietRow

-----------------------------------------------------------------------------
(* What a step leaves alone *)

\* What is sent is a candidate's, under a generation that names no other result.
LEMMA SentTypes ==
  ASSUME TypeOK
  PROVE  /\ \A i \in DOMAIN core : core[i] \in Applied /\ core[i].gen # "noop"
         /\ \A e \in Sent : e \in Write /\ e.cand.job \in DOMAIN Job0
<1>1. ASSUME NEW i \in DOMAIN core
      PROVE  core[i] \in Applied /\ core[i].gen # "noop" /\ Entry(i) \in Write
  <2>1. core[i] \in Applied
    BY <1>1 DEF TypeOK
  <2>2. core[i].gen \in Memory
    BY <2>1 DEF Applied
  <2>. QED BY <2>1, <2>2, NamesAssumption DEF Applied, Entry, Write
<1>2. \A e \in Write : e.cand.job \in DOMAIN Job0
  BY DEF Write, Candidate
<1>3. \A e \in Sent : e \in Write
  BY <1>1 DEF Sent, TypeOK
<1>. QED BY <1>1, <1>2, <1>3

LEMMA SentSame == UNCHANGED <<wire, core>> => Sent' = Sent
BY DEF Sent, Entry

\* Who has a result keeps it, and only a skipped job gets one.
LEMMA QuietResults ==
  ASSUME RecordInv, Quiet
  PROVE  /\ \A j \in DOMAIN Job0 :
              /\ IsCompleted(j) => IsCompleted(j)' /\ jobs'[j].result = jobs[j].result
              /\ ~IsCompleted(j) => jobs'[j].result = IF IsCompleted(j)' THEN "noop" ELSE Unset
         /\ DOMAIN jobs = DOMAIN Job0 /\ DOMAIN jobs' = DOMAIN Job0
BY DEF RecordInv, TypeOK, ResultsOnlyCompleted, Quiet, QuietRow, IsCompleted

\* Of what the record's invariant says only the submit's own part is left to show
\* when the ledger changes quietly and nothing else does.
LEMMA QuietFrame ==
  ASSUME RecordInv, Quiet, UNCHANGED <<commit, wire, core, spent>>
  PROVE  /\ SentOnce' /\ RecordTrue' /\ ResultsOnlyCompleted' /\ CompletedNamesWrite'
         /\ CompletedWrites' = CompletedWrites /\ TimelinePreserved'
         /\ Open(commit') => \A m \in DOMAIN core' : core'[m].gen = commit'.gen
                               => \A i \in CompletedWrites' : i <= m
<1>. USE QuietResults DEF RecordInv
<1>1. Sent' = Sent
  BY SentSame
<1>2. SentOnce'
  BY <1>1 DEF SentOnce
<1>3. RecordTrue'
  <2>1. commit # NoCommit => commit.cand.job \in DOMAIN Job0
    BY DEF TypeOK, Commit, Candidate
  <2>. QED BY <1>1, <2>1 DEF RecordTrue, Open, Terminal
<1>4. ResultsOnlyCompleted'
  BY DEF ResultsOnlyCompleted
<1>5. CompletedNamesWrite'
  BY DEF CompletedNamesWrite, IsCompleted
<1>6. CompletedWrites' = CompletedWrites
  <2>1. \A i \in DOMAIN core : core[i].gen # "noop"
    BY SentTypes
  <2>2. \A i \in DOMAIN core, j \in DOMAIN Job0 :
          (IsCompleted(j)' /\ jobs'[j].result = core[i].gen)
            <=> (IsCompleted(j) /\ jobs[j].result = core[i].gen)
    BY <2>1 DEF IsCompleted
  <2>. QED BY <2>2 DEF CompletedWrites, IsCompleted
<1>7. TimelinePreserved'
  BY <1>6 DEF TimelineInv, TimelinePreserved
<1>8. Open(commit') => \A m \in DOMAIN core' : core'[m].gen = commit'.gen
                         => \A i \in CompletedWrites' : i <= m
  BY <1>6 DEF TimelineInv, Open, Terminal
<1>. QED BY <1>2, <1>3, <1>4, <1>5, <1>6, <1>7, <1>8

\* The ledger's own steps.
LEMMA QuietStep ==
  ASSUME RecordInv, Quiet, issued' \in 0..MaxTokens, UNCHANGED <<submit, files, outside>>
  PROVE  RecordInv'
<1>. USE DEF submit, files, outside
<1>1. TypeOK'
  BY DEF RecordInv, TypeOK, Quiet
<1>2. SubmitInv'
  <2>1. Sent' = Sent
    BY SentSame
  <2>2. pc # "free" => cand.job \in DOMAIN Job0
    BY DEF RecordInv, SubmitInv, Candidate
  <2>3. \A x : Replays(x)' <=> Replays(x)
    BY DEF Replays
  <2>. QED BY <2>1, <2>2, <2>3, QuietResults
           DEF RecordInv, SubmitInv, Open, Terminal, Asking, Recorded
<1>3. TimelineInv'
  BY QuietFrame DEF RecordInv, TimelineInv
<1>. QED BY <1>1, <1>2, <1>3, QuietFrame DEF RecordInv

\* A submit that ends without touching its record.
LEMMA QuietEnd ==
  ASSUME RecordInv, Quiet, End, UNCHANGED <<issued, files, outside>>
  PROVE  RecordInv'
<1>. USE DEF files, outside, End
<1>1. TypeOK'
  BY DEF RecordInv, TypeOK, Quiet
<1>2. SubmitInv'
  BY DEF SubmitInv, Asking, Recorded
<1>3. TimelineInv'
  BY QuietFrame DEF RecordInv, TimelineInv
<1>. QED BY <1>1, <1>2, <1>3, QuietFrame DEF RecordInv

\* The same for the accounts of what was sent.
LEMMA QuietWrites ==
  ASSUME RecordInv, WriteInv, Quiet, UNCHANGED <<commit, wire, core, abandoned>>
  PROVE  /\ Accounted' /\ Sent' = Sent
         /\ \A x : Replays(x)' <=> Replays(x)
         /\ pc' = "free" \/ (pc' = pc /\ cand' = cand) => WriteInv'
<1>1. Sent' = Sent /\ \A e \in Sent : e.cand.job \in DOMAIN Job0
  BY SentSame, SentTypes DEF RecordInv
<1>2. \A x : Replays(x)' <=> Replays(x)
  BY DEF Replays
<1>3. Accounted'
  BY <1>1, QuietResults DEF WriteInv, Accounted, Open, Terminal
<1>. QED BY <1>1, <1>2, <1>3 DEF WriteInv, SingleWrite, RefusedGone, Asking, Open, Terminal

-----------------------------------------------------------------------------
(* The steps of a submit *)

\* The latest of some applied writes.
LEMMA LatestExists ==
  ASSUME core \in Seq(Applied), NEW S \in SUBSET DOMAIN core, S # {}
  PROVE  \E i \in S : \A k \in S : k <= i
<1>. DEFINE R == OpToRel(<, Nat)
            n == Len(core)
            T == {n - i : i \in S}
<1>1. n \in Nat /\ S \subseteq 1..n /\ T \subseteq Nat /\ T # {}
  OBVIOUS
<1>2. \A a, b \in Nat : a < b => <<a, b>> \in R
  BY DEF OpToRel
<1>. HIDE DEF R, T, n
<1>3. PICK m \in T : \A t \in T : <<t, m>> \notin R
  BY <1>1, NatLessThanWellFounded, WFMin DEF R
<1>4. PICK i \in S : m = n - i
  BY DEF T
<1>5. ASSUME NEW k \in S PROVE k <= i
  <2>1. n - k \in T /\ i \in Nat /\ k \in Nat
    BY <1>1 DEF T
  <2>2. ~(n - k < n - i)
    BY <1>1, <1>2, <1>3, <1>4, <2>1
  <2>. QED BY <1>1, <2>1, <2>2
<1>. QED BY <1>5

\* A candidate that holds the headings of the latest completed revision holds
\* those of all of them.
LEMMA PreservesAll ==
  ASSUME RecordInv, NEW content, PreservesTimeline(content)
  PROVE  \A i \in CompletedWrites : core[i].cand.content \subseteq content
<1>. SUFFICES ASSUME NEW i \in CompletedWrites
              PROVE  core[i].cand.content \subseteq content
  OBVIOUS
<1>1. CompletedWrites \in SUBSET DOMAIN core /\ core \in Seq(Applied)
  BY DEF CompletedWrites, RecordInv, TypeOK
<1>2. PICK m \in CompletedWrites : \A k \in CompletedWrites : k <= m
  BY <1>1, LatestExists
<1>3. core[m].cand.content \subseteq content
  BY <1>2 DEF PreservesTimeline
<1>4. i = m \/ i < m
  BY <1>1, <1>2
<1>. QED BY <1>3, <1>4 DEF RecordInv, TimelineInv, TimelinePreserved

LEMMA BeginRecord ==
  ASSUME RecordInv, NEW x \in Candidate, NEW token \in 0..issued, Begin(x, token)
  PROVE  RecordInv'
<1>. USE DEF ledger, files, outside
<1>1. Quiet /\ UNCHANGED <<commit, wire, core, spent>>
  BY StillQuiet DEF Begin, RecordInv
<1>2. TypeOK'
  BY DEF Begin, RecordInv, TypeOK
<1>3. token \in Nat /\ (jobs[x.job].status = "completed") \in BOOLEAN
  BY DEF RecordInv, TypeOK
<1>4. SubmitInv'
  BY <1>3 DEF Begin, Admitted, ActiveLease, Presents, SubmitInv, Asking, Recorded,
              Replays, Open, Terminal, IsCompleted
<1>5. \A i \in CompletedWrites' : core'[i].cand.content \subseteq cand'.content
  BY <1>1, PreservesAll, QuietFrame DEF Begin, Admitted
<1>6. TimelineInv'
  BY <1>1, <1>5, QuietFrame DEF TimelineInv
<1>. QED BY <1>1, <1>2, <1>4, <1>6, QuietFrame DEF RecordInv

LEMMA PrepareQuiet == RecordInv /\ Prepare => Quiet
<1>. SUFFICES ASSUME RecordInv, Prepare PROVE Quiet
  OBVIOUS
<1>1. cand.job \in DOMAIN Job0 /\ TypeOK
  BY DEF RecordInv, SubmitInv, Prepare, Candidate
<1>2. CASE UNCHANGED jobs
  BY <1>1, <1>2, StillQuiet
<1>3. CASE ActiveLease(jobs[cand.job], cand.harness, cred, Now)
              /\ Update(cand.job, Prepared(jobs[cand.job], Now, 1))
  BY <1>1, <1>3, PreparedQuiet, QuietUpdate
<1>. QED BY <1>2, <1>3 DEF Prepare

LEMMA PrepareRecord == RecordInv /\ Prepare => RecordInv'
<1>. SUFFICES ASSUME RecordInv, Prepare PROVE RecordInv'
  OBVIOUS
<1>. USE DEF files, outside
<1>1. Quiet
  BY PrepareQuiet
<1>2. CASE End
  BY <1>1, <1>2, QuietEnd DEF Prepare
<1>3. CASE Goto("open")
  <2>1. TypeOK'
    BY <1>1, <1>3 DEF Prepare, Goto, RecordInv, TypeOK, Quiet
  <2>2. SubmitInv'
    <3>1. cand.job \in DOMAIN Job0
      BY DEF RecordInv, SubmitInv, Prepare, Candidate
    <3>2. Replays(cand)' <=> Replays(cand)
      BY <1>3 DEF Replays, Goto, Prepare
    <3>. QED BY <1>1, <1>3, <3>1, <3>2, QuietResults
             DEF Prepare, Goto, RecordInv, SubmitInv, Asking, Recorded, Open, Terminal
  <2>3. TimelineInv'
    BY <1>1, <1>3, QuietFrame DEF Prepare, Goto, RecordInv, TimelineInv
  <2>. QED BY <1>1, <2>1, <2>2, <2>3, QuietFrame DEF RecordInv, Prepare
<1>. QED BY <1>2, <1>3 DEF Prepare

\* What does not depend on the record, when it alone changes.
LEMMA RecordFrame ==
  ASSUME RecordInv, UNCHANGED <<jobs, wire, core>>, spent \subseteq spent'
  PROVE  /\ Sent' = Sent /\ SentOnce' /\ ResultsOnlyCompleted' /\ CompletedNamesWrite'
         /\ CompletedWrites' = CompletedWrites /\ TimelinePreserved'
<1>1. Sent' = Sent
  BY SentSame
<1>2. SentOnce'
  BY <1>1 DEF RecordInv, SentOnce
<1>3. ResultsOnlyCompleted' /\ CompletedNamesWrite'
  BY DEF RecordInv, ResultsOnlyCompleted, CompletedNamesWrite, IsCompleted
<1>4. CompletedWrites' = CompletedWrites
  BY DEF CompletedWrites
<1>5. TimelinePreserved'
  BY <1>4 DEF RecordInv, TimelineInv, TimelinePreserved
<1>. QED BY <1>1, <1>2, <1>3, <1>4, <1>5

\* Once its record is fenced, the submit has a row, a record and its candidate.
LEMMA RecordedFacts ==
  ASSUME RecordInv, pc \in Recorded
  PROVE  /\ commit \in Commit /\ commit # NoCommit /\ commit.cand = cand
         /\ cand \in Candidate /\ cand.job \in DOMAIN Job0 /\ jobs[cand.job] \in Job
<1>1. commit \in Commit /\ commit.cand = cand /\ cand \in Candidate
  BY DEF RecordInv, SubmitInv, Recorded
<1>. QED BY <1>1, NamesAssumption DEF Candidate, RecordInv, TypeOK

LEMMA SaveOpenRecord == RecordInv /\ SaveOpen => RecordInv'
<1>. SUFFICES ASSUME RecordInv, SaveOpen PROVE RecordInv'
  OBVIOUS
<1>. USE DEF ledger, outside
<1>1. pc = "open" /\ cand \in Candidate
  BY DEF SaveOpen, RecordInv, SubmitInv
<1>2. CASE Replays(cand) /\ UNCHANGED <<commit, spent>>
             /\ Goto(IF commit.result = "none" THEN "reconcile" ELSE "result")
  <2>1. Quiet
    BY StillQuiet DEF RecordInv, SaveOpen
  <2>2. TypeOK'
    BY <1>2 DEF SaveOpen, Goto, RecordInv, TypeOK
  <2>3. SubmitInv'
    BY <1>1, <1>2 DEF SaveOpen, Goto, RecordInv, TypeOK, SubmitInv, Asking, Recorded,
                      Replays, Open, Terminal, IsCompleted
  <2>4. TimelineInv'
    BY <1>1, <1>2, <2>1, QuietFrame DEF SaveOpen, Goto, RecordInv, TimelineInv
  <2>. QED BY <1>2, <2>1, <2>2, <2>3, <2>4, QuietFrame DEF RecordInv, SaveOpen
<1>3. CASE ~Replays(cand) /\ Goto("send") /\ \E g \in Memory \ spent : NewOperation(g)
  <2>1. PICK g \in Memory \ spent : NewOperation(g)
    BY <1>3
  <2>2. /\ commit' \in Commit /\ commit'.gen = g /\ commit'.cand = cand
        /\ commit'.result = "none" /\ Open(commit') /\ spent' = spent \cup {g}
    <3>. DEFINE c == [gen |-> g, cand |-> cand, result |-> "none",
                      rejected |-> FALSE, response |-> FALSE]
    <3>1. c \in Commit
      BY <1>1, <2>1 DEF Commit
    <3>2. commit' = c /\ spent' = spent \cup {g}
      BY <2>1 DEF NewOperation
    <3>3. commit' # NoCommit
      BY <3>1, <3>2, NamesAssumption
    <3>. QED BY <3>1, <3>2, <3>3 DEF Open, Terminal
  <2>3. TypeOK'
    BY <1>3, <2>2 DEF SaveOpen, Goto, RecordInv, TypeOK
  <2>4. \A e \in Sent : e.gen # g
    BY <2>1 DEF RecordInv, SentOnce
  <2>5. Sent' = Sent
    BY SentSame DEF SaveOpen
  <2>6. RecordTrue'
    BY <1>1, <1>3, <2>2, <2>4, <2>5
    DEF SaveOpen, RecordTrue, RecordInv, SubmitInv, Asking, IsCompleted
  <2>7. SubmitInv'
    BY <1>1, <1>3, <2>2, <2>4, <2>5
    DEF SaveOpen, Goto, RecordInv, SubmitInv, Asking, Recorded, IsCompleted
  <2>8. TimelineInv'
    <3>1. \A m \in DOMAIN core : Entry(m) \in Sent /\ Entry(m).gen = core[m].gen
      BY DEF Sent, Entry
    <3>. QED BY <1>1, <1>3, <2>2, <2>4, <3>1, RecordFrame
             DEF SaveOpen, Goto, RecordInv, TimelineInv
  <2>. QED BY <2>2, <2>3, <2>6, <2>7, <2>8, RecordFrame DEF RecordInv, SaveOpen
<1>. QED BY <1>2, <1>3 DEF SaveOpen

LEMMA SendRecord == RecordInv /\ SendWrite => RecordInv'
<1>. SUFFICES ASSUME RecordInv, SendWrite PROVE RecordInv'
  OBVIOUS
<1>. DEFINE w == [gen |-> commit.gen, cand |-> cand]
<1>. USE DEF ledger, files
<1>1. pc = "send" /\ pc \in Recorded /\ Goto("await") /\ wire' = wire \cup {w}
      /\ UNCHANGED <<jobs, commit, core, spent>>
  BY DEF SendWrite, Recorded
<1>2. w \in Write /\ w.gen \in spent /\ commit.cand = cand /\ commit # NoCommit
  BY <1>1, RecordedFacts DEF Write, Commit, RecordInv, RecordTrue
<1>3. w.gen = commit.gen /\ w.cand = cand
  OBVIOUS
<1>. HIDE DEF w
<1>4. TypeOK'
  BY <1>1, <1>2 DEF SendWrite, Goto, RecordInv, TypeOK
<1>5. Sent' = Sent \cup {w}
  BY <1>1 DEF Sent, Entry
<1>6. \A e \in Sent : e.gen # w.gen
  BY <1>1, <1>3 DEF RecordInv, SubmitInv
<1>7. \A m \in DOMAIN core : Entry(m) \in Sent /\ Entry(m).gen = core[m].gen
  BY DEF Sent, Entry
<1>8. SentOnce'
  BY <1>1, <1>2, <1>5, <1>6, <1>7 DEF RecordInv, SentOnce
<1>9. RecordTrue'
  BY <1>1, <1>2, <1>3, <1>5 DEF RecordInv, RecordTrue, IsCompleted
<1>10. SubmitInv'
  BY <1>1 DEF Goto, RecordInv, SubmitInv, Asking, Recorded, IsCompleted
<1>11. ResultsOnlyCompleted' /\ CompletedNamesWrite' /\ CompletedWrites' = CompletedWrites
  BY <1>1 DEF RecordInv, ResultsOnlyCompleted, CompletedNamesWrite, CompletedWrites, IsCompleted
<1>12. TimelineInv'
  BY <1>1, <1>11 DEF Goto, RecordInv, TimelineInv, TimelinePreserved, Open, Terminal
<1>. QED BY <1>4, <1>8, <1>9, <1>10, <1>11, <1>12 DEF RecordInv

LEMMA SaveResultRecord == RecordInv /\ SaveResult => RecordInv'
<1>. SUFFICES ASSUME RecordInv, SaveResult PROVE RecordInv'
  OBVIOUS
<1>. USE DEF ledger, outside
<1>1. /\ pc \in {"await", "reconcile"} /\ pc \in Recorded /\ Goto("result")
      /\ UNCHANGED <<jobs, wire, core, spent>>
  BY DEF SaveResult, Recorded
<1>2. /\ commit \in Commit /\ commit # NoCommit /\ commit.cand = cand
      /\ ResultOf(commit.gen) \in {"stable", "idless"}
  BY <1>1, RecordedFacts DEF ResultOf
<1>3. /\ commit' \in Commit /\ commit' # NoCommit
      /\ commit'.gen = commit.gen /\ commit'.cand = commit.cand
      /\ commit'.result = ResultOf(commit.gen) /\ (Open(commit') <=> Open(commit))
  BY <1>2, NamesAssumption DEF SaveResult, Commit, Open, Terminal
<1>4. TypeOK'
  BY <1>1, <1>3 DEF SaveResult, Goto, RecordInv, TypeOK
<1>5. RecordTrue'
  BY <1>1, <1>2, <1>3, RecordFrame DEF RecordInv, RecordTrue, ResultOf, IsCompleted
<1>6. SubmitInv'
  BY <1>1, <1>2, <1>3 DEF Goto, RecordInv, SubmitInv, Asking, Recorded, IsCompleted
<1>7. TimelineInv'
  BY <1>1, <1>3, RecordFrame DEF Goto, RecordInv, TimelineInv
<1>. QED BY <1>1, <1>4, <1>5, <1>6, <1>7, RecordFrame DEF RecordInv

LEMMA RefusedRecord ==
  ASSUME RecordInv, Refused
  PROVE  RecordInv' /\ Sent' \subseteq Sent /\ (~ReconcileRefused => RefusedGone')
<1>. USE DEF ledger, files
<1>1. /\ pc \in {"await", "reconcile"} /\ pc \in Recorded /\ Goto("reject")
      /\ wire' \subseteq wire /\ UNCHANGED <<jobs, issued, commit, doomed, core, spent, abandoned>>
  BY DEF Refused, Recorded
<1>2. Sent' \subseteq Sent
  BY <1>1 DEF Sent, Entry
<1>3. TypeOK'
  BY <1>1 DEF Goto, RecordInv, TypeOK
<1>4. SentOnce'
  BY <1>1, <1>2 DEF RecordInv, SentOnce
<1>5. RecordTrue'
  BY <1>1, <1>2 DEF RecordInv, RecordTrue, IsCompleted, Open, Terminal
<1>6. SubmitInv'
  BY <1>1 DEF Goto, RecordInv, SubmitInv, Asking, Recorded, IsCompleted, Open, Terminal
<1>7. ResultsOnlyCompleted' /\ CompletedNamesWrite' /\ CompletedWrites' = CompletedWrites
  BY <1>1 DEF RecordInv, ResultsOnlyCompleted, CompletedNamesWrite, CompletedWrites, IsCompleted
<1>8. TimelineInv'
  BY <1>1, <1>7 DEF Goto, RecordInv, TimelineInv, TimelinePreserved, Open, Terminal
<1>9. ASSUME ~ReconcileRefused PROVE RefusedGone'
  <2>1. PICK x \in wire : x.gen = commit.gen /\ wire' = wire \ {x}
    BY <1>9 DEF Refused
  <2>2. x \in Sent /\ x \notin Sent'
    <3>1. \A i \in DOMAIN core : Entry(i).gen = core[i].gen
      BY DEF Entry
    <3>. QED BY <1>1, <2>1, <3>1 DEF Sent, Entry, RecordInv, SentOnce
  <2>. QED BY <1>1, <1>2, <2>1, <2>2 DEF RefusedGone, RecordInv, SentOnce
<1>. QED BY <1>2, <1>3, <1>4, <1>5, <1>6, <1>7, <1>8, <1>9 DEF RecordInv

\* The record is closed, by a refusal, an answer, an operator or a pruner, and no
\* submit will open it: it is the submit's last step, or there is none.
LEMMA ClosedRecord ==
  ASSUME RecordInv, ~Open(commit'), commit' \in Commit \cup {NoCommit},
         commit' # NoCommit => /\ commit # NoCommit /\ commit'.gen = commit.gen
                               /\ commit'.cand = commit.cand
                               /\ commit'.result = commit.result,
         \/ pc' = "free"
         \/ pc = "reject" /\ Goto("failJob") /\ commit' # NoCommit,
         doomed' \in Memory \cup {Unset}, abandoned \subseteq abandoned',
         abandoned' \subseteq spent, UNCHANGED <<jobs, issued, wire, core, spent>>
  PROVE  RecordInv'
<1>1. TypeOK'
  BY DEF Goto, RecordInv, TypeOK
<1>2. RecordTrue'
  BY RecordFrame DEF RecordInv, RecordTrue
<1>3. SubmitInv'
  BY RecordedFacts DEF Goto, RecordInv, SubmitInv, Asking, Recorded, IsCompleted
<1>4. TimelineInv'
  BY RecordFrame DEF Goto, TimelineInv
<1>. QED BY <1>1, <1>2, <1>3, <1>4, RecordFrame DEF RecordInv

\* Which steps close it.
LEMMA ClosingSteps ==
  ASSUME RecordInv,
         \/ SaveRejected \/ Respond \/ OperatorAbandon
         \/ Prune /\ ~UNCHANGED commit
  PROVE  /\ RecordInv' /\ Sent' = Sent /\ ~Open(commit')
         /\ abandoned \subseteq abandoned' /\ UNCHANGED jobs
<1>. USE DEF ledger, outside, submit
<1>1. CASE SaveRejected
  <2>1. commit \in Commit /\ commit # NoCommit
    BY <1>1, RecordedFacts DEF SaveRejected, Recorded
  <2>2. /\ commit' \in Commit /\ commit'.gen = commit.gen /\ commit'.cand = commit.cand
        /\ commit'.result = commit.result /\ commit'.rejected
    BY <1>1, <2>1 DEF SaveRejected, Commit
  <2>. QED BY <1>1, <2>1, <2>2, NamesAssumption, ClosedRecord, SentSame
           DEF SaveRejected, RecordInv, TypeOK, Open, Terminal
<1>2. CASE Respond
  <2>1. commit \in Commit /\ commit # NoCommit
    BY <1>2, RecordedFacts DEF Respond, Recorded
  <2>2. /\ commit' \in Commit /\ commit'.gen = commit.gen /\ commit'.cand = commit.cand
        /\ commit'.result = commit.result /\ commit'.response
    BY <1>2, <2>1 DEF Respond, Commit
  <2>. QED BY <1>2, <2>1, <2>2, ClosedRecord, SentSame
           DEF Respond, End, RecordInv, TypeOK, Open, Terminal
<1>3. CASE OperatorAbandon
  <2>1. commit \in Commit /\ commit # NoCommit /\ commit.gen \in spent
    BY <1>3 DEF OperatorAbandon, Open, RecordInv, TypeOK, RecordTrue
  <2>2. /\ commit' \in Commit /\ commit'.gen = commit.gen /\ commit'.cand = commit.cand
        /\ commit'.result = commit.result /\ commit'.rejected
    BY <1>3, <2>1 DEF OperatorAbandon, Commit
  <2>. QED BY <1>3, <2>1, <2>2, ClosedRecord, SentSame
           DEF OperatorAbandon, RecordInv, TypeOK, Open, Terminal
<1>4. CASE Prune /\ ~UNCHANGED commit
  <2>1. commit' = NoCommit
    BY <1>4 DEF Prune
  <2>. QED BY <1>4, <2>1, ClosedRecord, SentSame DEF Prune, RecordInv, TypeOK, Open
<1>. QED BY <1>1, <1>2, <1>3, <1>4

\* A completion is the one step that names a write in the ledger.
LEMMA CompletionRecord ==
  ASSUME RecordInv, CompleteJob, ~done, Generation
  PROVE  RecordInv' /\ ~IsCompleted(cand.job)
<1>. USE DEF files, outside
<1>0. PICK j \in DOMAIN Job0 : j = cand.job
  BY RecordedFacts DEF CompleteJob, Recorded
<1>. DEFINE row == Completed(jobs[j], commit.gen)
<1>1. /\ pc = "result" /\ pc \in Recorded /\ commit.result = "stable" /\ Goto("respond")
      /\ Update(j, row) /\ UNCHANGED <<issued, commit, doomed, wire, core, spent, abandoned>>
  BY <1>0 DEF CompleteJob, Recorded
<1>2. /\ commit \in Commit /\ commit # NoCommit /\ commit.cand = cand
      /\ cand \in Candidate /\ j \in DOMAIN Job0 /\ jobs[j] \in Job
  BY <1>0, <1>1, RecordedFacts
<1>3. ~IsCompleted(j) /\ jobs[j].status = "leased"
  BY <1>0 DEF Generation, SameGeneration, Presents, IsCompleted
<1>4. row \in Job /\ row.status = "completed" /\ row.result = commit.gen
  <2>1. commit.gen \in Memory
    BY <1>2 DEF Commit
  <2>. QED BY <1>2, <2>1, RowTypes DEF Completed, Released, Job
<1>. HIDE DEF row
<1>5. /\ jobs' \in [DOMAIN Job0 -> Job] /\ jobs \in [DOMAIN Job0 -> Job]
      /\ jobs'[j] = row /\ \A i \in DOMAIN Job0 : i # j => jobs'[i] = jobs[i]
  BY <1>1, <1>2, <1>4 DEF Update, RecordInv, TypeOK
<1>6. Sent' = Sent /\ SentOnce'
  BY <1>1, SentSame DEF RecordInv, SentOnce
<1>7. /\ IsCompleted(j)'
      /\ \A i \in DOMAIN Job0 : i # j => (IsCompleted(i)' <=> IsCompleted(i))
  BY <1>4, <1>5 DEF IsCompleted
<1>8. TypeOK'
  BY <1>1, <1>5 DEF Goto, RecordInv, TypeOK
<1>9. RecordTrue'
  BY <1>0, <1>1, <1>2, <1>4, <1>5, <1>6, <1>7 DEF RecordInv, RecordTrue, Open, Terminal
<1>10. SubmitInv'
  BY <1>0, <1>1, <1>2, <1>6, <1>7 DEF Goto, RecordInv, SubmitInv, Asking, Recorded, Open, Terminal
<1>11. ResultsOnlyCompleted'
  BY <1>5, <1>7 DEF RecordInv, ResultsOnlyCompleted
<1>12. PICK m \in DOMAIN core : core[m].gen = commit.gen /\ core[m].stable
  BY <1>1, <1>2 DEF RecordInv, RecordTrue
<1>13. core[m].cand = cand
  <2>1. Entry(m) \in Sent /\ Entry(m).gen = core[m].gen /\ Entry(m).cand = core[m].cand
    BY DEF Sent, Entry
  <2>. QED BY <1>2, <1>12, <2>1 DEF RecordInv, RecordTrue
<1>14. CompletedNamesWrite'
  BY <1>0, <1>1, <1>4, <1>5, <1>7, <1>12, <1>13
  DEF RecordInv, CompletedNamesWrite, IsCompleted
<1>15. \A i \in DOMAIN core : core[i].gen = commit.gen => i = m
  BY <1>12 DEF RecordInv, SentOnce
<1>16. CompletedWrites' = CompletedWrites \cup {m}
  <2>1. CompletedWrites' \subseteq CompletedWrites \cup {m}
    BY <1>1, <1>4, <1>5, <1>15 DEF CompletedWrites
  <2>2. CompletedWrites \subseteq CompletedWrites'
    BY <1>1, <1>3, <1>5, <1>7 DEF CompletedWrites, IsCompleted
  <2>3. m \in CompletedWrites'
    BY <1>1, <1>2, <1>4, <1>5, <1>12 DEF CompletedWrites
  <2>. QED BY <2>1, <2>2, <2>3
<1>17. Open(commit) /\ \A i \in CompletedWrites : i <= m
  BY <1>1, <1>12 DEF RecordInv, SubmitInv, Recorded, TimelineInv
<1>18. CompletedWrites \subseteq Nat /\ m \in Nat
  BY DEF CompletedWrites, RecordInv, TypeOK
<1>19. TimelinePreserved'
  <2>1. \A i \in CompletedWrites : core[i].cand.content \subseteq core[m].cand.content
    BY <1>1, <1>13 DEF RecordInv, TimelineInv
  <2>2. ASSUME NEW i \in CompletedWrites \cup {m}, NEW k \in CompletedWrites \cup {m}, i < k
        PROVE  core[i].cand.content \subseteq core[k].cand.content
    <3>1. CASE i \in CompletedWrites /\ k \in CompletedWrites
      BY <2>2, <3>1 DEF RecordInv, TimelineInv, TimelinePreserved
    <3>2. CASE i \in CompletedWrites /\ k = m
      BY <2>1, <3>2
    <3>3. CASE i = m
      BY <1>17, <1>18, <2>2, <3>3
    <3>. QED BY <3>1, <3>2, <3>3
  <2>. QED BY <1>1, <1>16, <2>2 DEF TimelinePreserved
<1>20. TimelineInv'
  BY <1>1, <1>15, <1>16, <1>17, <1>18, <1>19 DEF Goto, TimelineInv
<1>. QED BY <1>0, <1>3, <1>6, <1>8, <1>9, <1>10, <1>11, <1>14, <1>20 DEF RecordInv

LEMMA CompleteRecord == RecordInv /\ CompleteJob => RecordInv'
<1>. SUFFICES ASSUME RecordInv, CompleteJob, done \/ ~Generation PROVE RecordInv'
  BY CompletionRecord
<1>. USE DEF files, outside
<1>1. Quiet
  BY StillQuiet DEF CompleteJob, RecordInv
<1>2. CASE End
  BY <1>1, <1>2, QuietEnd DEF CompleteJob
<1>3. CASE done /\ Goto("respond")
  <2>1. TypeOK'
    BY <1>1, <1>3 DEF CompleteJob, Goto, RecordInv, TypeOK, Quiet
  <2>2. SubmitInv'
    BY <1>3 DEF CompleteJob, Goto, RecordInv, SubmitInv, Asking, Recorded, Open, Terminal,
                IsCompleted
  <2>3. TimelineInv'
    BY <1>1, <1>3, QuietFrame DEF CompleteJob, Goto, RecordInv, TimelineInv
  <2>. QED BY <1>1, <2>1, <2>2, <2>3, QuietFrame DEF RecordInv, CompleteJob
<1>. QED BY <1>2, <1>3 DEF CompleteJob

LEMMA ReconciledRecord ==
  ASSUME RecordInv, OperatorReconcile
  PROVE  /\ RecordInv' /\ commit'.gen = commit.gen /\ commit'.cand = commit.cand
         /\ Open(commit') /\ UNCHANGED <<pc, cand, jobs, wire, core, abandoned>>
<1>. USE DEF ledger, submit, outside
<1>1. commit \in Commit /\ commit # NoCommit
  BY DEF OperatorReconcile, Open, RecordInv, TypeOK
<1>2. /\ commit' \in Commit /\ commit' # NoCommit /\ commit'.result = "stable"
      /\ commit'.gen = commit.gen /\ commit'.cand = commit.cand
      /\ (Open(commit') <=> Open(commit))
  BY <1>1, NamesAssumption DEF OperatorReconcile, Commit, Open, Terminal
<1>3. TypeOK'
  BY <1>2 DEF OperatorReconcile, RecordInv, TypeOK
<1>4. RecordTrue'
  BY <1>1, <1>2, RecordFrame DEF OperatorReconcile, RecordInv, RecordTrue, ResultOf, IsCompleted
<1>5. SubmitInv'
  BY DEF OperatorReconcile, RecordInv, SubmitInv, Asking, Recorded
<1>6. TimelineInv'
  BY <1>2, RecordFrame DEF OperatorReconcile, RecordInv, TimelineInv
<1>. QED BY <1>2, <1>3, <1>4, <1>5, <1>6, RecordFrame DEF OperatorReconcile, RecordInv

\* Core applies what was sent; that it was sent does not change.
LEMMA ApplyRecord ==
  ASSUME RecordInv, NEW x \in wire, CoreApply(x)
  PROVE  RecordInv' /\ Sent' = Sent
<1>. USE DEF ledger, submit, files
<1>0. PICK n : n = Len(core) + 1
  OBVIOUS
<1>1. PICK stable \in BOOLEAN :
        core' = Append(core, [gen |-> x.gen, cand |-> x.cand, stable |-> stable])
  BY DEF CoreApply
<1>. DEFINE new == [gen |-> x.gen, cand |-> x.cand, stable |-> stable]
<1>2. /\ x \in Write /\ new \in Applied /\ core \in Seq(Applied)
      /\ x = [gen |-> x.gen, cand |-> x.cand]
  BY DEF RecordInv, TypeOK, Write, Applied
<1>3. new.gen = x.gen /\ new.cand = x.cand
  OBVIOUS
<1>. HIDE DEF new
<1>4. /\ core' \in Seq(Applied) /\ DOMAIN core' = DOMAIN core \cup {n} /\ core'[n] = new
      /\ n \in Nat /\ n \notin DOMAIN core
      /\ \A i \in DOMAIN core : core'[i] = core[i] /\ i \in Nat /\ i <= n
  BY <1>0, <1>1, <1>2 DEF new
<1>5. Sent' = Sent
  <2>1. Entry(n)' = x
    BY <1>2, <1>3, <1>4 DEF Entry
  <2>2. \A i \in DOMAIN core : Entry(i)' = Entry(i)
    BY <1>4 DEF Entry
  <2>3. wire' = wire \ {x}
    BY DEF CoreApply
  <2>. QED BY <1>4, <2>1, <2>2, <2>3 DEF Sent
<1>6. TypeOK'
  BY <1>4 DEF CoreApply, RecordInv, TypeOK
<1>7. \A i \in DOMAIN core : core[i].gen # x.gen
  BY DEF RecordInv, SentOnce
<1>8. SentOnce'
  <2>1. \A i, k \in DOMAIN core' : core'[i].gen = core'[k].gen => i = k
    BY <1>3, <1>4, <1>7 DEF RecordInv, SentOnce
  <2>2. \A e \in wire', i \in DOMAIN core' : e.gen # core'[i].gen
    BY <1>3, <1>4 DEF RecordInv, SentOnce, Sent, CoreApply
  <2>. QED BY <1>5, <2>1, <2>2 DEF RecordInv, SentOnce, CoreApply
<1>9. RecordTrue'
  BY <1>4, <1>5 DEF CoreApply, RecordInv, RecordTrue, Open, Terminal, IsCompleted
<1>10. SubmitInv'
  <2>1. \A c : Replays(c)' <=> Replays(c)
    BY DEF Replays, CoreApply
  <2>. QED BY <1>5, <2>1 DEF CoreApply, RecordInv, SubmitInv, Open, Terminal, IsCompleted
<1>11. ResultsOnlyCompleted' /\ CompletedNamesWrite'
  BY <1>4 DEF CoreApply, RecordInv, ResultsOnlyCompleted, CompletedNamesWrite, IsCompleted
<1>12. CompletedWrites' = CompletedWrites
  <2>1. x.gen # "noop"
    BY <1>2, NamesAssumption DEF Write
  <2>2. \A j \in DOMAIN jobs : IsCompleted(j) => jobs[j].result # x.gen
    BY <1>7, <2>1 DEF RecordInv, CompletedNamesWrite, IsCompleted
  <2>. QED BY <1>3, <1>4, <2>2 DEF CoreApply, CompletedWrites, IsCompleted
<1>13. TimelineInv'
  <2>1. CompletedWrites \subseteq DOMAIN core
    BY DEF CompletedWrites
  <2>. QED BY <1>4, <1>12, <2>1
           DEF CoreApply, RecordInv, TimelineInv, TimelinePreserved, Open, Terminal
<1>. QED BY <1>5, <1>6, <1>8, <1>9, <1>10, <1>11, <1>13 DEF RecordInv

-----------------------------------------------------------------------------
(* The theorems about the record *)

LEMMA InitRecord == Init => RecordInv
<1>. SUFFICES ASSUME Init PROVE RecordInv
  OBVIOUS
<1>1. core \in Seq(Applied) /\ DOMAIN core = {}
  BY DEF Init
<1>2. TypeOK
  BY <1>1, Job0Assumption, TokenBoundAssumption DEF Init, TypeOK
<1>3. Sent = {} /\ CompletedWrites = {}
  BY <1>1 DEF Init, Sent, CompletedWrites
<1>4. SentOnce /\ SubmitInv
  BY <1>1, <1>3 DEF Init, SentOnce, SubmitInv, Asking, Recorded
<1>5. RecordTrue /\ ~Open(commit)
  BY DEF Init, RecordTrue, Open
<1>6. ResultsOnlyCompleted /\ CompletedNamesWrite
  BY Job0Assumption DEF Init, ResultsOnlyCompleted, CompletedNamesWrite, IsCompleted
<1>7. TimelineInv
  BY <1>1, <1>3, <1>5 DEF Init, TimelineInv, TimelinePreserved
<1>. QED BY <1>2, <1>4, <1>5, <1>6, <1>7 DEF RecordInv

\* A submit that ends without touching its record leaves the ledger quiet.
LEMMA EndingSteps ==
  ASSUME RecordInv, FailRejected \/ Quarantine \/ Ambiguous \/ Crash
  PROVE  Quiet /\ End /\ UNCHANGED <<issued, files, outside>>
<1>1. CASE Ambiguous \/ Crash
  BY <1>1, StillQuiet DEF Ambiguous, Crash, RecordInv, ledger
<1>2. ASSUME NEW kind \in FailureKind, FailJob(kind), pc \in Recorded
      PROVE  Quiet /\ End /\ UNCHANGED <<issued, files, outside>>
  <2>1. CASE UNCHANGED jobs
    BY <1>2, <2>1, StillQuiet DEF FailJob, RecordInv
  <2>2. CASE Generation /\ Update(cand.job, Failed(jobs[cand.job], kind))
    <3>1. cand.job \in DOMAIN Job0 /\ jobs[cand.job].status = "leased"
      BY <1>2, <2>2, RecordedFacts DEF Generation, SameGeneration, Presents
    <3>. QED BY <1>2, <2>2, <3>1, FailQuiet, QuietUpdate DEF FailJob, RecordInv
  <2>. QED BY <1>2, <2>1, <2>2 DEF FailJob
<1>3. CASE FailRejected
  BY <1>2, <1>3 DEF FailRejected, FailureKind, Recorded
<1>4. CASE Quarantine
  BY <1>2, <1>4 DEF Quarantine, FailureKind, Recorded
<1>. QED BY <1>1, <1>3, <1>4

\* Steps of the ledger's other users and of the listing pruner.
LEMMA LedgerSteps ==
  ASSUME RecordInv,
         \/ \E h \in Harness, tok \in BOOLEAN : Lease(h, tok)
         \/ \E j \in DOMAIN jobs : ExpireLease(j) \/ Skip(j) \/ Retry(j)
         \/ UNCHANGED vars
  PROVE  Quiet /\ issued' \in 0..MaxTokens /\ UNCHANGED <<submit, files, outside>>
<1>1. ASSUME NEW h \in Harness, NEW tok \in BOOLEAN, Lease(h, tok)
      PROVE  Quiet /\ issued' \in 0..MaxTokens /\ UNCHANGED <<submit, files, outside>>
  BY <1>1, LeaseQuiet DEF Lease, RecordInv
<1>2. ASSUME NEW j \in DOMAIN jobs, ExpireLease(j) \/ Skip(j) \/ Retry(j)
      PROVE  Quiet /\ issued' \in 0..MaxTokens /\ UNCHANGED <<submit, files, outside>>
  BY <1>2, RowStepsQuiet DEF ExpireLease, Skip, Retry, RecordInv, TypeOK
<1>3. CASE UNCHANGED vars
  BY <1>3, StillQuiet DEF vars, ledger, RecordInv, TypeOK
<1>. QED BY <1>1, <1>2, <1>3

\* A pruner that unlinks nothing, or has only found something to unlink.
LEMMA PrunerRecord ==
  ASSUME RecordInv, FindTerminal \/ (Prune /\ UNCHANGED commit)
  PROVE  RecordInv' /\ Quiet /\ UNCHANGED <<submit, commit, wire, core, spent, abandoned>>
<1>. USE DEF ledger, outside, submit
<1>1. Quiet /\ UNCHANGED <<ledger, submit, commit, outside>>
  BY StillQuiet DEF FindTerminal, Prune, RecordInv
<1>2. doomed' \in Memory \cup {Unset}
  BY DEF FindTerminal, Prune, RecordInv, TypeOK, Commit
<1>3. TypeOK'
  BY <1>1, <1>2 DEF RecordInv, TypeOK
<1>4. SubmitInv'
  <2>1. \A x : Replays(x)' <=> Replays(x)
    BY <1>1 DEF Replays
  <2>. QED BY <1>1, <2>1, SentSame DEF RecordInv, SubmitInv, Open, Terminal, IsCompleted
<1>5. TimelineInv'
  BY <1>1, QuietFrame DEF RecordInv, TimelineInv
<1>. QED BY <1>1, <1>3, <1>4, <1>5, QuietFrame DEF RecordInv

\* The record's invariant is inductive.
LEMMA RecordStep == RecordInv /\ [Next]_vars => RecordInv'
<1>. SUFFICES ASSUME RecordInv, [Next]_vars PROVE RecordInv'
  OBVIOUS
<1>1. CASE \/ \E h \in Harness, tok \in BOOLEAN : Lease(h, tok)
           \/ \E j \in DOMAIN jobs : ExpireLease(j) \/ Skip(j) \/ Retry(j)
           \/ UNCHANGED vars
  BY <1>1, LedgerSteps, QuietStep
<1>2. ASSUME NEW x \in Candidate, NEW token \in 0..issued, Begin(x, token)
      PROVE  RecordInv'
  BY <1>2, BeginRecord
<1>3. CASE FailRejected \/ Quarantine \/ Ambiguous \/ Crash
  BY <1>3, EndingSteps, QuietEnd
<1>4. CASE SaveRejected \/ Respond \/ OperatorAbandon \/ (Prune /\ ~UNCHANGED commit)
  BY <1>4, ClosingSteps
<1>5. CASE FindTerminal \/ (Prune /\ UNCHANGED commit)
  BY <1>5, PrunerRecord
<1>6. CASE Prepare \/ SaveOpen \/ SendWrite \/ SaveResult \/ Refused \/ CompleteJob
  BY <1>6, PrepareRecord, SaveOpenRecord, SendRecord, SaveResultRecord, RefusedRecord,
     CompleteRecord
<1>7. CASE OperatorReconcile
  BY <1>7, ReconciledRecord
<1>8. ASSUME NEW x \in wire, CoreApply(x) PROVE RecordInv'
  BY <1>8, ApplyRecord
<1>. QED BY <1>1, <1>2, <1>3, <1>4, <1>5, <1>6, <1>7, <1>8 DEF Next, Submit

\* The variables of the submit keep their types, whatever Core answers.
THEOREM SubmitTypeOK == Spec => []TypeOK
<1>1. RecordInv => TypeOK
  BY DEF RecordInv
<1>. QED BY <1>1, InitRecord, RecordStep, PTL DEF Spec

\* A job that the ledger shows completed has its result in Core, written for that
\* job (completeDistillationJob after the frozen commit, distillation-submit.ts).
THEOREM SubmitCompletedNamesWrite == Spec => []CompletedNamesWrite
<1>1. RecordInv => CompletedNamesWrite
  BY DEF RecordInv
<1>. QED BY <1>1, InitRecord, RecordStep, PTL DEF Spec

\* Completed revisions of the timeline only grow, although the check reads Core and
\* the ledger long before the job is completed.
THEOREM SubmitTimelinePreserved == Spec => []TimelinePreserved
<1>1. RecordInv => TimelinePreserved
  BY DEF RecordInv, TimelineInv
<1>. QED BY <1>1, InitRecord, RecordStep, PTL DEF Spec

-----------------------------------------------------------------------------
(* The theorems about the writes *)

LEMMA InitWrites == Init => WriteInv
<1>. SUFFICES ASSUME Init PROVE WriteInv
  OBVIOUS
<1>1. Sent = {} /\ pc = "free"
  BY DEF Init, Sent
<1>. QED BY <1>1 DEF WriteInv, Accounted, SingleWrite, RefusedGone, Asking

\* What the accounts become when neither the sent nor the ledger change.
LEMMA SameAccounts ==
  ASSUME WriteInv, Sent' \subseteq Sent, UNCHANGED <<jobs, abandoned>>,
         commit' # NoCommit => commit'.gen = commit.gen /\ commit'.cand = commit.cand,
         Open(commit') <=> Open(commit)
  PROVE  /\ Accounted'
         /\ \A d, e \in Sent' : d # e /\ d.cand.job = e.cand.job
                                  => d.gen \in abandoned' \/ e.gen \in abandoned'
         /\ Open(commit') => \A e \in Sent' :
              e.cand.job = commit'.cand.job /\ e.gen # commit'.gen => e.gen \in abandoned'
<1>. USE DEF WriteInv
<1>1. Accounted'
  BY DEF Accounted, IsCompleted, Open
<1>. QED BY <1>1 DEF SingleWrite, Open

LEMMA BeginWrites ==
  ASSUME RecordInv, WriteInv, NEW x \in Candidate, NEW token \in 0..issued, Begin(x, token)
  PROVE  WriteInv'
<1>. USE DEF ledger, files, outside
<1>1. Sent' = Sent /\ UNCHANGED <<jobs, commit, abandoned>> /\ pc' = "prepare" /\ cand' = x
  BY SentSame DEF Begin
<1>2. (Replays(cand))' <=> Replays(x)
  BY <1>1 DEF Replays
<1>3. ~Replays(x) => ~Open(commit) /\ ~IsCompleted(x.job)
  BY DEF Begin, Admitted, ActiveLease, Presents, IsCompleted
<1>4. ~Replays(x) => \A e \in Sent : e.cand.job = x.job => e.gen \in abandoned
  BY <1>3 DEF WriteInv, Accounted
<1>. QED BY <1>1, <1>2, <1>4, SameAccounts DEF WriteInv, SingleWrite, RefusedGone, Asking

LEMMA SaveOpenWrites == ASSUME RecordInv, WriteInv, SaveOpen PROVE WriteInv'
<1>. USE DEF ledger, outside
<1>1. Sent' = Sent /\ UNCHANGED <<jobs, abandoned>> /\ pc = "open" /\ cand' = cand
      /\ pc' \notin Asking /\ pc' # "reject"
  BY SentSame DEF SaveOpen, Goto, Asking
<1>2. CASE UNCHANGED commit
  BY <1>1, <1>2, SameAccounts DEF WriteInv, SingleWrite, RefusedGone
<1>3. CASE ~Replays(cand) /\ \E g \in Memory \ spent : NewOperation(g)
  <2>1. ~Open(commit)
    BY <1>1, <1>3 DEF RecordInv, SubmitInv, Asking
  <2>2. commit'.cand = cand
    BY <1>3 DEF NewOperation
  <2>3. Accounted'
    BY <1>1, <2>1 DEF WriteInv, Accounted, IsCompleted
  <2>4. \A e \in Sent : e.cand.job = cand.job => e.gen \in abandoned
    BY <1>1, <1>3 DEF WriteInv, SingleWrite, Asking
  <2>5. SingleWrite'
    BY <1>1, <2>2, <2>4 DEF WriteInv, SingleWrite
  <2>. QED BY <1>1, <2>3, <2>5 DEF WriteInv, RefusedGone
<1>. QED BY <1>2, <1>3 DEF SaveOpen

LEMMA SendWrites == ASSUME RecordInv, WriteInv, SendWrite PROVE WriteInv'
<1>. DEFINE w == [gen |-> commit.gen, cand |-> cand]
<1>1. pc = "send" /\ pc \in Recorded /\ Goto("await") /\ Open(commit) /\ commit.cand = cand
      /\ UNCHANGED <<jobs, commit, core, abandoned>> /\ wire' = wire \cup {w}
  BY DEF SendWrite, Recorded, RecordInv, SubmitInv, ledger, files
<1>2. w.gen = commit.gen /\ w.cand = cand
  OBVIOUS
<1>. HIDE DEF w
<1>3. Sent' = Sent \cup {w}
  BY <1>1 DEF Sent, Entry
<1>4. Accounted'
  BY <1>1, <1>2, <1>3 DEF WriteInv, Accounted, IsCompleted, Open, Terminal
<1>5. \A e \in Sent : e.cand.job = w.cand.job => e.gen \in abandoned
  BY <1>1, <1>2 DEF WriteInv, SingleWrite, RecordInv, SubmitInv
<1>6. SingleWrite'
  BY <1>1, <1>2, <1>3, <1>5 DEF WriteInv, SingleWrite, Goto, Asking, Open, Terminal
<1>. QED BY <1>1, <1>4, <1>6 DEF WriteInv, RefusedGone, Goto

LEMMA CompleteWrites == ASSUME RecordInv, WriteInv, CompleteJob PROVE WriteInv'
<1>. USE DEF files, outside
<1>1. pc = "result" /\ pc \in Recorded /\ pc' \in {"free", "respond"} /\ Sent' = Sent
      /\ UNCHANGED <<commit, wire, core, abandoned>> /\ Open(commit)
  BY SentSame DEF CompleteJob, Goto, End, Recorded, RecordInv, SubmitInv
<1>2. CASE UNCHANGED jobs
  BY <1>1, <1>2, SameAccounts DEF WriteInv, SingleWrite, RefusedGone, Asking
<1>3. CASE ~done /\ Generation
  <2>1. PICK j \in DOMAIN Job0 : j = cand.job
    BY <1>1, RecordedFacts
  <2>2. ~IsCompleted(j) /\ \A i \in DOMAIN Job0 : i # j => jobs'[i] = jobs[i]
    BY <1>3, <2>1, CompletionRecord DEF CompleteJob, Update, RecordInv, TypeOK
  <2>3. Accounted'
    <3>1. \A e \in Sent : e.cand.job \in DOMAIN Job0
      BY SentTypes DEF RecordInv
    <3>2. ASSUME NEW e \in Sent
          PROVE  \/ e.gen \in abandoned
                 \/ Open(commit) /\ e.gen = commit.gen
                 \/ IsCompleted(e.cand.job) /\ e.cand.job # j
                      /\ jobs[e.cand.job].result \in {e.gen, "noop"}
      BY <2>2 DEF WriteInv, Accounted
    <3>. QED BY <1>1, <2>2, <3>1, <3>2 DEF Accounted, IsCompleted, Open, Terminal
  <2>. QED BY <1>1, <2>3 DEF WriteInv, SingleWrite, RefusedGone, Asking, Open, Terminal
<1>. QED BY <1>2, <1>3 DEF CompleteJob

\* A record is closed after its write was refused or its job completed, or given up.
LEMMA ClosingWrites ==
  ASSUME RecordInv, WriteInv,
         \/ SaveRejected \/ Respond \/ OperatorAbandon
         \/ Prune /\ ~UNCHANGED commit
  PROVE  WriteInv'
<1>1. /\ Sent' = Sent /\ ~Open(commit') /\ abandoned \subseteq abandoned'
      /\ UNCHANGED jobs
  BY ClosingSteps
<1>2. pc' \notin Asking /\ pc' # "reject"
  BY DEF SaveRejected, Respond, OperatorAbandon, Prune, Goto, End, submit, Asking
<1>3. ASSUME NEW e \in Sent, Open(commit), e.gen = commit.gen
      PROVE  \/ e.gen \in abandoned'
             \/ IsCompleted(e.cand.job) /\ jobs[e.cand.job].result \in {e.gen, "noop"}
  <2>1. commit # NoCommit /\ e.cand = commit.cand
    BY <1>3 DEF Open, RecordInv, RecordTrue
  <2>2. CASE SaveRejected
    BY <1>3, <2>2 DEF SaveRejected, WriteInv, RefusedGone
  <2>3. CASE Respond
    BY <1>3, <2>1, <2>3 DEF Respond, RecordInv, SubmitInv, Recorded, RecordTrue
  <2>4. CASE OperatorAbandon
    BY <1>3, <2>4 DEF OperatorAbandon
  <2>5. CASE Prune /\ ~UNCHANGED commit
    BY <1>3, <2>5 DEF Prune, Open
  <2>. QED BY <2>2, <2>3, <2>4, <2>5
<1>4. Accounted'
  BY <1>1, <1>3 DEF WriteInv, Accounted, IsCompleted
<1>5. SingleWrite'
  BY <1>1, <1>2 DEF WriteInv, SingleWrite
<1>. QED BY <1>2, <1>4, <1>5 DEF WriteInv, RefusedGone

LEMMA WriteStep ==
  ASSUME ~ReconcileRefused
  PROVE  RecordInv /\ WriteInv /\ [Next]_vars => WriteInv'
<1>. SUFFICES ASSUME RecordInv, WriteInv, [Next]_vars PROVE WriteInv'
  OBVIOUS
<1>1. CASE \/ \E h \in Harness, tok \in BOOLEAN : Lease(h, tok)
           \/ \E j \in DOMAIN jobs : ExpireLease(j) \/ Skip(j) \/ Retry(j)
           \/ UNCHANGED vars
  BY <1>1, LedgerSteps, QuietWrites DEF submit, files, outside
<1>2. ASSUME NEW x \in Candidate, NEW token \in 0..issued, Begin(x, token)
      PROVE  WriteInv'
  BY <1>2, BeginWrites
<1>3. CASE FailRejected \/ Quarantine \/ Ambiguous \/ Crash
  BY <1>3, EndingSteps, QuietWrites DEF End, files, outside
<1>4. CASE SaveRejected \/ Respond \/ OperatorAbandon \/ (Prune /\ ~UNCHANGED commit)
  BY <1>4, ClosingWrites
<1>5. CASE FindTerminal \/ (Prune /\ UNCHANGED commit)
  BY <1>5, PrunerRecord, QuietWrites DEF submit
<1>6. CASE Prepare
  <2>1. /\ Quiet /\ UNCHANGED <<commit, wire, core, abandoned>> /\ pc = "prepare"
        /\ pc' = "free" \/ (pc' = "open" /\ cand' = cand)
    BY <1>6, PrepareQuiet DEF Prepare, Goto, End, files, outside
  <2>2. CASE pc' = "free"
    BY <2>1, <2>2, QuietWrites
  <2>3. CASE pc' = "open" /\ cand' = cand
    <3>1. Accounted' /\ Sent' = Sent
      BY <2>1, QuietWrites
    <3>2. Replays(cand)' <=> Replays(cand)
      BY <2>1, <2>3 DEF Replays
    <3>3. SingleWrite'
      BY <2>1, <2>3, <3>1, <3>2 DEF WriteInv, SingleWrite, Asking, Open, Terminal
    <3>. QED BY <2>3, <3>1, <3>3 DEF WriteInv, RefusedGone
  <2>. QED BY <2>1, <2>2, <2>3
<1>7. CASE SaveResult
  <2>1. /\ UNCHANGED <<jobs, wire, core, abandoned>> /\ pc' = "result"
        /\ pc \in Recorded
    BY <1>7 DEF SaveResult, Goto, Recorded, ledger, outside
  <2>2. commit \in Commit /\ commit # NoCommit
    BY <2>1, RecordedFacts
  <2>3. /\ commit'.gen = commit.gen /\ commit'.cand = commit.cand
        /\ commit'.rejected = commit.rejected /\ commit'.response = commit.response
        /\ commit' \in Commit
    BY <1>7, <2>2 DEF SaveResult, Commit, ResultOf
  <2>4. Open(commit') <=> Open(commit)
    BY <2>2, <2>3, NamesAssumption DEF Open, Terminal
  <2>. QED BY <2>1, <2>2, <2>3, <2>4, SentSame, SameAccounts
           DEF WriteInv, SingleWrite, RefusedGone, Asking
<1>8. CASE Refused
  BY <1>8, RefusedRecord, SameAccounts
  DEF Refused, Goto, ledger, files, WriteInv, SingleWrite, Asking
<1>9. CASE SaveOpen \/ SendWrite \/ CompleteJob
  BY <1>9, SaveOpenWrites, SendWrites, CompleteWrites
<1>10. CASE OperatorReconcile
  <2>1. pc' = "free" /\ Open(commit)
    BY <1>10 DEF OperatorReconcile, submit
  <2>. QED BY <1>10, <2>1, ReconciledRecord, SentSame, SameAccounts
           DEF WriteInv, SingleWrite, RefusedGone, Asking
<1>11. ASSUME NEW x \in wire, CoreApply(x) PROVE WriteInv'
  <2>1. Sent' = Sent /\ UNCHANGED <<jobs, commit, abandoned, pc, cand>>
    BY <1>11, ApplyRecord DEF CoreApply, ledger, submit, files
  <2>2. \A c : Replays(c)' <=> Replays(c)
    BY <2>1 DEF Replays
  <2>. QED BY <2>1, <2>2, SameAccounts DEF WriteInv, SingleWrite, RefusedGone, Open, Terminal
<1>. QED BY <1>1, <1>2, <1>3, <1>4, <1>5, <1>6, <1>7, <1>8, <1>9, <1>10, <1>11
         DEF Next, Submit

\* Core applies at most one write of a job, through lost answers, deaths, lease
\* reassignments, retries and pruned records (distillation-submit.ts), unless an
\* operator gave one up, or Core refuses to reconcile what it may have applied.
THEOREM SubmitNoDuplicateWrite ==
  ASSUME ~ReconcileRefused
  PROVE  Spec => []NoDuplicateWrite
<1>1. RecordInv /\ WriteInv => NoDuplicateWrite
  <2>. SUFFICES ASSUME RecordInv, WriteInv, NEW i \in DOMAIN core, NEW k \in DOMAIN core,
                       i # k, core[i].cand.job = core[k].cand.job
                PROVE  core[i].gen \in abandoned \/ core[k].gen \in abandoned
    BY DEF NoDuplicateWrite
  <2>1. \A n \in {i, k} : /\ Entry(n) \in Sent /\ Entry(n).gen = core[n].gen
                          /\ Entry(n).cand = core[n].cand
    BY DEF Sent, Entry
  <2>2. core[i].gen # core[k].gen
    BY DEF RecordInv, SentOnce
  <2>. QED BY <2>1, <2>2 DEF WriteInv, SingleWrite
<1>. QED BY <1>1, InitRecord, RecordStep, InitWrites, WriteStep, PTL DEF Spec

\* No write is lost: the ledger names it, its open record replays it, an operator
\* gave it up, or its session skipped the job while the write was in doubt.
THEOREM SubmitNoLostWrite ==
  ASSUME ~ReconcileRefused
  PROVE  Spec => []NoLostWrite
<1>1. RecordInv /\ WriteInv => NoLostWrite
  <2>. SUFFICES ASSUME RecordInv, WriteInv, NEW i \in DOMAIN core
                PROVE  \/ core[i].gen \in abandoned
                       \/ Open(commit) /\ commit.gen = core[i].gen
                       \/ jobs[core[i].cand.job].result \in {core[i].gen, "noop"}
    BY DEF NoLostWrite
  <2>1. Entry(i) \in Sent /\ Entry(i).gen = core[i].gen /\ Entry(i).cand = core[i].cand
    BY DEF Sent, Entry
  <2>. QED BY <2>1 DEF WriteInv, Accounted
<1>. QED BY <1>1, InitRecord, RecordStep, InitWrites, WriteStep, PTL DEF Spec
=============================================================================
