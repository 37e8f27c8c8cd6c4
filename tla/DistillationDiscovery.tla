----------------------- MODULE DistillationDiscovery -----------------------
(***************************************************************************)
(* discoverDistillationJobs (src/src/distillation-discovery.ts): scans of  *)
(* one process group the ingested turns of an account by project and queue *)
(* them as L2 jobs.  A scan reads the ledger, then the turns, and queues   *)
(* its batches one by one, each under the store's lock (enqueueJob); other *)
(* scans, new turns, retirements and project merges come in between.       *)
(*                                                                         *)
(* Time is abstracted: a turn is settled once idle_minutes have passed     *)
(* since it was ingested, and the 15 minutes a remembered scan is good for *)
(* may end at any moment.  The batches of one scan are disjoint, and their *)
(* order is left out.  A job is its project and its refs; retired is any   *)
(* result_retirement.  Left out: turns excluded for privacy or without     *)
(* text, workspace and assignment resolution, auto_since, dry runs, manual *)
(* L2 revisions.                                                           *)
(***************************************************************************)
EXTENDS Integers, Sequences, FiniteSets

CONSTANTS
  Turns,       \* turns are numbered in the order of their timestamps
  Project, HintOf,   \* the project hint each turn was captured with
  Scan,        \* scans that may be under way at once,
  Sweeper,     \* the one of them that is the gateway's background sweep
  Threshold,   \* turn_threshold
  MaxMerges, MaxRetired, MaxFaults,
  All, Nothing \* a sweep's scope; no remembered scan

Turn == 1..Turns
ASSUME TurnsAssumption == Turns \in Nat
ASSUME HintOfAssumption == HintOf \in [Turn -> Project]
ASSUME SweeperAssumption == Sweeper \in Scan
ASSUME ThresholdAssumption == Threshold \in Nat \ {0}

VARIABLES
  log,        \* the ingested turns, in the order they were ingested
  quiet,      \* how many of them, from the first on, are settled
  due,        \* scans owed after a turn, each for the project the turn resolved to
  mergedInto, \* what a reference to a project resolves to
  jobs,       \* L2 rows: project, refs, retired
  scans,      \* each scan's local state
  remembered, \* successfulScans: the watermark and the waiting groups, or Nothing
  faults      \* failures so far (bound)

vars == <<log, quiet, due, mergedInto, jobs, scans, remembered, faults>>

Batch == [project : Project, refs : SUBSET Turn]
Row == [project : Project, refs : SUBSET Turn, retired : BOOLEAN]
ScanState == [at : {"idle", "ledger", "batches"}, scope : Project \cup {All},
              used : SUBSET (Project \X Turn), todo : SUBSET Batch,
              waiting : SUBSET SUBSET Turn, mark : Nat, clean : BOOLEAN]
Idle == [at |-> "idle", scope |-> All, used |-> {}, todo |-> {},
         waiting |-> {}, mark |-> 0, clean |-> TRUE]

TypeOK ==
  /\ log \in Seq(Turn) /\ quiet \in 0..Len(log) /\ due \subseteq Project
  /\ mergedInto \in [Project -> Project]
  /\ jobs \in Seq(Row)
  /\ scans \in [Scan -> ScanState]
  /\ remembered \in [mark : Nat, waiting : SUBSET SUBSET Turn] \cup {Nothing}
  /\ faults \in Nat

Init ==
  /\ log = << >> /\ quiet = 0 /\ due = {}
  /\ mergedInto = [p \in Project |-> p]
  /\ jobs = << >>
  /\ scans = [s \in Scan |-> Idle]
  /\ remembered = Nothing
  /\ faults = 0

Ingested == {log[i] : i \in DOMAIN log}
Settled == {log[i] : i \in 1..quiet}
Active(p) == mergedInto[p] = p

-----------------------------------------------------------------------------
\* A turn is captured, ingested and marked; its project was resolved before.
Ingest(t) ==
  /\ t \notin Ingested
  /\ log' = Append(log, t) /\ due' = due \cup {mergedInto[HintOf[t]]}
  /\ UNCHANGED <<quiet, mergedInto, jobs, scans, remembered, faults>>

\* idle_minutes after the next turn was ingested.
Settle ==
  /\ quiet < Len(log)
  /\ quiet' = quiet + 1
  /\ UNCHANGED <<log, due, mergedInto, jobs, scans, remembered, faults>>

\* ProjectRegistry.merge: what resolved to the source, earlier sources among
\* them (their aliases move along), resolves to the target.
Merge(p, q) ==
  /\ p # q /\ Active(p) /\ Active(q)
  /\ Cardinality({r \in Project : ~Active(r)}) < MaxMerges
  /\ mergedInto' = [r \in Project |-> IF mergedInto[r] = p THEN q ELSE mergedInto[r]]
  /\ UNCHANGED <<log, quiet, due, jobs, scans, remembered, faults>>

\* A completed revision is retired (retireDistillationMemory).
Retire(j) ==
  /\ ~jobs[j].retired
  /\ Cardinality({i \in DOMAIN jobs : jobs[i].retired}) < MaxRetired
  /\ jobs' = [jobs EXCEPT ![j].retired = TRUE]
  /\ UNCHANGED <<log, quiet, due, mergedInto, scans, remembered, faults>>

-----------------------------------------------------------------------------
\* listDistillationJobs leaves retired rows out.
Used == {x \in Project \X Turn :
           \E j \in DOMAIN jobs : ~jobs[j].retired /\ jobs[j].project = x[1] /\ x[2] \in jobs[j].refs}

\* The background sweep may rely on the remembered scan.
SkipsUnchanged ==
  /\ remembered # Nothing
  /\ remembered.mark = Len(log)
  /\ \A g \in remembered.waiting : ~(g \subseteq Settled)

ReadLedger(s, scope) ==
  /\ scans[s].at = "idle"
  /\ scans' = [scans EXCEPT ![s] = [Idle EXCEPT !.at = "ledger", !.scope = scope, !.used = Used]]
  /\ UNCHANGED <<log, quiet, mergedInto, jobs, remembered, faults>>

\* queueIdleDistillation, every minute and one at a time.
Sweep == ~SkipsUnchanged /\ ReadLedger(Sweeper, All) /\ UNCHANGED due

\* maybeQueueThresholdDistillation; a merge since the capture goes unnoticed.
\* Of two turns that wait for the same scan, one scan is enough.
AfterTurn(s, p) == s # Sweeper /\ p \in due /\ ReadLedger(s, p) /\ due' = due \ {p}

\* The sweep resolves every hint; the scan after a captured turn only its own.
Resolves(scope, t) == scope = All \/ HintOf[t] = scope
ProjectOf(scope, t) == IF scope = All THEN mergedInto[HintOf[t]] ELSE scope

Fresh(sc, p) == {t \in Ingested : /\ Resolves(sc.scope, t) /\ ProjectOf(sc.scope, t) = p
                                  /\ <<p, t>> \notin sc.used}

\* The batch a turn falls into when a group is cut in the order of timestamps.
Offset(group, t) == Cardinality({u \in group : u < t}) \div Threshold
Batches(group) == {{u \in group : Offset(group, u) = Offset(group, t)} : t \in group}
Ready(group, b) == Cardinality(b) = Threshold \/ group \subseteq Settled

Ripe(p, group) == {[project |-> p, refs |-> b] : b \in {c \in Batches(group) : Ready(group, c)}}

ReadTurns(s) ==
  LET sc == scans[s] IN
     /\ sc.at = "ledger"
     /\ scans' = [scans EXCEPT ![s] = [sc EXCEPT
          !.at = "batches", !.used = {},
          !.todo = UNION {Ripe(p, Fresh(sc, p)) : p \in Project},
          !.waiting = {g \in {Fresh(sc, p) : p \in Project} : \E b \in Batches(g) : ~Ready(g, b)},
          !.mark = Len(log),
          !.clean = \A t \in Ingested : Resolves(sc.scope, t)]]
     /\ UNCHANGED <<log, quiet, due, mergedInto, jobs, remembered, faults>>

\* Mutant: only the same batch is refused.
OverlapsExactly(b) == \E j \in DOMAIN jobs : jobs[j].project = b.project /\ jobs[j].refs = b.refs

\* enqueueJob: refused when any ref is in a row of this project, retired or not.
Overlaps(b) == \E j \in DOMAIN jobs : jobs[j].project = b.project /\ jobs[j].refs \cap b.refs # {}

Enqueue(s, b) ==
  /\ scans[s].at = "batches" /\ b \in scans[s].todo
  /\ jobs' = IF Overlaps(b) THEN jobs
             ELSE Append(jobs, [project |-> b.project, refs |-> b.refs, retired |-> FALSE])
  /\ scans' = [scans EXCEPT ![s].todo = @ \ {b}]
  /\ UNCHANGED <<log, quiet, due, mergedInto, remembered, faults>>

Finish(s) ==
  /\ scans[s].at = "batches" /\ scans[s].todo = {}
  /\ remembered' = IF scans[s].clean
                   THEN [mark |-> scans[s].mark, waiting |-> scans[s].waiting]
                   ELSE Nothing
  /\ scans' = [scans EXCEPT ![s] = Idle]
  /\ UNCHANGED <<log, quiet, due, mergedInto, jobs, faults>>

\* Mutant: a remembered scan is good for ever.
NeverForget == FALSE /\ UNCHANGED vars

\* 15 minutes after the remembered scan began.
Forget ==
  /\ remembered # Nothing
  /\ remembered' = Nothing
  /\ UNCHANGED <<log, quiet, due, mergedInto, jobs, scans, faults>>

\* A scan throws, e.g. on the store's lock; or the process restarts.
Throw(s) ==
  /\ scans[s].at # "idle" /\ faults < MaxFaults
  /\ scans' = [scans EXCEPT ![s] = Idle]
  /\ faults' = faults + 1
  /\ UNCHANGED <<log, quiet, due, mergedInto, jobs, remembered>>

Restart ==
  /\ faults < MaxFaults
  /\ scans' = [s \in Scan |-> Idle] /\ remembered' = Nothing
  /\ faults' = faults + 1
  /\ UNCHANGED <<log, quiet, due, mergedInto, jobs>>

-----------------------------------------------------------------------------
ScanStep(s) ==
  \/ s = Sweeper /\ Sweep
  \/ ReadTurns(s) \/ Finish(s)
  \/ \E b \in scans[s].todo : Enqueue(s, b)

Next ==
  \/ \E t \in Turn : Ingest(t)
  \/ Settle \/ Forget \/ Restart
  \/ \E p, q \in Project : Merge(p, q)
  \/ \E j \in DOMAIN jobs : Retire(j)
  \/ \E s \in Scan :
       \/ \E p \in due : AfterTurn(s, p)
       \/ ScanStep(s) \/ Throw(s)

Spec == Init /\ [][Next]_vars
FairSpec == Spec /\ WF_vars(Settle) /\ WF_vars(Forget) /\ \A s \in Scan : WF_vars(ScanStep(s))

-----------------------------------------------------------------------------
(***************************************************************************)
(* Whatever scans run at once on whatever old reading of the ledger, no    *)
(* two L2 jobs of a project hold the same turn.                            *)
(***************************************************************************)
ClaimedOncePerProject ==
  \A i, j \in DOMAIN jobs :
    i # j /\ jobs[i].project = jobs[j].project => jobs[i].refs \cap jobs[j].refs = {}

(***************************************************************************)
(* Each L1 evidence ref is claimed by at most one L2 job                   *)
(* (docs/operations/distillation-and-tool-errors.md:25).                   *)
(***************************************************************************)
ClaimedOnce ==
  \A i, j \in DOMAIN jobs : i # j => jobs[i].refs \cap jobs[j].refs = {}

Claimed(t) == \E j \in DOMAIN jobs : t \in jobs[j].refs

(***************************************************************************)
(* Every ingested turn ends up in a job: a turn whose batch was refused or *)
(* whose scan died is taken up by a later pass (the comment at             *)
(* distillation-jobs.ts:743-746).                                          *)
(***************************************************************************)
EveryTurnClaimed == \A t \in Turn : t \in Ingested ~> Claimed(t)

(***************************************************************************)
(* The same as long as no row is retired: through stale readings of the    *)
(* ledger, refused batches, merges, scans that throw, restarts and sweeps  *)
(* that rely on a remembered scan.                                         *)
(***************************************************************************)
ClaimedUnlessRetired == [](\A j \in DOMAIN jobs : ~jobs[j].retired) => EveryTurnClaimed
=============================================================================
