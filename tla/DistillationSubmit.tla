------------------------- MODULE DistillationSubmit -------------------------
(***************************************************************************)
(* submitDistillationControl (src/src/distillation-submit.ts) for the L2   *)
(* jobs of one project: the write of a candidate to Memory Core and its    *)
(* record in the job ledger, under the artifact's commit lock, with the    *)
(* commit record that makes the write recoverable.  Also the operator's    *)
(* reconcile/abandon and the pruning of old commit records.                *)
(*                                                                         *)
(* The clock is abstracted: a lease runs until 1 and the time is 0; it may *)
(* expire at any moment (until becomes 0).  The commit lock is Mutex, given*)
(* up on death (FileLock): all that a submit decides on it reads again     *)
(* under the lock, so it starts when it takes it, one submit at a time is  *)
(* under way, and "free" is when none is.  Memory Core is external: it     *)
(* applies a request at most once, late or never, a definite rejection     *)
(* means it did not, and reconciliation reads whether it did.              *)
(* Left out: dry runs, the next-layer enqueue and the project description  *)
(* that follow completion (their errors are swallowed), job-less and Skill *)
(* submissions, retired results.  artifact_id is the canonical one.        *)
(***************************************************************************)
EXTENDS JobLedger, FiniteSets

CONSTANTS
  Job0,           \* the ledger's rows at the start
  Heading,        \* event headings of the project timeline; a content is a set of them
  NoCommit,
  MaxTokens,
  ReconcileRefused \* reconciliation may be answered 400, 401, 403, 409 or 422

\* The ledger starts with no result that Core would have to hold.
ASSUME Job0Assumption ==
  /\ Job0 \in Seq(Job)
  /\ \A j \in DOMAIN Job0 :
       Job0[j].result = IF Job0[j].status = "completed" THEN "noop" ELSE Unset
ASSUME TokenBoundAssumption == MaxTokens \in Nat

VARIABLES
  jobs, issued,  \* as in DistillationJobs
  pc,        \* where the submit that holds the commit lock is, "free" if none does
  cand,      \* its candidate
  cred,      \* the lease token it presents
  done,      \* it found the job completed
  commit,    \* the artifact's commit record, or NoCommit
  doomed,    \* the generation a pruner has found terminal and is about to unlink
  wire,      \* writes sent to Core that may still be applied
  core,      \* the writes Core has applied, in order
  spent,     \* generations drawn
  abandoned  \* generations an operator gave up (history)

ledger == <<jobs, issued>>
submit == <<pc, cand, cred, done>>
files == <<commit, doomed>>
outside == <<wire, core, spent, abandoned>>
vars == <<ledger, submit, files, outside>>

Now == 0
Candidate == [job : DOMAIN Job0, harness : Harness, content : SUBSET Heading]
Write == [gen : Memory, cand : Candidate]
Applied == [gen : Memory, cand : Candidate, stable : BOOLEAN]
Commit == [gen : Memory, cand : Candidate, result : {"none", "stable", "idless"},
           rejected : BOOLEAN, response : BOOLEAN]

\* A record is told from none, and Core's ids are neither of the other results.
ASSUME NamesAssumption ==
  /\ NoCommit \notin Commit
  /\ Memory \cap {"noop", Unset} = {}

TypeOK ==
  /\ jobs \in [DOMAIN Job0 -> Job]
  /\ issued \in 0..MaxTokens
  /\ commit \in Commit \cup {NoCommit}
  /\ doomed \in Memory \cup {Unset}
  /\ pc \in {"free", "prepare", "open", "send", "await", "reconcile",
             "reject", "failJob", "result", "respond"}
  /\ wire \in SUBSET Write /\ \A x \in wire : x.gen \in spent
  /\ core \in Seq(Applied)
  /\ abandoned \subseteq spent /\ spent \subseteq Memory

Init ==
  /\ jobs = Job0 /\ issued = 0
  /\ pc = "free" /\ cand = Unset /\ cred = NoToken /\ done = FALSE
  /\ commit = NoCommit /\ doomed = Unset
  /\ wire = {} /\ core = << >> /\ spent = {} /\ abandoned = {}

Update(j, row) == jobs' = [jobs EXCEPT ![j] = row]
Goto(l) == pc' = l /\ UNCHANGED <<cand, cred, done>>

\* The submit ends, by returning or by throwing: the commit lock is released.
End == pc' = "free" /\ cand' = Unset /\ cred' = NoToken /\ done' = FALSE

Terminal(c) == c.response \/ c.rejected
Open(c) == c # NoCommit /\ ~Terminal(c)
AppliedWrite(g) == \E i \in DOMAIN core : core[i].gen = g
ResultOf(g) == IF \E i \in DOMAIN core : core[i].gen = g /\ core[i].stable
               THEN "stable" ELSE "idless"

-----------------------------------------------------------------------------
\* What the ledger does meanwhile (DistillationJobs).

Lease(h, withToken) ==
  /\ withToken => issued < MaxTokens
  /\ \E j \in DOMAIN jobs :
       /\ Leasable(jobs[j], Now, withToken)
       /\ \A i \in DOMAIN jobs : i < j => ~Leasable(jobs[i], Now, withToken)
       /\ LET token == IF withToken THEN issued + 1 ELSE NoToken IN
          /\ Update(j, Leased(jobs[j], h, token, 1))
          /\ issued' = IF withToken THEN token ELSE issued
  /\ UNCHANGED <<submit, files, outside>>

ExpireLease(j) ==
  /\ jobs[j].status = "leased" /\ jobs[j].lease.until = 1
  /\ Update(j, [jobs[j] EXCEPT !.lease.until = 0])
  /\ UNCHANGED <<issued, submit, files, outside>>

\* By the session that was handed the lease.
Skip(j) ==
  /\ ActiveLease(jobs[j], jobs[j].lease.by, jobs[j].lease.token, Now)
  /\ Update(j, Completed(jobs[j], "noop"))
  /\ UNCHANGED <<issued, submit, files, outside>>

Retry(j) ==
  /\ Retryable(jobs[j])
  /\ Update(j, Retried(jobs[j]))
  /\ UNCHANGED <<issued, submit, files, outside>>

-----------------------------------------------------------------------------
\* The completed L2 revision that was committed last.
CompletedWrites ==
  {i \in DOMAIN core : \E j \in DOMAIN jobs :
     jobs[j].status = "completed" /\ jobs[j].result = core[i].gen}

\* assertRoutineL2PreservesCanonicalTimeline
PreservesTimeline(content) ==
  \A i \in CompletedWrites :
    (\A k \in CompletedWrites : k <= i) => core[i].cand.content \subseteq content

\* The record holds this very candidate: a replay, not a new operation.
Replays(x) == commit # NoCommit /\ commit.cand = x /\ ~commit.rejected

\* Mutant: the timeline check is left out.
AdmittedDelta(x, token) ==
  /\ Open(commit) => Replays(x)
  /\ \/ Replays(x) /\ commit.result # "none" /\ jobs[x.job].status = "completed"
     \/ ActiveLease(jobs[x.job], x.harness, token, Now)

Admitted(x, token) ==
  /\ Open(commit) => Replays(x)
  /\ \/ Replays(x) /\ commit.result # "none" /\ jobs[x.job].status = "completed"
     \/ ActiveLease(jobs[x.job], x.harness, token, Now)
  /\ PreservesTimeline(x.content)

\* A session submits a candidate with the token it was handed, and goes on
\* unless the record answers it or it is refused, which changes nothing.
Begin(x, token) ==
  /\ pc = "free"
  /\ ~(Replays(x) /\ commit.response) /\ Admitted(x, token)
  /\ pc' = "prepare" /\ cand' = x /\ cred' = token
  /\ done' = (jobs[x.job].status = "completed")
  /\ UNCHANGED <<ledger, files, outside>>

\* prepareDistillationLeaseForExternalWrite, unless the job is completed.
Prepare ==
  LET j == cand.job
      active == ActiveLease(jobs[j], cand.harness, cred, Now)
  IN /\ pc = "prepare"
     /\ IF ~done /\ active THEN Update(j, Prepared(jobs[j], Now, 1)) ELSE UNCHANGED jobs
     /\ IF done \/ active THEN Goto("open") ELSE End
     /\ UNCHANGED <<issued, files, outside>>

\* Mutant: the generation is not drawn anew for each operation.
ReusedGeneration(g) ==
  /\ UNCHANGED spent
  /\ commit' = [gen |-> g, cand |-> cand, result |-> "none",
                rejected |-> FALSE, response |-> FALSE]

NewOperation(g) ==
  /\ spent' = spent \cup {g}
  /\ commit' = [gen |-> g, cand |-> cand, result |-> "none",
                rejected |-> FALSE, response |-> FALSE]

\* The frozen candidate is on disk before anything is sent.
SaveOpen ==
  /\ pc = "open"
  /\ \/ /\ Replays(cand)
        /\ Goto(IF commit.result = "none" THEN "reconcile" ELSE "result")
        /\ UNCHANGED <<commit, spent>>
     \/ /\ ~Replays(cand)
        /\ \E g \in Memory \ spent : NewOperation(g)
        /\ Goto("send")
  /\ UNCHANGED <<ledger, doomed, wire, core, abandoned>>

SendWrite ==
  /\ pc = "send"
  /\ wire' = wire \cup {[gen |-> commit.gen, cand |-> cand]}
  /\ Goto("await")
  /\ UNCHANGED <<ledger, files, core, spent, abandoned>>

\* Core answered the write or the reconciliation with what it applied.
SaveResult ==
  /\ pc \in {"await", "reconcile"}
  /\ AppliedWrite(commit.gen)
  /\ commit' = [commit EXCEPT !.result = ResultOf(commit.gen)]
  /\ Goto("result")
  /\ UNCHANGED <<ledger, doomed, outside>>

\* Timeout, disconnect, 5xx, or "outcome is unknown": the record stays open.
Ambiguous ==
  /\ pc \in {"await", "reconcile"}
  /\ End
  /\ UNCHANGED <<ledger, files, outside>>

\* Mutant: any error is taken for a definite rejection.
AnyErrorRefused ==
  /\ pc = "await"
  /\ Goto("reject")
  /\ UNCHANGED <<ledger, files, outside>>

\* 400, 401, 403, 409 or 422.
Refused ==
  /\ \/ /\ pc = "await"
        /\ \E x \in wire : x.gen = commit.gen /\ wire' = wire \ {x}
     \/ pc = "reconcile" /\ ReconcileRefused /\ UNCHANGED wire
  /\ Goto("reject")
  /\ UNCHANGED <<ledger, files, core, spent, abandoned>>

SaveRejected ==
  /\ pc = "reject"
  /\ commit' = [commit EXCEPT !.rejected = TRUE]
  /\ Goto("failJob")
  /\ UNCHANGED <<ledger, doomed, outside>>

\* The ledger takes an outcome of this lease generation only; its refusal is
\* an error of the submit, which ends either way.
Generation == SameGeneration(jobs[cand.job], cand.harness, cred, Now)

FailJob(kind) ==
  /\ IF Generation THEN Update(cand.job, Failed(jobs[cand.job], kind)) ELSE UNCHANGED jobs
  /\ End
  /\ UNCHANGED <<issued, files, outside>>

FailRejected == pc = "failJob" /\ FailJob("core_error")

\* Core's answer has no stable id.
Quarantine ==
  pc = "result" /\ commit.result = "idless" /\ FailJob("ambiguous_core_commit")

\* Mutant: the job is completed before Core has answered.
CompleteUnanswered ==
  /\ pc = "await"
  /\ IF ~done /\ Generation THEN Update(cand.job, Completed(jobs[cand.job], commit.gen))
                             ELSE UNCHANGED jobs
  /\ IF done \/ Generation THEN Goto("respond") ELSE End
  /\ UNCHANGED <<issued, files, outside>>

CompleteJob ==
  /\ pc = "result" /\ commit.result = "stable"
  /\ IF ~done /\ Generation THEN Update(cand.job, Completed(jobs[cand.job], commit.gen))
                             ELSE UNCHANGED jobs
  /\ IF done \/ Generation THEN Goto("respond") ELSE End
  /\ UNCHANGED <<issued, files, outside>>

Respond ==
  /\ pc = "respond"
  /\ commit' = [commit EXCEPT !.response = TRUE]
  /\ End
  /\ UNCHANGED <<ledger, doomed, outside>>

\* The server process dies; the session keeps what it was given.
Crash ==
  /\ pc # "free"
  /\ End
  /\ UNCHANGED <<ledger, files, outside>>

-----------------------------------------------------------------------------
\* pruneDistillationCommitRecords: list, then unlink under the record's lock.
FindTerminal ==
  /\ commit # NoCommit /\ Terminal(commit) /\ doomed = Unset
  /\ doomed' = commit.gen
  /\ UNCHANGED <<ledger, submit, commit, outside>>

\* Mutant: the generation is not checked again under the lock.
PruneUnchecked ==
  /\ doomed # Unset /\ pc = "free"
  /\ commit' = NoCommit
  /\ doomed' = Unset
  /\ UNCHANGED <<ledger, submit, outside>>

Prune ==
  /\ doomed # Unset /\ pc = "free"
  /\ commit' = IF commit # NoCommit /\ commit.gen = doomed /\ Terminal(commit)
               THEN NoCommit ELSE commit
  /\ doomed' = Unset
  /\ UNCHANGED <<ledger, submit, outside>>

\* reconcileDistillationCommit, by an operator who gives the generation.
OperatorReconcile ==
  /\ pc = "free" /\ Open(commit)
  /\ commit.result = "none" /\ AppliedWrite(commit.gen) /\ ResultOf(commit.gen) = "stable"
  /\ commit' = [commit EXCEPT !.result = "stable"]
  /\ UNCHANGED <<ledger, submit, doomed, outside>>

OperatorAbandon ==
  /\ pc = "free" /\ Open(commit)
  /\ commit' = [commit EXCEPT !.rejected = TRUE]
  /\ abandoned' = abandoned \cup {commit.gen}
  /\ UNCHANGED <<ledger, submit, doomed, wire, core, spent>>

\* Memory Core applies a write, sooner or later; a lost one stays on the wire.
CoreApply(x) ==
  /\ wire' = wire \ {x}
  /\ \E stable \in BOOLEAN :
       core' = Append(core, [gen |-> x.gen, cand |-> x.cand, stable |-> stable])
  /\ UNCHANGED <<ledger, submit, files, spent, abandoned>>

-----------------------------------------------------------------------------
Submit ==
  \/ Prepare \/ SaveOpen \/ SendWrite \/ SaveResult \/ Ambiguous \/ Refused
  \/ SaveRejected \/ FailRejected \/ Quarantine \/ CompleteJob \/ Respond \/ Crash

Next ==
  \/ \E h \in Harness, tok \in BOOLEAN : Lease(h, tok)
  \/ \E x \in Candidate, token \in 0..issued : Begin(x, token)
  \/ Submit
  \/ \E j \in DOMAIN jobs : ExpireLease(j) \/ Skip(j) \/ Retry(j)
  \/ FindTerminal \/ Prune \/ OperatorReconcile \/ OperatorAbandon
  \/ \E x \in wire : CoreApply(x)

Spec == Init /\ [][Next]_vars

-----------------------------------------------------------------------------
(***************************************************************************)
(* Core applies at most one write for a job, through timeouts, crashes,    *)
(* lease reassignments, retries and lost records, unless an operator gave  *)
(* one of the two up after the warning that Core may contain it.           *)
(***************************************************************************)
NoDuplicateWrite ==
  \A i, k \in DOMAIN core :
    i # k /\ core[i].cand.job = core[k].cand.job =>
      core[i].gen \in abandoned \/ core[k].gen \in abandoned

(***************************************************************************)
(* A job the ledger shows completed with a result has that result in Core, *)
(* written for this job.                                                   *)
(***************************************************************************)
CompletedNamesWrite ==
  \A j \in DOMAIN jobs :
    jobs[j].status = "completed" /\ jobs[j].result # "noop" =>
      \E i \in DOMAIN core :
        core[i].gen = jobs[j].result /\ core[i].cand.job = j /\ core[i].stable

(***************************************************************************)
(* No write is lost: what Core applied is named by the ledger, or its      *)
(* commit record is still open for replay, or an operator gave it up, or   *)
(* the session skipped the job while the write was in doubt.               *)
(***************************************************************************)
NoLostWrite ==
  \A i \in DOMAIN core :
    \/ core[i].gen \in abandoned
    \/ Open(commit) /\ commit.gen = core[i].gen
    \/ jobs[core[i].cand.job].result \in {core[i].gen, "noop"}

(***************************************************************************)
(* Completed revisions of the project timeline only ever grow: a later one *)
(* holds every event heading of an earlier one.                            *)
(***************************************************************************)
TimelinePreserved ==
  \A i, k \in CompletedWrites : i < k => core[i].cand.content \subseteq core[k].cand.content
=============================================================================
