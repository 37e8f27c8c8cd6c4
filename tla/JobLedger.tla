----------------------------- MODULE JobLedger -----------------------------
(***************************************************************************)
(* One row of distillation/jobs.json (src/src/distillation-jobs.ts) and    *)
(* what the ledger's mutations do to it.  Every mutation runs under the    *)
(* store's file lock and replaces the file by rename, so each is one step  *)
(* of the modules that use these operators.                                *)
(*                                                                         *)
(* Abstracted: evidence is the set of its refs (the evidence hash then     *)
(* identifies target, project and refs); a result is its Core memory id;   *)
(* timestamps other than leased_until, messages and reasons are left out.  *)
(* A missing lease token is NoToken; random tokens are drawn from Nat.     *)
(***************************************************************************)
EXTENDS Integers, Sequences

CONSTANTS Target,    \* the layers in use
          Harness,   \* values of source_harness
          Project,
          Ref,       \* evidence refs
          Memory,    \* Core memory ids
          Nobody,    \* no leased_by
          NoProject, \* project_id null
          Unset      \* no result_id

ASSUME TargetAssumption == Target \subseteq {"l2", "l3", "l4", "skill"}

Status == {"pending", "leased", "completed", "failed"}
FailureKind == {"none", "core_error", "ambiguous_core_commit"}
NoToken == 0

\* The longer of two times (Math.max).
Later(a, b) == IF a >= b THEN a ELSE b

\* leased_by, lease_token, leased_until
LeaseFields == [by : Harness \cup {Nobody}, token : Nat, until : Int]
NoLease == [by |-> Nobody, token |-> NoToken, until |-> 0]

Job == [target : Target, project : Project \cup {NoProject}, refs : SUBSET Ref,
        status : Status, attempts : Nat, lease : LeaseFields,
        failure : FailureKind, result : Memory \cup {"noop", Unset}]

NewJob(t, p, refs) ==
  [target |-> t, project |-> p, refs |-> refs, status |-> "pending",
   attempts |-> 0, lease |-> NoLease, failure |-> "none", result |-> Unset]

\* Scope rules of the enqueue functions.
InScope(t, p) == /\ t \in {"l2", "l3"} => p # NoProject
                 /\ t = "l4" => p = NoProject

Released(job) == [job EXCEPT !.lease = NoLease]

Completed(job, result) ==
  [Released(job) EXCEPT !.status = "completed", !.result = result]

\* recordCompletedDistillationRevision appends a row that is born completed.
CompletedRevision(t, p, refs, m) == Completed(NewJob(t, p, refs), m)

Failed(job, kind) == [Released(job) EXCEPT !.status = "failed", !.failure = kind]

Expired(job, now) == job.status = "leased" /\ job.lease.until <= now

\* Mutant: an owner-only lease may be handed out again.
LeasableAgain(job, now, withToken) == job.status = "pending" \/ Expired(job, now)

\* Owner-only leases are single-use; every reassignment requires a token.
Leasable(job, now, withToken) ==
  /\ job.status = "pending" \/ Expired(job, now)
  /\ withToken \/ (job.status = "pending" /\ job.lease.token = NoToken /\ job.attempts = 0)

Leased(job, h, token, until) ==
  [job EXCEPT !.status = "leased", !.attempts = @ + 1,
              !.lease = [by |-> h, token |-> token, until |-> until]]

Presents(job, h, token) ==
  job.status = "leased" /\ job.lease.by = h /\ job.lease.token = token

\* assertActiveDistillationLease
ActiveLease(job, h, token, now) == Presents(job, h, token) /\ job.lease.until > now

\* assertPostCoreCommitLeaseGeneration: a token outlives the deadline.
SameGeneration(job, h, token, now) ==
  Presents(job, h, token) /\ (token # NoToken \/ job.lease.until > now)

\* renewDistillationJobLease: the deadline never moves back.
Renewed(job, now, seconds) == [job EXCEPT !.lease.until = Later(@, now + seconds)]

\* prepareDistillationLeaseForExternalWrite: its check, and its extension.
LongEnough(job, now, minimum) == job.lease.token # NoToken \/ job.lease.until - now >= minimum
\* Mutant: a short token lease is not extended.
PreparedAsIs(job, now, minimum) == job

Prepared(job, now, minimum) ==
  IF job.lease.token # NoToken /\ job.lease.until - now < minimum
  THEN [job EXCEPT !.lease.until = now + minimum] ELSE job

\* Mutant: a quarantined commit may be retried.
RetryableAny(job) == job.status = "failed"

\* retryDistillationJob
Retryable(job) == job.status = "failed" /\ job.failure # "ambiguous_core_commit"
Retried(job) == [Released(job) EXCEPT !.status = "pending", !.failure = "none"]
=============================================================================
