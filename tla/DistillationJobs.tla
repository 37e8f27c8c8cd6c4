-------------------------- MODULE DistillationJobs --------------------------
(***************************************************************************)
(* The durable job queue of src/src/distillation-jobs.ts: enqueue, lease,  *)
(* renew, skip, the external write to Memory Core that a lease protects,   *)
(* its outcomes, retry.  A worker is one session of a harness: it keeps    *)
(* every credential <job, token> a lease answered it and may present any   *)
(* of them at any later time.  Wall-clock time is now; leases are for      *)
(* LeaseTime units, an external write is prepared for MinRemaining, and    *)
(* the HTTP client aborts a Core request after RequestTime.                *)
(*                                                                         *)
(* Assumed: a worker awaits its own Core request before it skips or fails  *)
(* the job (DistillationSubmit drops this); a request that is sent is      *)
(* aborted on time, and sent as soon as the lease is prepared.             *)
(***************************************************************************)
EXTENDS JobLedger

CONSTANTS Worker, HarnessOf, LeaseTime, MinRemaining, RequestTime,
          MaxTime, MaxJobs, MaxTokens

ASSUME HarnessOfAssumption == HarnessOf \in [Worker -> Harness]
ASSUME TimeAssumption ==
  /\ LeaseTime \subseteq Nat \ {0}
  /\ MinRemaining \in Nat /\ RequestTime \in Nat
  /\ RequestTime < MinRemaining

VARIABLES
  jobs,    \* the rows of jobs.json in file order; a job's id is its index
  now,     \* Date.now()
  issued,  \* how many lease tokens randomUUID has produced
  held,    \* held[w]: the credentials w has been given
  request  \* request[w]: the Core write w has under way

vars == <<jobs, now, issued, held, request>>

Idle == [phase |-> "none", job |-> 0, token |-> NoToken, deadline |-> 0]

TypeOK ==
  /\ jobs \in Seq(Job)
  /\ now \in Nat
  /\ issued \in Nat
  /\ held \in [Worker -> SUBSET [job : Nat, token : Nat]]
  /\ request \in [Worker -> [phase : {"none", "sent", "answered"}, job : Nat,
                             token : Nat, deadline : Int]]

Init ==
  /\ jobs = << >> /\ now = 0 /\ issued = 0
  /\ held = [w \in Worker |-> {}]
  /\ request = [w \in Worker |-> Idle]

Update(j, row) == jobs' = [jobs EXCEPT ![j] = row]

-----------------------------------------------------------------------------
\* enqueueJob: an existing row with the same hash, or for L2 one that shares
\* a ref, is returned instead.  Rows count whatever their status.
Claimed(t, p, refs) ==
  \E j \in DOMAIN jobs :
    /\ jobs[j].target = t /\ jobs[j].project = p
    /\ jobs[j].refs = refs \/ (t = "l2" /\ jobs[j].refs \cap refs # {})

Enqueue(t, p, refs) ==
  /\ Len(jobs) < MaxJobs
  /\ InScope(t, p) /\ refs # {}
  /\ ~Claimed(t, p, refs)
  /\ jobs' = Append(jobs, NewJob(t, p, refs))
  /\ UNCHANGED <<now, issued, held, request>>

\* recordCompletedDistillationRevision: the same revision is recorded once.
RecordRevision(t, p, refs, m) ==
  /\ Len(jobs) < MaxJobs
  /\ t # "skill" /\ InScope(t, p) /\ refs # {}
  /\ \A j \in DOMAIN jobs : jobs[j] # CompletedRevision(t, p, refs, m)
  /\ jobs' = Append(jobs, CompletedRevision(t, p, refs, m))
  /\ UNCHANGED <<now, issued, held, request>>

\* leaseDistillationJob: the first row that fits, in file order.
Fits(job, P, T, withToken) ==
  job.project \in P /\ job.target \in T /\ Leasable(job, now, withToken)

Lease(w, P, T, withToken, seconds) ==
  /\ withToken => issued < MaxTokens
  /\ \E j \in DOMAIN jobs :
       /\ Fits(jobs[j], P, T, withToken)
       /\ \A i \in DOMAIN jobs : i < j => ~Fits(jobs[i], P, T, withToken)
       /\ LET token == IF withToken THEN issued + 1 ELSE NoToken IN
          /\ Update(j, Leased(jobs[j], HarnessOf[w], token, now + seconds))
          /\ held' = [held EXCEPT ![w] = @ \cup {[job |-> j, token |-> token]}]
          /\ issued' = IF withToken THEN token ELSE issued
  /\ UNCHANGED <<now, request>>

Renew(w, c, seconds) ==
  /\ c.job \in DOMAIN jobs /\ c.token # NoToken
  /\ ActiveLease(jobs[c.job], HarnessOf[w], c.token, now)
  /\ Update(c.job, Renewed(jobs[c.job], now, seconds))
  /\ UNCHANGED <<now, issued, held, request>>

\* skipDistillationControl, by completeDistillationJob.
Skip(w, c) ==
  /\ request[w].phase = "none"
  /\ c.job \in DOMAIN jobs
  /\ ActiveLease(jobs[c.job], HarnessOf[w], c.token, now)
  /\ Update(c.job, Completed(jobs[c.job], "noop"))
  /\ UNCHANGED <<now, issued, held, request>>

\* failDistillationJob
Fail(w, c) ==
  /\ request[w].phase = "none"
  /\ c.job \in DOMAIN jobs
  /\ ActiveLease(jobs[c.job], HarnessOf[w], c.token, now)
  /\ Update(c.job, Failed(jobs[c.job], "core_error"))
  /\ UNCHANGED <<now, issued, held, request>>

-----------------------------------------------------------------------------
\* prepareDistillationLeaseForExternalWrite, and the request it is for.
Send(w, c) ==
  /\ request[w].phase = "none"
  /\ c.job \in DOMAIN jobs
  /\ ActiveLease(jobs[c.job], HarnessOf[w], c.token, now)
  /\ LongEnough(jobs[c.job], now, MinRemaining)
  /\ Update(c.job, Prepared(jobs[c.job], now, MinRemaining))
  /\ request' = [request EXCEPT ![w] =
       [phase |-> "sent", job |-> c.job, token |-> c.token,
        deadline |-> now + RequestTime]]
  /\ UNCHANGED <<now, issued, held>>

\* Core answers (success or a definite error); the worker goes on when it can.
Answer(w) ==
  /\ request[w].phase = "sent"
  /\ request' = [request EXCEPT ![w].phase = "answered"]
  /\ UNCHANGED <<jobs, now, issued, held>>

\* No answer is certain: the job stays leased until it expires.
Ambiguous(w) ==
  /\ request[w].phase = "sent"
  /\ request' = [request EXCEPT ![w] = Idle]
  /\ UNCHANGED <<jobs, now, issued, held>>

\* completeDistillationJobAfterCoreCommit, quarantine..AfterCoreCommit and
\* failDistillationJobForLeaseGeneration: refused when the generation changed.
Outcome(job) ==
  {Completed(job, m) : m \in Memory} \cup
  {Failed(job, k) : k \in {"core_error", "ambiguous_core_commit"}}

Settle(w) ==
  /\ request[w].phase = "answered"
  /\ LET j == request[w].job IN
       IF SameGeneration(jobs[j], HarnessOf[w], request[w].token, now)
       THEN \E row \in Outcome(jobs[j]) : Update(j, row)
       ELSE UNCHANGED jobs
  /\ request' = [request EXCEPT ![w] = Idle]
  /\ UNCHANGED <<now, issued, held>>

\* retryDistillationJob, by an administrator.
Retry(j) ==
  /\ Retryable(jobs[j])
  /\ Update(j, Retried(jobs[j]))
  /\ UNCHANGED <<now, issued, held, request>>

\* The server or the session dies; the ledger stays.
Crash(w) ==
  /\ request' = [request EXCEPT ![w] = Idle]
  /\ \E kept \in SUBSET held[w] : held' = [held EXCEPT ![w] = kept]
  /\ UNCHANGED <<jobs, now, issued>>

\* Time passes, but not past the abort of a request under way.
Tick ==
  /\ now < MaxTime
  /\ \A w \in Worker : request[w].phase = "sent" => now < request[w].deadline
  /\ now' = now + 1
  /\ UNCHANGED <<jobs, issued, held, request>>

Scope == Project \cup {NoProject}
OneOrAll(S) == {S} \cup {{x} : x \in S}

Act(w) ==
  \/ \E P \in OneOrAll(Scope), T \in OneOrAll(Target), tok \in BOOLEAN, s \in LeaseTime :
       Lease(w, P, T, tok, s)
  \/ \E c \in held[w] : \/ \E s \in LeaseTime : Renew(w, c, s)
                        \/ Skip(w, c) \/ Fail(w, c) \/ Send(w, c)
  \/ Answer(w) \/ Ambiguous(w) \/ Settle(w) \/ Crash(w)

Next ==
  \/ \E t \in Target, p \in Scope, refs \in SUBSET Ref :
       \/ Enqueue(t, p, refs)
       \/ \E m \in Memory : RecordRevision(t, p, refs, m)
  \/ \E w \in Worker : Act(w)
  \/ \E j \in DOMAIN jobs : Retry(j)
  \/ Tick

Spec == Init /\ [][Next]_vars

-----------------------------------------------------------------------------
(***************************************************************************)
(* At most one session can settle a leased job: no two sessions, even of   *)
(* one harness, ever hold a credential that the ledger accepts for the     *)
(* same row (leaseDistillationJob: owner-only leases are single-use).      *)
(***************************************************************************)
Accepted(w, j) ==
  \E c \in held[w] : c.job = j /\ Presents(jobs[j], HarnessOf[w], c.token)

SoleHolder ==
  \A j \in DOMAIN jobs, v, w \in Worker : Accepted(v, j) /\ Accepted(w, j) => v = w

(***************************************************************************)
(* While a worker's request is on its way to Memory Core its lease is live *)
(* under its own generation, so nobody else can lease the job and write it *)
(* a second time (prepareDistillationLeaseForExternalWrite: enough budget  *)
(* to outlive the local Core client's bounded request timeout).            *)
(***************************************************************************)
WriteFenced ==
  \A w \in Worker :
    request[w].phase = "sent" =>
      /\ request[w].job \in DOMAIN jobs
      /\ ActiveLease(jobs[request[w].job], HarnessOf[w], request[w].token, now)

(***************************************************************************)
(* A completed job and a job quarantined as an ambiguous Core commit are   *)
(* never leased, retried, failed or completed again by any caller, however *)
(* late it presents its credential; and no row is ever removed.            *)
(***************************************************************************)
Final(job) == job.status = "completed" \/ job.failure = "ambiguous_core_commit"

SettledForGood ==
  [][ \A j \in DOMAIN jobs :
        j \in DOMAIN jobs' /\ (Final(jobs[j]) => jobs'[j] = jobs[j]) ]_vars
=============================================================================
