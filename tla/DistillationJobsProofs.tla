----------------------- MODULE DistillationJobsProofs -----------------------
(***************************************************************************)
(* Proofs about DistillationJobs, for every number of workers, jobs and    *)
(* tokens, every lease length and every request timeout shorter than the   *)
(* budget an external write is prepared with.                              *)
(***************************************************************************)
EXTENDS DistillationJobs, SequenceTheorems, TLAPS

Credential == [job : Nat, token : Nat]

\* A failure is recorded on failed rows only.
FailureRecorded ==
  \A j \in DOMAIN jobs : jobs[j].failure # "none" => jobs[j].status = "failed"

\* Every credential names a row and a lease that was given.
CredentialsGiven ==
  \A w \in Worker : \A c \in held[w] :
    /\ c.job \in DOMAIN jobs
    /\ c.token <= issued
    /\ c.token = NoToken => jobs[c.job].attempts > 0

\* No credential is given twice.
CredentialsOnce ==
  \A v, w \in Worker : \A c \in held[v] \cap held[w] : v = w

\* A write under way uses a credential its worker still has.
WriteHeld ==
  \A w \in Worker :
    request[w].phase # "none" =>
      [job |-> request[w].job, token |-> request[w].token] \in held[w]

\* The prepared lease outlives the abort of the request.
WriteInTime ==
  \A w \in Worker :
    request[w].phase = "sent" =>
      /\ Presents(jobs[request[w].job], HarnessOf[w], request[w].token)
      /\ now <= request[w].deadline
      /\ request[w].deadline < jobs[request[w].job].lease.until

LeaseInv == /\ TypeOK /\ FailureRecorded /\ CredentialsGiven
            /\ CredentialsOnce /\ WriteHeld /\ WriteInTime

-----------------------------------------------------------------------------
\* The ledger's mutations keep a row a row.
LEMMA LeasedType ==
  ASSUME NEW job \in Job, NEW h \in Harness, NEW token \in Nat, NEW until \in Int
  PROVE  Leased(job, h, token, until) \in Job
<1>1. [by |-> h, token |-> token, until |-> until] \in LeaseFields
  BY DEF LeaseFields
<1>2. job.attempts + 1 \in Nat
  BY DEF Job
<1>. QED  BY <1>1, <1>2 DEF Job, Leased, Status

LEMMA ExtendedType ==
  ASSUME NEW job \in Job, NEW t0 \in Nat, NEW s \in Nat
  PROVE  Renewed(job, t0, s) \in Job /\ Prepared(job, t0, s) \in Job
<1>1. Later(job.lease.until, t0 + s) \in Int
  BY DEF Job, LeaseFields, Later
<1>2. Renewed(job, t0, s) \in Job
  BY <1>1 DEF Job, LeaseFields, Renewed
<1>3. Prepared(job, t0, s) \in Job
  BY DEF Job, LeaseFields, Prepared
<1>. QED  BY <1>2, <1>3

LEMMA SettledType ==
  ASSUME NEW job \in Job
  PROVE  /\ \A r \in Memory \cup {"noop"} : Completed(job, r) \in Job
         /\ \A k \in FailureKind : Failed(job, k) \in Job
         /\ Retried(job) \in Job
<1>1. Released(job) \in Job
  BY DEF Job, LeaseFields, Released, NoLease, NoToken
<1>2. ASSUME NEW r \in Memory \cup {"noop"}  PROVE Completed(job, r) \in Job
  BY <1>1 DEF Job, Completed, Status
<1>3. ASSUME NEW k \in FailureKind  PROVE Failed(job, k) \in Job
  BY <1>1 DEF Job, Failed, Status
<1>4. Retried(job) \in Job
  BY <1>1 DEF Job, Retried, Status, FailureKind
<1>. QED  BY <1>2, <1>3, <1>4

LEMMA NewJobType ==
  ASSUME NEW t \in Target, NEW p \in Scope, NEW refs \in SUBSET Ref
  PROVE  NewJob(t, p, refs) \in Job
BY DEF Job, LeaseFields, NoLease, NewJob, Scope, Status, FailureKind, NoToken

\* What settling a row that records no failure does to it.
LEMMA SettledRow ==
  ASSUME NEW job \in Job, job.failure = "none",
         NEW row \in {Completed(job, r) : r \in Memory \cup {"noop"}} \cup
                     {Failed(job, k) : k \in FailureKind}
  PROVE  /\ row \in Job /\ row.attempts = job.attempts
         /\ row.failure # "none" => row.status = "failed"
<1>1. CASE \E r \in Memory \cup {"noop"} : row = Completed(job, r)
  BY <1>1, SettledType DEF Completed, Released, Job
<1>2. CASE \E k \in FailureKind : row = Failed(job, k)
  BY <1>2, SettledType DEF Failed, Released, Job
<1>. QED  BY <1>1, <1>2

\* Replacing one row leaves a ledger of the same length.
LEMMA UpdateRow ==
  ASSUME NEW S, jobs \in Seq(S), NEW j \in DOMAIN jobs, NEW row \in S, Update(j, row)
  PROVE  /\ jobs' \in Seq(S)
         /\ DOMAIN jobs' = DOMAIN jobs
         /\ jobs'[j] = row
         /\ \A i \in DOMAIN jobs : i # j => jobs'[i] = jobs[i]
BY DEF Update

LEMMA AppendRow ==
  ASSUME NEW S, jobs \in Seq(S), NEW row \in S, jobs' = Append(jobs, row)
  PROVE  /\ jobs' \in Seq(S)
         /\ DOMAIN jobs' = DOMAIN jobs \cup {Len(jobs) + 1}
         /\ Len(jobs) + 1 \notin DOMAIN jobs
         /\ jobs'[Len(jobs) + 1] = row
         /\ \A i \in DOMAIN jobs : jobs'[i] = jobs[i]
OBVIOUS

-----------------------------------------------------------------------------
LEMMA InitLeaseInv == Init => LeaseInv
BY DEF Init, LeaseInv, TypeOK, FailureRecorded, CredentialsGiven, CredentialsOnce,
       WriteHeld, WriteInTime, Idle, NoToken

\* A worker that presents an accepted credential is alone in writing the job.
LEMMA OnlyWriter ==
  ASSUME LeaseInv, NEW v \in Worker, NEW w \in Worker, NEW c \in held[w],
         Presents(jobs[c.job], HarnessOf[w], c.token),
         request[v].phase = "sent", request[v].job = c.job
  PROVE  v = w
<1>1. request[v].token = c.token
  BY DEF LeaseInv, WriteInTime, Presents
<1>2. c \in Credential
  BY DEF LeaseInv, TypeOK, Credential
<1>3. c = [job |-> c.job, token |-> c.token]
  BY <1>2 DEF Credential
<1>4. [job |-> request[v].job, token |-> request[v].token] \in held[v]
  BY DEF LeaseInv, WriteHeld
<1>5. c \in held[v] \cap held[w]
  BY <1>1, <1>3, <1>4
<1>. QED  BY <1>5 DEF LeaseInv, CredentialsOnce

RequestType == [phase : {"none", "sent", "answered"}, job : Nat,
                token : Nat, deadline : Int]

\* What an update of one row has to show.
LEMMA UpdateKeeps ==
  ASSUME LeaseInv, NEW j \in DOMAIN jobs, NEW row \in Job, Update(j, row),
         UNCHANGED <<now, issued, held>>,
         request' \in [Worker -> RequestType],
         row.failure # "none" => row.status = "failed",
         row.attempts >= jobs[j].attempts,
         WriteHeld',
         \A w \in Worker : request'[w].phase = "sent" =>
           \/ /\ request'[w].job = j
              /\ Presents(row, HarnessOf[w], request'[w].token)
              /\ now <= request'[w].deadline
              /\ request'[w].deadline < row.lease.until
           \/ request'[w].job # j /\ request'[w] = request[w]
  PROVE  LeaseInv'
<1>. /\ TypeOK /\ FailureRecorded /\ CredentialsGiven
     /\ CredentialsOnce /\ WriteHeld /\ WriteInTime
  BY DEF LeaseInv
<1>1. /\ jobs' \in Seq(Job) /\ DOMAIN jobs' = DOMAIN jobs /\ jobs'[j] = row
      /\ \A i \in DOMAIN jobs : i # j => jobs'[i] = jobs[i]
  <2>. jobs \in Seq(Job)
    BY DEF TypeOK
  <2>. QED  BY UpdateRow
<1>2. TypeOK'
  BY <1>1 DEF TypeOK, RequestType
<1>3. FailureRecorded'
  BY <1>1 DEF FailureRecorded
<1>4. CredentialsGiven'
  <2>. SUFFICES ASSUME NEW w \in Worker, NEW c \in held[w]
                PROVE  /\ c.job \in DOMAIN jobs'
                       /\ c.token <= issued
                       /\ c.token = NoToken => jobs'[c.job].attempts > 0
    BY DEF CredentialsGiven
  <2>1. jobs'[c.job].attempts >= jobs[c.job].attempts
    <3>1. c.job \in DOMAIN jobs /\ jobs[c.job] \in Job
      BY DEF CredentialsGiven, TypeOK
    <3>2. CASE c.job = j
      BY <1>1, <3>2
    <3>3. CASE c.job # j
      BY <1>1, <3>1, <3>3 DEF Job
    <3>. QED  BY <3>2, <3>3
  <2>2. jobs[c.job] \in Job /\ jobs'[c.job] \in Job
    BY <1>1 DEF CredentialsGiven, TypeOK
  <2>. QED  BY <1>1, <2>1, <2>2 DEF CredentialsGiven, Job
<1>5. CredentialsOnce'
  BY DEF CredentialsOnce
<1>6. WriteInTime'
  <2>. SUFFICES ASSUME NEW w \in Worker, request'[w].phase = "sent"
                PROVE  /\ Presents(jobs'[request'[w].job], HarnessOf[w], request'[w].token)
                       /\ now <= request'[w].deadline
                       /\ request'[w].deadline < jobs'[request'[w].job].lease.until
    BY DEF WriteInTime
  <2>1. CASE request'[w].job = j
    BY <1>1, <2>1
  <2>2. CASE request'[w].job # j /\ request'[w] = request[w]
    <3>1. request[w].job \in DOMAIN jobs
      BY <2>2 DEF WriteHeld, CredentialsGiven
    <3>. QED  BY <1>1, <2>2, <3>1 DEF WriteInTime
  <2>. QED  BY <2>1, <2>2
<1>. QED  BY <1>2, <1>3, <1>4, <1>5, <1>6 DEF LeaseInv

\* What an added row has to show.
LEMMA AppendKeeps ==
  ASSUME LeaseInv, NEW row \in Job, jobs' = Append(jobs, row),
         row.failure = "none", UNCHANGED <<now, issued, held, request>>
  PROVE  LeaseInv'
<1>. /\ TypeOK /\ FailureRecorded /\ CredentialsGiven
     /\ CredentialsOnce /\ WriteHeld /\ WriteInTime
  BY DEF LeaseInv
<1>1. /\ jobs' \in Seq(Job)
      /\ DOMAIN jobs' = DOMAIN jobs \cup {Len(jobs) + 1}
      /\ Len(jobs) + 1 \notin DOMAIN jobs
      /\ jobs'[Len(jobs) + 1] = row
      /\ \A i \in DOMAIN jobs : jobs'[i] = jobs[i]
  <2>. jobs \in Seq(Job)
    BY DEF TypeOK
  <2>. QED  BY AppendRow
<1>2. TypeOK'
  BY <1>1 DEF TypeOK
<1>3. FailureRecorded'
  BY <1>1 DEF FailureRecorded
<1>4. CredentialsGiven'
  BY <1>1 DEF CredentialsGiven
<1>5. CredentialsOnce' /\ WriteHeld'
  BY DEF CredentialsOnce, WriteHeld
<1>6. WriteInTime'
  <2>. SUFFICES ASSUME NEW w \in Worker, request[w].phase = "sent"
                PROVE  /\ Presents(jobs'[request[w].job], HarnessOf[w], request[w].token)
                       /\ now <= request[w].deadline
                       /\ request[w].deadline < jobs'[request[w].job].lease.until
    BY DEF WriteInTime
  <2>1. request[w].job \in DOMAIN jobs
    BY DEF WriteHeld, CredentialsGiven
  <2>. QED  BY <1>1, <2>1 DEF WriteInTime
<1>. QED  BY <1>2, <1>3, <1>4, <1>5, <1>6 DEF LeaseInv

-----------------------------------------------------------------------------
\* Steps that only touch requests keep the invariant when they start no write.
LEMMA RequestKeeps ==
  ASSUME LeaseInv, UNCHANGED <<jobs, now, issued>>,
         NEW w \in Worker, NEW r \in RequestType, NEW kept \in SUBSET held[w],
         request' = [request EXCEPT ![w] = r], held' = [held EXCEPT ![w] = kept],
         r.phase # "none" => /\ r.job = request[w].job /\ r.token = request[w].token
                             /\ request[w].phase # "none" /\ r.phase # "sent"
                             /\ kept = held[w]
  PROVE  LeaseInv'
<1>. /\ TypeOK /\ FailureRecorded /\ CredentialsGiven
     /\ CredentialsOnce /\ WriteHeld /\ WriteInTime
  BY DEF LeaseInv
<1>1. \A v \in Worker : held'[v] \subseteq held[v] /\ (v # w => held'[v] = held[v])
  BY DEF TypeOK
<1>2. TypeOK'
  BY DEF TypeOK, RequestType
<1>3. FailureRecorded'
  BY DEF FailureRecorded
<1>4. CredentialsGiven'
  BY <1>1 DEF CredentialsGiven
<1>5. CredentialsOnce'
  BY <1>1 DEF CredentialsOnce
<1>6. WriteHeld'
  BY <1>1 DEF WriteHeld, TypeOK
<1>7. WriteInTime'
  BY DEF WriteInTime, TypeOK
<1>. QED  BY <1>2, <1>3, <1>4, <1>5, <1>6, <1>7 DEF LeaseInv

\* Every settling, failing or retrying step takes a job nobody else writes.
LEMMA SettleKeeps ==
  ASSUME LeaseInv, NEW w \in Worker, NEW c \in held[w], c.job \in DOMAIN jobs,
         Presents(jobs[c.job], HarnessOf[w], c.token), request[w].phase # "sent",
         NEW row \in Job, Update(c.job, row),
         row.failure # "none" => row.status = "failed",
         row.attempts >= jobs[c.job].attempts,
         UNCHANGED <<now, issued, held>>,
         request' = request \/ request' = [request EXCEPT ![w] = Idle]
  PROVE  LeaseInv'
<1>. TypeOK /\ WriteHeld /\ WriteInTime
  BY DEF LeaseInv
<1>1. request' \in [Worker -> RequestType]
  <2>1. Idle \in RequestType
    BY DEF Idle, RequestType, NoToken
  <2>2. request \in [Worker -> RequestType]
    BY DEF TypeOK, RequestType
  <2>. QED  BY <2>1, <2>2
<1>2. \A v \in Worker : request'[v].phase # "none" => request'[v] = request[v]
  BY DEF TypeOK, Idle
<1>3. WriteHeld'
  BY <1>2 DEF WriteHeld
<1>4. ASSUME NEW v \in Worker, request'[v].phase = "sent"
      PROVE  request'[v].job # c.job /\ request'[v] = request[v]
  <2>1. request'[v] = request[v] /\ request[v].phase = "sent"
    BY <1>2, <1>4
  <2>2. request[v].job # c.job
    BY <2>1, OnlyWriter
  <2>. QED  BY <2>1, <2>2
<1>. QED  BY <1>1, <1>3, <1>4, UpdateKeeps

\* A lease goes to a row no write is under way for, with a fresh credential.
LEMMA LeaseKeeps ==
  ASSUME LeaseInv, NEW w \in Worker, NEW P, NEW T, NEW tok \in BOOLEAN,
         NEW s \in LeaseTime, Lease(w, P, T, tok, s)
  PROVE  LeaseInv'
<1>. /\ TypeOK /\ FailureRecorded /\ CredentialsGiven
     /\ CredentialsOnce /\ WriteHeld /\ WriteInTime
  BY DEF LeaseInv
<1>. DEFINE token == IF tok THEN issued + 1 ELSE NoToken
<1>1. PICK j \in DOMAIN jobs :
        /\ Fits(jobs[j], P, T, tok)
        /\ Update(j, Leased(jobs[j], HarnessOf[w], token, now + s))
        /\ held' = [held EXCEPT ![w] = @ \cup {[job |-> j, token |-> token]}]
        /\ issued' = IF tok THEN token ELSE issued
        /\ UNCHANGED <<now, request>>
  BY DEF Lease
<1>. DEFINE row == Leased(jobs[j], HarnessOf[w], token, now + s)
            new == [job |-> j, token |-> token]
<1>2. /\ jobs[j] \in Job /\ token \in Nat /\ now \in Nat /\ s \in Nat
      /\ HarnessOf[w] \in Harness /\ issued \in Nat /\ j \in Nat
      /\ issued' \in Nat /\ issued <= issued' /\ token <= issued'
  <2>1. /\ jobs[j] \in Job /\ now \in Nat /\ issued \in Nat /\ j \in Nat
    BY DEF TypeOK
  <2>2. s \in Nat /\ HarnessOf[w] \in Harness
    BY HarnessOfAssumption, TimeAssumption
  <2>3. token \in Nat /\ issued' \in Nat /\ issued <= issued' /\ token <= issued'
    BY <1>1, <2>1 DEF NoToken
  <2>. QED  BY <2>1, <2>2, <2>3
<1>0. /\ tok => token = issued + 1
      /\ ~tok => token = NoToken
  OBVIOUS
<1>. HIDE DEF token
<1>3. row \in Job
  <2>. HIDE DEF row
  <2>1. Leased(jobs[j], HarnessOf[w], token, now + s) \in Job
    BY <1>2, LeasedType
  <2>. QED  BY <2>1 DEF row
<1>4. /\ jobs' \in Seq(Job) /\ DOMAIN jobs' = DOMAIN jobs /\ jobs'[j] = row
      /\ \A i \in DOMAIN jobs : i # j => jobs'[i] = jobs[i]
  <2>. jobs \in Seq(Job)
    BY DEF TypeOK
  <2>. QED  BY <1>1, <1>3, UpdateRow
<1>5. /\ row.failure = jobs[j].failure /\ row.status = "leased"
      /\ row.attempts = jobs[j].attempts + 1
  BY <1>2 DEF Leased, Job
<1>6. /\ jobs[j].status = "pending" \/ Expired(jobs[j], now)
      /\ ~tok => jobs[j].attempts = 0
  BY <1>1 DEF Fits, Leasable
<1>7. \A v \in Worker : new \notin held[v]
  <2>. SUFFICES ASSUME NEW v \in Worker, new \in held[v]  PROVE FALSE
    OBVIOUS
  <2>1. /\ new.token = token /\ new.job = j
        /\ new.token <= issued
        /\ new.token = NoToken => jobs[j].attempts > 0
    BY DEF CredentialsGiven
  <2>2. CASE tok
    BY <2>1, <2>2, <1>0, <1>2
  <2>3. CASE ~tok
    BY <2>1, <2>3, <1>0, <1>6
  <2>. QED  BY <2>2, <2>3
<1>8. TypeOK'
  BY <1>1, <1>2, <1>4 DEF TypeOK
<1>9. FailureRecorded'
  <2>1. jobs[j].status # "failed" /\ jobs[j].failure = "none"
    BY <1>6 DEF Expired, FailureRecorded
  <2>. QED  BY <1>4, <1>5, <2>1 DEF FailureRecorded
<1>10. \A v \in Worker : /\ held'[v] \subseteq held[v] \cup {new}
                         /\ held[v] \subseteq held'[v]
                         /\ v # w => held'[v] = held[v]
  BY <1>1 DEF TypeOK
<1>11. CredentialsGiven'
  <2>. SUFFICES ASSUME NEW v \in Worker, NEW c \in held'[v]
                PROVE  /\ c.job \in DOMAIN jobs'
                       /\ c.token <= issued'
                       /\ c.token = NoToken => jobs'[c.job].attempts > 0
    BY DEF CredentialsGiven
  <2>1. CASE c = new
    BY <2>1, <1>2, <1>4, <1>5 DEF Job
  <2>2. CASE c \in held[v]
    <3>1. /\ c.job \in DOMAIN jobs /\ c.token <= issued /\ c.token \in Nat
          /\ c.token = NoToken => jobs[c.job].attempts > 0
      BY <2>2 DEF CredentialsGiven, TypeOK
    <3>2. c.job = j => jobs'[c.job].attempts > 0
      BY <1>2, <1>4, <1>5 DEF Job
    <3>. QED  BY <1>2, <1>4, <3>1, <3>2
  <2>. QED  BY <1>10, <2>1, <2>2
<1>12. CredentialsOnce'
  BY <1>7, <1>10 DEF CredentialsOnce
<1>13. WriteHeld'
  BY <1>1, <1>10 DEF WriteHeld
<1>14. WriteInTime'
  <2>. SUFFICES ASSUME NEW v \in Worker, request[v].phase = "sent"
                PROVE  /\ request[v].job \in DOMAIN jobs
                       /\ request[v].job # j
    BY <1>1, <1>4 DEF WriteInTime
  <2>1. request[v].job \in DOMAIN jobs
    BY DEF WriteHeld, CredentialsGiven
  <2>2. jobs[request[v].job].status = "leased" /\ jobs[request[v].job].lease.until > now
    <3>1. jobs[request[v].job] \in Job /\ request[v] \in RequestType
      BY <2>1 DEF TypeOK, RequestType
    <3>. QED  BY <1>2, <3>1 DEF WriteInTime, Presents, Job, LeaseFields, RequestType
  <2>3. jobs[j].lease.until \in Int
    BY <1>2 DEF Job, LeaseFields
  <2>. QED  BY <1>2, <1>6, <2>1, <2>2, <2>3 DEF Expired
<1>. QED  BY <1>8, <1>9, <1>11, <1>12, <1>13, <1>14 DEF LeaseInv

LEMMA TickKeeps ==
  ASSUME LeaseInv, Tick  PROVE LeaseInv'
<1>. /\ TypeOK /\ FailureRecorded /\ CredentialsGiven
     /\ CredentialsOnce /\ WriteHeld /\ WriteInTime
  BY DEF LeaseInv
<1>1. /\ now' = now + 1 /\ UNCHANGED <<jobs, issued, held, request>>
      /\ \A w \in Worker : request[w].phase = "sent" => now < request[w].deadline
  BY DEF Tick
<1>2. TypeOK'
  BY <1>1 DEF TypeOK
<1>3. FailureRecorded' /\ CredentialsGiven' /\ CredentialsOnce' /\ WriteHeld'
  BY <1>1 DEF FailureRecorded, CredentialsGiven, CredentialsOnce, WriteHeld
<1>4. WriteInTime'
  <2>. SUFFICES ASSUME NEW w \in Worker, request[w].phase = "sent"
                PROVE  now + 1 <= request[w].deadline
    BY <1>1 DEF WriteInTime
  <2>1. now \in Nat /\ request[w].deadline \in Int
    BY DEF TypeOK
  <2>. QED  BY <1>1, <2>1
<1>. QED  BY <1>2, <1>3, <1>4 DEF LeaseInv

\* A prepared lease outlives the request it is prepared for.
LEMMA SendKeeps ==
  ASSUME LeaseInv, NEW w \in Worker, NEW c \in held[w], Send(w, c)
  PROVE  LeaseInv'
<1>. /\ TypeOK /\ WriteHeld /\ WriteInTime
  BY DEF LeaseInv
<1>. /\ now \in Nat /\ MinRemaining \in Nat /\ RequestTime \in Nat
     /\ RequestTime < MinRemaining
  BY TimeAssumption DEF TypeOK
<1>. DEFINE job == jobs[c.job]
            row == Prepared(job, now, MinRemaining)
            sent == [phase |-> "sent", job |-> c.job, token |-> c.token,
                     deadline |-> now + RequestTime]
<1>1. /\ c.job \in DOMAIN jobs /\ job \in Job /\ c \in Credential
      /\ job.lease.until \in Int
  <2>1. c.job \in DOMAIN jobs /\ c \in Credential
    BY DEF TypeOK, Send, Credential
  <2>2. job \in Job
    BY <2>1 DEF TypeOK
  <2>. QED  BY <2>1, <2>2 DEF Job, LeaseFields
<1>2. /\ Presents(job, HarnessOf[w], c.token) /\ LongEnough(job, now, MinRemaining)
      /\ request[w].phase = "none" /\ Update(c.job, row)
      /\ request' = [request EXCEPT ![w] = sent] /\ UNCHANGED <<now, issued, held>>
  BY DEF Send, ActiveLease
<1>3. row \in Job
  BY <1>1, ExtendedType
<1>4. /\ row.status = job.status /\ row.failure = job.failure
      /\ row.attempts = job.attempts /\ row.lease.by = job.lease.by
      /\ row.lease.token = job.lease.token
      /\ row.lease.until - now >= MinRemaining
  BY <1>1, <1>2 DEF Prepared, LongEnough, Job, LeaseFields
<1>5. sent \in RequestType
  BY <1>1 DEF RequestType, Credential
<1>6. request' \in [Worker -> RequestType]
  BY <1>2, <1>5 DEF TypeOK, RequestType
<1>7. \A v \in Worker : request'[v] = IF v = w THEN sent ELSE request[v]
  BY <1>2 DEF TypeOK
<1>8. c = [job |-> c.job, token |-> c.token]
  BY <1>1 DEF Credential
<1>9. WriteHeld'
  BY <1>2, <1>7, <1>8 DEF WriteHeld
<1>10. /\ Presents(row, HarnessOf[w], sent.token)
       /\ now <= sent.deadline /\ sent.deadline < row.lease.until
  <2>1. row.lease.until \in Int
    BY <1>3 DEF Job, LeaseFields
  <2>2. Presents(row, HarnessOf[w], sent.token)
    BY <1>2, <1>4 DEF Presents
  <2>. HIDE DEF row
  <2>. QED  BY <1>4, <2>1, <2>2
<1>11. \A v \in Worker : v # w /\ request[v].phase = "sent" => request[v].job # c.job
  BY <1>2, OnlyWriter
<1>12. row.failure # "none" => row.status = "failed"
  BY <1>1, <1>4 DEF LeaseInv, FailureRecorded
<1>13. row.attempts >= job.attempts
  BY <1>1, <1>4 DEF Job
<1>14. \A v \in Worker : request'[v].phase = "sent" =>
         \/ /\ request'[v].job = c.job
            /\ Presents(row, HarnessOf[v], request'[v].token)
            /\ now <= request'[v].deadline
            /\ request'[v].deadline < row.lease.until
         \/ request'[v].job # c.job /\ request'[v] = request[v]
  <2>. HIDE DEF row
  <2>. QED  BY <1>7, <1>10, <1>11
<1>. HIDE DEF row, sent
<1>. QED  BY <1>1, <1>2, <1>3, <1>6, <1>9, <1>12, <1>13, <1>14, UpdateKeeps

\* The ledger accepts an outcome from its writer only.
LEMMA SettleStepKeeps ==
  ASSUME LeaseInv, NEW w \in Worker, Settle(w)
  PROVE  LeaseInv'
<1>. /\ TypeOK /\ WriteHeld
  BY DEF LeaseInv
<1>. DEFINE j == request[w].job
            c == [job |-> j, token |-> request[w].token]
<1>1. /\ request[w].phase = "answered" /\ UNCHANGED <<now, issued, held>>
      /\ request' = [request EXCEPT ![w] = Idle]
  BY DEF Settle
<1>2. c \in held[w] /\ j \in DOMAIN jobs /\ jobs[j] \in Job
  BY <1>1 DEF WriteHeld, LeaseInv, CredentialsGiven, TypeOK
<1>3. CASE SameGeneration(jobs[j], HarnessOf[w], request[w].token, now)
  <2>1. PICK row \in Outcome(jobs[j]) : Update(j, row)
    BY <1>3 DEF Settle
  <2>2. Presents(jobs[j], HarnessOf[w], c.token)
    BY <1>3 DEF SameGeneration
  <2>3. jobs[j].failure = "none"
    BY <1>2, <2>2 DEF LeaseInv, FailureRecorded, Presents
  <2>4. row \in {Completed(jobs[j], r) : r \in Memory \cup {"noop"}} \cup
               {Failed(jobs[j], k) : k \in FailureKind}
    BY <2>1 DEF Outcome, FailureKind
  <2>5. /\ row \in Job /\ row.attempts = jobs[j].attempts
        /\ row.failure # "none" => row.status = "failed"
    BY <1>2, <2>3, <2>4, SettledRow
  <2>6. row.attempts >= jobs[j].attempts
    BY <1>2, <2>5 DEF Job
  <2>. QED  BY <1>1, <1>2, <2>1, <2>2, <2>5, <2>6, SettleKeeps
<1>4. CASE ~SameGeneration(jobs[j], HarnessOf[w], request[w].token, now)
  <2>1. UNCHANGED jobs /\ held' = [held EXCEPT ![w] = held[w]]
    BY <1>1, <1>4 DEF Settle, TypeOK
  <2>2. Idle \in RequestType /\ Idle.phase = "none"
    BY DEF Idle, RequestType, NoToken
  <2>. QED  BY <1>1, <2>1, <2>2, RequestKeeps
<1>. QED  BY <1>3, <1>4

\* No write is under way for a failed row.
LEMMA RetryKeeps ==
  ASSUME LeaseInv, NEW j \in DOMAIN jobs, Retry(j)
  PROVE  LeaseInv'
<1>. TypeOK /\ WriteHeld /\ WriteInTime
  BY DEF LeaseInv
<1>1. /\ jobs[j] \in Job /\ jobs[j].status = "failed"
      /\ Update(j, Retried(jobs[j])) /\ UNCHANGED <<now, issued, held, request>>
  BY DEF Retry, Retryable, TypeOK
<1>2. Retried(jobs[j]) \in Job
  BY <1>1, SettledType
<1>3. /\ Retried(jobs[j]).failure = "none"
      /\ Retried(jobs[j]).attempts >= jobs[j].attempts
  BY <1>1 DEF Retried, Released, Job
<1>4. \A w \in Worker : request[w].phase = "sent" => request[w].job # j
  BY <1>1 DEF WriteInTime, Presents
<1>5. WriteHeld' /\ request' \in [Worker -> RequestType]
  BY <1>1 DEF WriteHeld, TypeOK, RequestType
<1>. QED  BY <1>1, <1>2, <1>3, <1>4, <1>5, UpdateKeeps

\* Every step keeps the invariant.
LEMMA NextLeaseInv == LeaseInv /\ [Next]_vars => LeaseInv'
<1>. SUFFICES ASSUME LeaseInv, [Next]_vars  PROVE LeaseInv'
  OBVIOUS
<1>. TypeOK
  BY DEF LeaseInv
<1>. now \in Nat /\ MinRemaining \in Nat /\ RequestTime \in Nat /\ RequestTime < MinRemaining
  BY TimeAssumption DEF TypeOK
<1>1. ASSUME NEW t \in Target, NEW p \in Scope, NEW refs \in SUBSET Ref,
             Enqueue(t, p, refs)
      PROVE  LeaseInv'
  <2>1. NewJob(t, p, refs) \in Job
    BY NewJobType
  <2>2. NewJob(t, p, refs).failure = "none"
    BY DEF NewJob
  <2>. QED  BY <1>1, <2>1, <2>2, AppendKeeps DEF Enqueue
<1>2. ASSUME NEW t \in Target, NEW p \in Scope, NEW refs \in SUBSET Ref,
             NEW m \in Memory, RecordRevision(t, p, refs, m)
      PROVE  LeaseInv'
  <2>1. CompletedRevision(t, p, refs, m) \in Job
    BY NewJobType, SettledType DEF CompletedRevision
  <2>2. CompletedRevision(t, p, refs, m).failure = "none"
    BY NewJobType DEF CompletedRevision, Completed, Released, NewJob
  <2>. QED  BY <1>2, <2>1, <2>2, AppendKeeps DEF RecordRevision
<1>3. ASSUME NEW w \in Worker, Act(w)
      PROVE  LeaseInv'
  <2>. HarnessOf[w] \in Harness /\ request[w] \in RequestType
    BY HarnessOfAssumption DEF TypeOK, RequestType
  <2>. request \in [Worker -> RequestType] /\ WriteHeld
    BY DEF LeaseInv, TypeOK, RequestType
  <2>. \A c \in held[w] : c.job \in DOMAIN jobs /\ jobs[c.job] \in Job
    BY DEF LeaseInv, CredentialsGiven, TypeOK
  <2>1. ASSUME NEW P, NEW T, NEW tok \in BOOLEAN, NEW s \in LeaseTime,
               Lease(w, P, T, tok, s)
        PROVE  LeaseInv'
    BY <2>1, LeaseKeeps
  <2>2. ASSUME NEW c \in held[w], NEW s \in LeaseTime, Renew(w, c, s)
        PROVE  LeaseInv'
    <3>. DEFINE job == jobs[c.job]  row == Renewed(job, now, s)
    <3>1. s \in Nat /\ job.lease.until \in Int
      BY TimeAssumption DEF Job, LeaseFields
    <3>2. row \in Job
      BY <3>1, ExtendedType
    <3>3. /\ row.status = job.status /\ row.failure = job.failure
          /\ row.attempts = job.attempts /\ row.lease.by = job.lease.by
          /\ row.lease.token = job.lease.token /\ row.lease.until >= job.lease.until
      BY <3>1 DEF Renewed, Later, Job, LeaseFields
    <3>. HIDE DEF row
    <3>4. \A v \in Worker : request[v].phase = "sent" /\ request[v].job = c.job =>
            /\ Presents(row, HarnessOf[v], request[v].token)
            /\ now <= request[v].deadline
            /\ request[v].deadline < row.lease.until
      <4>. SUFFICES ASSUME NEW v \in Worker, request[v].phase = "sent", request[v].job = c.job
                    PROVE  /\ Presents(row, HarnessOf[v], request[v].token)
                           /\ now <= request[v].deadline
                           /\ request[v].deadline < row.lease.until
        OBVIOUS
      <4>1. /\ Presents(job, HarnessOf[v], request[v].token)
            /\ now <= request[v].deadline
            /\ request[v].deadline < job.lease.until
        BY DEF LeaseInv, WriteInTime
      <4>2. request[v].deadline \in Int /\ row.lease.until \in Int
        BY <3>2 DEF RequestType, Job, LeaseFields
      <4>. QED  BY <3>1, <3>3, <4>1, <4>2 DEF Presents
    <3>5. row.failure # "none" => row.status = "failed"
      BY <3>3 DEF LeaseInv, FailureRecorded
    <3>6. row.attempts >= job.attempts
      BY <3>3 DEF Job
    <3>7. Update(c.job, row) /\ UNCHANGED <<now, issued, held, request>>
      BY <2>2 DEF Renew, row
    <3>8. WriteHeld'
      BY <3>7 DEF WriteHeld
    <3>. QED  BY <3>2, <3>4, <3>5, <3>6, <3>7, <3>8, UpdateKeeps
  <2>3. ASSUME NEW c \in held[w], Skip(w, c) \/ Fail(w, c)
        PROVE  LeaseInv'
    <3>1. PICK row \in {Completed(jobs[c.job], "noop"), Failed(jobs[c.job], "core_error")} :
            Update(c.job, row)
      BY <2>3 DEF Skip, Fail
    <3>2. /\ Presents(jobs[c.job], HarnessOf[w], c.token) /\ request[w].phase = "none"
          /\ UNCHANGED <<now, issued, held, request>>
      BY <2>3 DEF Skip, Fail, ActiveLease
    <3>3. row \in Job /\ row.attempts = jobs[c.job].attempts
          /\ (row.failure # "none" => row.status = "failed")
      <4>1. jobs[c.job].failure = "none"
        BY <3>2 DEF LeaseInv, FailureRecorded, Presents
      <4>2. row \in {Completed(jobs[c.job], r) : r \in Memory \cup {"noop"}} \cup
                   {Failed(jobs[c.job], k) : k \in FailureKind}
        BY <3>1 DEF FailureKind
      <4>. QED  BY <4>1, <4>2, SettledRow
    <3>. QED  BY <3>1, <3>2, <3>3, SettleKeeps DEF Job
  <2>4. ASSUME NEW c \in held[w], Send(w, c)
        PROVE  LeaseInv'
    BY <2>4, SendKeeps
  <2>5. CASE Answer(w)
    <3>1. [request[w] EXCEPT !.phase = "answered"] \in RequestType
      BY DEF RequestType
    <3>2. request' = [request EXCEPT ![w] = [request[w] EXCEPT !.phase = "answered"]]
      BY <2>5 DEF Answer
    <3>3. held' = [held EXCEPT ![w] = held[w]]
      BY <2>5 DEF Answer, TypeOK
    <3>4. /\ request[w].phase = "sent"
          /\ [request[w] EXCEPT !.phase = "answered"].job = request[w].job
          /\ [request[w] EXCEPT !.phase = "answered"].token = request[w].token
          /\ [request[w] EXCEPT !.phase = "answered"].phase = "answered"
      BY <2>5 DEF Answer, RequestType
    <3>. QED  BY <2>5, <3>1, <3>2, <3>3, <3>4, RequestKeeps DEF Answer
  <2>6. CASE Ambiguous(w) \/ Crash(w)
    <3>1. PICK kept \in SUBSET held[w] : held' = [held EXCEPT ![w] = kept]
      BY <2>6 DEF Ambiguous, Crash, TypeOK
    <3>2. Idle \in RequestType /\ Idle.phase = "none"
      BY DEF Idle, RequestType, NoToken
    <3>. QED  BY <2>6, <3>1, <3>2, RequestKeeps DEF Ambiguous, Crash
  <2>7. CASE Settle(w)
    BY <2>7, SettleStepKeeps
  <2>. QED  BY <1>3, <2>1, <2>2, <2>3, <2>4, <2>5, <2>6, <2>7 DEF Act
<1>4. ASSUME NEW j \in DOMAIN jobs, Retry(j)
      PROVE  LeaseInv'
  BY <1>4, RetryKeeps
<1>5. CASE Tick
  BY <1>5, TickKeeps
<1>6. CASE UNCHANGED vars
  BY <1>6 DEF vars, LeaseInv, TypeOK, FailureRecorded, CredentialsGiven, CredentialsOnce,
              WriteHeld, WriteInTime
<1>. QED  BY <1>1, <1>2, <1>3, <1>4, <1>5, <1>6 DEF Next

\* The ledger, the credentials the workers hold and their requests stay in step,
\* from every lease to its renewal, fence, expiry and settlement.
THEOREM AlwaysLeaseInv == Spec => []LeaseInv
BY InitLeaseInv, NextLeaseInv, PTL DEF Spec

(***************************************************************************)
(* The ledger's rows, the credentials and the requests keep their types.   *)
(***************************************************************************)
THEOREM JobsTypeOK == Spec => []TypeOK
BY AlwaysLeaseInv, PTL DEF LeaseInv

-----------------------------------------------------------------------------
(***************************************************************************)
(* Two sessions never hold credentials the ledger accepts for one row: a   *)
(* token is issued once, and a lease without a token is given once per row.*)
(***************************************************************************)
THEOREM JobsSoleHolder == Spec => []SoleHolder
<1>1. LeaseInv => SoleHolder
  <2>. SUFFICES ASSUME LeaseInv, NEW j \in DOMAIN jobs, NEW v \in Worker, NEW w \in Worker,
                       Accepted(v, j), Accepted(w, j)
                PROVE  v = w
    BY DEF SoleHolder
  <2>1. PICK c \in held[v] : c.job = j /\ c.token = jobs[j].lease.token
    BY DEF Accepted, Presents
  <2>2. PICK d \in held[w] : d.job = j /\ d.token = jobs[j].lease.token
    BY DEF Accepted, Presents
  <2>3. c \in Credential /\ d \in Credential
    BY DEF LeaseInv, TypeOK, Credential
  <2>4. c = d
    <3>1. c.job = d.job /\ c.token = d.token
      BY <2>1, <2>2
    <3>. QED  BY <2>3, <3>1 DEF Credential
  <2>. QED  BY <2>4 DEF LeaseInv, CredentialsOnce
<1>. QED  BY <1>1, AlwaysLeaseInv, PTL

(***************************************************************************)
(* A Core write under way is never overtaken by a reassignment of its job. *)
(***************************************************************************)
THEOREM JobsWriteFenced == Spec => []WriteFenced
<1>1. LeaseInv => WriteFenced
  <2>. SUFFICES ASSUME LeaseInv, NEW w \in Worker, request[w].phase = "sent"
                PROVE  /\ request[w].job \in DOMAIN jobs
                       /\ ActiveLease(jobs[request[w].job], HarnessOf[w],
                                      request[w].token, now)
    BY DEF WriteFenced
  <2>1. request[w].job \in DOMAIN jobs
    BY DEF LeaseInv, WriteHeld, CredentialsGiven
  <2>2. /\ jobs[request[w].job].lease.until \in Int
        /\ now \in Int /\ request[w].deadline \in Int
    <3>1. jobs[request[w].job] \in Job /\ now \in Nat /\ request[w] \in RequestType
      BY <2>1 DEF LeaseInv, TypeOK, RequestType
    <3>. QED  BY <3>1 DEF Job, LeaseFields, RequestType
  <2>. QED  BY <2>1, <2>2 DEF LeaseInv, WriteInTime, ActiveLease
<1>. QED  BY <1>1, AlwaysLeaseInv, PTL

\* Replacing a row that is not final leaves the final ones alone.
LEMMA UpdateSettled ==
  ASSUME LeaseInv, NEW j \in DOMAIN jobs, NEW row \in Job, Update(j, row), ~Final(jobs[j])
  PROVE  \A i \in DOMAIN jobs : i \in DOMAIN jobs' /\ (Final(jobs[i]) => jobs'[i] = jobs[i])
BY DEF Update, LeaseInv, TypeOK

(***************************************************************************)
(* No caller ever changes a completed row or a quarantined one.            *)
(***************************************************************************)
THEOREM JobsSettledForGood == Spec => SettledForGood
<1>. DEFINE Kept == \A j \in DOMAIN jobs :
              j \in DOMAIN jobs' /\ (Final(jobs[j]) => jobs'[j] = jobs[j])
<1>1. LeaseInv /\ [Next]_vars => [Kept]_vars
  <2>. SUFFICES ASSUME LeaseInv, Next  PROVE Kept
    OBVIOUS
  <2>0. /\ TypeOK /\ FailureRecorded /\ CredentialsGiven /\ WriteHeld
        /\ now \in Nat /\ MinRemaining \in Nat
    BY TimeAssumption DEF LeaseInv, TypeOK
  <2>1. ASSUME NEW row, jobs' = Append(jobs, row)  PROVE Kept
    BY <2>0, <2>1 DEF TypeOK
  <2>2. ASSUME NEW j \in DOMAIN jobs, NEW row \in Job, Update(j, row),
               jobs[j].status \in {"pending", "leased"} \/ Retryable(jobs[j])
        PROVE  Kept
    <3>1. ~Final(jobs[j])
      BY <2>0, <2>2 DEF FailureRecorded, Final, Retryable
    <3>. QED  BY <2>2, <3>1, UpdateSettled
  <2>3. ASSUME NEW w \in Worker, Act(w)  PROVE Kept
    <3>0. /\ HarnessOf[w] \in Harness
          /\ \A j \in DOMAIN jobs : jobs[j] \in Job
          /\ \A c \in held[w] : c.job \in DOMAIN jobs
          /\ \A j \in DOMAIN jobs : \A h, t : Presents(jobs[j], h, t) =>
               jobs[j].status = "leased" /\ jobs[j].failure = "none"
      BY <2>0, HarnessOfAssumption DEF TypeOK, CredentialsGiven, Presents, FailureRecorded
    <3>1. ASSUME NEW P, NEW T, NEW tok \in BOOLEAN, NEW s \in LeaseTime, Lease(w, P, T, tok, s)
          PROVE  Kept
      <4>1. PICK j \in DOMAIN jobs, token \in Nat :
              Fits(jobs[j], P, T, tok) /\ Update(j, Leased(jobs[j], HarnessOf[w], token, now + s))
        BY <2>0, <3>1 DEF Lease, TypeOK, NoToken
      <4>2. Leased(jobs[j], HarnessOf[w], token, now + s) \in Job
        <5>. now + s \in Int
          BY <2>0, TimeAssumption
        <5>. QED  BY <3>0, LeasedType
      <4>3. jobs[j].status \in {"pending", "leased"}
        BY <4>1 DEF Fits, Leasable, Expired
      <4>. QED  BY <2>2, <4>1, <4>2, <4>3
    <3>2. ASSUME NEW c \in held[w], NEW s \in LeaseTime, Renew(w, c, s)  PROVE Kept
      <4>1. Renewed(jobs[c.job], now, s) \in Job
        BY <2>0, <3>0, TimeAssumption, ExtendedType
      <4>. QED  BY <2>2, <3>0, <3>2, <4>1 DEF Renew, ActiveLease
    <3>3. ASSUME NEW c \in held[w], Skip(w, c) \/ Fail(w, c)  PROVE Kept
      <4>1. /\ Completed(jobs[c.job], "noop") \in Job
            /\ Failed(jobs[c.job], "core_error") \in Job
        BY <3>0, SettledType DEF FailureKind
      <4>. QED  BY <2>2, <3>0, <3>3, <4>1 DEF Skip, Fail, ActiveLease
    <3>4. ASSUME NEW c \in held[w], Send(w, c)  PROVE Kept
      <4>1. Prepared(jobs[c.job], now, MinRemaining) \in Job
        BY <2>0, <3>0, ExtendedType
      <4>. QED  BY <2>2, <3>0, <3>4, <4>1 DEF Send, ActiveLease
    <3>5. CASE Answer(w) \/ Ambiguous(w) \/ Crash(w)
      BY <3>5 DEF Answer, Ambiguous, Crash
    <3>6. CASE Settle(w)
      <4>. DEFINE j == request[w].job
      <4>1. j \in DOMAIN jobs
        BY <2>0, <3>6 DEF Settle, WriteHeld, CredentialsGiven
      <4>2. CASE SameGeneration(jobs[j], HarnessOf[w], request[w].token, now)
        <5>1. PICK row \in Outcome(jobs[j]) : Update(j, row)
          BY <3>6, <4>2 DEF Settle
        <5>2. row \in Job
          BY <3>0, <4>1, SettledType DEF Outcome, FailureKind
        <5>3. jobs[j].status = "leased"
          BY <4>2 DEF SameGeneration, Presents
        <5>. QED  BY <2>2, <4>1, <5>1, <5>2, <5>3
      <4>3. CASE ~SameGeneration(jobs[j], HarnessOf[w], request[w].token, now)
        BY <3>6, <4>3 DEF Settle
      <4>. QED  BY <4>2, <4>3
    <3>. QED  BY <2>3, <3>1, <3>2, <3>3, <3>4, <3>5, <3>6 DEF Act
  <2>4. ASSUME NEW j \in DOMAIN jobs, Retry(j)  PROVE Kept
    <3>1. Retried(jobs[j]) \in Job
      BY <2>0, SettledType DEF TypeOK
    <3>. QED  BY <2>2, <2>4, <3>1 DEF Retry
  <2>5. CASE Tick
    BY <2>5 DEF Tick
  <2>. QED  BY <2>1, <2>3, <2>4, <2>5 DEF Next, Enqueue, RecordRevision
<1>. QED  BY <1>1, AlwaysLeaseInv, PTL DEF Spec, SettledForGood
=============================================================================
