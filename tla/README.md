# Memhub in TLA+

Memhub keeps the memory of coding agents: it captures their turns (L1), has
agents distil them into a project timeline (L2), project rules (L3) and a user
profile (L4), and stores the artefacts in a local Memory Core over HTTP.  What
makes it hard is that everything durable is a set of JSON files (and one
SQLite index) that several processes mutate at once, and that each artefact is
written to a second system whose answer may be lost.  This project models that
core, the lock the files are mutated under, the store of captured turns and
their ingestion, the ledger of distillation jobs, the write of a job's result
to Memory Core, and the scans that make jobs out of captured turns; and the
services around it, from the project registry to the supervisor of the
processes.

## Inventory

Paths are relative to the repository; `src/` is its TypeScript directory.

| Component | State | Operations | What is hard |
|---|---|---|---|
| File mutation lock (`src/file-mutation-lock.ts`) | `<target>.lock` with its owner record, `.lock.reclaim`, a per-process map of promise tails | acquire, reclaim a dead owner, release, time out | two-step creation, two-step judgement of staleness, death anywhere |
| Job ledger (`src/distillation-jobs.ts`) | `distillation/jobs.json`, `config.json` | enqueue, lease, renew, prepare a write, complete, fail, quarantine, retry, record a revision, retire | leases that expire under a running write; a legacy lease without a token |
| Submit and commit records (`src/distillation-submit.ts`) | `distillation/commits/<hash>.json` | submit, replay, reconcile, abandon, prune | at-most-once write to a system whose answer may be lost, two files that no transaction joins |
| Discovery and scheduling (`src/distillation-discovery.ts`, `src/distillation-scheduling.ts`) | `successfulScans` in memory | sweep every minute, scan after a captured turn | decisions on an old reading of the ledger; nothing may be queued twice or never |
| Capture store (`src/capture.ts`, `src/turn-log.ts`) | one file per event, `.ingested` and `.ingest-intent` beside it, SQLite index with dirty marks | store, enrich, ingest, mark, rebuild | crash between two of four writes; enrichment racing ingestion |
| Capture recovery (`src/capture-recovery.ts`, `src/capture-ingest.ts`) | none of its own | replay a frozen ingest | same request id from two paths, a project merged meanwhile |
| Capture projects (`src/capture-project-*.ts`, the backfill in `src/capture.ts`) | assignment tables, the project column of the index, the backfill's record | resolve, assign, backfill, list | registry and index change under two locks |
| Project registry and governance (`src/project-registry.ts`, `src/project-governance.ts`) | `projects.json`, one-shot authorizations in memory | create, update, merge, archive, unarchive, delete, todos; plan/execute | every call resolves before it locks; check and act under two locks |
| Branches (`src/branch-store.ts`) | `branches.json` | create, close, reopen, look up | ids and names drawn from the same words |
| Retirement (`src/distillation-jobs.ts`, `src/memory-control-*.ts`) | the revisions in the ledger | archive, delete | ledger, Core, ledger again |
| Derived jobs (`src/distillation-submit.ts`, `src/distillation-derived-*.ts`) | the ledger | enqueue the next layer, reconcile | two steps that no transaction joins, repeated by several parties |
| Evidence (`src/distillation-evidence.ts`) | the ledger | validate what a result rests on | projects merge and results retire between the readings |
| User-authorized memory (`src/user-authorized-memory.ts`) | one-shot authorizations in memory | plan, execute | the checked content may change before the write |
| Architecture documents (`src/architecture-*.ts`) | the document, its revisions, plans | plan, execute, history | stale plans, death between three writes |
| Skills (`src/skill-*.ts`) | plans in memory, the telemetry log | plan, execute, record | two requests for one revision; a log without a lock |
| Context (`src/context-*.ts`, `src/project-scope.ts`, `src/memory-source.ts`) | none | resolve, recall, pack | several readings of a registry that changes |
| Accounts (`src/auth.ts`, `src/gateway-http.ts`) | `accounts.json` | add, bind, log in, change role, delete | three ways to an account |
| Result transport (`src/result-transport.ts`) | results in memory, a spool directory | wrap, read, prune | caps, expiry and restarts under a reader |
| Process stack (`src/process-stack.ts`, `scripts/run-stack.mjs`) | the supervised children, timers, restart budget | start, probe, recover, stop, retry, exit | stop, death and recovery at once |
| Core migration (`scripts/core-migration.mjs`) | snapshot directories with a manifest | preflight, verify, preserved | Core writes meanwhile; death at any step |
| Ranking, hydration, MCP and HTTP surface, redaction, readiness | sessions and caches | read-only assembly of texts, argument parsing | nothing durable |
| Memory Core (`vendor/memory-core`) | SQLite | add, reconcile, archive, delete | external to this project |

How they interact: an MCP turn is captured and ingested (capture store, then
Memory Core), then starts a scan for its project; the gateway sweeps all
projects once a minute; scans put jobs into the ledger; an agent leases a job,
distils, and submits; submit takes the artifact's commit lock, freezes the
candidate in the commit record, writes to Memory Core, and completes the job
in the ledger; a completed L2 enqueues L3, and that L4.  Merging projects and
retiring memories change what all of them have read.  The console and the
tools approve changes in two calls, a plan that shows what will be done and an
execution that consumes its authorization.  Every file is mutated under the
file lock, one lock at a time but for submit, which takes the ledger's lock
inside the commit lock (never the other way round).

What makes each correct is listed with its properties below.

## Modules

| Module | Models | Composes |
|---|---|---|
| `Mutex` | the abstract promise of a lock: one holder at a time, nobody inside between two holders | |
| `FileLock` | `withFileMutationLock` and everything under it | refines `Mutex` |
| `JobLedger` | one row of `jobs.json` and what each mutation does to it, as operators | |
| `DistillationJobs` | the ledger with its sessions, leases, clock and external writes | uses `JobLedger` |
| `DistillationSubmit` | `submitDistillationControl`, the commit record, Memory Core, operators, pruning | uses `JobLedger` |
| `DistillationDiscovery` | `discoverDistillationJobs` in its two callers, with merges and retirements | |
| `CaptureEvidence` | the abstract promise of the capture store: enriched until sealed, then told to Core once and as sealed | |
| `CaptureStore` | event files, intents, markers and index of one account, the ingestion into Memory Core and the recovery sweep | refines `CaptureEvidence` |
| `CaptureProjects` | what a captured turn resolves to, assignments, the backfill and the listings of the index | |
| `ProjectRegistry` | every mutation of `projects.json` and the resolution before it | |
| `ProjectGovernance` | plans and executions over the registry, the console's calls, the count of unfinished jobs | extends `ProjectRegistry` |
| `ContextRetrieval` | one context call: scope, storage ids, recall, capsule | extends `ProjectRegistry`, uses `Sums` |
| `BranchStore` | the branches of a project | |
| `MemoryRetirement` | the three phases of `retireDistillationMemory` with two callers | |
| `DerivedQueue` | the L3 and L4 jobs that results queue, and their reconciliation | |
| `EvidenceChain` | what L2, L3 and L4 results may rest on, while projects merge and results retire | |
| `UserAuthorizedMemory` | replacing canonical L3 or L4 with an approved text | |
| `ArchitectureGovernance` | replacing the architecture document, with its history | |
| `SkillGovernance`, `SkillTelemetry` | revising and retiring a Skill; the log of its executions | |
| `Accounts` | `accounts.json` and the console's requests for an account | |
| `ResultTransport` | long results, in memory and spooled, and who reads them | uses `Sums` |
| `Sums` | the sum of a sequence of sizes, as a recursive function | |
| `ProcessStack` | the supervisor and the owner that starts, retries and stops it | |
| `CoreMigration` | preflight, verify and preserved | |
| `LockAndStackProofs` | theorems of `ProcessStack` and `FileLock` | |
| `DistillationJobsProofs`, `DistillationSubmitProofs`, `DistillationDiscoveryProofs`, `CaptureStoreProofs` | theorems of the module each is named after | |
| `StoresProofs` | theorems of `BranchStore`, `Accounts`, `SkillTelemetry` and `CaptureProjects` | |
| `GovernanceProofs` | theorems of `ArchitectureGovernance`, `MemoryRetirement`, `SkillGovernance`, `UserAuthorizedMemory` and `CoreMigration` | |
| `ProvenanceProofs` | theorems of `ProjectRegistry`, `ProjectGovernance`, `DerivedQueue`, `EvidenceChain`, `ContextRetrieval` and `ResultTransport` | |
| `MCServices` | the fourteen instances that share no state, one from start to end per behaviour | all of the above but the first eight and `ProcessStack` |
| `MCLive` | the file lock and the supervisor, each fair as its own module says | `MCFileLock`, `ProcessStack` |
| other `MC...` | instances for TLC | |

The modules build on one another by assumption: `FileLock` shows that a
mutation of a file is atomic with respect to the others; every module but
`CaptureStore` then takes a locked mutation as one step, and only what lies
outside the lock, a reading before it, a check before it, a second mutation
after it, is a step of its own.  `DistillationSubmit` takes the commit lock as a
mutual exclusion that ends with the death of its holder, and the ledger
operations from `JobLedger`.  `CaptureStore` takes its two locks, of the index
and of an event's ingest attempt, in the same way, but keeps the writes inside
a mutation apart: what it is about is a death between two of them.  An event
that `CaptureStore` marks ingested is what `DistillationDiscovery` calls
ingested; what a hint resolves to is one changing value there and
`CaptureProjects` here; the atomic merges of `DistillationDiscovery` and
`EvidenceChain` are `ProjectRegistry`'s; the archiving that `SkillGovernance`
takes as one step is `MemoryRetirement`.

### FileLock

Each caller (`c`) has a program counter; one value per await at which another
process can come in.  `tail[p]` is the chain of promises of a process,
`lockFile` says who created the file and whether the owner record is in it,
`guard` who created `.reclaim`, `seen[c]` the owner `c` has read and not yet
probed.  `Create` and `WriteOwner` are separate, so are `ReadOwner` (up to
`JSON.parse`) and `ProbeOwner` (`process.kill(pid, 0)`), `TakeGuard`,
`RecheckStale`, `UnlinkStale`, `DropGuard`, and `ReadOwnToken`, `UnlinkOwn` on
release.  `Crash` kills a process anywhere and leaves its files.  A caller
that has died does not come back; a restarted process is another process.

Not modelled: file system errors other than contention, reuse of process ids,
the Windows codes that mean the same as `EEXIST`.

### JobLedger and DistillationJobs

A row is a record; ids are positions, because no row is ever removed.  Each
mutation of the ledger runs under the file lock and ends in a rename, so each
is one action.  A worker is one session of a harness; the credentials it was
ever given stay usable at any later time, which is how stale sessions are
covered.  An external write is three actions (`Send` with the lease fenced,
`Answer` or `Ambiguous`, `Settle`), so that other sessions, expiry and retries
come in between; the clock does not pass the moment at which the HTTP client
aborts the request (`AbortSignal.timeout`, 15 s, against a prepared minimum of
60 s: the assumption `RequestTime < MinRemaining`).

Not modelled: the configuration file, migration of version 1 stores, failure
kinds of legacy rows.  Retirement is `MemoryRetirement`.

### DistillationSubmit

One submit at a time holds the commit lock; `pc` says where it is, or "free".
Everything it decides on it reads again under the lock (the job, the record,
the timeline), so a submit starts when it takes the lock.  `commit` is the
record on disk, `wire` the requests that Core may still apply, `core` what it
applied, in order.  A request may be applied before or after its sender gave
up, or never, and its answer may be lost (`Ambiguous`) or be a definite
rejection (`Refused`, possible only while the request is not applied).  The
server may die between any two writes.  `ReconcileRefused` says whether a
reconciliation may be answered with a definite client error.  A content is its
set of event headings, which is all `assertRoutineL2PreservesCanonicalTimeline`
looks at.  `FindTerminal` and `Prune` are the two halves of
`pruneDistillationCommitRecords`; its age and count limits are left open, so a
terminal record may go at any time.

Not modelled: dry runs, Skill submissions, the write of L3 and L4 (the same
code without the timeline), the project description after completion, an
overridden artifact id.  The evidence and the job-less submissions are
`EvidenceChain`, the enqueue of the next layer `DerivedQueue`.

### DistillationDiscovery

A scan reads the ledger (`Sweep`, `AfterTurn`), then the turns (`ReadTurns`,
which also cuts the batches), then queues its batches one by one (`Enqueue`),
then remembers what it saw (`Finish`).  `Settle` is the passing of
`idle_minutes` for a turn, `Forget` of the 15 minutes after which a remembered
scan no longer counts.  `Used` leaves retired rows out and `Overlaps` does not,
as in the code.

Not modelled: privacy exclusion, `auto_since`, the capture recovery in the same
sweep, direct L2 revisions, the order of the batches of one scan.

### CaptureStore

`file`, `intent` and `marker` are the three files of an event; `indexed`,
`row` and `dirty` are the tables `capture_index_accounts`, `capture_index` and
`capture_index_dirty` of one account.  A post is refused (`StoreRefused`), has
nothing new (`StoreSame`), or is written in four durable steps: the dirty mark
(`StoreNew`), the file, the row, the clearing.  `Merged`, `Conflict` and
`MergedStatus` are `mergeCaptureEvent`; `Kept` is the exclusion of private
text.  A complete turn then resolves its project (`Stored`), takes the lock of
its ingest attempt, freezes its payload by the intent (`Freeze`), and makes
two calls to Core (`Opened`, `TurnCompleted`, or a conflict, `Refused`, or no
answer, `CoreTimeout`), after which the marker is written in four steps again
(`Mark` to `MarkClear`).  A request whose sender has gone stays in `wire`
until it is applied, refused or lost (`Late`).  Core is external: `session`
and `told` are the requests it applied, by the request ids that depend on the
event alone, so another body is a conflict.

`Sweep` and `Recover` are the listing and the loop of
`reconcileFrozenCaptureIngests`; what the listing has read may be old when its
turn comes.  `RecoverIndex` is what a server does before it serves.  `Crash`
is the death of a process or the error of a file operation: locks go, files
stay; `FreezeTorn` is the death in the middle of the intent's `writeFile`,
which unlike the other writes is not a rename.  `route` is what a project hint
resolves to, at `NoText` what assignments and the workspace give a turn
without one; `Reroute` changes it.

A turn is its texts, hint, status and the set of texts the user excluded, and
it is its own payload hash.  Not modelled: turns of which only a part is
excluded, redaction counts, other metadata, the explicit recovery of one event
(`recoverCaptureIngest`), the expiry of Core's idempotency keys, the readers'
snapshots of the write-ahead log.

### CaptureProjects

`registry` is the function from hints, workspace names and project ids to the
project each leads to, and is its own revision, as the code's is a hash of the
content.  `Resolution` is `resolveCaptureProject`: a hint that resolves, then the user's
assignment, then the newest binding of the thread unless another turn of the
thread disputes it, then the workspace.  `rows` is the index with the project and the revision each
row was written under.  A store resolves (`ResolveStored`) and writes
(`Upsert`) in two steps, an assignment resolves its project (`BeginAssign`),
takes the lock (`LockAssign`) and commits (`CommitAssign`); the backfill of a
process reads whether it is needed, scans for stale rows, resolves a batch row
by row under the lock, moves its durable cursor and at last says complete
(`Schedule` to `FinishBackfill`).  It may be cancelled, and every process may die, at any
step.  `dirty` is the index's mark of a store under way: readers and
assignments fail on one that a death has left, and `Rebuild` (the recovery
before the next store, and of a server that starts) makes all rows anew from
the files and drops the backfill's record.  The index at the start is one of an
older version, without the columns of the resolution.  `ListTurns` and
`Unassigned` are the two readers.  `formerly` (the contents the registry had
before), `rebuilt` and `outdated` are history variables.  The first two exclude
in `SettledListing` what `RoutingRederived` is about.  `outdated` has the rows
that one of three races has left behind, each recorded at the step at which it
happens, and until the row is resolved again: an assignment commits a project
that was merged away between its resolution and the lock (`CommitAssign`); a
backfill writes what it resolved of a file as it was before it got its hint
(`ResolveRow`); a turn is stored beside others that their thread binds, whose
binding its hint may dispute, and only its own row is resolved (`Beside`).
`Restored` bounds which events may be stored
again as they are.

Not modelled: previews, statuses, ages and the privacy columns of the rows.

### ProjectRegistry, ProjectGovernance, ContextRetrieval

A row has an id, a name, aliases, a state, the project it was merged into and
its todos; `Key` is the normalised form of a word.  Each call is two steps,
`Begin` (resolve the reference against the file of now) and the operation's
action under the lock, with exactly the checks the code makes there: `Create`
checks names and aliases, `Update` aliases, `Unarchive` neither.  A call whose
check fails is `Refuse`.  `ProjectGovernance` adds the plan with what it
resolved, its execution in three steps (take the authorization, count the
unfinished jobs, call the registry) and the console's own calls.

`ContextRetrieval` is one call to `memmy_context`: it resolves the explicit
project, the workspace, the mentions and the semantic candidates in separate
readings of the registry, decides the scope or asks for clarification, reads
the storage ids, recalls by layer, and packs what it found into the capsule
within its sizes: `Visited` goes round the four collections, and `Dropped`
counts what did not fit.  Sizes are units of 128 bytes; of an item larger than
its allowance a brief or its head and tail is kept, which may be shorter than
the allowance (`Excerpt`, any size from one unit to all of it).

Not modelled: descriptions, suggestion scores, ranking, the watermark of fresh
turns, the wording of items that are cut.

### BranchStore

Every operation is one locked mutation.  A label is a name or an id, as
in the code, where both are looked up in one pass; `Candidates` gives the ids
tried for a name, its slug first.  The slug is cut at 64 characters and the
suffix appended to what is left, so an id need not be its own slug
(`OwnSlug`), and nothing is assumed of that.

### MemoryRetirement

A call quarantines the revisions of a memory (`Quarantine`), asks Core, and
marks them retired, restores them after an HTTP error, or leaves them in
quarantine when the answer was lost; a request given up on stays in `late`.
Two callers take over one another's quarantine by the generation.  `gone` is a
history variable: Core carried out a call, or had deleted the memory, while the
revision was in this quarantine.  The
completion of another revision of the same memory may come in between.
Assumed, as by the code: an HTTP error means that nothing was done.

### DerivedQueue and EvidenceChain

`DerivedQueue` follows L2 jobs, their L3 jobs and the L4 jobs over sets of L3
results: settle, read the latest results, queue, with each reading and each
mutation a step; the results of the start have the portrait that their own
submits queued; a queueing may fail (and is reported) or never come.
Reviewers run `reconcile_derived` and `reconcile_l4` beside the submits.

`EvidenceChain` follows a submit of any layer, with a job or with refs of its
own, through resolving its project, reading the storage ids, reading the
ledger, checking, and recording the row; merges, retirements, new jobs and
other submits come between.  The same ledger holds the L3 and L4 texts that a
user dictated (`ConfirmReplacement`, `RecordReplacement`): such a row is
`authorized` and rests on the one turn of the confirmation, and `ChainGrounded`
says of every row which of the two it is.  In the code it has no mark of its
own.  It is a completed row like others, so later submits may name it.
Skills, archived projects and Core are left to the
other modules.  `LedgerAssumption` says of the ledger at the start what both
writers recorded before anything was merged.

### UserAuthorizedMemory, ArchitectureGovernance, SkillGovernance

Each has plans that remember what the user was shown and an execution that
takes its plan away, checks that nothing has changed, and writes.  What differs
is how the check and the write are joined.  In `UserAuthorizedMemory` they are
several awaits apart, and the confirmation is a captured turn.  In
`ArchitectureGovernance` they are one mutation, between a prepared and a
committed revision.  In `SkillGovernance` a revise is two requests to Core.
Each execution may die at every step.  Core's own changes, and those of other
writers, are actions too.

### SkillTelemetry, Accounts, ResultTransport

`SkillTelemetry`: `RecordSkillLoad` and `RecordSkillStage` read the log and
choose the lines, which are appended later, one by one; nothing is locked.
`Accounts`: each operation of `auth.ts` is one mutation; a console request
lists, resolves, lists again if an account was made, and looks its account up.
`ResultTransport`: a text is its length, its bytes and the places that would
split a surrogate pair; wrapping, reading, pruning, expiry and restart, with
the clock moved by each wrap.

### ProcessStack

One process, so what lies between two awaits is one step.  `work` says whether
a start or a recovery runs and where it stands (stopping children, checking
ports, spawning, waiting for readiness, undoing), `timer` is the scheduled
recovery, `monitor` the health interval, `probing` the probe under way,
`doomed` the children being terminated.  The owner's `shutdown`, the retries of
the first start and the exit are `run-stack.mjs`.  Children die or hang at any
time.  Not modelled: the lock and stop-request files of `run-stack.mjs`.

### CoreMigration

A preflight checks the live database, backs it up, copies, fingerprints and
writes the manifest, each a step at which it may die; Core writes meanwhile.  A
fingerprint is the database it was taken of.  Not modelled: which tables are
left out of a fingerprint, the command line, the copied configuration.


## What the runs check

| Run | Instance and bounds | Properties |
|---|---|---|
| `lock` | 4 processes of one host with one caller each, interchangeable | `OwnerKeepsLock`, `ImplementsMutex` |
| `live` | the lock: host h1 with a process of two callers and another of one, host h2 with one. The stack: 2 services, 2 failed probes, 2 restarts, 2 first starts. Weak fairness | `QueueExact`, `OrphanKept`, `CallSettles`, `DeadOwnerReclaimed`; `NothingLeftBehind`, `OneProcessPerService`, `OutageHandled` |
| `lock_aba` | as `lock`, without the probe assumption | `MutualExclusion` fails |
| `jobs` | 2 sessions of one harness, 2 rows, 2 tokens, time 0..3, targets L2 and L4 | `SoleHolder`, `WriteFenced`, `SettledForGood` |
| `submit` | 2 pending L2 jobs, 2 generations, one token, one heading | `TypeOK`, `NoDuplicateWrite`, `CompletedNamesWrite`, `NoLostWrite`, `TimelinePreserved` |
| `submit_4xx` | as `submit`, with definite errors on reconciliation | `NoDuplicateWrite` fails |
| `discovery` | 2 turns of one project, 2 projects, a sweep and another scan, threshold 2, one merge, one retirement, one failure; fairness | `ClaimedOncePerProject`, `ClaimedUnlessRetired` |
| `capture` | a new event and an old ingested one, 2 hosts and a sweeper, 5 posts (open, checkpoint, failure, 2 commits), one project, a hint that may come to resolve elsewhere | `IndexTrue`, `MarkerBacked`, `ImplementsEvidence` |
| `capture_live` | a plain and an excluded event, one host and a sweeper, 3 posts; weak fairness | `FrozenRecovered` |
| `capture_replay` | one event, one host and a sweeper, rerouting | `ReplayIsExact` fails |
| `services` | fourteen instances, below | `ServicesTypeOK` and the sixteen properties below |
| `projects_redirect` | the instance `projects` below | `ApprovedProjectOnly` fails |

The run `services` starts in one of fourteen parts and stays in it, so it
visits the sum of their states and not the product (about 1.21 million distinct
states); a property of one part is checked in all states of that part.  The two
backfills, sessions, reviewers and curators are interchangeable; no two of these
pairs are in the same part, so one swap of all of them (`MCInterchanged`) is
the symmetry of every part.

| Part | Instance and bounds | Property |
|---|---|---|
| projects | 2 projects and room for one, 2 spellings of one name, a todo, 2 callers, one authorization, one job | `MergedKept` |
| branches | 5 labels: a name, its second id, the second id of that; a name as long as a slug may be and its second id, which as a name is cut to the first; 3 rows | `IdMeansBranch` |
| architecture | 2 texts, 3 plans, 2 executions, the repository edited once | `AuditTrail` |
| retirement | 2 revisions, one completed later, 2 callers | `RestoredOnlyIfRefused`, `RetiredOnlyIfGone` |
| skills | 3 versions, 2 plans, 2 executions, 1 edit by Core | `NeverNone` |
| telemetry | 2 executions, 2 Skills, 2 requests, 5 lines | `OutcomeOfInvoked` |
| authorized | 2 texts, 2 plans, 1 turn, 2 executions | `NoBlindOverwrite` |
| migration | 2 records, 2 values, 2 preflights, 2 writes | `ManifestVouches` |
| accounts | 2 names, 2 addresses, 2 subjects, one request | `OneAccountPerIdentity` |
| derived | 3 L2 jobs of 2 projects, one completed before, 2 reviewers | `DerivedOnce`, `NothingUnderived` |
| captures | an event with a workspace and one with a hint, of one thread, 2 projects, one merge, batches of 1, 2 backfills, a writer, one assignment of the first event and its thread, deaths and rebuilds | `SettledListing` |
| context | 7 memories of all layers, 3 calls, one caller editing the registry | `CapsuleExact` |
| evidence | 2 projects, 2 turns, 3 rows and room for 2, 3 sets of refs, one submit, one turn in which a text may be confirmed | `ChainGrounded` |
| results | 2 clients of 2 accounts, 2 texts, chunks of 2 or 3, room for 2 results, 9 characters and 12 bytes, lifetime 1, clock up to 3 | `ResultReadBack` |

Why the bounds are enough for the cases that matter.  `lock`: the race of two
reclaimers over a dead owner needs the dead one, a slow and a fast reclaimer,
and a bystander that acquires: four.  `live`: a queue of two, a process of the
same host that can judge a death and one that cannot; two services are one
that is ready while the other is started, two restarts are one inside the
budget and one that exhausts it; any number of restarts may leave the window,
which refills it.
`jobs`: time 3 with leases of 2 and a prepared minimum of 2 reaches expiry
during a write and reassignment; two tokens give an old and a new generation;
two sessions share the owner name.  All sessions belong to one harness, the
case in which the name alone proves nothing.  `submit`: two generations are the
first write and a second; two jobs let one candidate meet the other's open
record, and let one timeline revision follow another; one lease token and the
owner-only lease are two generations of leases.  `discovery`: with threshold 2
a lone turn waits for idleness, a pair does not, and a pair overlaps with a
lone turn queued before it; two scans are enough to overlap.  `capture`: two
hosts hold two readings of one event while the sweeper holds a third; the posts
reach every status and every kind of merge, and one of them brings the hint
after another made the turn complete; the old event is ingested without an
intent, which is the case in which the marker alone protects it.
`capture_live` has the excluded event, which gets its marker without Core.
`services`: every part has two of what races (callers, executions, reviewers,
backfills, requests) where the code allows two.  In `projects` the third name
is an alias of one project and the name of another to come.  In `captures` the
registry leads both words to the first project, then to the second, once; each
batch has one row, so the cursor stands between the rows; the events are stored
with their hints, each once (the proof has no such bound).  The
assignment binds the thread, so both turns are resolved by a binding at some
time, and the second is one that may dispute it.  `SettledListing` speaks of
registries whose content is new, of an index that was not rebuilt, of files
that can be read and of rows that no race in `outdated` has hit.  With the hint
of the second event arriving later, and with the first event stored again, it
also holds (860 thousand and 770 thousand states, not among the runs).  In
`context` one memory is stored under an id that no project has yet.  In `results` an account has room for two results unless both are
long, and both accounts together for two; so the caps are reached by count, by
characters and by bytes.

For the modules with proofs the theorems cover every larger instance; the
others, and the liveness properties, are checked at these bounds only.

Deadlock is not checked in runs where all processes may be dead, the clock at
its bound, the generations or plans used up, or the owner of the stack gone.

### Fairness

`live`: for the lock, weak fairness of every step a live caller has ready (a
single event loop runs its ready continuations, the file operations complete)
and of the passing of a deadline; and weak fairness of new calls, because
reclaiming is only done by contenders.  For the stack, weak fairness of its
timers, signals, probes, waits and promises, each of which has a timeout, and
of the owner's retry and exit; which way a probe or a port check goes is open.
A restart may leave the window at any time and any number of times (`Age`, not
fair): then recoveries that fail slowly are tried for ever.  So `OutageHandled`
has two parts: every outage is met by a new start or the end, without
condition; and it ends, with all children back or the owner gone, unless
restarts leave the window infinitely often.
Nothing is assumed about crashes, deaths of children, or `shutdown`.
`discovery`: weak fairness of the passing of time (`Settle`, `Forget`) and of
each scan's steps, the sweep's start among them: the gateway's interval starts
it every minute and one at a time.  Scans after a turn need not happen
(`AfterTurn` is not fair): their errors are reported and left to the sweep.
`capture_live`: weak fairness of the steps of an operation under way (a
request to a live Core is answered), of the sweep and its loop (the same
interval), and of `RecoverIndex` (a server that died is started again and
recovers the index before it serves; without it a dirty index would stop every
sweep until the next post).  `FrozenRecovered` is claimed of behaviours in
which posts, deaths, lost answers and rerouting cease: nothing bounds the
number of failures in the code, and the next sweep simply tries again.

### Where the code differs from what is said of it

Four runs show a violation.  The others named here have a configuration that
shows them, outside the runs; `Services_observed.cfg` lists ten properties,
to be checked one at a time.

* `lock_aba`: `staleLockCanBeRemoved` reads the owner and probes its process
  in two awaits.  If the owner read was alive, and releases and exits before
  the probe while another caller acquires, the probe says "dead" and the
  reclaimer unlinks the live lock.  It takes an owner that ends its process at
  that moment; the comments (`file-mutation-lock.ts:54-56`) and the test
  (`tests/file-mutation-lock-e2e.mjs:28-29`) exclude exactly this outcome.
  Comparing the token again at the unlink narrows the window; only a lock that
  is not unlinked by others (or `rename` to a unique name, then inspect)
  closes it.
* `submit_4xx`: a definite client error on the *replay* of a write whose first
  answer was lost is treated as a rejection of the write
  (`distillation-submit.ts:231`).  After the ordinary retry of the job the
  artefact is written a second time.  The replay branch should leave the
  record open whatever the status.
* `DistillationDiscovery_merge.cfg` (`ClaimedOnce`): rows keep the project they were queued for, turns follow
  the merge, so merged projects' turns are queued and distilled a second time
  (`distillation-discovery.ts:107`, `distillation-jobs.ts:752`).
* `DistillationDiscovery_retired.cfg` (`EveryTurnClaimed`): a retired row no longer counts as using its turns but
  still makes `enqueueJob` refuse any batch with one of them; fresh turns that
  share the batch wait for ever (`distillation-discovery.ts:79` against
  `distillation-jobs.ts:749`).
* `capture_replay`: the recovery sweep and a retried post resolve the event's
  project again and name it in both request bodies, under request ids that
  depend on the event alone (`capture-recovery.ts:120`, `turn-log.ts:92`).  If
  a merge or an assignment changes the resolution after Core's commit and
  before the marker, the replay is not "the exact same request"
  (`docs/operations/distillation-and-tool-errors.md:9`): Core answers a
  conflict, every minute again, and the event never gets its marker.  No
  evidence is lost; the intent would have to hold the project.
* `projects_redirect` (`ApprovedProjectOnly`): an approved deletion counts the jobs of the project that
  was planned and then hands the registry its id, which the registry resolves
  again (`project-governance.ts:199-203`).  If the project is merged in between,
  its id is an alias of the target, and the target is deleted.
* `Stack_stop.cfg` (`StopEndsProcess`): a stop during the last readiness probe
  clears the health interval, which the start then sets again
  (`process-stack.ts:172`), so the process does not end by itself.
* `ShownOnly`: between the check of the canonical text and its replacement lie
  three awaits; a write that comes in there is overwritten without having been
  shown (`user-authorized-memory.ts:173`).
* `OneOutcome`: two crossing recordings give one execution two outcomes
  (`skill-telemetry.ts:76-90`).
* `ResolvedIsListed`: a console request that lists the accounts, and then finds
  one that another request has just created, fails (`gateway-http.ts:328`).
* `AssignmentFollows`: an assignment that resolves its project before a merge
  and takes the lock after it leaves a row of the merged-away id that no
  backfill repairs (`capture-project-assignments.ts:55,85`).
* `RoutingRederived`: that routing changes "invalidate and lazily re-derive
  cached projects" does not hold of all of them.  The revision of a row is a
  hash of the registry's content.  A row resolved while the registry was
  different for a moment carries the revision from before and after, so no
  backfill looks at it again (`capture.ts:919`); and after a rebuild of the
  index, an assignment gives a row a project without a revision, and the record
  that the next store starts says complete although that row was resolved under
  an earlier registry.
* `EveryIdActs`: closing and reopening take the first row whose id or name is
  the reference (`branch-store.ts:103-107`), and ids are cut at 64 characters
  before a suffix is appended (149, 161).  A branch named 64 times `x` and `-2`
  gets the id of 64 times `x`; one then named 64 times `x` gets an id that is
  the first one's name, and to close it closes the first.
* `AuditMirrors`: the audit resolves turns without the user's assignments
  (`distillation-audit.ts:234`), discovery with them.
* `OwnArchitecture`: of a project with merged ones, the document answered is
  that of the alphabetically first id, not its own (`context-router.ts:199`).
* `TwoProjects`: two projects that have been merged into one count as the two
  that an L4 needs (`distillation-evidence.ts:141`).
* `NoBorrowedMemory`: an alias may be the id of an archived or deleted project,
  because only active rows are checked (`project-registry.ts:516-526`); the
  storage ids include it (96-111), and that project's memory is recalled.

Smaller observations, from modelling, without a property: `deleteAccount` may
delete the last administrator, whom `setAccountRole` refuses to demote; a
recovery that fails slowly ages out of the restart window, so the budget may
never be exhausted and the stack recover for ever (`OutageHandled` says no more
of that case than that every outage meets a new start); a death between Core's write and the ledger record of a
user-authorized memory blocks later plans for it; a direct L3 submission queues
no L4; a late answer of a stale backfill task may overwrite a row enriched
meanwhile (`capture.ts:904-925`).


## What is proved

TLAPS checks, for every value of the constants that satisfies the named
assumptions:

* `LockTypeOK`, `LockMutualExclusion`, `LockOwnerKeepsLock`, `LockOrphanKept`,
  `LockQueueExact` and `LockImplementsMutex` of `QuietSpec`.  Mutual exclusion is
  not inductive.  The invariant adds: who is between creation and its own unlink
  owns the file at the path; who holds the guard is at one of the guarded steps
  and nobody else is; an owner read under the guard and not yet probed is alive,
  or its file is still the one at the path (this is where `NoDeathUnderProbe` is
  used); and at the unlink the file's creator is dead.  The refinement maps the
  abstract holder to the caller in its section.  `QueueExact` needs that a
  running call stands at the head of its process' queue (`QueueInv`) and that a
  caller stands there at most once (`PlaceInv`): a call that leaves takes the
  head and nothing else.
* `StackOneProcess` and `StackNothingLeft`.  The invariant says who awaits the
  end of children being terminated (`TerminationAwaited`: the undoing or
  stopping of a start, or a stop with no start under way), and that after a stop
  or a failed start nothing wants the stack up, so no timer is set, and once the
  stop is over no child is left (`StopHolds`).  Nothing is assumed of the
  services, the budgets or the order of stop, death and recovery.
* `JobsTypeOK`, `JobsSoleHolder`, `JobsWriteFenced`, `JobsSettledForGood`.
  `SoleHolder` needs: tokens are drawn fresh and each was handed to one
  session only; a row without a token, once leased, has `attempts > 0` and is
  never leased without a token again, so its owner-only credential was handed
  out once.  `WriteFenced` needs in addition that a worker still has the
  credential of its request under way, and that the request's deadline lies
  before its lease's, which is where `RequestTime < MinRemaining` is used.
  `SettledForGood` needs that a failure is recorded on failed rows only.
* `DiscoveryTypeOK`, `DiscoveryClaimedOncePerProject`: the check inside the
  locked mutation is enough, whatever the scans have read.
* `SubmitTypeOK`, `SubmitCompletedNamesWrite` and `SubmitTimelinePreserved`, for
  any jobs, generations, tokens and answers; `SubmitNoDuplicateWrite` and
  `SubmitNoLostWrite` under `~ReconcileRefused`, because otherwise they do not
  hold (`submit_4xx`).  `RecordInv` joins the two files: an open record's write
  is its candidate's and comes after all that is completed, whoever asks Core
  has the open record or a job that is at most skipped, and results are of
  completed rows only.  `WriteInv` speaks of what was sent, applied or not: it
  is given up, or the open record's, or its job is completed by it or skipped
  (`Accounted`); no two writes of a job are both not given up, also not one that
  was sent and one that the open record or the submit under way may still send
  (`SingleWrite`); and a write that a definite answer refused is nowhere any more
  (`RefusedGone`), which is what a refused reconciliation breaks.
* `CaptureTypeOK`, `CaptureIndexTrue`, `CaptureEvidenceMatches`,
  `CaptureMarkerBacked`, `CaptureIngestedForGood` and
  `CaptureImplementsEvidence`.  `EvidenceInv` says that an intact intent names
  what the file says, that every request, waited for or not, carries what the
  intent froze, that only an unsealed turn is about to be written, and that
  who is about to mark has Core's answer; the first three make the enrichment
  of a turn and the late application of a request harmless to each other.
  `IndexInv` says that every row outside the dirty marks is right, that a
  mutation under way is the only one and has marked exactly its own event, and
  what its own row is at each of its steps.  The refinement maps the files to
  the content, intents and markers to the seal, and what Core applied to what
  it was told.  Nothing is assumed of posts, deaths, or the project resolution.

* `AccountsSafe` (`OneAccountPerIdentity`).  The invariant is inductive with the
  type; the lemmas say what a row may be replaced by without touching what
  others hold.
* `TelemetryCredits` (`OutcomeOfInvoked`).  The lines a request is about to
  append were decided on an old reading; the invariant says that what they need
  before them is in the log or earlier among them, and stays so because the log
  only grows.
* `BranchIdsHold` (`IdMeansBranch`), of any ids tried for a name.  That ids are
  distinct does not keep a later branch from being given an id that an earlier
  one has for a name; that a name's own slug is taken, by that branch or one
  before it, as soon as a branch has the name, does, for ids that are their own
  slug.  Of the others only retrieval by id is claimed, and closing and
  reopening not (`EveryIdActs`).
* `ArchitectureAudited` (`AuditTrail`).  The three parts of the trail need that
  executions under way have different plans, that an unused plan has no
  revision, and that a running execution has left what its plan needs.
* `CapturesSettled` (`SettledListing`).  That the rows are right when the record
  says complete is not inductive.  The invariant speaks of the rows that are due
  (`Due`): those of the registry's revision, those at or before the cursor of a
  record of that revision, and those that a task of that revision has gone
  past, because when the task ends its record will say so.  A row that is due is
  `Right`.  To keep it, nobody at work under the lock may have read another
  registry while anything is of the one of now (`OfNow`), and a store about to
  write has resolved right (`UpsertRight`).  All of this holds while the
  registry's content is new and the index was not rebuilt: every revision that
  was read is that of now or of before (`Aged`), so a change to a new content
  leaves nothing due.  Rows in `outdated` are not claimed to be right: what the
  theorem excludes is named there and in the property, by the step that causes
  it and not by what the row says afterwards.
* `RegistryMergedKept` and `GovernanceMergedKept` (`MergedKept`).  An id is one
  row's for good (`OneRowPerId`), a merged row points to one that exists
  (`MergedIntoRow`), and a merge was resolved to two different rows although
  other calls come between the resolution and the lock (`MergesApart`).
  Governance and console make only calls of the registry, so its invariant
  carries over, crashes included.
* `RetirementRestoredOnlyIfRefused` and `RetirementRetiredOnlyIfGone`, as action
  properties.  What a call may put back is in no other call's quarantine or late
  request and was not touched by Core (`QuarantineInv`), and a revision in use is
  in none (`InUseInv`); what it is about to finish is `gone`.
* `DerivedDerivedOnce` and `DerivedNothingUnderived`.  The first needs that no
  second claim or portrait exists (`OnceInv`), because each is decided inside
  the mutation.  The second needs `PortraitOwed`: whenever the set of latest
  results has changed, the submit that changed it is yet to list them, or is
  queueing the portrait of exactly these.
* `EvidenceChainGrounded` (`ChainGrounded`), from `LedgerAssumption`, of what
  submits record and of what users dictate.  Rows are
  sound up to merges (`RowSound`), and a submit under way has found out what will
  still hold when it records (`SubmitSound`): merges only join projects, rows
  only gain results, so what a reading showed cannot become wrong.
* `SkillNeverNone` (`NeverNone`): while nothing was retired with approval, some
  active version is under no execution's archiving (`Spared`), the one that a
  revise has made being new.
* `AuthorizedNoBlindOverwrite` (`NoBlindOverwrite`): from its reading on, an
  execution sees the canonical text its plan showed, or was overtaken.
* `MigrationManifestVouches` (`ManifestVouches`): the baseline stands as it was
  from the backup on, and the manifest is written from it.
* `TransportResultReadBack` (`ResultReadBack`), with `TransportTypes` and
  `TransportReadsAdvance`, the last an action property that no run lists: a
  client that reads on gets further, or is told where it is that the result has
  expired.  The invariant speaks of every result and not of those being read:
  one that is neither in memory nor in a file is excused (`GivenUp`), so that a
  reader who comes later is told for the same reason.  Excuses are kept because
  each only gets stronger as results are added and time passes
  (`ExcusedGrows`): sums over the results from one on grow with their number.
  A new result excuses those pruned for its room (`PrunedExcused`,
  `RoomExcused`), and what is left fits (`PrunedFits`, `RoomCapped`).
* `ContextCapsuleExact` (`CapsuleExact`), with `ContextTypes`.  While the call is
  under way the scope is among the ids its memory is looked up by
  (`ContextInv`), whatever happens to the registry.  That none of these ids is
  another project's, unless an alias says the same word, rests on `MergedKept`
  (the names of the scope are those of the rows merged into it, `NamesOfScope`).  That every candidate is accounted for is an invariant of the
  visits (`BudgetInv`): what was taken of a collection is in the answer or
  counted as dropped, what is in the answer is what is gone from the budget, and
  a collection that got nothing has no more to give, or the first items of those
  before it used the budget up.  The order of the first round is what makes the
  last part true and inductive.

The last two rest on functions defined by recursion on a number, the sums and
the rounds.  The library's induction takes an operator as a parameter and cannot
be used; `Iterates` and the lemmas after it show what such a function computes
by the least number at which it would not (`FirstIsFirst`, from the
well-foundedness of the naturals), which needs none.

Only model-checked:

* what is claimed under fairness, which is out of the proof system's reach:
  `CallSettles`, `DeadOwnerReclaimed`, `OutageHandled`, `ClaimedUnlessRetired`,
  `FrozenRecovered`;
* `ServicesTypeOK`, which is about the instance that joins the fourteen parts.
  The types of its parts belong to the invariants proved above.

## Not modelled

Left, and worth doing: the stack's lock and stop-request protocol of
`run-stack.mjs` (`clearOwnStopRequest` reads the request and then unlinks it, so
one just written for the next owner can be lost); an overridden artifact id in
`DistillationSubmit`; the explicit recovery of one event and turns of which
only a part is excluded in `CaptureStore`; the consolidation.

Left out for good: ranking, hydration, summaries, rendering, argument parsing
and MCP sessions, which read and format; redaction, a transformation of text;
configuration, readiness and deployment; and Memory Core itself, which is
external and modelled by what its callers may see of it.

## Running

    tlc -config FileLock.cfg MCFileLock4        # and so on, see PROJECT.json
    tlc -config Services.cfg MCServices
    tlapm LockAndStackProofs.tla                # and the other ...Proofs
