-------------------------- MODULE CaptureProjects --------------------------
(***************************************************************************)
(* Which project a captured turn belongs to, as the capture index keeps it *)
(* (src/src/capture-project-resolution.ts, capture-project-assignments.ts  *)
(* and the backfill in src/src/capture.ts): each row has the project its   *)
(* event resolved to and the revision of the registry it was resolved      *)
(* under.  A row is written when its event is stored or assigned; when the *)
(* registry changes, a background task resolves all rows again, in batches *)
(* with a durable cursor.  The index has a lock and the registry another:  *)
(* the registry may change at any moment of every operation here.          *)
(*                                                                         *)
(* An event is its number, in the order of the event ids; Shape[e] is its  *)
(* time and the words it may be resolved by.  The registry is the function *)
(* from words and project ids to the project they lead to, and is its own  *)
(* revision: contents that return have the revision that they had.  Left   *)
(* out: the previews, statuses and ages of the rows, and what in a row     *)
(* repeats its event's file (it is behind during a store).                 *)
(***************************************************************************)
EXTENDS Naturals, Sequences, FiniteSets, FiniteSetsExt
CONSTANTS
  Events,       \* how many there are
  Shape,        \* of each: [time, hint, workspace, thread]
  LateHinted,   \* events first stored without their hint and enriched with it
  Restored,     \* bound: those that may be stored again as they are
  Unreadable,   \* events whose file is corrupt
  Alias,        \* hints and workspace names
  Place,        \* project ids
  Registry0,    \* the registry at the start
  Changed,      \* the pairs of registry contents that may follow one another
  Assignment,   \* the calls to assign: [ids, thread, to]
  Backfiller,   \* processes that run the backfill
  Writer,       \* processes that store and assign
  Batch,        \* rows resolved under one holding of the lock
  MaxBindings,  \* bound on the assignments of a thread
  Nil,          \* no word, no thread, no project
  Global,       \* kept global by the user
  Unresolved    \* NULL: of a row not resolved; as revision, of a row of an older index

EventId == 1..Events
Worker == Backfiller \cup Writer
RegistryOf == [Alias \cup Place -> Place \cup {Nil}]

ASSUME EventsAssumption == {Events, Batch} \subseteq Nat \ {0} /\ MaxBindings \in Nat
ASSUME ShapeAssumption ==
  /\ \A e \in EventId : /\ Shape[e].time \in Nat
                       /\ {Shape[e].hint, Shape[e].workspace} \subseteq Alias \cup {Nil}
  /\ LateHinted \cup Unreadable \cup Restored \subseteq EventId /\ LateHinted \cap Unreadable = {}
ASSUME RegistryOfAssumption ==
  Registry0 \in RegistryOf /\ Changed \subseteq RegistryOf \X RegistryOf
ASSUME AssignmentAssumption ==
  \A a \in Assignment : /\ a.ids \subseteq EventId /\ (a.ids # {} \/ a.thread # Nil)
                        /\ a.to \in Place \cup {Global}
                        /\ a.thread \in {Shape[e].thread : e \in EventId} \cup {Nil}
ASSUME WorkerAssumption ==
  /\ Backfiller \cap Writer = {} /\ Nil \notin Worker \cup RegistryOf
  /\ {Nil, Global, Unresolved} \cap (Alias \cup Place) = {} /\ Unresolved \notin RegistryOf
  /\ Nil # Global /\ Nil # Unresolved /\ Global # Unresolved
  /\ Nil \notin [cursor : Nat, rev : RegistryOf, complete : BOOLEAN]

VARIABLES
  registry,  \* what words lead to now
  hinted,    \* stored events, with TRUE if the hint is in the file
  rows,      \* the index: event |-> [to, rev]
  columns,   \* the index has the columns of the resolution
  direct,    \* the latest assignment of each event
  bound,     \* the assignments of threads, in order
  progress,  \* Nil or [cursor, rev, complete]
  holder,    \* who holds the lock of the index
  worker,    \* of each process: Nil or what it is at and has read
  dirty,     \* the mark of a store under way, or of one that a process died in
  formerly,      \* history: the contents the registry had before a change
  rebuilt,   \* history: the index was rebuilt
  outdated   \* history: the rows that a race has left behind since they were resolved
marks == <<dirty, formerly, rebuilt, outdated>>
captureProjectVars ==
  <<registry, hinted, rows, columns, direct, bound, progress, holder, worker, dirty, formerly,
    rebuilt, outdated>>

Stored == DOMAIN hinted

-----------------------------------------------------------------------------
(* resolveCaptureProject *)

Lookup(reg, w) == IF w = Nil THEN Nil ELSE reg[w]
HintOf(has, e) == IF has THEN Shape[e].hint ELSE Nil

\* The latest assignment of the thread whose anchor is not after the event.
Bindings(e, bs) == {i \in DOMAIN bs : /\ Shape[e].thread # Nil
                                      /\ bs[i].thread = Shape[e].thread
                                      /\ Shape[bs[i].anchor].time <= Shape[e].time}

\* Another turn since the anchor has a hint of another project.
Disputed(e, b, reg) ==
  \E f \in DOMAIN rows \ {b.anchor} :
     /\ Shape[f].thread = b.thread
     /\ Shape[f].time >= Shape[b.anchor].time /\ Shape[f].time <= Shape[e].time
     /\ Lookup(reg, HintOf(hinted[f], f)) \notin {Nil, b.to}

Assigned(to, reg) == IF to = Global THEN Global ELSE reg[to]

\* captureAssignmentSnapshot and resolveCaptureProjectSnapshot, of an event
\* whose file has its hint or not, assigned to a project or not.
Resolution(e, has, reg, to, bs) ==
  LET hint == Lookup(reg, HintOf(has, e))
      bindings == Bindings(e, bs)
      newest == bs[Max(bindings)]
  IN IF hint # Nil THEN hint
     ELSE IF to # Nil THEN Assigned(to, reg)
     ELSE IF bindings # {} /\ ~Disputed(e, newest, reg) THEN Assigned(newest.to, reg)
     ELSE Lookup(reg, Shape[e].workspace)
Live(e) == Resolution(e, hinted[e], registry, direct[e], bound)

-----------------------------------------------------------------------------
CaptureProjectInit ==
  /\ registry = Registry0
  /\ \E s \in {{}, Unreadable \cup {1}} : hinted = [e \in s |-> e \notin LateHinted]
  /\ columns = FALSE
  /\ rows = [e \in DOMAIN hinted |-> [to |-> Unresolved, rev |-> Unresolved]]
  /\ direct = [e \in EventId |-> Nil] /\ bound = <<>>
  /\ progress = Nil /\ holder = Nil
  /\ worker = [p \in Worker |-> Nil]
  /\ dirty = FALSE /\ formerly = {} /\ rebuilt = FALSE /\ outdated = {}

\* The registry is changed by anyone, under its own lock.
ChangeRegistry ==
  /\ \E change \in Changed : change[1] = registry /\ registry' = change[2]
  /\ formerly' = formerly \cup {registry}
  /\ UNCHANGED <<hinted, rows, columns, direct, bound, progress, holder, worker, dirty,
                 rebuilt, outdated>>

Doing(p, step) == worker[p] # Nil /\ worker[p].at = step
GoOn(p, job) == worker' = [worker EXCEPT ![p] = job]
Lock(p) == holder = Nil /\ holder' = p
Released(p) == GoOn(p, Nil) /\ holder' = IF holder = p THEN Nil ELSE holder

\* A reader waits while a writer has changes that are not checkpointed yet, and
\* fails on the mark of a store that a process died in.
Checkpointed == ~dirty /\ \A p \in Worker : holder = p => ~Doing(p, "rows")

\* Opening the index to write adds what an older one lacks.
Open == columns' = TRUE

\* One that dies while it stores leaves its mark.
Crash(p) ==
  /\ worker[p] # Nil
  /\ Released(p)
  /\ UNCHANGED <<registry, hinted, rows, columns, direct, bound, progress, marks>>

\* ensureCaptureIndexUnlocked, before anything is stored or marked and when a
\* server starts: on a mark, all rows are made anew of the files, not resolved,
\* and the record of the backfill goes.  A corrupt file makes it fail.
Rebuild ==
  /\ holder = Nil /\ dirty /\ Stored \cap Unreadable = {}
  /\ rows' = [e \in Stored |-> [to |-> Unresolved, rev |-> Nil]]
  /\ progress' = Nil
  /\ dirty' = FALSE /\ rebuilt' = TRUE /\ outdated' = {} /\ Open
  /\ UNCHANGED <<registry, hinted, direct, bound, holder, worker, formerly>>

-----------------------------------------------------------------------------
(* storeCaptureEvent, as far as the resolution goes *)

\* The rows of the other turns of its thread that have their project of a binding: a
\* store resolves only its own row, though their binding may be disputed by it now.
Beside(e) == {f \in DOMAIN rows \ {e} : /\ Shape[f].thread = Shape[e].thread
                                        /\ Bindings(f, bound) # {} /\ direct[f] = Nil}

\* The file is written under a mark, if the event is new or now has its hint; the
\* revision is read and the event then resolved: the registry may change between.
StoreEvent(p) ==
  /\ worker[p] = Nil /\ Lock(p) /\ ~dirty
  /\ \E e \in EventId \ Unreadable : \E has \in {e \notin LateHinted, TRUE} :
       /\ e \notin Stored => has = (e \notin LateHinted)
       /\ e \in Stored /\ hinted[e] => has
       /\ e \in Stored /\ hinted[e] = has => e \in Restored
       /\ hinted' = [f \in Stored \cup {e} |-> IF f = e THEN has ELSE hinted[f]]
       /\ dirty' = (hinted' # hinted) /\ outdated' = outdated \cup {e} \cup Beside(e)
       /\ GoOn(p, [at |-> "resolve", ev |-> e, rev |-> registry])
  /\ Open
  /\ UNCHANGED <<registry, rows, direct, bound, progress, formerly, rebuilt>>

ResolveStored(p) ==
  /\ Doing(p, "resolve")
  /\ GoOn(p, [at |-> "upsert", ev |-> worker[p].ev, rev |-> worker[p].rev,
            to |-> Live(worker[p].ev)])
  /\ UNCHANGED <<registry, hinted, rows, columns, direct, bound, progress, holder, marks>>

Upserted(e, row) == [f \in DOMAIN rows \cup {e} |-> IF f = e THEN row ELSE rows[f]]

\* The first row of an account also starts the record of the backfill, complete
\* unless a row is not resolved or of an older index.
Upsert(p) ==
  LET w == worker[p] IN
  /\ Doing(p, "upsert")
  /\ rows' = Upserted(w.ev, [to |-> w.to, rev |-> w.rev])
  /\ progress' = IF progress # Nil THEN progress
                 ELSE [cursor |-> 0, rev |-> w.rev,
                       complete |-> \A f \in DOMAIN rows' :
                                      Unresolved \notin {rows'[f].to, rows'[f].rev}]
  /\ dirty' = FALSE
  /\ outdated' = (outdated \cup Beside(w.ev)) \ {w.ev}
  /\ Released(p)
  /\ UNCHANGED <<registry, hinted, columns, direct, bound, formerly, rebuilt>>

-----------------------------------------------------------------------------
(* assignCaptureProjects *)

\* The project is resolved before the lock is taken.
BeginAssign(p) ==
  /\ worker[p] = Nil
  /\ \E a \in Assignment :
       LET to == IF a.to = Global THEN Global ELSE registry[a.to] IN
       /\ to # Nil
       /\ GoOn(p, [at |-> "assign", ids |-> a.ids, thread |-> a.thread, to |-> to])
  /\ UNCHANGED <<registry, hinted, rows, columns, direct, bound, progress, holder, marks>>

Threaded(t) == {e \in DOMAIN rows : Shape[e].thread = t}
\* The events that are assigned, and those whose rows may change by it.
Chosen(w) == IF w.ids = {} THEN Threaded(w.thread) ELSE w.ids
Affected(w) == IF w.thread = Nil THEN w.ids ELSE Threaded(w.thread)
MayAssign(w) ==
  /\ ~dirty
  /\ Chosen(w) # {} /\ Chosen(w) \subseteq DOMAIN rows \ Unreadable
  /\ w.thread # Nil => \A e \in Chosen(w) : Shape[e].thread = w.thread

\* What the words of the affected events lead to is read first, under the lock.
LockAssign(p) ==
  /\ Doing(p, "assign") /\ MayAssign(worker[p])
  /\ Lock(p) /\ Open
  /\ GoOn(p, [at |-> "commit", ids |-> worker[p].ids, thread |-> worker[p].thread,
            to |-> worker[p].to, reg |-> registry])
  /\ UNCHANGED <<registry, hinted, rows, direct, bound, progress, marks>>

AssignRefused(p) ==
  /\ Doing(p, "assign") /\ ~MayAssign(worker[p]) /\ holder = Nil
  /\ Released(p)
  /\ UNCHANGED <<registry, hinted, rows, columns, direct, bound, progress, marks>>

Earliest(s) == CHOOSE e \in s : \A f \in s :
                  \/ Shape[e].time < Shape[f].time
                  \/ (Shape[e].time = Shape[f].time /\ e <= f)
OfThread(t) == {i \in DOMAIN bound : bound[i].thread = t}
\* The same binding is not appended twice.
Bound(w) ==
  LET new == [thread |-> w.thread, to |-> w.to, anchor |-> Earliest(Affected(w))]
      last == bound[Max(OfThread(w.thread))]
      same == /\ OfThread(w.thread) # {} /\ last.to = new.to
              /\ Shape[last.anchor].time = Shape[new.anchor].time
  IN IF w.thread = Nil \/ same THEN bound ELSE Append(bound, new)

\* One transaction: the decisions, then the rows resolved by them.  The project
\* that was resolved first counts as what it was then: if it was merged before the
\* rest was read, the rows are overtaken.  A row's revision stays.
CommitAssign(p) ==
  LET w == worker[p]
      reg == [k \in DOMAIN w.reg |-> IF k = w.to THEN w.to ELSE w.reg[k]]
  IN
  /\ Doing(p, "commit") /\ Len(Bound(w)) <= MaxBindings
  /\ direct' = [e \in EventId |-> IF e \in Chosen(w) THEN w.to ELSE direct[e]]
  /\ bound' = Bound(w)
  /\ rows' = [e \in DOMAIN rows |->
                IF e \in Affected(w)
                THEN [rows[e] EXCEPT !.to = Resolution(e, hinted[e], reg, direct'[e], bound')]
                ELSE rows[e]]
  /\ outdated' = IF reg = w.reg THEN outdated \ Affected(w) ELSE outdated \cup Affected(w)
  /\ Released(p)
  /\ UNCHANGED <<registry, hinted, columns, progress, dirty, formerly, rebuilt>>

-----------------------------------------------------------------------------
(* scheduleCaptureProjectBackfill *)

\* One task in each process.
Schedule(t) ==
  /\ worker[t] = Nil /\ Stored # {}
  /\ GoOn(t, [at |-> "pending", rev |-> registry])
  /\ UNCHANGED <<registry, hinted, rows, columns, direct, bound, progress, holder, marks>>

\* The record is there and of this revision.
Recorded(rev) == progress # Nil /\ progress.rev = rev
Needed(rev) == ~columns \/ ~Recorded(rev) \/ ~progress.complete

ReadPending(t) ==
  /\ Doing(t, "pending") /\ Checkpointed
  /\ IF Needed(worker[t].rev)
     THEN GoOn(t, [at |-> "begin", rev |-> worker[t].rev, migrate |-> ~columns])
     ELSE GoOn(t, Nil)
  /\ UNCHANGED <<registry, hinted, rows, columns, direct, bound, progress, holder, marks>>

\* Under the lock: the record of another revision is replaced, one of this
\* revision is continued.
BeginBackfill(t) ==
  LET w == worker[t]
      anew == ~Recorded(w.rev) \/ w.migrate
  IN
  /\ Doing(t, "begin") /\ holder = Nil /\ Open
  /\ progress' = IF anew THEN [cursor |-> 0, rev |-> w.rev, complete |-> FALSE] ELSE progress
  /\ IF progress'.complete THEN GoOn(t, Nil)
     ELSE GoOn(t, [at |-> "scan", rev |-> w.rev, cursor |-> progress'.cursor])
  /\ UNCHANGED <<registry, hinted, rows, direct, bound, holder, marks>>

\* Mutant: the batches pass over the turns that were assigned.
StaleUnassigned(e, rev) == direct[e] = Nil /\ (rows[e].rev # rev \/ rows[e].to = Unresolved)
Stale(e, rev) == rows[e].rev # rev \/ rows[e].to = Unresolved

\* The next rows, in the order of the event ids; their files are read.
Scan(t) ==
  LET w == worker[t]
      ids == {e \in DOMAIN rows : e > w.cursor /\ Stale(e, w.rev)}
      batch == {e \in ids : Cardinality({f \in ids : f < e}) < Batch}
  IN
  /\ Doing(t, "scan") /\ Checkpointed
  /\ IF ids = {} THEN GoOn(t, [at |-> "finish", rev |-> w.rev])
     ELSE GoOn(t, [at |-> "batch", rev |-> w.rev, cursor |-> Max(batch),
                 has |-> [e \in batch \ Unreadable |-> hinted[e]]])
  /\ UNCHANGED <<registry, hinted, rows, columns, direct, bound, progress, holder, marks>>

LockBatch(t) ==
  /\ Doing(t, "batch") /\ Lock(t)
  /\ GoOn(t, [worker[t] EXCEPT !.at = "rows"])
  /\ UNCHANGED <<registry, hinted, rows, columns, direct, bound, progress, marks>>

\* Each row is a statement of its own; the revision is the one the task read, the
\* resolution that of now, of the file as it was: it may have got its hint since.
ResolveRow(t) ==
  LET w == worker[t]
      e == Min(DOMAIN w.has)
  IN
  /\ Doing(t, "rows") /\ DOMAIN w.has # {}
  /\ rows' = IF ~Stale(e, w.rev) THEN rows
             ELSE [rows EXCEPT ![e] =
                     [to |-> Resolution(e, w.has[e], registry, direct[e], bound),
                      rev |-> w.rev]]
  /\ outdated' = IF ~Stale(e, w.rev) THEN outdated
                  ELSE IF w.has[e] = hinted[e] THEN outdated \ {e} ELSE outdated \cup {e}
  /\ GoOn(t, [w EXCEPT !.has = [f \in DOMAIN w.has \ {e} |-> w.has[f]]])
  /\ UNCHANGED <<registry, hinted, columns, direct, bound, progress, holder, dirty, formerly,
                 rebuilt>>

EndBatch(t) ==
  LET w == worker[t] IN
  /\ Doing(t, "rows") /\ w.has = <<>>
  /\ progress' = IF Recorded(w.rev) THEN [progress EXCEPT !.cursor = w.cursor] ELSE progress
  /\ holder' = Nil
  /\ GoOn(t, [at |-> "scan", rev |-> w.rev, cursor |-> w.cursor])
  /\ UNCHANGED <<registry, hinted, rows, columns, direct, bound, marks>>

Marked(rev) == IF Recorded(rev) THEN [progress EXCEPT !.complete = TRUE] ELSE progress

FinishBackfill(t) ==
  /\ Doing(t, "finish") /\ holder = Nil
  /\ progress' = Marked(worker[t].rev)
  /\ GoOn(t, Nil)
  /\ UNCHANGED <<registry, hinted, rows, columns, direct, bound, holder, marks>>

\* closeCaptureIndexDb cancels the task; it looks before each of its steps.
Cancel(t) ==
  /\ worker[t] # Nil /\ holder # t
  /\ GoOn(t, Nil)
  /\ UNCHANGED <<registry, hinted, rows, columns, direct, bound, progress, holder, marks>>

WriterStep(p) == \/ StoreEvent(p) \/ ResolveStored(p) \/ Upsert(p)
            \/ BeginAssign(p) \/ LockAssign(p) \/ AssignRefused(p) \/ CommitAssign(p)
Backfill(t) == \/ Schedule(t) \/ ReadPending(t) \/ BeginBackfill(t) \/ Scan(t) \/ LockBatch(t)
               \/ ResolveRow(t) \/ EndBatch(t) \/ FinishBackfill(t) \/ Cancel(t)
CaptureProjectNext == \/ ChangeRegistry
                      \/ \E p \in Writer : WriterStep(p)
                      \/ \E t \in Backfiller : Backfill(t)
                      \/ (\E p \in Worker : Crash(p)) \/ Rebuild
CaptureProjectSpec == CaptureProjectInit /\ [][CaptureProjectNext]_captureProjectVars

-----------------------------------------------------------------------------
(* What the readers make of the index *)

\* readCaptureProjectIndexPage and listL1Turns: the rows resolved to the project,
\* and those not resolved that the words, an assignment or a binding may put there
\* and the resolution of now does.
Candidate(e, p) ==
  LET hint == Lookup(registry, HintOf(hinted[e], e))
      bindings == Bindings(e, bound)
  IN \/ hint = p
     \/ hint = Nil /\ Lookup(registry, Shape[e].workspace) = p
     \/ direct[e] = p
     \/ bindings # {} /\ bound[Max(bindings)].to = p
Pending == {e \in DOMAIN rows : rows[e].to \in {Nil, Global, Unresolved}}
ListTurns(p) == {e \in DOMAIN rows : rows[e].to = p}
                  \cup {e \in Pending : Candidate(e, p) /\ Live(e) = p}

\* listUnassignedCaptures
Unassigned == {e \in DOMAIN rows : rows[e].to \in {Nil, Unresolved} /\ direct[e] = Nil}

RowOf == [to : Place \cup {Nil, Global, Unresolved}, rev : RegistryOf \cup {Nil, Unresolved}]
CaptureProjectTypeOK ==
  /\ registry \in RegistryOf /\ formerly \subseteq RegistryOf /\ outdated \subseteq EventId
  /\ Stored \subseteq EventId /\ hinted \in [Stored -> BOOLEAN]
  /\ DOMAIN rows \subseteq Stored /\ rows \in [DOMAIN rows -> RowOf]
  /\ {columns, dirty, rebuilt} \subseteq BOOLEAN
  /\ direct \in [EventId -> Place \cup {Nil, Global}]
  /\ bound \in Seq([thread : {Shape[e].thread : e \in EventId}, to : Place \cup {Global},
                    anchor : EventId])
  /\ progress # Nil =>
       progress \in [cursor : 0..Events, rev : RegistryOf, complete : BOOLEAN]
  /\ holder \in Worker \cup {Nil} /\ DOMAIN worker = Worker

BackfillSettled == /\ holder = Nil /\ ~dirty
                   /\ progress # Nil /\ progress.complete /\ progress.rev = registry
\* Every project's listing has the turn if that is where it resolves to now, and
\* the queue of unassigned turns if it is nowhere and nobody has decided so.
Listed(e) == /\ \A p \in Place : e \in ListTurns(p) <=> Live(e) = p
             /\ e \in Unassigned <=> Live(e) = Nil /\ direct[e] = Nil

\* The record of the backfill says complete for the registry of now: then every
\* project's listing holds just the turns that resolve to it now, and the queue
\* of unassigned turns those that resolve to none, whatever stores, assignments,
\* registry changes, second tasks, cancellations and deaths there were between.
\* That is of a registry that is not back at contents it had, of an index that was
\* not rebuilt, and not of a turn whose file is corrupt or whose row a race has
\* overtaken since it was last resolved: it was resolved by an assignment whose
\* project had been merged away before the lock was taken, or by a backfill that had
\* read the file before it got its hint; or another turn was stored in the thread
\* that binds it.
SettledListing ==
  BackfillSettled /\ registry \notin formerly /\ ~rebuilt =>
    \A e \in DOMAIN rows \ (Unreadable \cup outdated) : Listed(e)

\* "alias, merge and delete routing changes invalidate and lazily re-derive cached
\* projects", all of them.  A row resolved while the registry was different for a
\* moment has the revision from before and after; and one that was resolved by an
\* assignment in a rebuilt index passes for one of whatever revision comes next.
RoutingRederived ==
  BackfillSettled => \A e \in DOMAIN rows \ (Unreadable \cup outdated) : Listed(e)

\* The row of an assigned turn follows its project into a merge once the backfill
\* is complete.  It does not if the merge came between resolving the project and
\* taking the lock.
AssignmentFollows ==
  BackfillSettled /\ registry \notin formerly /\ ~rebuilt =>
    \A e \in DOMAIN rows \ Unreadable : direct[e] # Nil => Listed(e)

\* What the read-only audit of the pipeline takes for a turn's project: it asks
\* without the state's root, and so without assignments.
Audited(e) == Resolution(e, hinted[e], registry, Nil, <<>>)

\* The audit is to "mirror discover's grouping": a turn that discovery files under
\* a project is not one of those whose project evidence is to be repaired.
AuditMirrors == \A e \in Stored : Live(e) \in Place => Audited(e) = Live(e)
=============================================================================
