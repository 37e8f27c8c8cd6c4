---------------------------- MODULE CaptureStore ----------------------------
(***************************************************************************)
(* The durable L1 turns of one account and their ingestion into Memory     *)
(* Core: src/src/capture.ts (store, ingest attempt, index), turn-log.ts    *)
(* (the normal path), capture-ingest.ts (the two Core calls) and           *)
(* capture-recovery.ts (the recovery sweep).                               *)
(*                                                                         *)
(* A mutation of the index holds the lock of capture-index.sqlite (Mutex), *)
(* so between two of its durable writes only readers, Core and death can   *)
(* step.  A process that dies, or whose file operation throws, gives up    *)
(* its locks and leaves its files.                                         *)
(*                                                                         *)
(* Abstracted: a turn is its user text, answer, reasoning summary, hint,   *)
(* status and what the user excluded, all of its text or none; its payload *)
(* hash is the turn itself; redaction is done before.                      *)
(* Core is external: it keeps, per deterministic request id, the request   *)
(* it applied and answers another body under that id with a conflict; its  *)
(* keys do not expire.  Left out: explicit recovery of a single event; the *)
(* projects of the index's rows and their backfill (CaptureProjects, here  *)
(* a change of what an event resolves to stands for assignments); the      *)
(* readers' WAL snapshots.                                                 *)
(***************************************************************************)
EXTENDS FiniteSets

CONSTANTS
  Event,
  Private,   \* events all of whose text the user excluded from memory
  Text, NoText,
  Hint,      \* project_hint values
  Project, NoProject,
  Post,      \* the turns hosts send
  Poster,    \* processes that serve memmy_turn
  Sweeper,   \* processes that run the recovery sweep
  Rerouted,  \* what may come to resolve to another project
  File0,     \* captures older than the index
  Marked0,   \* those of them that were ingested
  Torn,      \* a partial intent file
  None

Status == {"open", "partial", "complete", "truncated", "failed"}
Texts == Text \cup {NoText}
Hints == Hint \cup {NoText}
Part == {"user", "answer", "note"}
Turn == [user : Texts, answer : Texts, note : Texts, hint : Hints, status : Status,
         excluded : SUBSET Part]
Proc == Poster \cup Sweeper
Scope == Project \cup {NoProject}
Row == [status : Status, ingested : BOOLEAN]
Told == [scope : Scope, turn : Turn]
Listed == [ev : Event, turn : Turn]

ASSUME DisjointRoles == Poster \cap Sweeper = {} /\ None \notin Proc
ASSUME NoneAssumption == /\ Torn # None /\ Torn \notin Turn /\ NoText \notin Text \cup Hint
                         /\ None \notin Turn \cup Scope \cup Row \cup Told
ASSUME PostAssumption == Post \subseteq Turn
ASSUME OldCaptures == /\ File0 \in [Event -> Turn \cup {None}]
                      /\ \A e \in Marked0 : e \in Event /\ File0[e] # None

VARIABLES
  file,    \* <event>.json
  intent,  \* <event>.json.ingest-intent, Torn if its writer died in it
  marker,  \* events with <event>.json.ingested
  indexed, \* the account is in capture_index_accounts
  row,     \* capture_index
  dirty,   \* capture_index_dirty
  mutator, \* who holds the lock of the index
  attempt, \* who holds the lock of an event's ingest attempt
  pc, ev, turn, scope,  \* of each process: step, event, its content, its project
  todo,    \* of each sweeper: what its listing still holds, as it was read
  route,   \* the project a hint resolves to now; at NoText, what assignments
           \* and the workspace give a turn whose hint does not resolve
  wire,    \* requests sent to Core that may still be applied
  session, \* Core: the project of the session.open it applied
  told     \* Core: the turn.complete it applied

files == <<file, intent, marker>>
index == <<indexed, row, dirty>>
locks == <<mutator, attempt>>
frame == <<ev, turn, scope>>
outside == <<route, wire, session, told>>
vars == <<files, index, locks, pc, frame, todo, outside>>

Step == {"idle", "write", "index", "stored", "attempt", "freeze", "opening",
         "completing", "mark", "marking", "markrow", "markclear", "clear"}
OpenRequest == [call : {"open"}, ev : Event, scope : Scope]
CompleteRequest == [call : {"complete"}, ev : Event, scope : Scope, turn : Turn]

\* Shape of the state.
TypeOK ==
  /\ file \in [Event -> Turn \cup {None}]
  /\ intent \in [Event -> Turn \cup {None, Torn}]
  /\ marker \subseteq Event
  /\ indexed \in BOOLEAN
  /\ row \in [Event -> Row \cup {None}]
  /\ dirty \subseteq Event
  /\ mutator \in Proc \cup {None}
  /\ attempt \in [Event -> Proc \cup {None}]
  /\ pc \in [Proc -> Step]
  /\ ev \in [Proc -> Event \cup {None}]
  /\ turn \in [Proc -> Turn \cup {None}]
  /\ scope \in [Proc -> Scope]
  /\ todo \in [Proc -> SUBSET Listed]
  /\ route \in [Hints -> Scope]
  /\ wire \subseteq OpenRequest \cup CompleteRequest
  /\ session \in [Event -> Scope \cup {None}]
  /\ told \in [Event -> Told \cup {None}]

\* resolveCaptureProject
Resolved(t) == IF route[t.hint] = NoProject THEN route[NoText] ELSE route[t.hint]

Init ==
  /\ file = File0 /\ marker = Marked0
  /\ intent = [e \in Event |-> None]
  /\ indexed = FALSE /\ row = [e \in Event |-> None] /\ dirty = {}
  /\ mutator = None /\ attempt = [e \in Event |-> None]
  /\ pc = [p \in Proc |-> "idle"]
  /\ ev = [p \in Proc |-> None] /\ turn = [p \in Proc |-> None]
  /\ scope = [p \in Proc |-> NoProject]
  /\ todo = [p \in Proc |-> {}]
  /\ route \in [Hints -> Scope]
  /\ wire = {}
  /\ session = [e \in Event |-> IF e \in Marked0 \ Private THEN Resolved(File0[e]) ELSE None]
  /\ told = [e \in Event |-> IF e \in Marked0 \ Private
                             THEN [scope |-> Resolved(File0[e]), turn |-> File0[e]] ELSE None]

-----------------------------------------------------------------------------
(* Merging a post into a stored turn *)

\* What normalizeCaptureEvent leaves of a post.
Kept(e, t) == IF e \in Private
              THEN [t EXCEPT !.user = NoText, !.answer = NoText, !.note = NoText,
                             !.excluded = {f \in Part : t[f] # NoText}]
              ELSE t

Differ(a, b) == a # NoText /\ b # NoText /\ a # b
First(a, b) == IF a = NoText THEN b ELSE a

\* Of the excluded texts the capture has the number.
Conflict(old, new) == \/ Differ(old.user, new.user) \/ Differ(old.answer, new.answer)
                      \/ /\ {} \notin {old.excluded, new.excluded}
                         /\ Cardinality(old.excluded) # Cardinality(new.excluded)
                      \/ Differ(old.hint, new.hint)
                      \/ old.status = "complete" /\ new.note # NoText /\ new.note # old.note

MergedStatus(old, new) ==
  CASE old = "complete" \/ new = "complete" -> "complete"
    [] new \in {"failed", "truncated"} -> new
    [] old \in {"failed", "truncated"} -> old
    [] OTHER -> IF "partial" \in {old, new} THEN "partial" ELSE "open"

Merged(old, new) ==
  LET user == First(old.user, new.user)
      answer == First(old.answer, new.answer)
      status == MergedStatus(old.status, new.status)
  IN [user |-> user, answer |-> answer, note |-> First(new.note, old.note),
      hint |-> First(old.hint, new.hint),
      excluded |-> IF old.excluded = {} THEN new.excluded ELSE old.excluded,
      status |-> IF NoText \notin {user, answer} /\ status \in {"open", "partial"}
                 THEN "complete" ELSE status]

\* assertCaptureCompleteness
WellFormed(e, t) == t.status = "complete" /\ e \notin Private => NoText \notin {t.user, t.answer}

\* assertCaptureIngestIntent
IntentAllows(e, t) == intent[e] \in {None, t}

-----------------------------------------------------------------------------
(* The index *)

RowOf(e) == IF file[e] = None THEN None
            ELSE [status |-> file[e].status, ingested |-> e \in marker]
Rebuilt == [e \in Event |-> RowOf(e)]

\* ensureCaptureIndexUnlocked: an unknown account or any dirty mark rebuilds.
EnsuredRow == IF indexed /\ dirty = {} THEN row ELSE Rebuilt

\* Mutant: the rebuild leaves the dirty marks.
EnsureKeepsDirty == indexed' = TRUE /\ row' = EnsuredRow /\ UNCHANGED dirty

Ensure == indexed' = TRUE /\ row' = EnsuredRow /\ dirty' = {}

\* Mutant: no dirty mark before the write.
EnsureOnly(e) == Ensure

\* The same, then markCaptureIndexDirty.
EnsureThenDirty(e) == indexed' = TRUE /\ row' = EnsuredRow /\ dirty' = {e}

\* recoverCaptureIndex, which every server runs before it serves.
RecoverIndex(p) ==
  /\ pc[p] = "idle" /\ mutator = None
  /\ indexed \/ \E e \in Event : file[e] # None
  /\ Ensure
  /\ UNCHANGED <<files, locks, pc, frame, todo, outside>>

-----------------------------------------------------------------------------
(* Leaving an operation: by its end, an error or death *)

Enter(p, step) == pc' = [pc EXCEPT ![p] = step]

\* Every lock of p is given up and its operation forgotten.
Drop(p) ==
  /\ mutator' = IF mutator = p THEN None ELSE mutator
  /\ attempt' = [e \in Event |-> IF attempt[e] = p THEN None ELSE attempt[e]]
  /\ Enter(p, "idle")
  /\ ev' = [ev EXCEPT ![p] = None]
  /\ turn' = [turn EXCEPT ![p] = None]
  /\ scope' = [scope EXCEPT ![p] = NoProject]

\* p dies, or a file operation of p throws; a sweeper starts over.
Crash(p) ==
  /\ pc[p] # "idle" \/ todo[p] # {}
  /\ Drop(p)
  /\ todo' = [todo EXCEPT ![p] = {}]
  /\ UNCHANGED <<files, index, outside>>

-----------------------------------------------------------------------------
(* storeCaptureEvent *)

\* The stored turn already has all that the post brings: only the row is written.
StoreSame(p, e, t) ==
  LET kept == Kept(e, t) IN
  /\ pc[p] = "idle" /\ mutator = None
  /\ file[e] # None /\ ~Conflict(file[e], kept) /\ Merged(file[e], kept) = file[e]
  /\ IntentAllows(e, file[e])
  /\ indexed' = TRUE /\ dirty' = {}
  /\ row' = [EnsuredRow EXCEPT ![e] = RowOf(e)]
  /\ Enter(p, "stored")
  /\ ev' = [ev EXCEPT ![p] = e] /\ turn' = [turn EXCEPT ![p] = file[e]]
  /\ UNCHANGED <<files, locks, scope, todo, outside>>

MayEnrich(e, kept) ==
  /\ ~Conflict(file[e], kept)
  /\ Merged(file[e], kept) # file[e]
  /\ e \notin marker
  /\ WellFormed(e, Merged(file[e], kept))
  /\ IntentAllows(e, Merged(file[e], kept))

\* A new or enriched turn: the dirty mark goes first.
StoreNew(p, e, t) ==
  LET kept == Kept(e, t)
      next == IF file[e] = None THEN kept ELSE Merged(file[e], kept)
  IN
  /\ pc[p] = "idle" /\ mutator = None
  /\ IF file[e] = None THEN WellFormed(e, kept) ELSE MayEnrich(e, kept)
  /\ EnsureThenDirty(e)
  /\ mutator' = p
  /\ Enter(p, "write")
  /\ ev' = [ev EXCEPT ![p] = e] /\ turn' = [turn EXCEPT ![p] = next]
  /\ UNCHANGED <<files, attempt, scope, todo, outside>>

\* The post is refused; the index has been ensured all the same.
StoreRefused(p, e, t) ==
  LET kept == Kept(e, t) IN
  /\ pc[p] = "idle" /\ mutator = None
  /\ IF file[e] = None THEN ~WellFormed(e, kept)
     ELSE IF ~Conflict(file[e], kept) /\ Merged(file[e], kept) = file[e]
     THEN ~IntentAllows(e, file[e]) ELSE ~MayEnrich(e, kept)
  /\ Ensure
  /\ UNCHANGED <<files, locks, pc, frame, todo, outside>>

StoreWrite(p) ==
  /\ pc[p] = "write"
  /\ file' = [file EXCEPT ![ev[p]] = turn[p]]
  /\ Enter(p, "index")
  /\ UNCHANGED <<intent, marker, index, locks, frame, todo, outside>>

\* upsertCaptureIndexUnlocked keeps the row's ingested flag.
StoreIndex(p) ==
  LET e == ev[p] IN
  /\ pc[p] = "index"
  /\ row' = [row EXCEPT ![e] = [status |-> turn[p].status,
                                ingested |-> row[e] # None /\ row[e].ingested]]
  /\ Enter(p, "clear")
  /\ UNCHANGED <<files, indexed, dirty, locks, frame, todo, outside>>

StoreClear(p) ==
  /\ pc[p] = "clear"
  /\ dirty' = dirty \ {ev[p]}
  /\ mutator' = None
  /\ Enter(p, "stored")
  /\ UNCHANGED <<files, indexed, row, attempt, frame, todo, outside>>

\* The rest of upsertL1Turn: resolve the project, then ingest a complete turn.
Stored(p) ==
  LET e == ev[p] IN
  /\ pc[p] = "stored"
  /\ \/ /\ turn[p].status = "complete"
        /\ IF e \in Private THEN Enter(p, "mark")
           ELSE e \notin marker /\ Enter(p, "attempt")
        /\ scope' = [scope EXCEPT ![p] = Resolved(turn[p])]
        /\ UNCHANGED <<locks, ev, turn>>
     \/ /\ turn[p].status # "complete" \/ e \in marker \ Private
        /\ Drop(p)
  /\ UNCHANGED <<files, index, todo, outside>>

-----------------------------------------------------------------------------
(* withCaptureIngestAttempt *)

AttemptLock(p) ==
  /\ pc[p] = "attempt" /\ attempt[ev[p]] = None
  /\ attempt' = [attempt EXCEPT ![ev[p]] = p]
  /\ Enter(p, "freeze")
  /\ UNCHANGED <<files, index, mutator, frame, todo, outside>>

OpenCall(p) == [call |-> "open", ev |-> ev[p], scope |-> scope[p]]
CompleteCall(p) == [call |-> "complete", ev |-> ev[p], scope |-> scope[p], turn |-> turn[p]]

\* Mutant: the turn is not compared with the durable one.
IngestibleUnchecked(p) == ev[p] \notin marker /\ turn[p].status = "complete"

\* The turn the process read is still the durable one, complete and not ingested.
Ingestible(p) == /\ file[ev[p]] = turn[p]
                 /\ ev[p] \notin marker
                 /\ turn[p].status = "complete" /\ WellFormed(ev[p], turn[p])

\* The payload is frozen by its intent, and the first request leaves for Core.
Freeze(p) ==
  /\ pc[p] = "freeze" /\ mutator = None
  /\ Ingestible(p) /\ IntentAllows(ev[p], turn[p])
  /\ intent' = [intent EXCEPT ![ev[p]] = turn[p]]
  /\ Ensure
  /\ wire' = wire \cup {OpenCall(p)}
  /\ Enter(p, "opening")
  /\ UNCHANGED <<file, marker, locks, frame, todo, route, session, told>>

\* Death while the intent is written leaves a partial one.
FreezeTorn(p) ==
  /\ pc[p] = "freeze" /\ mutator = None
  /\ Ingestible(p) /\ intent[ev[p]] = None
  /\ intent' = [intent EXCEPT ![ev[p]] = Torn]
  /\ Ensure /\ UNCHANGED <<file, marker, outside>>
  /\ attempt' = [attempt EXCEPT ![ev[p]] = None]
  /\ Enter(p, "idle")
  /\ ev' = [ev EXCEPT ![p] = None] /\ turn' = [turn EXCEPT ![p] = None]
  /\ scope' = [scope EXCEPT ![p] = NoProject]
  /\ todo' = [todo EXCEPT ![p] = {}]
  /\ UNCHANGED mutator

\* Changed meanwhile, ingested by someone else, or another payload is frozen.
NotFrozen(p) ==
  /\ pc[p] = "freeze" /\ mutator = None
  /\ ~Ingestible(p) \/ ~IntentAllows(ev[p], turn[p])
  /\ Ensure
  /\ Drop(p)
  /\ UNCHANGED <<files, todo, outside>>

-----------------------------------------------------------------------------
(* ingestCaptureIntoMemory: session.open, then turn.complete *)

Awaited(r) == \E p \in Proc : \/ pc[p] = "opening" /\ r = OpenCall(p)
                              \/ pc[p] = "completing" /\ r = CompleteCall(p)

Applies(r) ==
  IF r.call = "open" THEN session[r.ev] \in {None, r.scope}
  ELSE /\ session[r.ev] = r.scope
       /\ told[r.ev] \in {None, [scope |-> r.scope, turn |-> r.turn]}

Apply(r) ==
  IF r.call = "open" THEN session' = [session EXCEPT ![r.ev] = r.scope] /\ UNCHANGED told
  ELSE /\ told' = [told EXCEPT ![r.ev] = [scope |-> r.scope, turn |-> r.turn]]
       /\ UNCHANGED session

Opened(p) ==
  /\ pc[p] = "opening" /\ Applies(OpenCall(p))
  /\ Apply(OpenCall(p))
  /\ wire' = (wire \ {OpenCall(p)}) \cup {CompleteCall(p)}
  /\ Enter(p, "completing")
  /\ UNCHANGED <<files, index, locks, frame, todo, route>>

TurnCompleted(p) ==
  /\ pc[p] = "completing" /\ Applies(CompleteCall(p))
  /\ Apply(CompleteCall(p))
  /\ wire' = wire \ {CompleteCall(p)}
  /\ Enter(p, "mark")
  /\ UNCHANGED <<files, index, locks, frame, todo, route>>

\* Core answers with a conflict.
Refused(p) ==
  /\ \/ pc[p] = "opening" /\ ~Applies(OpenCall(p))
     \/ pc[p] = "completing" /\ ~Applies(CompleteCall(p))
  /\ wire' = wire \ {OpenCall(p), CompleteCall(p)}
  /\ Drop(p)
  /\ UNCHANGED <<files, index, todo, route, session, told>>

\* Mutant: a call without an answer counts as ingested.
CoreTimeoutIngested(p) ==
  /\ pc[p] \in {"opening", "completing"}
  /\ Enter(p, "mark")
  /\ UNCHANGED <<files, index, locks, frame, todo, outside>>

\* No answer in time: the request may still be applied.
CoreTimeout(p) ==
  /\ pc[p] \in {"opening", "completing"}
  /\ Drop(p)
  /\ UNCHANGED <<files, index, todo, outside>>

\* A request nobody waits for any more is applied, refused or lost.
Late(r) ==
  /\ ~Awaited(r)
  /\ wire' = wire \ {r}
  /\ \/ Applies(r) /\ Apply(r)
     \/ UNCHANGED <<session, told>>
  /\ UNCHANGED <<files, index, locks, pc, frame, todo, route>>

-----------------------------------------------------------------------------
(* markCaptureIngested *)

Mark(p) ==
  /\ pc[p] = "mark" /\ mutator = None
  /\ EnsureThenDirty(ev[p])
  /\ mutator' = p
  /\ Enter(p, "marking")
  /\ UNCHANGED <<files, attempt, frame, todo, outside>>

MarkWrite(p) ==
  /\ pc[p] = "marking"
  /\ marker' = marker \cup {ev[p]}
  /\ Enter(p, "markrow")
  /\ UNCHANGED <<file, intent, index, locks, frame, todo, outside>>

MarkRow(p) ==
  /\ pc[p] = "markrow"
  /\ row' = IF row[ev[p]] = None THEN row ELSE [row EXCEPT ![ev[p]].ingested = TRUE]
  /\ Enter(p, "markclear")
  /\ UNCHANGED <<files, indexed, dirty, locks, frame, todo, outside>>

MarkClear(p) ==
  /\ pc[p] = "markclear"
  /\ dirty' = dirty \ {ev[p]}
  /\ Drop(p)
  /\ UNCHANGED <<files, indexed, row, todo, outside>>

-----------------------------------------------------------------------------
(* reconcileFrozenCaptureIngests *)

\* The listing refuses a dirty index, and reads the event of every row it takes.
Sweep(p) ==
  /\ pc[p] = "idle" /\ todo[p] = {}
  /\ indexed /\ dirty = {}
  /\ LET open == {e \in Event : /\ row[e] # None /\ row[e].status = "complete"
                                /\ ~row[e].ingested /\ file[e] # None}
     IN todo' = [todo EXCEPT ![p] = {[ev |-> e, turn |-> file[e]] : e \in open}]
  /\ UNCHANGED <<files, index, locks, pc, frame, outside>>

\* readCaptureIngestIntentStatus says "matching".
Matching(e) == intent[e] # None /\ intent[e] = file[e]
HintResolves(t) == t.hint # NoText /\ route[t.hint] # NoProject

\* Only a matching intent and a hint that resolves are replayed, as listed.
Recover(p, l) ==
  /\ pc[p] = "idle" /\ l \in todo[p]
  /\ todo' = [todo EXCEPT ![p] = @ \ {l}]
  /\ \/ /\ Matching(l.ev) /\ HintResolves(l.turn)
        /\ Enter(p, "attempt")
        /\ ev' = [ev EXCEPT ![p] = l.ev]
        /\ turn' = [turn EXCEPT ![p] = l.turn]
        /\ scope' = [scope EXCEPT ![p] = route[l.turn.hint]]
     \/ /\ ~(Matching(l.ev) /\ HintResolves(l.turn))
        /\ UNCHANGED <<pc, frame>>
  /\ UNCHANGED <<files, index, locks, outside>>

RecoverNext(p) == \E l \in todo[p] : Recover(p, l)

\* A merge, an assignment or a newly registered project changes a resolution.
Reroute(h) ==
  /\ \E s \in Scope \ {route[h]} : route' = [route EXCEPT ![h] = s]
  /\ UNCHANGED <<files, index, locks, pc, frame, todo, wire, session, told>>

-----------------------------------------------------------------------------
Store(p) == \E e \in Event, t \in Post :
              StoreSame(p, e, t) \/ StoreNew(p, e, t) \/ StoreRefused(p, e, t)

\* The steps by which an operation under way advances.
Advance(p) ==
  \/ StoreWrite(p) \/ StoreIndex(p) \/ StoreClear(p) \/ Stored(p)
  \/ AttemptLock(p) \/ Freeze(p) \/ NotFrozen(p)
  \/ Opened(p) \/ TurnCompleted(p) \/ Refused(p)
  \/ Mark(p) \/ MarkWrite(p) \/ MarkRow(p) \/ MarkClear(p)

Disturb == \/ \E p \in Poster : Store(p)
           \/ \E p \in Proc : Crash(p) \/ FreezeTorn(p) \/ CoreTimeout(p)
           \/ \E h \in Rerouted : Reroute(h)

Next == \/ Disturb
        \/ \E p \in Proc : Advance(p) \/ RecoverIndex(p)
        \/ \E p \in Sweeper : Sweep(p) \/ RecoverNext(p)
        \/ \E r \in wire : Late(r)

Spec == Init /\ [][Next]_vars

\* A request to a live Core is answered, an operation goes on, the scheduler's
\* timer comes back, and a restarted server recovers the index first.
Fairness == /\ \A p \in Proc : WF_vars(Advance(p)) /\ WF_vars(RecoverIndex(p))
            /\ \A p \in Sweeper : WF_vars(Sweep(p)) /\ WF_vars(RecoverNext(p))

FairSpec == Spec /\ Fairness

-----------------------------------------------------------------------------
(* Properties *)

\* A reader that finds no dirty mark is told the truth: every durable turn is
\* in the index with its status and whether it was ingested (capture.ts
\* readers refuse a dirty index, so the mark must cover every gap).
IndexTrue == indexed /\ dirty = {} => row = Rebuilt

\* Core was told of a turn exactly what its capture file still says ("instead of
\* letting the local capture diverge from durable Core evidence").
EvidenceMatches == \A e \in Event : told[e] # None => told[e].turn = file[e]

\* The marker is written only after Core returned success: an event is never
\* taken for ingested without Core holding it, through deaths and late answers.
MarkerBacked == \A e \in marker : e \in Private \/ told[e] # None

\* From the marker on, neither the capture nor the marker changes, also for
\* captures ingested before intents existed.
IngestedForGood ==
  [][\A e \in marker : e \in marker' /\ file'[e] = file[e]]_vars

\* The store implements CaptureEvidence: a turn is sealed by its intent, or by
\* its marker when it predates intents or is excluded.
Sealed == {e \in Event : intent[e] # None} \cup marker
Evidence == INSTANCE CaptureEvidence
  WITH Content <- Turn, Nothing <- None, content <- file, sealed <- Sealed,
       told <- [e \in Event |-> IF told[e] = None THEN None ELSE told[e].turn]
ImplementsEvidence == Evidence!Spec

\* docs/operations/distillation-and-tool-errors.md: if a worker dies after Core
\* commits, "the durable ingest intent allows recovery to replay the exact same
\* request".  The request names the project, which the intent does not hold.
ReplayIsExact == \A p \in Proc :
  pc[p] = "opening" /\ told[ev[p]] # None => told[ev[p]].scope = scope[p]

\* Once posts, deaths and lost answers cease, every frozen turn whose hint
\* resolves reaches its marker.
FrozenRecovered ==
  <>[][~Disturb]_vars =>
    \A e \in Event : [](Matching(e) /\ HintResolves(file[e]) => <>(e \in marker))
=============================================================================
