------------------------- MODULE CaptureStoreProofs -------------------------
(***************************************************************************)
(* For any events, hosts, sweepers and posts: a clean index tells the      *)
(* truth, what Core was told of a turn is what its file says, a marker has *)
(* Core's copy behind it, an ingested turn never changes, and the store    *)
(* implements CaptureEvidence.                                             *)
(***************************************************************************)
EXTENDS CaptureStore, TLAPS

\* Inside a mutation of the index.
Mutating == {"write", "index", "clear", "marking", "markrow", "markclear"}

BusyInv == \A p \in Proc : pc[p] # "idle" => ev[p] \in Event /\ turn[p] \in Turn

\* Only existing turns are sealed, and an intact intent names what the file says.
SealInv == \A e \in Event :
  /\ e \in Sealed => file[e] # None
  /\ intent[e] \in Turn => intent[e] = file[e]

\* A mutation has the lock of the index, and only an unsealed turn is written.
MutateInv == \A p \in Proc :
  /\ pc[p] \in Mutating => mutator = p
  /\ pc[p] = "write" => ev[p] \notin Sealed
  /\ pc[p] \notin {"idle", "write"} => file[ev[p]] # None

\* A request, waited for or not, says what the intent froze.
CallInv ==
  /\ \A p \in Proc : pc[p] \in {"opening", "completing"} => intent[ev[p]] = turn[p]
  /\ \A r \in wire : r.call = "complete" => intent[r.ev] = r.turn

ToldInv == \A e \in Event : told[e] # None => e \in Sealed /\ told[e].turn = file[e]

\* Who is about to mark an event has Core's answer, unless it is excluded.
MarkInv ==
  /\ MarkerBacked
  /\ \A p \in Proc : pc[p] \in {"mark", "marking"}
                       => ev[p] \in Private \/ told[ev[p]] # None

EvidenceInv == TypeOK /\ BusyInv /\ SealInv /\ MutateInv /\ CallInv /\ ToldInv /\ MarkInv

\* Rows are right except at the dirty marks, and a mutation has marked its own.
RowsInv ==
  /\ indexed => \A e \in Event \ dirty : row[e] = RowOf(e)
  /\ \A p \in Proc : pc[p] \in Mutating => indexed /\ dirty = {ev[p]}

\* What a mutation has brought its own row to.
OwnRowInv == \A p \in Proc :
  /\ pc[p] \in {"write", "index"}
       => ev[p] \notin marker /\ (row[ev[p]] = None \/ ~row[ev[p]].ingested)
  /\ pc[p] = "index" => file[ev[p]] = turn[p]
  /\ pc[p] = "markrow" => /\ ev[p] \in marker /\ row[ev[p]] # None
                          /\ row[ev[p]].status = file[ev[p]].status
  /\ pc[p] \in {"marking", "clear", "markclear"} => row[ev[p]] = RowOf(ev[p])

IndexInv == RowsInv /\ OwnRowInv

USE DisjointRoles, NoneAssumption, PostAssumption, OldCaptures

-----------------------------------------------------------------------------
(* Types *)

LEMMA MergedType ==
  ASSUME NEW e \in Event, NEW t \in Turn
  PROVE  /\ Kept(e, t) \in Turn
         /\ \A old \in Turn : Merged(old, t) \in Turn
<1>1. Kept(e, t) \in Turn
  BY DEF Kept, Turn, Texts
<1>2. ASSUME NEW old \in Turn PROVE Merged(old, t) \in Turn
  <2>1. MergedStatus(old.status, t.status) \in Status
    BY DEF MergedStatus, Status, Turn
  <2>2. /\ First(old.user, t.user) \in Texts /\ First(old.answer, t.answer) \in Texts
        /\ First(t.note, old.note) \in Texts /\ First(old.hint, t.hint) \in Hints
    BY DEF First, Turn
  <2>3. "complete" \in Status
    BY DEF Status
  <2>4. QED
    BY <2>1, <2>2, <2>3 DEF Merged, Turn
<1>3. QED
  BY <1>1, <1>2

LEMMA InitTypes == Init => TypeOK /\ BusyInv
<1> SUFFICES ASSUME Init PROVE TypeOK /\ BusyInv
  OBVIOUS
<1>1. \A e \in Marked0 : File0[e] \in Turn
  BY DEF Init
<1>2. \A t \in Turn : Resolved(t) \in Scope
  BY DEF Init, Resolved, Turn, Hints
<1>3. /\ session \in [Event -> Scope \cup {None}]
      /\ told \in [Event -> Told \cup {None}]
  BY <1>1, <1>2 DEF Init, Told
<1>4. QED
  BY <1>1, <1>3 DEF Init, TypeOK, BusyInv, Step, Scope

\* Every step of the store.
LEMMA NextCases ==
  ASSUME Next
  PROVE  \/ \E p \in Proc, e \in Event, t \in Post :
              StoreSame(p, e, t) \/ StoreNew(p, e, t) \/ StoreRefused(p, e, t)
         \/ \E p \in Proc : \/ StoreWrite(p) \/ StoreIndex(p) \/ StoreClear(p) \/ Stored(p)
                            \/ AttemptLock(p) \/ Freeze(p) \/ FreezeTorn(p) \/ NotFrozen(p)
         \/ \E p \in Proc : Opened(p) \/ TurnCompleted(p) \/ Refused(p) \/ CoreTimeout(p)
         \/ \E p \in Proc : Mark(p) \/ MarkWrite(p) \/ MarkRow(p) \/ MarkClear(p)
         \/ \E p \in Proc : Crash(p) \/ RecoverIndex(p) \/ Sweep(p)
         \/ \E p \in Proc : RecoverNext(p)
         \/ \E r \in wire : Late(r)
         \/ \E h \in Rerouted : Reroute(h)
  BY DEF Next, Disturb, Store, Advance, Proc

LEMMA EnsuredType == TypeOK => EnsuredRow \in [Event -> Row \cup {None}]
  BY DEF TypeOK, EnsuredRow, Rebuilt, RowOf, Row, Turn

LEMMA DropTypes ==
  ASSUME TypeOK, BusyInv, NEW p \in Proc, Drop(p)
  PROVE  /\ mutator' \in Proc \cup {None}
         /\ attempt' \in [Event -> Proc \cup {None}]
         /\ pc' \in [Proc -> Step]
         /\ ev' \in [Proc -> Event \cup {None}]
         /\ turn' \in [Proc -> Turn \cup {None}]
         /\ scope' \in [Proc -> Scope]
         /\ BusyInv'
  BY DEF TypeOK, BusyInv, Drop, Enter, Step, Scope

LEMMA StoreTypes ==
  ASSUME TypeOK, BusyInv, NEW p \in Proc, NEW e \in Event, NEW t \in Post,
         StoreSame(p, e, t) \/ StoreNew(p, e, t) \/ StoreRefused(p, e, t)
  PROVE  TypeOK' /\ BusyInv'
<1>1. /\ file[e] \in Turn \cup {None}
      /\ Kept(e, t) \in Turn
      /\ file[e] # None => Merged(file[e], Kept(e, t)) \in Turn
  BY MergedType DEF TypeOK
<1>2. CASE StoreSame(p, e, t)
  <2>1. file[e] \in Turn /\ RowOf(e) \in Row
    BY <1>1, <1>2 DEF StoreSame, RowOf, Row, Turn
  <2>2. QED
    BY <1>2, <2>1, EnsuredType
    DEF StoreSame, Enter, TypeOK, BusyInv, Step, files, index, locks, outside
<1>3. CASE StoreNew(p, e, t)
  <2>1. turn'[p] \in Turn
    BY <1>1, <1>3 DEF StoreNew, TypeOK
  <2>2. QED
    BY <1>3, <2>1, EnsuredType
    DEF StoreNew, EnsureThenDirty, Enter, TypeOK, BusyInv, Step, files, outside
<1>4. CASE StoreRefused(p, e, t)
  BY <1>4, EnsuredType
  DEF StoreRefused, Ensure, TypeOK, BusyInv, files, locks, frame, outside
<1>5. QED
  BY <1>2, <1>3, <1>4

LEMMA AdvanceTypes ==
  ASSUME TypeOK, BusyInv, NEW p \in Proc,
         \/ StoreWrite(p) \/ StoreIndex(p) \/ StoreClear(p) \/ Stored(p)
         \/ AttemptLock(p) \/ Freeze(p) \/ FreezeTorn(p) \/ NotFrozen(p)
  PROVE  TypeOK' /\ BusyInv'
<1>0. pc[p] # "idle" => ev[p] \in Event /\ turn[p] \in Turn
  BY DEF BusyInv
<1>1. CASE StoreWrite(p)
  BY <1>0, <1>1 DEF StoreWrite, Enter, TypeOK, BusyInv, Step, index, locks, frame, outside
<1>2. CASE StoreIndex(p)
  <2>1. [status |-> turn[p].status, ingested |-> row[ev[p]] # None /\ row[ev[p]].ingested]
          \in Row
    <3>1. turn[p].status \in Status /\ row[ev[p]] \in Row \cup {None}
      BY <1>0, <1>2 DEF StoreIndex, TypeOK, Turn
    <3>2. (row[ev[p]] # None /\ row[ev[p]].ingested) \in BOOLEAN
      BY <3>1 DEF Row
    <3>3. QED
      BY <3>1, <3>2 DEF Row
  <2>2. QED
    BY <1>0, <1>2, <2>1
    DEF StoreIndex, Enter, TypeOK, BusyInv, Step, files, locks, frame, outside
<1>3. CASE StoreClear(p)
  BY <1>0, <1>3 DEF StoreClear, Enter, TypeOK, BusyInv, Step, files, frame, outside
<1>4. CASE Stored(p)
  <2>1. CASE Drop(p)
    BY <1>4, <2>1, DropTypes DEF Stored, TypeOK, files, index, outside
  <2>2. CASE ~Drop(p)
    <3>1. Resolved(turn[p]) \in Scope
      BY <1>0, <1>4 DEF Stored, Resolved, TypeOK, Turn, Hints
    <3>2. QED
      BY <1>0, <1>4, <2>2, <3>1
      DEF Stored, Enter, TypeOK, BusyInv, Step, files, index, locks, outside
  <2>3. QED
    BY <2>1, <2>2
<1>5. CASE AttemptLock(p)
  BY <1>0, <1>5 DEF AttemptLock, Enter, TypeOK, BusyInv, Step, files, index, frame, outside
<1>6. CASE Freeze(p)
  <2>1. OpenCall(p) \in OpenRequest
    BY <1>0, <1>6 DEF Freeze, OpenCall, OpenRequest, TypeOK
  <2>2. QED
    BY <1>0, <1>6, <2>1, EnsuredType
    DEF Freeze, Ensure, Enter, TypeOK, BusyInv, Step, locks, frame
<1>7. CASE FreezeTorn(p)
  BY <1>0, <1>7, EnsuredType
  DEF FreezeTorn, Ensure, Enter, TypeOK, BusyInv, Step, Scope, outside
<1>8. CASE NotFrozen(p)
  BY <1>8, DropTypes, EnsuredType DEF NotFrozen, Ensure, TypeOK, files, outside
<1>9. QED
  BY <1>1, <1>2, <1>3, <1>4, <1>5, <1>6, <1>7, <1>8

LEMMA CoreTypes ==
  ASSUME TypeOK, BusyInv, NEW p \in Proc,
         Opened(p) \/ TurnCompleted(p) \/ Refused(p) \/ CoreTimeout(p)
  PROVE  TypeOK' /\ BusyInv'
<1>0. pc[p] # "idle" => ev[p] \in Event /\ turn[p] \in Turn
  BY DEF BusyInv
<1>1. CASE Opened(p)
  <2>1. CompleteCall(p) \in CompleteRequest
    BY <1>0, <1>1 DEF Opened, CompleteCall, CompleteRequest, TypeOK
  <2>2. session' \in [Event -> Scope \cup {None}] /\ UNCHANGED told
    BY <1>0, <1>1 DEF Opened, Apply, OpenCall, TypeOK
  <2>3. QED
    BY <1>0, <1>1, <2>1, <2>2
    DEF Opened, Enter, TypeOK, BusyInv, Step, files, index, locks, frame
<1>2. CASE TurnCompleted(p)
  <2>1. told' \in [Event -> Told \cup {None}] /\ UNCHANGED session
    BY <1>0, <1>2 DEF TurnCompleted, Apply, CompleteCall, TypeOK, Told
  <2>2. QED
    BY <1>0, <1>2, <2>1
    DEF TurnCompleted, Enter, TypeOK, BusyInv, Step, files, index, locks, frame
<1>3. CASE Refused(p)
  BY <1>3, DropTypes DEF Refused, TypeOK, files, index
<1>4. CASE CoreTimeout(p)
  BY <1>4, DropTypes DEF CoreTimeout, TypeOK, files, index, outside
<1>5. QED
  BY <1>1, <1>2, <1>3, <1>4

LEMMA MarkTypes ==
  ASSUME TypeOK, BusyInv, NEW p \in Proc,
         Mark(p) \/ MarkWrite(p) \/ MarkRow(p) \/ MarkClear(p)
  PROVE  TypeOK' /\ BusyInv'
<1>0. pc[p] # "idle" => ev[p] \in Event /\ turn[p] \in Turn
  BY DEF BusyInv
<1>1. CASE Mark(p)
  BY <1>0, <1>1, EnsuredType
  DEF Mark, EnsureThenDirty, Enter, TypeOK, BusyInv, Step, files, frame, outside
<1>2. CASE MarkWrite(p)
  BY <1>0, <1>2 DEF MarkWrite, Enter, TypeOK, BusyInv, Step, index, locks, frame, outside
<1>3. CASE MarkRow(p)
  <2>1. row' \in [Event -> Row \cup {None}]
    <3>1. row[ev[p]] \in Row \cup {None}
      BY <1>0, <1>3 DEF MarkRow, TypeOK
    <3>2. row[ev[p]] # None => [row[ev[p]] EXCEPT !.ingested = TRUE] \in Row
      BY <3>1 DEF Row
    <3>3. QED
      BY <1>3, <3>2 DEF MarkRow, TypeOK
  <2>2. QED
    BY <1>0, <1>3, <2>1
    DEF MarkRow, Enter, TypeOK, BusyInv, Step, files, locks, frame, outside
<1>4. CASE MarkClear(p)
  BY <1>4, DropTypes DEF MarkClear, TypeOK, files, outside
<1>5. QED
  BY <1>1, <1>2, <1>3, <1>4

LEMMA OtherTypes ==
  ASSUME TypeOK, BusyInv,
         \/ \E p \in Proc : Crash(p) \/ RecoverIndex(p) \/ Sweep(p)
         \/ \E p \in Proc : RecoverNext(p)
         \/ \E r \in wire : Late(r)
         \/ \E h \in Rerouted : Reroute(h)
         \/ UNCHANGED vars
  PROVE  TypeOK' /\ BusyInv'
<1>1. ASSUME NEW p \in Proc, Crash(p) PROVE TypeOK' /\ BusyInv'
  BY <1>1, DropTypes DEF Crash, TypeOK, files, index, outside
<1>2. ASSUME NEW p \in Proc, RecoverIndex(p) PROVE TypeOK' /\ BusyInv'
  BY <1>2, EnsuredType
  DEF RecoverIndex, Ensure, TypeOK, BusyInv, files, locks, frame, outside
<1>3. ASSUME NEW p \in Proc, Sweep(p) PROVE TypeOK' /\ BusyInv'
  BY <1>3 DEF Listed, Sweep, TypeOK, BusyInv, files, index, locks, frame, outside
<1>4. ASSUME NEW p \in Proc, NEW l \in todo[p], Recover(p, l) PROVE TypeOK' /\ BusyInv'
  <2>1. l.ev \in Event /\ l.turn \in Turn /\ route[l.turn.hint] \in Scope
    BY DEF TypeOK, Listed, Turn
  <2>2. QED
    BY <1>4, <2>1
    DEF Recover, Enter, TypeOK, BusyInv, Step, files, index, locks, frame, outside
<1>5. ASSUME NEW r \in wire, Late(r) PROVE TypeOK' /\ BusyInv'
  <2>1. r \in OpenRequest \cup CompleteRequest
    BY DEF TypeOK
  <2>2. CASE r.call = "open"
    BY <1>5, <2>1, <2>2
    DEF Late, Apply, OpenRequest, CompleteRequest, TypeOK, BusyInv, files, index, locks, frame
  <2>3. CASE r.call # "open"
    <3>1. r.ev \in Event /\ [scope |-> r.scope, turn |-> r.turn] \in Told
      BY <2>1, <2>3 DEF OpenRequest, CompleteRequest, Told
    <3>2. QED
      BY <1>5, <2>3, <3>1 DEF Late, Apply, TypeOK, BusyInv, files, index, locks, frame
  <2>4. QED
    BY <2>2, <2>3
<1>6. ASSUME NEW h \in Rerouted, Reroute(h) PROVE TypeOK' /\ BusyInv'
  <2>1. route' \in [Hints -> Scope]
    BY <1>6 DEF Reroute, TypeOK
  <2>2. QED
    BY <1>6, <2>1 DEF Reroute, TypeOK, BusyInv, files, index, locks, frame
<1>7. CASE UNCHANGED vars
  BY <1>7 DEF vars, TypeOK, BusyInv, files, index, locks, frame, outside
<1>8. QED
  BY <1>1, <1>2, <1>3, <1>4, <1>5, <1>6, <1>7 DEF RecoverNext

LEMMA NextTypes == TypeOK /\ BusyInv /\ [Next]_vars => TypeOK' /\ BusyInv'
  BY NextCases, StoreTypes, AdvanceTypes, CoreTypes, MarkTypes, OtherTypes

\* For any constants every variable keeps its type.
THEOREM CaptureTypeOK == Spec => []TypeOK
<1>1. Spec => [](TypeOK /\ BusyInv)
  BY InitTypes, NextTypes, PTL DEF Spec
<1>2. QED
  BY <1>1, PTL

-----------------------------------------------------------------------------
(* Evidence: what Core was told, what the intent froze, what the file says *)

Facts == SealInv /\ MutateInv /\ CallInv /\ ToldInv /\ MarkInv

LEMMA InitEvidence == Init => EvidenceInv
<1> SUFFICES ASSUME Init PROVE EvidenceInv
  OBVIOUS
<1>1. TypeOK /\ BusyInv
  BY InitTypes
<1>2. SealInv /\ ToldInv /\ MarkInv
  <2>1. /\ file = File0 /\ marker = Marked0
        /\ \A e \in Event : intent[e] = None
        /\ \A p \in Proc : pc[p] = "idle"
    BY DEF Init
  <2>2. \A e \in Event : \/ told[e] = None /\ e \notin Marked0 \ Private
                       \/ /\ e \in Marked0 \ Private
                          /\ \E s \in Scope : told[e] = [scope |-> s, turn |-> File0[e]]
    <3>1. \A e \in Marked0 : Resolved(File0[e]) \in Scope
      BY DEF Init, Resolved, Turn, Hints
    <3>2. \A e \in Marked0 \ Private :
            told[e] = [scope |-> Resolved(File0[e]), turn |-> File0[e]]
      BY DEF Init
    <3>3. \A e \in Event : e \notin Marked0 \ Private => told[e] = None
      BY DEF Init
    <3>4. QED
      BY <3>1, <3>2, <3>3
  <2>3. SealInv
    BY <2>1 DEF SealInv, Sealed
  <2>4. ASSUME NEW e \in Event, told[e] # None
        PROVE  e \in marker /\ told[e].turn = file[e]
    <3>1. PICK s \in Scope : told[e] = [scope |-> s, turn |-> File0[e]]
      BY <2>2, <2>4
    <3>2. QED
      BY <2>1, <2>2, <2>4, <3>1
  <2>5. ASSUME NEW e \in Marked0 \ Private PROVE told[e] # None
    <3>1. PICK s \in Scope : told[e] = [scope |-> s, turn |-> File0[e]]
      BY <2>2
    <3>2. File0[e] \in Turn
      OBVIOUS
    <3>3. [scope |-> s, turn |-> File0[e]] \in Told
      BY <3>2 DEF Told
    <3>4. QED
      BY <3>1, <3>3
  <2>6. QED
    BY <2>1, <2>3, <2>4, <2>5 DEF ToldInv, Sealed, MarkInv, MarkerBacked
<1>3. MutateInv /\ CallInv
  BY DEF Init, MutateInv, CallInv, Mutating
<1>4. QED
  BY <1>1, <1>2, <1>3 DEF EvidenceInv

\* An operation that ends leaves the facts as they are.
LEMMA DropFacts ==
  ASSUME EvidenceInv, NEW p \in Proc, Drop(p), UNCHANGED <<files, told>>, wire' \subseteq wire
  PROVE  Facts'
<1> USE DEF files
<1>1. SealInv' /\ ToldInv'
  BY DEF EvidenceInv, SealInv, ToldInv, Sealed
<1>2. /\ pc' = [pc EXCEPT ![p] = "idle"] /\ pc \in [Proc -> Step]
      /\ \A q \in Proc : q # p => ev'[q] = ev[q] /\ turn'[q] = turn[q]
      /\ \A q \in Proc : q # p /\ mutator = q => mutator' = q
  BY DEF Drop, Enter, EvidenceInv, TypeOK
<1>3. MutateInv' /\ CallInv' /\ MarkInv'
  BY <1>2 DEF EvidenceInv, MutateInv, CallInv, MarkInv, MarkerBacked, Mutating, Sealed
<1>4. QED
  BY <1>1, <1>3 DEF Facts

LEMMA StoreFacts ==
  ASSUME EvidenceInv, NEW p \in Proc, NEW e \in Event, NEW t \in Post,
         StoreSame(p, e, t) \/ StoreNew(p, e, t) \/ StoreRefused(p, e, t)
  PROVE  Facts'
<1>1. CASE StoreRefused(p, e, t)
  BY <1>1 DEF StoreRefused, EvidenceInv, Facts, SealInv, MutateInv, CallInv, ToldInv,
              MarkInv, MarkerBacked, Sealed, files, locks, frame, outside
<1>2. CASE StoreSame(p, e, t)
  <2>1. /\ UNCHANGED <<files, wire, told, mutator>>
        /\ file[e] # None
        /\ \A q \in Proc : /\ pc'[q] = IF q = p THEN "stored" ELSE pc[q]
                           /\ ev'[q] = IF q = p THEN e ELSE ev[q]
                           /\ turn'[q] = IF q = p THEN file[e] ELSE turn[q]
    BY <1>2 DEF StoreSame, Enter, EvidenceInv, TypeOK, files, locks, outside
  <2>2. QED
    BY <2>1 DEF EvidenceInv, Facts, SealInv, MutateInv, CallInv, ToldInv,
                MarkInv, MarkerBacked, Sealed, Mutating, files
<1>3. CASE StoreNew(p, e, t)
  <2>1. /\ UNCHANGED <<files, wire, told>>
        /\ mutator = None /\ mutator' = p
        /\ \A q \in Proc : /\ pc'[q] = IF q = p THEN "write" ELSE pc[q]
                           /\ ev'[q] = IF q = p THEN e ELSE ev[q]
                           /\ q # p => turn'[q] = turn[q]
    BY <1>3 DEF StoreNew, Enter, EvidenceInv, TypeOK, files, outside
  <2>2. e \notin Sealed
    <3>1. CASE file[e] = None
      BY <3>1 DEF EvidenceInv, SealInv
    <3>2. CASE file[e] # None
      <4>1. /\ MayEnrich(e, Kept(e, t))
            /\ Merged(file[e], Kept(e, t)) \in Turn
        BY <1>3, <3>2, MergedType DEF StoreNew, EvidenceInv, TypeOK
      <4>2. QED
        BY <4>1 DEF MayEnrich, IntentAllows, EvidenceInv, SealInv, Sealed
    <3>3. QED
      BY <3>1, <3>2
  <2>3. \A q \in Proc : pc[q] \notin Mutating
    BY <2>1 DEF EvidenceInv, MutateInv
  <2>4. QED
    BY <2>1, <2>2, <2>3 DEF EvidenceInv, Facts, SealInv, MutateInv, CallInv, ToldInv,
                MarkInv, MarkerBacked, Sealed, Mutating, files
<1>4. QED
  BY <1>1, <1>2, <1>3

LEMMA AdvanceFacts ==
  ASSUME EvidenceInv, NEW p \in Proc,
         \/ StoreWrite(p) \/ StoreIndex(p) \/ StoreClear(p) \/ Stored(p)
         \/ AttemptLock(p) \/ Freeze(p) \/ FreezeTorn(p) \/ NotFrozen(p)
  PROVE  Facts'
<1>0. /\ pc[p] # "idle" => ev[p] \in Event /\ turn[p] \in Turn
      /\ pc \in [Proc -> Step] /\ file \in [Event -> Turn \cup {None}]
      /\ intent \in [Event -> Turn \cup {None, Torn}]
  BY DEF EvidenceInv, BusyInv, TypeOK
<1>1. CASE StoreWrite(p)
  <2>1. /\ ev[p] \in Event /\ turn[p] \in Turn /\ ev[p] \notin Sealed
        /\ file' = [file EXCEPT ![ev[p]] = turn[p]]
        /\ pc' = [pc EXCEPT ![p] = "index"]
        /\ pc[p] = "write" /\ mutator = p
        /\ UNCHANGED <<intent, marker, wire, told, mutator, ev, turn>>
    BY <1>0, <1>1 DEF StoreWrite, Enter, EvidenceInv, MutateInv, Mutating, locks, frame, outside
  <2>2. SealInv' /\ ToldInv' /\ CallInv' /\ MarkInv'
    BY <1>0, <2>1 DEF EvidenceInv, SealInv, ToldInv, CallInv, MarkInv, MarkerBacked, Sealed
  <2>3. MutateInv'
    BY <1>0, <2>1 DEF EvidenceInv, MutateInv, Mutating, Sealed
  <2>4. QED
    BY <2>2, <2>3 DEF Facts
<1>2. CASE StoreIndex(p)
  <2>1. /\ UNCHANGED <<files, wire, told, mutator, ev, turn>>
        /\ pc' = [pc EXCEPT ![p] = "clear"] /\ pc[p] = "index"
    BY <1>2 DEF StoreIndex, Enter, locks, frame, outside
  <2>2. QED
    BY <1>0, <2>1 DEF EvidenceInv, Facts, SealInv, MutateInv, CallInv, ToldInv,
                MarkInv, MarkerBacked, Sealed, Mutating, files
<1>3. CASE StoreClear(p)
  <2>1. /\ UNCHANGED <<files, wire, told, ev, turn>> /\ mutator' = None
        /\ pc' = [pc EXCEPT ![p] = "stored"] /\ pc[p] = "clear" /\ mutator = p
    BY <1>3 DEF StoreClear, Enter, frame, outside, EvidenceInv, MutateInv, Mutating
  <2>2. QED
    BY <1>0, <2>1 DEF EvidenceInv, Facts, SealInv, MutateInv, CallInv, ToldInv,
                MarkInv, MarkerBacked, Sealed, Mutating, files
<1>4. CASE Stored(p)
  <2>1. CASE Drop(p)
    BY <1>4, <2>1, DropFacts DEF Stored, outside
  <2>2. CASE ~Drop(p)
    <3>1. /\ UNCHANGED <<files, wire, told, mutator, ev, turn>>
          /\ \/ pc' = [pc EXCEPT ![p] = "mark"] /\ ev[p] \in Private
             \/ pc' = [pc EXCEPT ![p] = "attempt"]
          /\ pc[p] = "stored"
      BY <1>4, <2>2 DEF Stored, Enter, locks, outside
    <3>2. QED
      BY <1>0, <3>1 DEF EvidenceInv, Facts, SealInv, MutateInv, CallInv, ToldInv,
                MarkInv, MarkerBacked, Sealed, Mutating, files
  <2>3. QED
    BY <2>1, <2>2
<1>5. CASE AttemptLock(p)
  <2>1. /\ UNCHANGED <<files, wire, told, mutator, ev, turn>>
        /\ pc' = [pc EXCEPT ![p] = "freeze"] /\ pc[p] = "attempt"
    BY <1>5 DEF AttemptLock, Enter, frame, outside
  <2>2. QED
    BY <1>0, <2>1 DEF EvidenceInv, Facts, SealInv, MutateInv, CallInv, ToldInv,
                MarkInv, MarkerBacked, Sealed, Mutating, files
<1>6. CASE Freeze(p)
  <2>1. /\ ev[p] \in Event /\ turn[p] \in Turn /\ file[ev[p]] = turn[p]
        /\ intent[ev[p]] \in {None, turn[p]}
        /\ intent' = [intent EXCEPT ![ev[p]] = turn[p]]
        /\ pc' = [pc EXCEPT ![p] = "opening"]
        /\ pc[p] = "freeze" /\ mutator = None
        /\ wire' = wire \cup {OpenCall(p)} /\ OpenCall(p).call = "open"
        /\ UNCHANGED <<file, marker, told, mutator, ev, turn>>
    BY <1>0, <1>6 DEF Freeze, Ingestible, IntentAllows, OpenCall, Enter, locks, frame
  <2>2. SealInv' /\ ToldInv' /\ MarkInv'
    BY <1>0, <2>1 DEF EvidenceInv, SealInv, ToldInv, MarkInv, MarkerBacked, Sealed
  <2>3. CallInv'
    <3>1. \A q \in Proc : pc[q] \in {"opening", "completing"} =>
            ev[q] \in Event /\ turn[q] \in Turn /\ intent[ev[q]] = turn[q]
      BY DEF EvidenceInv, BusyInv, CallInv
    <3>2. \A r \in wire : r.call = "complete" =>
            r.ev \in Event /\ r.turn \in Turn /\ intent[r.ev] = r.turn
      BY DEF EvidenceInv, TypeOK, CallInv, OpenRequest, CompleteRequest
    <3>3. QED
      BY <1>0, <2>1, <3>1, <3>2 DEF CallInv
  <2>4. MutateInv'
    BY <1>0, <2>1 DEF EvidenceInv, MutateInv, Mutating, Sealed
  <2>5. QED
    BY <2>2, <2>3, <2>4 DEF Facts
<1>7. CASE FreezeTorn(p)
  <2>1. /\ ev[p] \in Event /\ turn[p] \in Turn /\ file[ev[p]] = turn[p]
        /\ intent[ev[p]] = None
        /\ intent' = [intent EXCEPT ![ev[p]] = Torn]
        /\ pc' = [pc EXCEPT ![p] = "idle"] /\ mutator = None
        /\ UNCHANGED <<file, marker, wire, told, mutator>>
        /\ \A q \in Proc : q # p => ev'[q] = ev[q] /\ turn'[q] = turn[q]
    BY <1>0, <1>7 DEF FreezeTorn, Ingestible, Enter, EvidenceInv, TypeOK, outside
  <2>2. SealInv' /\ ToldInv'
    BY <1>0, <2>1 DEF EvidenceInv, SealInv, ToldInv, Sealed
  <2>3. CallInv'
    <3>1. \A q \in Proc : pc[q] \in {"opening", "completing"} =>
            turn[q] \in Turn /\ intent[ev[q]] = turn[q]
      BY DEF EvidenceInv, BusyInv, CallInv
    <3>2. \A r \in wire : r.call = "complete" => r.turn \in Turn /\ intent[r.ev] = r.turn
      BY DEF EvidenceInv, TypeOK, CallInv, OpenRequest, CompleteRequest
    <3>3. QED
      BY <1>0, <2>1, <3>1, <3>2 DEF CallInv
  <2>4. MutateInv' /\ MarkInv'
    BY <1>0, <2>1 DEF EvidenceInv, MutateInv, MarkInv, MarkerBacked, Mutating, Sealed
  <2>5. QED
    BY <2>2, <2>3, <2>4 DEF Facts
<1>8. CASE NotFrozen(p)
  BY <1>8, DropFacts DEF NotFrozen, outside
<1>9. QED
  BY <1>1, <1>2, <1>3, <1>4, <1>5, <1>6, <1>7, <1>8

\* What Core holds of an event after a request that froze its turn is applied.
LEMMA ToldFacts ==
  ASSUME EvidenceInv, NEW e \in Event, NEW s \in Scope, intent[e] \in Turn,
         told' = [told EXCEPT ![e] = [scope |-> s, turn |-> intent[e]]], UNCHANGED files
  PROVE  /\ SealInv' /\ ToldInv' /\ MarkerBacked'
         /\ told'[e] # None
         /\ \A f \in Event : told[f] # None => told'[f] # None
<1>1. /\ told \in [Event -> Told \cup {None}]
      /\ [scope |-> s, turn |-> intent[e]] \in Told
  BY DEF EvidenceInv, TypeOK, Told
<1>2. QED
  BY <1>1 DEF EvidenceInv, SealInv, ToldInv, MarkInv, MarkerBacked, Sealed, files

LEMMA CoreFacts ==
  ASSUME EvidenceInv, NEW p \in Proc,
         Opened(p) \/ TurnCompleted(p) \/ Refused(p) \/ CoreTimeout(p)
  PROVE  Facts'
<1>0. /\ pc[p] # "idle" => ev[p] \in Event /\ turn[p] \in Turn
      /\ pc \in [Proc -> Step] /\ scope[p] \in Scope
      /\ pc[p] \in {"opening", "completing"} => intent[ev[p]] = turn[p]
  BY DEF EvidenceInv, BusyInv, TypeOK, CallInv
<1>1. CASE Opened(p)
  <2>1. /\ UNCHANGED <<files, told, mutator, ev, turn>>
        /\ pc' = [pc EXCEPT ![p] = "completing"] /\ pc[p] = "opening"
        /\ wire' = (wire \ {OpenCall(p)}) \cup {CompleteCall(p)}
        /\ CompleteCall(p).ev = ev[p] /\ CompleteCall(p).turn = turn[p]
    BY <1>1 DEF Opened, Apply, OpenCall, CompleteCall, Enter, locks, frame
  <2>2. QED
    BY <1>0, <2>1 DEF EvidenceInv, Facts, SealInv, MutateInv, CallInv, ToldInv,
                MarkInv, MarkerBacked, Sealed, Mutating, files
<1>2. CASE TurnCompleted(p)
  <2>1. /\ UNCHANGED <<files, mutator, ev, turn>>
        /\ pc' = [pc EXCEPT ![p] = "mark"] /\ pc[p] = "completing"
        /\ wire' \subseteq wire
        /\ told' = [told EXCEPT ![ev[p]] = [scope |-> scope[p], turn |-> turn[p]]]
    BY <1>2 DEF TurnCompleted, Apply, CompleteCall, Enter, locks, frame
  <2>2. /\ SealInv' /\ ToldInv' /\ MarkerBacked'
        /\ told'[ev[p]] # None
        /\ \A f \in Event : told[f] # None => told'[f] # None
    BY <1>0, <2>1, ToldFacts
  <2>3. MarkInv'
    BY <1>0, <2>1, <2>2 DEF EvidenceInv, BusyInv, MarkInv
  <2>4. MutateInv' /\ CallInv'
    BY <1>0, <2>1 DEF EvidenceInv, MutateInv, CallInv, Mutating, Sealed, files
  <2>5. QED
    BY <2>2, <2>3, <2>4 DEF Facts
<1>3. CASE Refused(p)
  BY <1>3, DropFacts DEF Refused
<1>4. CASE CoreTimeout(p)
  BY <1>4, DropFacts DEF CoreTimeout, outside
<1>5. QED
  BY <1>1, <1>2, <1>3, <1>4

LEMMA MarkFacts ==
  ASSUME EvidenceInv, NEW p \in Proc,
         Mark(p) \/ MarkWrite(p) \/ MarkRow(p) \/ MarkClear(p)
  PROVE  Facts'
<1>0. /\ pc[p] # "idle" => ev[p] \in Event /\ turn[p] \in Turn
      /\ pc \in [Proc -> Step]
  BY DEF EvidenceInv, BusyInv, TypeOK
<1>1. CASE Mark(p)
  <2>1. /\ UNCHANGED <<files, wire, told, ev, turn>>
        /\ pc' = [pc EXCEPT ![p] = "marking"] /\ pc[p] = "mark"
        /\ mutator = None /\ mutator' = p
    BY <1>1 DEF Mark, Enter, frame, outside
  <2>2. \A q \in Proc : pc[q] \notin Mutating
    BY <2>1 DEF EvidenceInv, MutateInv
  <2>3. QED
    BY <1>0, <2>1, <2>2 DEF EvidenceInv, Facts, SealInv, MutateInv, CallInv, ToldInv,
                MarkInv, MarkerBacked, Sealed, Mutating, files
<1>2. CASE MarkWrite(p)
  <2>1. /\ UNCHANGED <<file, intent, wire, told, mutator, ev, turn>>
        /\ pc' = [pc EXCEPT ![p] = "markrow"] /\ pc[p] = "marking" /\ mutator = p
        /\ marker' = marker \cup {ev[p]}
        /\ ev[p] \in Private \/ told[ev[p]] # None
        /\ file[ev[p]] # None
    BY <1>2 DEF MarkWrite, Enter, EvidenceInv, MutateInv, MarkInv, Mutating, locks, frame, outside
  <2>2. SealInv' /\ ToldInv' /\ CallInv' /\ MarkInv'
    BY <1>0, <2>1 DEF EvidenceInv, SealInv, ToldInv, CallInv, MarkInv, MarkerBacked, Sealed
  <2>3. MutateInv'
    BY <1>0, <2>1 DEF EvidenceInv, MutateInv, Mutating, Sealed
  <2>4. QED
    BY <2>2, <2>3 DEF Facts
<1>3. CASE MarkRow(p)
  <2>1. /\ UNCHANGED <<files, wire, told, mutator, ev, turn>>
        /\ pc' = [pc EXCEPT ![p] = "markclear"] /\ pc[p] = "markrow"
    BY <1>3 DEF MarkRow, Enter, locks, frame, outside
  <2>2. QED
    BY <1>0, <2>1 DEF EvidenceInv, Facts, SealInv, MutateInv, CallInv, ToldInv,
                MarkInv, MarkerBacked, Sealed, Mutating, files
<1>4. CASE MarkClear(p)
  BY <1>4, DropFacts DEF MarkClear, outside
<1>5. QED
  BY <1>1, <1>2, <1>3, <1>4

LEMMA OtherFacts ==
  ASSUME EvidenceInv,
         \/ \E p \in Proc : Crash(p) \/ RecoverIndex(p) \/ Sweep(p)
         \/ \E p \in Proc : RecoverNext(p)
         \/ \E r \in wire : Late(r)
         \/ \E h \in Rerouted : Reroute(h)
         \/ UNCHANGED vars
  PROVE  Facts'
<1>1. ASSUME NEW p \in Proc, Crash(p) PROVE Facts'
  BY <1>1, DropFacts DEF Crash, outside
<1>2. ASSUME UNCHANGED <<files, pc, ev, turn, mutator, wire, told>> PROVE Facts'
  BY <1>2 DEF EvidenceInv, Facts, SealInv, MutateInv, CallInv, ToldInv,
              MarkInv, MarkerBacked, Sealed, files
<1>3. ASSUME NEW p \in Proc, NEW l \in todo[p], Recover(p, l) PROVE Facts'
  <2>1. CASE ~(Matching(l.ev) /\ HintResolves(l.turn))
    BY <1>2, <1>3, <2>1 DEF Recover, locks, frame, outside
  <2>2. CASE Matching(l.ev) /\ HintResolves(l.turn)
    <3>1. /\ UNCHANGED <<files, wire, told, mutator>>
          /\ l.ev \in Event /\ file[l.ev] # None
          /\ \A q \in Proc : /\ pc'[q] = IF q = p THEN "attempt" ELSE pc[q]
                             /\ ev'[q] = IF q = p THEN l.ev ELSE ev[q]
                             /\ turn'[q] = IF q = p THEN l.turn ELSE turn[q]
      BY <1>3, <2>2 DEF Recover, Matching, Enter, EvidenceInv, TypeOK, Listed, locks, outside
    <3>2. QED
      BY <3>1 DEF EvidenceInv, Facts, SealInv, MutateInv, CallInv, ToldInv,
                  MarkInv, MarkerBacked, Sealed, Mutating, files
  <2>3. QED
    BY <2>1, <2>2
<1>4. ASSUME NEW r \in wire, Late(r) PROVE Facts'
  <2>1. /\ UNCHANGED <<files, pc, ev, turn, mutator>> /\ wire' \subseteq wire
    BY <1>4 DEF Late, locks, frame
  <2>2. MutateInv' /\ CallInv'
    BY <2>1 DEF EvidenceInv, MutateInv, CallInv, Sealed, files
  <2>3. CASE UNCHANGED told
    BY <2>1, <2>2, <2>3 DEF EvidenceInv, Facts, SealInv, ToldInv, MarkInv, MarkerBacked,
                            Sealed, files
  <2>4. CASE ~UNCHANGED told
    <3>1. /\ r.call # "open"
          /\ told' = [told EXCEPT ![r.ev] = [scope |-> r.scope, turn |-> r.turn]]
      BY <1>4, <2>4 DEF Late, Apply
    <3>2. r.ev \in Event /\ r.scope \in Scope /\ r.turn \in Turn /\ intent[r.ev] = r.turn
      BY <3>1 DEF EvidenceInv, TypeOK, CallInv, OpenRequest, CompleteRequest
    <3>3. /\ SealInv' /\ ToldInv' /\ MarkerBacked'
          /\ \A f \in Event : told[f] # None => told'[f] # None
      BY <2>1, <3>1, <3>2, ToldFacts
    <3>4. MarkInv'
      BY <2>1, <3>3 DEF EvidenceInv, BusyInv, MarkInv
    <3>5. QED
      BY <2>2, <3>3, <3>4 DEF Facts
  <2>5. QED
    BY <2>3, <2>4
<1>5. QED
  BY <1>1, <1>2, <1>3, <1>4
  DEF RecoverNext, RecoverIndex, Sweep, Reroute, vars, files, locks, frame, outside

LEMMA NextEvidence == EvidenceInv /\ [Next]_vars => EvidenceInv'
<1>1. EvidenceInv /\ [Next]_vars => TypeOK' /\ BusyInv'
  BY NextTypes DEF EvidenceInv
<1>2. EvidenceInv /\ [Next]_vars => Facts'
  BY NextCases, StoreFacts, AdvanceFacts, CoreFacts, MarkFacts, OtherFacts
<1>3. QED
  BY <1>1, <1>2 DEF EvidenceInv, Facts

LEMMA SpecEvidence == Spec => []EvidenceInv
  BY InitEvidence, NextEvidence, PTL DEF Spec

\* For any constants what Core holds of a turn is what its capture file says.
THEOREM CaptureEvidenceMatches == Spec => []EvidenceMatches
<1>1. EvidenceInv => EvidenceMatches
  BY DEF EvidenceInv, ToldInv, EvidenceMatches
<1>2. QED
  BY <1>1, SpecEvidence, PTL

\* For any constants a marker has Core's copy, or an exclusion, behind it.
THEOREM CaptureMarkerBacked == Spec => []MarkerBacked
<1>1. EvidenceInv => MarkerBacked
  BY DEF EvidenceInv, MarkInv
<1>2. QED
  BY <1>1, SpecEvidence, PTL

-----------------------------------------------------------------------------
(* Ingestion is for good, and the refinement *)

\* Only three steps write files, and only answers tell Core's copy.
LEMMA WriteCases ==
  ASSUME [Next]_vars
  PROVE  \/ UNCHANGED <<files, told>>
         \/ \E p \in Proc : \/ StoreWrite(p) \/ MarkWrite(p) \/ Freeze(p) \/ FreezeTorn(p)
                            \/ TurnCompleted(p)
         \/ \E r \in wire : Late(r)
<1>1. ASSUME NEW p \in Proc, NEW e \in Event, NEW t \in Post,
             StoreSame(p, e, t) \/ StoreNew(p, e, t) \/ StoreRefused(p, e, t)
      PROVE  UNCHANGED <<files, told>>
  BY <1>1 DEF StoreSame, StoreNew, StoreRefused, outside
<1>2. ASSUME NEW p \in Proc,
             \/ StoreIndex(p) \/ StoreClear(p) \/ Stored(p) \/ AttemptLock(p) \/ NotFrozen(p)
             \/ Opened(p) \/ Refused(p) \/ CoreTimeout(p)
             \/ Mark(p) \/ MarkRow(p) \/ MarkClear(p)
             \/ Crash(p) \/ RecoverIndex(p) \/ Sweep(p)
      PROVE  UNCHANGED <<files, told>>
  BY <1>2 DEF StoreIndex, StoreClear, Stored, AttemptLock, NotFrozen, Opened, Apply, OpenCall,
              Refused, CoreTimeout, Mark, MarkRow, MarkClear, Crash, RecoverIndex, Sweep, outside
<1>3. ASSUME NEW p \in Proc, NEW l \in todo[p], Recover(p, l)
      PROVE  UNCHANGED <<files, told>>
  BY <1>3 DEF Recover, outside
<1>4. ASSUME NEW h \in Rerouted, Reroute(h) PROVE UNCHANGED <<files, told>>
  BY <1>4 DEF Reroute
<1>5. CASE UNCHANGED vars
  BY <1>5 DEF vars, outside
<1>6. QED
  BY <1>1, <1>2, <1>3, <1>4, <1>5, NextCases DEF RecoverNext

\* For any constants neither the capture nor the marker of an ingested turn
\* ever changes.
THEOREM CaptureIngestedForGood == Spec => IngestedForGood
<1>1. ASSUME EvidenceInv, [Next]_vars, NEW e \in marker
      PROVE  e \in marker' /\ file'[e] = file[e]
  <2>1. CASE UNCHANGED files
    BY <2>1 DEF files
  <2>2. ASSUME NEW p \in Proc, StoreWrite(p) PROVE e \in marker' /\ file'[e] = file[e]
    <3>1. ev[p] # e
      BY <2>2, <1>1 DEF StoreWrite, EvidenceInv, MutateInv, Sealed
    <3>2. QED
      BY <2>2, <3>1, <1>1 DEF StoreWrite, EvidenceInv, TypeOK
  <2>3. ASSUME NEW p \in Proc, MarkWrite(p) \/ Freeze(p) \/ FreezeTorn(p) \/ TurnCompleted(p)
        PROVE  e \in marker' /\ file'[e] = file[e]
    BY <2>3 DEF MarkWrite, Freeze, FreezeTorn, TurnCompleted, files
  <2>4. ASSUME NEW r \in wire, Late(r) PROVE e \in marker' /\ file'[e] = file[e]
    BY <2>4 DEF Late, files
  <2>5. QED
    BY <1>1, <2>1, <2>2, <2>3, <2>4, WriteCases
<1>2. EvidenceInv /\ [Next]_vars => [\A e \in marker : e \in marker' /\ file'[e] = file[e]]_vars
  BY <1>1
<1>3. QED
  BY <1>2, SpecEvidence, PTL DEF Spec, IngestedForGood

\* What Core was told, as the refinement mapping reads it.
Said == [e \in Event |-> IF told[e] = None THEN None ELSE told[e].turn]

\* Telling Core what the intent froze is a Tell, or nothing new.
LEMMA TellRefines ==
  ASSUME EvidenceInv, NEW e \in Event, NEW s \in Scope, intent[e] \in Turn,
         told[e] \in {None, [scope |-> s, turn |-> intent[e]]},
         told' = [told EXCEPT ![e] = [scope |-> s, turn |-> intent[e]]], UNCHANGED files
  PROVE  UNCHANGED <<file, Sealed, Said>> \/ Evidence!Tell(e)
<1>0. /\ told \in [Event -> Told \cup {None}] /\ intent[e] = file[e]
      /\ [scope |-> s, turn |-> intent[e]] \in Told
      /\ UNCHANGED <<file, Sealed>> /\ e \in Sealed
  BY DEF EvidenceInv, TypeOK, SealInv, Sealed, Told, files
<1>1. CASE told[e] # None
  <2>1. told' = told
    BY <1>0, <1>1
  <2>2. QED
    BY <1>0, <2>1 DEF Said
<1>2. CASE told[e] = None
  <2>1. told'[e] # None /\ told'[e].turn = file[e]
    BY <1>0
  <2>2. \A f \in Event : f # e => told'[f] = told[f]
    BY <1>0
  <2>3. Said' = [Said EXCEPT ![e] = file[e]] /\ Said[e] = None
    <3>1. Said'[e] = file[e] /\ Said[e] = None
      BY <1>2, <2>1 DEF Said
    <3>2. \A f \in Event : f # e => Said'[f] = Said[f]
      BY <2>2 DEF Said
    <3>3. /\ Said = [f \in Event |-> Said[f]]
          /\ Said' = [f \in Event |-> Said'[f]]
      BY DEF Said
    <3>4. QED
      BY <3>1, <3>2, <3>3
  <2>4. QED
    BY <1>0, <2>3 DEF Said, Evidence!Tell
<1>3. QED
  BY <1>1, <1>2

\* Sealing one event, or one that is sealed already.
LEMMA SealRefines ==
  ASSUME NEW e \in Event, file[e] # None, Sealed' = Sealed \cup {e}, UNCHANGED <<file, told>>
  PROVE  UNCHANGED <<file, Sealed, Said>> \/ Evidence!Seal(e)
<1>1. CASE e \in Sealed
  BY <1>1 DEF Said
<1>2. CASE e \notin Sealed
  BY <1>2 DEF Evidence!Seal
<1>3. QED
  BY <1>1, <1>2

LEMMA StepRefines ==
  ASSUME EvidenceInv, [Next]_vars
  PROVE  UNCHANGED <<file, Sealed, Said>> \/ Evidence!Next
<1>0. /\ \A p \in Proc : pc[p] # "idle" => ev[p] \in Event /\ turn[p] \in Turn
      /\ \A p \in Proc : scope[p] \in Scope
      /\ intent \in [Event -> Turn \cup {None, Torn}]
      /\ \A p \in Proc : pc[p] = "completing" => intent[ev[p]] = turn[p]
  BY DEF EvidenceInv, BusyInv, TypeOK, CallInv
<1>1. CASE UNCHANGED <<files, told>>
  BY <1>1 DEF files, Sealed, Said
<1>2. ASSUME NEW p \in Proc, StoreWrite(p) PROVE Evidence!Next
  <2>1. /\ ev[p] \in Event /\ turn[p] \in Turn /\ ev[p] \notin Sealed
        /\ file' = [file EXCEPT ![ev[p]] = turn[p]]
        /\ UNCHANGED <<intent, marker, told>>
    BY <1>0, <1>2 DEF StoreWrite, EvidenceInv, MutateInv, outside
  <2>2. UNCHANGED <<Sealed, Said>>
    BY <2>1 DEF Sealed, Said
  <2>3. file'[ev[p]] = turn[p]
    BY <1>0, <2>1 DEF EvidenceInv, TypeOK
  <2>4. file' = [file EXCEPT ![ev[p]] = file'[ev[p]]]
    BY <2>1, <2>3
  <2>5. Evidence!Enrich(ev[p])
    BY <2>1, <2>2, <2>3, <2>4 DEF Said, Evidence!Enrich
  <2>6. QED
    BY <2>1, <2>5 DEF Evidence!Next
<1>3. ASSUME NEW p \in Proc, MarkWrite(p) \/ Freeze(p) \/ FreezeTorn(p)
      PROVE  UNCHANGED <<file, Sealed, Said>> \/ Evidence!Next
  <2>1. /\ ev[p] \in Event /\ turn[p] \in Turn /\ UNCHANGED <<file, told>>
        /\ file[ev[p]] # None
    BY <1>0, <1>3
    DEF MarkWrite, Freeze, FreezeTorn, Ingestible, EvidenceInv, MutateInv, outside
  <2>2. Sealed' = Sealed \cup {ev[p]}
    <3>1. CASE MarkWrite(p)
      BY <2>1, <3>1 DEF MarkWrite, Sealed
    <3>2. CASE Freeze(p)
      <4>1. intent' = [intent EXCEPT ![ev[p]] = turn[p]] /\ UNCHANGED marker
        BY <3>2 DEF Freeze
      <4>2. QED
        BY <1>0, <2>1, <4>1 DEF Sealed
    <3>3. CASE FreezeTorn(p)
      <4>1. intent' = [intent EXCEPT ![ev[p]] = Torn] /\ UNCHANGED marker
        BY <3>3 DEF FreezeTorn
      <4>2. QED
        BY <1>0, <2>1, <4>1 DEF Sealed
    <3>4. QED
      BY <1>3, <3>1, <3>2, <3>3
  <2>3. QED
    BY <2>1, <2>2, SealRefines DEF Evidence!Next
<1>4. ASSUME NEW p \in Proc, TurnCompleted(p)
      PROVE  UNCHANGED <<file, Sealed, Said>> \/ Evidence!Next
  <2>1. /\ ev[p] \in Event /\ intent[ev[p]] \in Turn /\ UNCHANGED files
        /\ told[ev[p]] \in {None, [scope |-> scope[p], turn |-> intent[ev[p]]]}
        /\ told' = [told EXCEPT ![ev[p]] = [scope |-> scope[p], turn |-> intent[ev[p]]]]
    BY <1>0, <1>4 DEF TurnCompleted, Applies, Apply, CompleteCall
  <2>2. QED
    BY <1>0, <2>1, TellRefines DEF Evidence!Next
<1>5. ASSUME NEW r \in wire, Late(r)
      PROVE  UNCHANGED <<file, Sealed, Said>> \/ Evidence!Next
  <2>1. CASE UNCHANGED told
    BY <1>5, <2>1 DEF Late, files, Sealed, Said
  <2>2. CASE ~UNCHANGED told
    <3>1. r.call # "open" /\ Applies(r) /\ Apply(r) /\ UNCHANGED files
      BY <1>5, <2>2 DEF Late, Apply
    <3>2. r.ev \in Event /\ r.scope \in Scope /\ r.turn \in Turn /\ intent[r.ev] = r.turn
      BY <3>1 DEF EvidenceInv, TypeOK, CallInv, OpenRequest, CompleteRequest
    <3>3. /\ told[r.ev] \in {None, [scope |-> r.scope, turn |-> intent[r.ev]]}
          /\ told' = [told EXCEPT ![r.ev] = [scope |-> r.scope, turn |-> intent[r.ev]]]
      BY <3>1, <3>2 DEF Applies, Apply
    <3>4. QED
      BY <3>1, <3>2, <3>3, TellRefines DEF Evidence!Next
  <2>3. QED
    BY <2>1, <2>2
<1>6. QED
  BY <1>1, <1>2, <1>3, <1>4, <1>5, WriteCases

\* For any constants the store implements CaptureEvidence: a turn is enriched
\* until it is sealed, and Core is told only its sealed content, once.
THEOREM CaptureImplementsEvidence == Spec => ImplementsEvidence
<1>1. Init => Evidence!Init
  <2> SUFFICES ASSUME Init PROVE Evidence!Init
    OBVIOUS
  <2>1. EvidenceInv
    BY InitEvidence
  <2>2. \A e \in Event : told[e] # None => told[e] \in Told /\ told[e].turn \in Turn
    BY <2>1 DEF EvidenceInv, TypeOK, Told
  <2>3. Said \in [Event -> Turn \cup {None}]
    BY <2>2 DEF Said
  <2>4. \A e \in Event : Said[e] # None => e \in Sealed /\ Said[e] = file[e]
    BY <2>1 DEF EvidenceInv, ToldInv, Said
  <2>5. Sealed \subseteq {e \in Event : file[e] # None}
    BY <2>1 DEF EvidenceInv, TypeOK, SealInv, Sealed
  <2>6. file \in [Event -> Turn \cup {None}]
    BY <2>1 DEF EvidenceInv, TypeOK
  <2>7. QED
    BY <2>3, <2>4, <2>5, <2>6 DEF Said, Evidence!Init
<1>2. EvidenceInv /\ [Next]_vars => [Evidence!Next]_<<file, Sealed, Said>>
  BY StepRefines
<1>3. QED
  BY <1>1, <1>2, SpecEvidence, PTL DEF Spec, ImplementsEvidence, Evidence!Spec, Said

-----------------------------------------------------------------------------
(* The index *)

LEMMA RowFacts ==
  ASSUME TypeOK, NEW e \in Event, file[e] # None
  PROVE  /\ RowOf(e) \in Row /\ RowOf(e) # None
         /\ RowOf(e).status = file[e].status
         /\ RowOf(e).ingested = (e \in marker)
<1>1. file[e].status \in Status /\ (e \in marker) \in BOOLEAN
  BY DEF TypeOK, Turn
<1>2. RowOf(e) = [status |-> file[e].status, ingested |-> e \in marker]
  BY DEF RowOf
<1>3. RowOf(e) \in Row
  BY <1>1, <1>2 DEF Row
<1>4. QED
  BY <1>2, <1>3

LEMMA EnsuredTrue == TypeOK /\ IndexInv => EnsuredRow = Rebuilt
<1> SUFFICES ASSUME TypeOK, IndexInv, indexed, dirty = {} PROVE row = Rebuilt
  BY DEF EnsuredRow
<1>1. \A e \in Event : row[e] = RowOf(e)
  BY DEF IndexInv, RowsInv
<1>2. row = [e \in Event |-> row[e]]
  BY DEF TypeOK
<1>3. QED
  BY <1>1, <1>2 DEF Rebuilt

\* Steps outside the index; a mutation may be left but not entered.
LEMMA CalmIndex ==
  ASSUME IndexInv, UNCHANGED <<file, marker, indexed, row, dirty>>,
         \A q \in Proc : pc'[q] \in Mutating
           => pc'[q] = pc[q] /\ ev'[q] = ev[q] /\ turn'[q] = turn[q]
  PROVE  IndexInv'
  BY DEF IndexInv, RowsInv, OwnRowInv, RowOf, Mutating

\* Steps that ensure the index and leave it clean.
LEMMA EnsureIndex ==
  ASSUME EvidenceInv, mutator = None, UNCHANGED <<file, marker>>,
         indexed' = TRUE, row' = Rebuilt, dirty' = {},
         \A q \in Proc : pc'[q] \in Mutating => pc'[q] = pc[q]
  PROVE  IndexInv'
<1>1. \A q \in Proc : pc'[q] \notin Mutating
  BY DEF EvidenceInv, MutateInv
<1>2. QED
  BY <1>1 DEF IndexInv, RowsInv, OwnRowInv, RowOf, Rebuilt, Mutating

\* A mutation begins with the index right and its own event marked dirty.
LEMMA BeginIndex ==
  ASSUME EvidenceInv, NEW p \in Proc, NEW e \in Event, mutator = None,
         UNCHANGED <<file, marker>>, indexed' = TRUE, row' = Rebuilt, dirty' = {e},
         ev'[p] = e, pc'[p] = "marking" \/ (pc'[p] = "write" /\ e \notin marker),
         \A q \in Proc : q # p => pc'[q] = pc[q]
  PROVE  IndexInv'
<1>1. \A q \in Proc : q # p => pc'[q] \notin Mutating
  BY DEF EvidenceInv, MutateInv
<1>2. RowsInv'
  BY <1>1 DEF RowsInv, RowOf, Rebuilt
<1>3. row'[e] = RowOf(e) /\ UNCHANGED RowOf(e)
  BY DEF Rebuilt, RowOf
<1>4. OwnRowInv'
  <2>1. e \notin marker => row'[e] = None \/ ~row'[e].ingested
    <3>1. CASE file[e] = None
      BY <1>3, <3>1 DEF RowOf
    <3>2. CASE file[e] # None
      BY <1>3, <3>2, RowFacts DEF EvidenceInv
    <3>3. QED
      BY <3>1, <3>2
  <2>2. \A q \in Proc : pc'[q] \in Mutating => q = p
    BY <1>1
  <2>3. pc'[p] = "marking" \/ (pc'[p] = "write" /\ e \notin marker')
    OBVIOUS
  <2>4. QED
    BY <1>3, <2>1, <2>2, <2>3 DEF OwnRowInv, Mutating
<1>5. QED
  BY <1>2, <1>4 DEF IndexInv

LEMMA StoreIndexInv ==
  ASSUME EvidenceInv, IndexInv, NEW p \in Proc, NEW e \in Event, NEW t \in Post,
         StoreSame(p, e, t) \/ StoreNew(p, e, t) \/ StoreRefused(p, e, t)
  PROVE  IndexInv'
<1>0. EnsuredRow = Rebuilt /\ pc \in [Proc -> Step] /\ ev \in [Proc -> Event \cup {None}]
  BY EnsuredTrue DEF EvidenceInv, TypeOK
<1>1. CASE StoreRefused(p, e, t)
  BY <1>0, <1>1, EnsureIndex DEF StoreRefused, Ensure, files
<1>2. CASE StoreSame(p, e, t)
  <2>1. row' = Rebuilt
    BY <1>0, <1>2 DEF StoreSame, Rebuilt
  <2>2. \A q \in Proc : pc'[q] \in Mutating => pc'[q] = pc[q]
    BY <1>0, <1>2 DEF StoreSame, Enter, Mutating
  <2>3. QED
    BY <1>2, <2>1, <2>2, EnsureIndex DEF StoreSame, files
<1>3. CASE StoreNew(p, e, t)
  <2>1. e \notin marker
    BY <1>3 DEF StoreNew, MayEnrich, EvidenceInv, SealInv, Sealed
  <2>2. /\ ev'[p] = e /\ pc'[p] = "write" /\ mutator = None
        /\ \A q \in Proc : q # p => pc'[q] = pc[q]
    BY <1>0, <1>3 DEF StoreNew, Enter
  <2>3. QED
    BY <1>0, <1>3, <2>1, <2>2, BeginIndex DEF StoreNew, EnsureThenDirty, files
<1>4. QED
  BY <1>1, <1>2, <1>3

\* The steps of a mutation that holds the lock.
LEMMA MutationIndexInv ==
  ASSUME EvidenceInv, IndexInv, NEW p \in Proc,
         \/ StoreWrite(p) \/ StoreIndex(p) \/ StoreClear(p)
         \/ MarkWrite(p) \/ MarkRow(p) \/ MarkClear(p)
  PROVE  IndexInv'
<1>0. /\ pc[p] \in Mutating /\ indexed /\ dirty = {ev[p]}
      /\ ev[p] \in Event /\ turn[p] \in Turn
      /\ pc \in [Proc -> Step] /\ marker \subseteq Event
      /\ file \in [Event -> Turn \cup {None}] /\ row \in [Event -> Row \cup {None}]
  BY DEF StoreWrite, StoreIndex, StoreClear, MarkWrite, MarkRow, MarkClear, Mutating,
         EvidenceInv, BusyInv, TypeOK, IndexInv, RowsInv
<1>1. \A q \in Proc : q # p => pc[q] \notin Mutating
  BY <1>0 DEF EvidenceInv, MutateInv
<1>2. \A e \in Event : e # ev[p] => row[e] = RowOf(e)
  BY <1>0 DEF IndexInv, RowsInv
<1>3. CASE StoreWrite(p)
  <2>1. /\ file' = [file EXCEPT ![ev[p]] = turn[p]] /\ pc' = [pc EXCEPT ![p] = "index"]
        /\ UNCHANGED <<marker, indexed, row, dirty, ev, turn>> /\ pc[p] = "write"
    BY <1>3 DEF StoreWrite, Enter, index, frame
  <2>2. RowsInv'
    BY <1>0, <1>1, <1>2, <2>1 DEF RowsInv, RowOf
  <2>3. OwnRowInv'
    BY <1>0, <1>1, <2>1 DEF IndexInv, OwnRowInv, Mutating
  <2>4. QED
    BY <2>2, <2>3 DEF IndexInv
<1>4. CASE StoreIndex(p)
  <2>1. /\ row' = [row EXCEPT ![ev[p]] =
                     [status |-> turn[p].status,
                      ingested |-> row[ev[p]] # None /\ row[ev[p]].ingested]]
        /\ pc' = [pc EXCEPT ![p] = "clear"]
        /\ UNCHANGED <<file, marker, indexed, dirty, ev, turn>> /\ pc[p] = "index"
    BY <1>4 DEF StoreIndex, Enter, files, frame
  <2>2. /\ file[ev[p]] = turn[p] /\ ev[p] \notin marker
        /\ (row[ev[p]] # None /\ row[ev[p]].ingested) = FALSE
    <3>1. /\ file[ev[p]] = turn[p] /\ ev[p] \notin marker
          /\ row[ev[p]] = None \/ ~row[ev[p]].ingested
      BY <2>1 DEF IndexInv, OwnRowInv
    <3>2. QED
      BY <3>1
  <2>3. row'[ev[p]] = RowOf(ev[p])
    BY <1>0, <2>1, <2>2 DEF RowOf
  <2>4. RowsInv'
    BY <1>0, <1>1, <1>2, <2>1 DEF RowsInv, RowOf
  <2>5. OwnRowInv'
    BY <1>0, <1>1, <2>1, <2>3 DEF OwnRowInv, Mutating, RowOf
  <2>6. QED
    BY <2>4, <2>5 DEF IndexInv
<1>5. CASE StoreClear(p)
  <2>1. /\ dirty' = dirty \ {ev[p]} /\ pc' = [pc EXCEPT ![p] = "stored"] /\ pc[p] = "clear"
        /\ UNCHANGED <<file, marker, indexed, row, ev, turn>>
    BY <1>5 DEF StoreClear, Enter, files, frame
  <2>2. row[ev[p]] = RowOf(ev[p])
    BY <2>1 DEF IndexInv, OwnRowInv
  <2>3. QED
    BY <1>0, <1>1, <1>2, <2>1, <2>2 DEF IndexInv, RowsInv, OwnRowInv, Mutating, RowOf
<1>6. CASE MarkWrite(p)
  <2>1. /\ marker' = marker \cup {ev[p]} /\ pc' = [pc EXCEPT ![p] = "markrow"]
        /\ UNCHANGED <<file, indexed, row, dirty, ev, turn>> /\ pc[p] = "marking"
    BY <1>6 DEF MarkWrite, Enter, index, frame
  <2>2. row[ev[p]] = RowOf(ev[p]) /\ file[ev[p]] # None
    BY <2>1 DEF IndexInv, OwnRowInv, EvidenceInv, MutateInv
  <2>3. row[ev[p]] # None /\ row[ev[p]].status = file[ev[p]].status
    BY <1>0, <2>2, RowFacts DEF EvidenceInv
  <2>4. RowsInv'
    BY <1>0, <1>1, <1>2, <2>1 DEF RowsInv, RowOf
  <2>5. OwnRowInv'
    BY <1>0, <1>1, <2>1, <2>3 DEF OwnRowInv, Mutating
  <2>6. QED
    BY <2>4, <2>5 DEF IndexInv
<1>7. CASE MarkRow(p)
  <2>1. /\ pc' = [pc EXCEPT ![p] = "markclear"] /\ pc[p] = "markrow"
        /\ UNCHANGED <<file, marker, indexed, dirty, ev, turn>>
    BY <1>7 DEF MarkRow, Enter, files, frame
  <2>2. /\ ev[p] \in marker /\ row[ev[p]] \in Row /\ row[ev[p]].status = file[ev[p]].status
        /\ file[ev[p]] # None
        /\ row' = [row EXCEPT ![ev[p]].ingested = TRUE]
    BY <1>0, <1>7, <2>1 DEF MarkRow, IndexInv, OwnRowInv, EvidenceInv, MutateInv
  <2>3. row'[ev[p]] = RowOf(ev[p])
    <3>1. row'[ev[p]] = [row[ev[p]] EXCEPT !.ingested = TRUE]
      BY <1>0, <2>2
    <3>2. row'[ev[p]] = [status |-> file[ev[p]].status, ingested |-> TRUE]
      BY <2>2, <3>1 DEF Row
    <3>3. (ev[p] \in marker) = TRUE
      BY <2>2
    <3>4. QED
      BY <2>2, <3>2, <3>3 DEF RowOf
  <2>4. RowsInv'
    BY <1>0, <1>1, <1>2, <2>1, <2>2 DEF RowsInv, RowOf
  <2>5. OwnRowInv'
    BY <1>0, <1>1, <2>1, <2>3 DEF OwnRowInv, Mutating, RowOf
  <2>6. QED
    BY <2>4, <2>5 DEF IndexInv
<1>8. CASE MarkClear(p)
  <2>1. /\ dirty' = dirty \ {ev[p]} /\ pc' = [pc EXCEPT ![p] = "idle"] /\ pc[p] = "markclear"
        /\ UNCHANGED <<file, marker, indexed, row>>
        /\ \A q \in Proc : q # p => ev'[q] = ev[q] /\ turn'[q] = turn[q]
    BY <1>8 DEF MarkClear, Drop, Enter, files, EvidenceInv, TypeOK
  <2>2. row[ev[p]] = RowOf(ev[p])
    BY <2>1 DEF IndexInv, OwnRowInv
  <2>3. QED
    BY <1>0, <1>1, <1>2, <2>1, <2>2 DEF IndexInv, RowsInv, OwnRowInv, Mutating, RowOf
<1>9. QED
  BY <1>3, <1>4, <1>5, <1>6, <1>7, <1>8

\* The steps before and after a mutation.
LEMMA CalmSteps ==
  ASSUME EvidenceInv, IndexInv, NEW p \in Proc,
         \/ Stored(p) \/ AttemptLock(p) \/ Opened(p) \/ TurnCompleted(p) \/ Refused(p)
         \/ CoreTimeout(p) \/ Crash(p) \/ Sweep(p) \/ \E l \in todo[p] : Recover(p, l)
  PROVE  IndexInv'
<1>1. UNCHANGED <<file, marker, indexed, row, dirty>>
  BY DEF Stored, AttemptLock, Opened, TurnCompleted, Refused, CoreTimeout, Crash, Sweep,
         Recover, files, index
<1>2. ASSUME NEW q \in Proc, pc'[q] \in Mutating
      PROVE  pc'[q] = pc[q] /\ ev'[q] = ev[q] /\ turn'[q] = turn[q]
  <2>0. /\ pc \in [Proc -> Step] /\ ev \in [Proc -> Event \cup {None}]
        /\ turn \in [Proc -> Turn \cup {None}]
    BY DEF EvidenceInv, TypeOK
  <2>1. CASE Drop(p)
    BY <1>2, <2>0, <2>1 DEF Drop, Enter, Mutating
  <2>2. CASE \E s \in {"mark", "attempt", "freeze", "completing"} : Enter(p, s)
    <3>1. q # p
      BY <1>2, <2>0, <2>2 DEF Enter, Mutating
    <3>2. QED
      BY <2>0, <2>2, <3>1
      DEF Stored, AttemptLock, Opened, TurnCompleted, Refused, CoreTimeout, Crash, Sweep,
          Recover, Drop, Enter, frame
  <2>3. CASE UNCHANGED <<pc, frame>>
    BY <2>3 DEF frame
  <2>4. QED
    BY <2>1, <2>2, <2>3
    DEF Stored, AttemptLock, Opened, TurnCompleted, Refused, CoreTimeout, Crash, Sweep, Recover
<1>3. QED
  BY <1>1, <1>2, CalmIndex

\* The other steps that touch the index.
LEMMA EnsureSteps ==
  ASSUME EvidenceInv, IndexInv, NEW p \in Proc,
         Freeze(p) \/ FreezeTorn(p) \/ NotFrozen(p) \/ RecoverIndex(p) \/ Mark(p)
  PROVE  IndexInv'
<1>0. EnsuredRow = Rebuilt /\ pc \in [Proc -> Step]
  BY EnsuredTrue DEF EvidenceInv, TypeOK
<1>1. CASE Mark(p)
  <2>1. /\ ev'[p] = ev[p] /\ ev[p] \in Event /\ pc'[p] = "marking"
        /\ \A q \in Proc : q # p => pc'[q] = pc[q]
    BY <1>0, <1>1 DEF Mark, Enter, frame, EvidenceInv, BusyInv
  <2>2. /\ mutator = None /\ UNCHANGED <<file, marker>>
        /\ indexed' = TRUE /\ row' = Rebuilt /\ dirty' = {ev[p]}
    BY <1>0, <1>1 DEF Mark, EnsureThenDirty, files
  <2>3. PICK e \in Event : e = ev[p]
    BY <2>1
  <2>4. /\ ev'[p] = e /\ dirty' = {e}
        /\ pc'[p] = "marking" \/ (pc'[p] = "write" /\ e \notin marker)
    BY <2>1, <2>2, <2>3
  <2>5. QED
    BY <2>1, <2>2, <2>4, BeginIndex
<1>2. CASE ~Mark(p)
  <2>1. \A q \in Proc : pc'[q] \in Mutating => pc'[q] = pc[q]
    BY <1>0, <1>2 DEF Freeze, FreezeTorn, NotFrozen, RecoverIndex, Drop, Enter, Mutating
  <2>2. mutator = None /\ UNCHANGED <<file, marker>> /\ Ensure
    BY <1>2 DEF Freeze, FreezeTorn, NotFrozen, RecoverIndex, files
  <2>3. QED
    BY <1>0, <2>1, <2>2, EnsureIndex DEF Ensure
<1>3. QED
  BY <1>1, <1>2

LEMMA NextIndex == EvidenceInv /\ IndexInv /\ [Next]_vars => IndexInv'
<1> SUFFICES ASSUME EvidenceInv, IndexInv, [Next]_vars PROVE IndexInv'
  OBVIOUS
<1>1. ASSUME NEW r \in wire, Late(r) PROVE IndexInv'
  BY <1>1, CalmIndex DEF Late, files, index, frame
<1>2. ASSUME NEW h \in Rerouted, Reroute(h) PROVE IndexInv'
  BY <1>2, CalmIndex DEF Reroute, files, index, frame
<1>3. CASE UNCHANGED vars
  BY <1>3, CalmIndex DEF vars, files, index, frame
<1>4. QED
  BY <1>1, <1>2, <1>3, NextCases, StoreIndexInv, MutationIndexInv, CalmSteps, EnsureSteps
  DEF RecoverNext

\* For any constants a reader that finds no dirty mark sees every durable turn
\* with its status and whether it was ingested.
THEOREM CaptureIndexTrue == Spec => []IndexTrue
<1>1. Init => IndexInv
  BY DEF Init, IndexInv, RowsInv, OwnRowInv, Mutating
<1>2. EvidenceInv /\ IndexInv => IndexTrue
  <2> SUFFICES ASSUME EvidenceInv, IndexInv, indexed, dirty = {} PROVE row = Rebuilt
    BY DEF IndexTrue
  <2>1. EnsuredRow = row
    BY DEF EnsuredRow
  <2>2. QED
    BY <2>1, EnsuredTrue DEF EvidenceInv
<1>3. Spec => []IndexInv
  BY <1>1, NextIndex, SpecEvidence, PTL DEF Spec
<1>4. QED
  BY <1>2, <1>3, SpecEvidence, PTL
=============================================================================
