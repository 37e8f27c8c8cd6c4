--------------------------- MODULE EvidenceChain ----------------------------
(***************************************************************************)
(* What a distilled result may rest on (src/src/distillation-evidence.ts,  *)
(* as distillation-submit.ts and the ledger use it): an L2 timeline on L1  *)
(* turns, an L3 profile on L2 revisions of its project, an L4 portrait on  *)
(* L3 revisions of several projects.  A submit resolves its project, reads *)
(* the names the project is stored under and reads the ledger in separate  *)
(* steps; meanwhile projects are merged, results retired, jobs queued and  *)
(* other submits recorded.  The same ledger holds the L3 and L4 texts that *)
(* a user dictated (user-authorized-memory.ts): they rest on the one turn  *)
(* in which the user confirmed them.                                       *)
(*                                                                         *)
(* A ref is a turn or the number of a row of the ledger.  owner is the     *)
(* registry (ProjectRegistry) as far as merging goes: the project an id    *)
(* leads to.  Left out: archived and deleted projects (ContextRetrieval),  *)
(* leases and Core's writes (DistillationSubmit), which of a project's L3  *)
(* revisions is the latest and queueings that get lost (DerivedQueue), the *)
(* plan of a dictated text and its checks against Core's                   *)
(* (UserAuthorizedMemory), turns without a project.                        *)
(***************************************************************************)
EXTENDS Naturals, Sequences, FiniteSets
CONSTANTS
  Namespace,   \* project ids
  L1,          \* turns
  Hinted,      \* of each turn: the project its capture names
  Usable,      \* complete, ingested, with both texts
  CoreHas,     \* of each turn: the project Core has it under
  Confirming,  \* turns in which a user may confirm a text
  Ledger0,     \* the rows of the ledger at the start
  MaxRows,     \* bound on the rows
  NamedRefs,   \* the sets of refs a submit may name itself
  Submitter,
  Unscoped     \* no project, no job, no submit

Target == {"l2", "l3", "l4"}
Below == [k \in Target |-> CASE k = "l2" -> "l1" [] k = "l3" -> "l2" [] k = "l4" -> "l3"]
Ref == L1 \cup 1..MaxRows
Item == [ref : Ref, layer : {"l1", "l2", "l3"}, under : Namespace]
LedgerRow == [kind : Target, of : Namespace \cup {Unscoped}, evidence : SUBSET Item,
              status : {"pending", "completed", "retired"}, migration : BOOLEAN,
              authorized : BOOLEAN]  \* dictated by the user: the ledger says "manual"
Turns(ts, p) == {[ref |-> t, layer |-> "l1", under |-> p] : t \in ts}

ASSUME EvidenceAssumption ==
  /\ Hinted \in [L1 -> Namespace] /\ CoreHas \in [L1 -> Namespace] /\ Usable \subseteq L1
  /\ Confirming \subseteq L1
  /\ Ledger0 \in Seq(LedgerRow) /\ Unscoped \notin Namespace /\ MaxRows \in Nat
  /\ {} \notin NamedRefs /\ \A refs \in NamedRefs : refs \subseteq Ref
  /\ L1 \cap 1..MaxRows = {}
\* What the row of a text that the user dictated rests on: the confirmation alone.
Confirmed(row) ==
  /\ row.kind \in {"l3", "l4"} /\ row.status # "pending" /\ ~row.migration
  /\ \E t \in L1 : row.evidence = Turns({t}, Hinted[t])
\* The ledger at the start is one that was written before any merge: what a row
\* rests on is recorded, of the project it is under, and of the layer below unless
\* the user dictated it.
ASSUME LedgerAssumption ==
  /\ Len(Ledger0) <= MaxRows
  /\ \A i \in DOMAIN Ledger0 : LET row == Ledger0[i] IN
       /\ row.evidence # {} /\ (row.kind = "l4" <=> row.of = Unscoped)
       /\ row.migration => row.kind = "l2"
       /\ row.authorized => Confirmed(row)
       /\ \A e \in row.evidence :
            /\ row.kind # "l4" => e.under = row.of
            /\ ~row.authorized => e.layer = Below[row.kind]
            /\ IF e.layer = "l1"
               THEN /\ e.ref \in L1
                    /\ row.migration /\ row.status # "pending" => CoreHas[e.ref] = e.under
                    /\ ~row.migration => Hinted[e.ref] = e.under
               ELSE /\ e.ref \in DOMAIN Ledger0 /\ Ledger0[e.ref].kind = e.layer
                    /\ Ledger0[e.ref].status # "pending" /\ Ledger0[e.ref].of = e.under

VARIABLES owner, ledgerRows, submits
evidenceVars == <<owner, ledgerRows, submits>>

EvidenceInit ==
  /\ owner = [p \in Namespace |-> p]
  /\ ledgerRows = Ledger0
  /\ submits = [s \in Submitter |-> Unscoped]

StoredUnder(p) == IF owner[p] = p THEN {q \in Namespace : owner[q] = p} ELSE {p}
Numbers == DOMAIN ledgerRows
\* listDistillationJobs leaves out what is retired.
Revisions(k) == {i \in Numbers : ledgerRows[i].kind = k /\ ledgerRows[i].status = "completed"}
NewRow(kind, p, evidence, status, migration) ==
  [kind |-> kind, of |-> p, evidence |-> evidence, status |-> status, migration |-> migration,
   authorized |-> FALSE]
Replacement(k, p, t) ==
  [NewRow(k, p, Turns({t}, Hinted[t]), "completed", FALSE) EXCEPT !.authorized = TRUE]

-----------------------------------------------------------------------------
(* What happens meanwhile *)

MergeProject(p, q) ==
  /\ owner[p] = p /\ owner[q] = q /\ p # q
  /\ owner' = [r \in Namespace |-> IF owner[r] = p THEN q ELSE owner[r]]
  /\ UNCHANGED <<ledgerRows, submits>>

RetireRevision(i) ==
  /\ ledgerRows[i].status = "completed"
  /\ ledgerRows' = [ledgerRows EXCEPT ![i].status = "retired"]
  /\ UNCHANGED <<owner, submits>>

\* enqueueJob: the same evidence is queued once, and a turn once for a project.
Queued(row) ==
  LET same == {i \in Numbers : /\ ledgerRows[i].kind = row.kind /\ ledgerRows[i].of = row.of
                            /\ ledgerRows[i].evidence = row.evidence}
      refs(r) == {e.ref : e \in r.evidence}
      overlap == {i \in Numbers : /\ row.kind = "l2" /\ ledgerRows[i].kind = "l2"
                               /\ ledgerRows[i].of = row.of
                               /\ refs(ledgerRows[i]) \cap refs(row) # {}}
  IN IF same \cup overlap # {} THEN ledgerRows ELSE Append(ledgerRows, row)
HasRoom == Len(ledgerRows) < MaxRows
RoomFor(rows) == Len(rows) <= MaxRows

\* Discovery queues the turns that lead to a project.
QueueTurns(p) ==
  /\ HasRoom
  /\ \E ts \in SUBSET {t \in Usable : owner[Hinted[t]] = p} :
       ts # {} /\ ledgerRows' = Queued(NewRow("l2", p, Turns(ts, p), "pending", FALSE))
  /\ UNCHANGED <<owner, submits>>

\* A migration queues what it takes for a project's.
QueueLegacy(p) ==
  /\ HasRoom
  /\ \E ts \in SUBSET L1 :
       ts # {} /\ ledgerRows' = Queued(NewRow("l2", p, Turns(ts, p), "pending", TRUE))
  /\ UNCHANGED <<owner, submits>>

-----------------------------------------------------------------------------
(* submitDistillationControl *)

SubmitAt(s, at) == submits[s] # Unscoped /\ submits[s].at = at
Advance(s, sub) == submits' = [submits EXCEPT ![s] = sub]
TurnDown(s) == Advance(s, Unscoped) /\ UNCHANGED <<owner, ledgerRows>>

ScopeOf(k, p) == IF k = "l4" THEN Unscoped ELSE owner[p]

\* With evidence of its own, for a named project.
BeginDirect(s) ==
  /\ submits[s] = Unscoped
  /\ \E k \in Target, p \in Namespace, refs \in NamedRefs :
       Advance(s, [at |-> "ids", kind |-> k, of |-> ScopeOf(k, p), refs |-> refs,
                   job |-> Unscoped])
  /\ UNCHANGED <<owner, ledgerRows>>

\* For a job; the caller may name a project other than the job's.
BeginJob(s) ==
  /\ submits[s] = Unscoped
  /\ \E j \in {i \in Numbers : ledgerRows[i].status = "pending"}, p \in Namespace :
       LET k == ledgerRows[j].kind IN
       Advance(s, [at |-> "job", kind |-> k, of |-> ScopeOf(k, p), refs |-> {}, job |-> j])
  /\ UNCHANGED <<owner, ledgerRows>>

\* The job's project, resolved once more, must be that of the submit.
MatchJob(s) ==
  LET w == submits[s]
      of == ledgerRows[w.job].of
  IN
  /\ SubmitAt(s, "job")
  /\ IF (IF of = Unscoped THEN Unscoped ELSE owner[of]) = w.of
     THEN Advance(s, [w EXCEPT !.at = "ids"]) /\ UNCHANGED <<owner, ledgerRows>>
     ELSE TurnDown(s)

ReadIds(s) ==
  LET w == submits[s] IN
  /\ SubmitAt(s, "ids")
  /\ Advance(s, [at |-> "evidence", kind |-> w.kind, of |-> w.of, refs |-> w.refs,
                 job |-> w.job, ids |-> IF w.of = Unscoped THEN {} ELSE StoredUnder(w.of)])
  /\ UNCHANGED <<owner, ledgerRows>>

\* validateMigrationL1EvidenceScope.  Mutant: what Core has under any project.
InCoreScopeAny(items, p) == \A e \in items : CoreHas[e.ref] \in Namespace
InCoreScope(items, p) == \A e \in items : CoreHas[e.ref] \in StoredUnder(p)

Several(items) == Cardinality({e.under : e \in items}) >= 2

\* Of a job: its evidence is as it was queued.
JobEvidence(w) ==
  LET row == ledgerRows[w.job]
      sound == /\ row.evidence # {} /\ \A e \in row.evidence : e.layer = Below[w.kind]
               /\ w.kind # "l4" => \A e \in row.evidence : e.under \in w.ids
               /\ row.migration => InCoreScope(row.evidence, w.of)
               /\ w.kind = "l4" => Several(row.evidence)
  IN IF sound THEN row.evidence ELSE {}

\* Of refs: turns that are fit and of the project, or completed revisions.
NamedEvidence(w) ==
  LET turns == {[ref |-> t, layer |-> "l1", under |-> Hinted[t]] : t \in w.refs \cap Usable}
      results == {[ref |-> i, layer |-> Below[w.kind], under |-> ledgerRows[i].of] :
                    i \in w.refs \cap Revisions(Below[w.kind])}
      items == IF w.kind = "l2" THEN turns ELSE results
      sound == /\ {e.ref : e \in items} = w.refs
               /\ w.kind # "l4" => \A e \in items : e.under \in w.ids
               /\ w.kind = "l4" => Several(items)
  IN IF sound THEN items ELSE {}

Validate(s) ==
  LET w == submits[s]
      items == IF w.job = Unscoped THEN NamedEvidence(w) ELSE JobEvidence(w)
  IN
  /\ SubmitAt(s, "evidence")
  /\ IF items = {} THEN TurnDown(s)
     ELSE /\ Advance(s, [at |-> "record", kind |-> w.kind, of |-> w.of, items |-> items,
                         job |-> w.job])
          /\ UNCHANGED <<owner, ledgerRows>>

\* recordCompletedDistillationRevision takes an existing record of the same content
\* and evidence.
LedgerWith(row) ==
  IF row \in {ledgerRows[i] : i \in Numbers} THEN ledgerRows ELSE Append(ledgerRows, row)

\* Core has the result: the job is completed, or the revision is recorded.
RecordResult(s) ==
  LET w == submits[s]
      row == NewRow(w.kind, w.of, w.items, "completed", FALSE)
      recorded == IF w.job # Unscoped THEN [ledgerRows EXCEPT ![w.job].status = "completed"]
                  ELSE LedgerWith(row)
      n == IF w.job # Unscoped THEN w.job ELSE CHOOSE i \in DOMAIN recorded : recorded[i] = row
  IN
  /\ SubmitAt(s, "record")
  /\ w.job # Unscoped => ledgerRows[w.job].status = "pending"
  /\ ledgerRows' = recorded /\ RoomFor(recorded)
  /\ IF w.kind = "l2" \/ (w.kind = "l3" /\ w.job # Unscoped)
     THEN Advance(s, [at |-> "derive", kind |-> w.kind, of |-> w.of, row |-> n])
     ELSE Advance(s, Unscoped)
  /\ UNCHANGED owner

\* An L3 job over the new timeline.
DeriveNext(s) ==
  LET w == submits[s]
      item == [ref |-> w.row, layer |-> "l2", under |-> w.of]
  IN
  /\ SubmitAt(s, "derive") /\ w.kind = "l2"
  /\ ledgerRows' = Queued(NewRow("l3", w.of, {item}, "pending", FALSE)) /\ RoomFor(ledgerRows')
  /\ Advance(s, Unscoped) /\ UNCHANGED owner

\* An L4 job over one L3 revision of each project that has any.
DerivePortraitJob(s) ==
  LET w == submits[s]
      of(i) == ledgerRows[i].of
  IN
  /\ SubmitAt(s, "derive") /\ w.kind = "l3"
  /\ \E set \in SUBSET Revisions("l3") :
       /\ Cardinality(set) >= 2 /\ {of(i) : i \in set} = {of(i) : i \in Revisions("l3")}
       /\ \A i, j \in set : of(i) = of(j) => i = j
       /\ ledgerRows' = Queued(NewRow("l4", Unscoped,
            {[ref |-> i, layer |-> "l3", under |-> of(i)] : i \in set}, "pending", FALSE))
  /\ RoomFor(ledgerRows')
  /\ Advance(s, Unscoped) /\ UNCHANGED owner

\* It ends there: Core refuses, the lease is lost, the process dies, or nothing is to
\* be derived.
GoAway(s) == submits[s] # Unscoped /\ TurnDown(s)

-----------------------------------------------------------------------------
(* executeUserAuthorizedMemory *)

\* The user has confirmed the text in a turn; an L3 text in one of the project that
\* was planned for, which may have been merged since.
ConfirmReplacement(s) ==
  /\ submits[s] = Unscoped
  /\ \E k \in {"l3", "l4"}, p \in Namespace, t \in Confirming :
       /\ k = "l3" => Hinted[t] = p
       /\ Advance(s, [at |-> "replace", kind |-> k, of |-> IF k = "l4" THEN Unscoped ELSE p,
                      turn |-> t])
  /\ UNCHANGED <<owner, ledgerRows>>

\* Core has it: the revision is recorded, and nothing is derived from it here.
RecordReplacement(s) ==
  LET w == submits[s] IN
  /\ SubmitAt(s, "replace")
  /\ ledgerRows' = LedgerWith(Replacement(w.kind, w.of, w.turn)) /\ RoomFor(ledgerRows')
  /\ Advance(s, Unscoped) /\ UNCHANGED owner

EvidenceNext ==
  \/ \E p \in Namespace : \/ QueueTurns(p) \/ QueueLegacy(p)
                          \/ \E q \in Namespace : MergeProject(p, q)
  \/ \E i \in Numbers : RetireRevision(i)
  \/ \E s \in Submitter : \/ BeginDirect(s) \/ BeginJob(s) \/ MatchJob(s)
                          \/ ReadIds(s) \/ Validate(s) \/ RecordResult(s) \/ DeriveNext(s)
                          \/ DerivePortraitJob(s) \/ GoAway(s)
                          \/ ConfirmReplacement(s) \/ RecordReplacement(s)
EvidenceSpec == EvidenceInit /\ [][EvidenceNext]_evidenceVars

-----------------------------------------------------------------------------
EvidenceTypeOK ==
  /\ owner \in [Namespace -> Namespace]
  /\ ledgerRows \in Seq(LedgerRow) /\ Len(ledgerRows) <= MaxRows
  /\ DOMAIN submits = Submitter
  /\ \A s \in Submitter : submits[s] # Unscoped =>
       submits[s].at \in {"job", "ids", "evidence", "record", "derive", "replace"}

\* Where an item really comes from: the capture, Core, or the ledger.
Origin(row, e) ==
  IF e.ref \in L1 THEN IF row.migration THEN CoreHas[e.ref] ELSE Hinted[e.ref]
  ELSE ledgerRows[e.ref].of

\* Every result that was ever recorded rests on results of the layer below that
\* are recorded themselves, or was dictated by the user and rests on the turn of the
\* confirmation; and a project's rests on nothing that came from a project not
\* merged with it: whatever merges, retirements and other submits fell between the
\* readings of a submit and its record.
ChainGrounded ==
  \A i \in Numbers : ledgerRows[i].status # "pending" =>
    LET row == ledgerRows[i] IN
    /\ row.evidence # {}
    /\ row.authorized => Confirmed(row)
    /\ \A e \in row.evidence :
         /\ ~row.authorized => e.layer = Below[row.kind]
         /\ e.ref \notin L1 => /\ ledgerRows[e.ref].kind = e.layer
                               /\ ledgerRows[e.ref].status # "pending"
         /\ owner[Origin(row, e)] = owner[e.under]
         /\ row.kind # "l4" => owner[e.under] = owner[row.of]

\* "L4 requires L3 evidence from at least two distinct projects": two that are one
\* by now when the portrait is recorded count as two.
TwoProjects ==
  \A s \in Submitter : SubmitAt(s, "record") /\ submits[s].kind = "l4" =>
     Cardinality({owner[e.under] : e \in submits[s].items}) >= 2
=============================================================================
