-------------------------- MODULE ContextRetrieval --------------------------
(***************************************************************************)
(* The answer to one memmy_context call (src/src/context-router.ts,        *)
(* project-scope.ts, memory-source.ts, context-capsule.ts): the project is *)
(* resolved from what the turn names, the memory stored under the names of *)
(* that project is recalled, and a capsule of bounded size is built of it. *)
(* The registry is read anew at each of these steps and may be edited, its *)
(* projects merged, archived or deleted, in between.                       *)
(*                                                                         *)
(* Memory Core is external: its memories are fixed here, each of a layer   *)
(* and stored under a project id; the search returns all that match.  A    *)
(* size is counted in units of 128 bytes; nothing is cut to less than two.  *)
(* Left out: ranking and relevance (every candidate is kept, in an order   *)
(* of its own), the watermark of fresh turns, branches (BranchStore), the  *)
(* wording of cut items.                                                   *)
(***************************************************************************)
EXTENDS ProjectRegistry, Sums, FiniteSetsExt, SequencesExt
CONSTANTS
  Editor,      \* the callers that edit the registry meanwhile
  Ask,         \* what a call may name: [project, workspace, mentioned, semantic, thread, skills]
  Memory,      \* Memory Core: [layer, under, size]
  Fresh,       \* complete undistilled turns: [ref, thread, size]
  Charted,     \* ids with an architecture document
  Rank,        \* the alphabetical order of ids
  Excerpt,     \* [item][allowance]: the size of what is kept of a larger item
  ChartSize, ItemCap, TotalCap

Layer == {"L1", "L2", "L3", "L4", "Skill"}
ASSUME MemoryAssumption ==
  /\ \A m \in Memory : m.layer \in Layer /\ m.under \in Word \cup {None} /\ m.size \in Nat \ {0}
  /\ \A t \in Fresh : t.ref \in Word \cup {None} /\ t.size \in Nat \ {0}
  /\ IsFiniteSet(Memory) /\ IsFiniteSet(Fresh)
  /\ Rank \in [Word -> Nat] /\ Editor \subseteq Caller
ASSUME AskAssumption ==
  \A q \in Ask : q.semantic \subseteq Word /\ q.skills \subseteq Word
\* Less than 256 bytes are not worth a cut; the caps allow an item 1000 at least.
Least == 2
Retrieved == Memory \cup Fresh \cup [layer : {"chart"}, size : {ChartSize}, under : Word]
ASSUME CapAssumption ==
  /\ ChartSize \in Nat \ {0} /\ TotalCap \in Nat /\ ItemCap \in Nat /\ ItemCap >= Least
  /\ \A item \in Retrieved, most \in Least..ItemCap : Excerpt[item][most] \in 1..most

VARIABLE reading   \* None, or the call: its step, what it asked and has resolved
contextVars == <<projects, call, reading>>

ContextInit == RegistryInit /\ reading = None

-----------------------------------------------------------------------------
(* resolveRouterProjectScope and resolveProjectScope *)

Given(w) == {w} \ {None}

\* Something was named and is not a registered project.
Unregistered(r) == \/ (r.ask.project # None /\ r.project = None)
                   \/ (r.ask.workspace # None /\ r.workspace = None)
                   \/ (r.ask.semantic # {} /\ r.semantic = {})

\* One project or none: whatever kind of evidence there is, it must agree.
Unanimous(found) == IF \E p \in found : found = {p} THEN CHOOSE p \in found : TRUE ELSE None

\* Mutant: what was named explicitly wins over a different workspace.
ScopeExplicit(r) ==
  IF Unregistered(r) THEN None
  ELSE Unanimous(IF r.project # None THEN {r.project}
                 ELSE Given(r.workspace) \cup r.aliases \cup r.semantic)

\* What is named explicitly and the workspace, else all that the turn gives.
Scope(r) ==
  IF Unregistered(r) THEN None
  ELSE Unanimous(Given(r.workspace) \cup
                 IF r.project # None THEN {r.project} ELSE r.aliases \cup r.semantic)

-----------------------------------------------------------------------------
(* ContextRouter.context: every step is one reading of the registry *)

Canonical(w) == IF w = None THEN None ELSE Resolve(projects, w, Active)

NoLists == << <<>>, <<>>, <<>>, <<>> >>
\* Nothing is resolved yet.
Asked(q) ==
  [step |-> "project", ask |-> q, listed |-> {}, aliases |-> {}, project |-> None,
   workspace |-> None, semantic |-> {}, scope |-> None, ids |-> {}, skillIds |-> {},
   lists |-> NoLists, out |-> NoLists, dropped |-> 0]

\* The listing gives the mentions in the query.
Mentioned(q) ==
  {projects[i].id : i \in {k \in DOMAIN projects : /\ projects[k].state = "active"
                                                   /\ Names(projects[k]) \cap q.mentioned # {}}}
List(q) ==
  /\ reading = None
  /\ reading' = [Asked(q) EXCEPT !.listed = Listing(projects, Active), !.aliases = Mentioned(q)]
  /\ UNCHANGED registryVars

ResolveProject ==
  /\ reading # None /\ reading.step = "project"
  /\ reading' = [reading EXCEPT !.step = "workspace",
                                !.project = Canonical(reading.ask.project)]
  /\ UNCHANGED registryVars

ResolveWorkspace ==
  /\ reading # None /\ reading.step = "workspace"
  /\ reading' = [reading EXCEPT !.step = "semantic",
                                !.workspace = Canonical(reading.ask.workspace)]
  /\ UNCHANGED registryVars

\* Candidates of the caller count if they were in the listing, when that had any.
ResolveSemantic ==
  /\ reading # None /\ reading.step = "semantic"
  /\ reading' = [reading EXCEPT !.step = "storage",
       !.semantic = {Canonical(w) : w \in reading.ask.semantic}
                      \cap IF reading.listed = {} THEN Word ELSE reading.listed]
  /\ UNCHANGED registryVars

\* The scope is all that is kept of the evidence for it.
ReadStorageIds ==
  LET scope == Scope(reading) IN
  /\ reading # None /\ reading.step = "storage"
  /\ reading' = [reading EXCEPT !.step = "skills", !.scope = scope,
       !.ids = IF scope = None THEN {} ELSE StorageIds(projects, scope),
       !.listed = {}, !.aliases = {}, !.semantic = {}]
  /\ UNCHANGED registryVars

\* The projects whose Skills the caller may reuse.
ReadSkillIds ==
  /\ reading # None /\ reading.step = "skills"
  /\ reading' = [reading EXCEPT !.step = "recall",
       !.skillIds = UNION {StorageIds(projects, w) : w \in reading.ask.skills}]
  /\ UNCHANGED registryVars

-----------------------------------------------------------------------------
(* MemoryRestContextSource.recall *)

Of(layers, ids) == {m \in Memory : m.layer \in layers /\ m.under \in ids}

\* The project's own L3 and L2, the L2 of the other names, else their L1.
Recalled(scope, ids) ==
  LET hits == Of({"L3", "L2"}, Given(scope)) \cup Of({"L2"}, ids)
  IN IF hits = {} THEN Of({"L1"}, ids) ELSE hits

\* listFreshCaptureEvidence: the turns that resolve to one of the ids now; with no
\* project, those of the conversation the caller continues.
FreshTurns(scope, ids, thread) ==
  IF scope # None
  THEN {t \in Fresh : IF Canonical(t.ref) # None THEN Canonical(t.ref) \in ids ELSE t.ref \in ids}
  ELSE {t \in Fresh : thread # None /\ t.thread = thread}

\* projectArchitectureFromStorageIds: the first id, in the alphabet, that has one.
Chart(scope, ids) ==
  LET charted == (ids \cup Given(scope)) \cap Charted
  IN IF scope = None \/ charted = {} THEN {}
     ELSE {[layer |-> "chart", size |-> ChartSize,
            under |-> CHOOSE w \in charted : \A v \in charted : Rank[w] <= Rank[v]]}

\* buildContextCapsule: without a project only turns of the continued conversation.
Admitted(r, m) == \/ r.scope # None
                  \/ (m \in Fresh /\ r.ask.thread # None /\ m.thread = r.ask.thread)

\* The four collections of the capsule.
Collections(r) ==
  LET fresh == {m \in FreshTurns(r.scope, r.ids, r.ask.thread) : Admitted(r, m)}
      recalled == {m \in Recalled(r.scope, r.ids) : Admitted(r, m)}
  IN
  << SetToSeq(Of({"L4"}, {None})),
     SetToSeq(fresh) \o SetToSeq(recalled),
     SetToSeq(Of({"Skill"}, Given(r.scope) \cup r.skillIds)),
     SetToSeq(Chart(r.scope, r.ids)) >>

-----------------------------------------------------------------------------
(* applyContextBudget *)

\* Mutant: what is left of a collection that is given up is not counted.
DropRestUncounted(acc, k, lists) == [acc EXCEPT !.at[k] = Len(lists[k])]

DropRest(acc, k, lists) ==
  [acc EXCEPT !.at[k] = Len(lists[k]), !.dropped = @ + Len(lists[k]) - acc.at[k]]

\* boundContextItem: of an item that is larger than what it is allowed, a brief or
\* its head and tail.
CutTo(item, allowance) == IF item.size <= allowance THEN item.size ELSE Excerpt[item][allowance]

\* The next item of a collection, cut to what is left; with less than two units
\* the rest of the collection is given up; with nothing left the round ends.
Visit(acc, k, lists) ==
  LET allowance == Min({ItemCap, acc.left})
      item == lists[k][acc.at[k] + 1]
      size == CutTo(item, allowance)
  IN IF acc.left = 0 \/ acc.at[k] >= Len(lists[k]) THEN acc
     ELSE IF allowance < Least THEN DropRest(acc, k, lists)
     ELSE [acc EXCEPT !.at[k] = @ + 1, !.left = @ - size,
                      !.out[k] = Append(@, [item |-> item, size |-> size])]

\* Round robin over the collections.
Unvisited == [at |-> <<0, 0, 0, 0>>, left |-> TotalCap, dropped |-> 0, out |-> NoLists]
Visited(lists) ==
  LET rounds == Max({Len(lists[k]) : k \in 1..4})
      after[n \in 0..(4 * rounds)] ==
        IF n = 0 THEN Unvisited ELSE Visit(after[n - 1], ((n - 1) % 4) + 1, lists)
  IN after[4 * rounds]

\* What was not reached is counted too.
Count4(lists) == Len(lists[1]) + Len(lists[2]) + Len(lists[3]) + Len(lists[4])
Dropped(end, lists) ==
  end.dropped + (Count4(lists) - (end.at[1] + end.at[2] + end.at[3] + end.at[4]))

-----------------------------------------------------------------------------
Recall ==
  LET lists == Collections(reading)
      end == Visited(lists)
  IN
  /\ reading # None /\ reading.step = "recall"
  /\ reading' = [reading EXCEPT !.step = "done", !.lists = lists,
                                !.out = end.out, !.dropped = Dropped(end, lists)]
  /\ UNCHANGED registryVars

Answer ==
  /\ reading # None /\ reading.step = "done"
  /\ reading' = None
  /\ UNCHANGED registryVars

Edit(e) == (Begin(e) \/ Mutate(e) \/ Refuse(e)) /\ UNCHANGED reading

ContextNext == \/ \E q \in Ask : List(q)
               \/ ResolveProject \/ ResolveWorkspace \/ ResolveSemantic
               \/ ReadStorageIds \/ ReadSkillIds \/ Recall \/ Answer
               \/ \E e \in Editor : Edit(e)
ContextSpec == ContextInit /\ [][ContextNext]_contextVars

-----------------------------------------------------------------------------
ContextStep == {"project", "workspace", "semantic", "storage", "skills", "recall", "done"}
ReadingType ==
  [step : ContextStep, ask : Ask, listed : SUBSET Word, aliases : SUBSET Word,
   project : Word \cup {None}, workspace : Word \cup {None}, semantic : SUBSET Word,
   scope : Word \cup {None}, ids : SUBSET Word, skillIds : SUBSET Word,
   lists : [1..4 -> Seq(Retrieved)], out : [1..4 -> Seq([item : Retrieved, size : Nat])],
   dropped : Nat]
ContextTypeOK == RegistryTypeOK /\ reading \in ReadingType \cup {None}

\* The project and the projects that were merged into it, directly or not.
Family(id) ==
  LET family[n \in 0..MaxProjects] ==
        IF n = 0 THEN {id}
        ELSE family[n - 1] \cup {projects[i].id : i \in {k \in DOMAIN projects :
               projects[k].state = "merged" /\ projects[k].into \in family[n - 1]}}
  IN family[MaxProjects]

\* The memory of another project, whose id is not even an alias of this one (an
\* alias is kept clear of the ids of active projects only).
OthersMemory(w, id) == /\ \E i \in DOMAIN projects : projects[i].id = w
                       /\ w \notin Family(id)
Aliased(w, id) == \E i \in DOMAIN projects : /\ projects[i].id \in Family(id)
                                             /\ w \in projects[i].aliases

Emitted(r, k) == Range(r.out[k])
SizeOf(out) == Summed([i \in DOMAIN out |-> out[i].size])
Total(r) == SizeOf(r.out[1]) + SizeOf(r.out[2]) + SizeOf(r.out[3]) + SizeOf(r.out[4])
FirstSize(out) == IF out = <<>> THEN 0 ELSE out[1].size

\* All that a turn names leads to the one project the capsule is of, and no name
\* its memory is looked up by is another project's.
OneScope(r) == r.scope # None => /\ r.project \in {None, r.scope}
                                 /\ r.workspace \in {None, r.scope}
                                 /\ \A w \in r.ids : OthersMemory(w, r.scope) => Aliased(w, r.scope)
\* What it says of the project was stored under these names, the current truth
\* under the id itself; without a project it holds turns of the continued
\* conversation only.
OwnItems(r) ==
  IF r.scope = None
  THEN /\ r.out[4] = <<>>
       /\ \A x \in Emitted(r, 2) : x.item \in Fresh /\ x.item.thread = r.ask.thread
  ELSE \A x \in Emitted(r, 2) \cup Emitted(r, 4) :
         \/ x.item \in Fresh
         \/ IF x.item.layer = "L3" THEN x.item.under = r.scope ELSE x.item.under \in r.ids
\* Every candidate is in it or counted as dropped, the whole within the budget,
\* and a collection is left out only if the first items of those before it left
\* no room.
Accounted(r) ==
  /\ Count4(r.out) + r.dropped = Count4(r.lists)
  /\ Total(r) <= TotalCap
  /\ \A k \in 1..4 : r.lists[k] # <<>> /\ r.out[k] = <<>> =>
        Summed([j \in 1..(k - 1) |-> FirstSize(r.out[j])]) > TotalCap - Least

\* "without ever broadening an ambiguous request into cross-project recall": what
\* a call answers is exactly of the project its references name, whatever is
\* merged, archived, renamed or deleted while it resolves and recalls, and
\* accounts for all it found.
CapsuleExact ==
  [][reading # None /\ reading' # reading =>
       /\ reading.step = "storage" => OneScope(reading')
       /\ reading.step = "recall" => OwnItems(reading') /\ Accounted(reading')]_contextVars

\* No memory of a project that is not merged into the one that was resolved.
NoBorrowedMemory ==
  reading # None /\ reading.step = "done" /\ reading.scope # None =>
    \A x \in Emitted(reading, 2) :
       x.item \in Fresh \/ ~OthersMemory(x.item.under, reading.scope)
\* A project's own architecture document is the one it is answered with.
OwnArchitecture ==
  reading # None /\ reading.step = "done" /\ reading.scope \in Charted =>
    \A x \in Emitted(reading, 4) : x.item.under = reading.scope
=============================================================================
