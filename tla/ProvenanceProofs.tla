-------------------------- MODULE ProvenanceProofs --------------------------
(***************************************************************************)
(* Proofs about where a memory comes from: the projects a merge hands      *)
(* over (ProjectRegistry, ProjectGovernance), the jobs that completed jobs *)
(* give rise to (DerivedQueue) and the evidence a result cites             *)
(* (EvidenceChain); and what a caller gets of it: the capsule of a call    *)
(* (ContextRetrieval) and a result too long for one (ResultTransport).     *)
(***************************************************************************)
EXTENDS ProjectGovernance, DerivedQueue, EvidenceChain, ContextRetrieval, ResultTransport,
        SequenceTheorems, FiniteSetTheorems, FunctionTheorems, WellFoundedInduction, TLAPS

(***************************************************************************)
(* ProjectRegistry and ProjectGovernance.  What a merge hands over stays   *)
(* with the row it was handed to because an id is one row's for good, and  *)
(* because a call that merges was resolved to two different rows; new      *)
(* aliases replace only what no merge brought.                             *)
(***************************************************************************)
MergedIntoRow ==
  \A i \in DOMAIN projects : projects[i].state = "merged" =>
     \E j \in DOMAIN projects : projects[j].id = projects[i].into
MergesApart ==
  \A c \in Caller : call[c] # None /\ call[c].req.op = "merge" => call[c].to # call[c].id
RowsInv == OneRowPerId /\ MergedIntoRow /\ MergedKept
RegistryInv == RegistryTypeOK /\ RowsInv /\ MergesApart

LEMMA FirstIsFirst ==
  ASSUME NEW S \in SUBSET Nat, S # {}
  PROVE  First(S) \in S /\ \A j \in S : First(S) <= j
<1> DEFINE R == OpToRel(<, Nat)
<1>1. IsWellFoundedOn(R, Nat)
  BY NatLessThanWellFounded
<1>2. \A j, i \in Nat : j < i => <<j, i>> \in R
  BY DEF OpToRel
<1> HIDE DEF R
<1>3. PICK i \in S : \A j \in S : <<j, i>> \notin R
  BY <1>1, WFMin
<1>4. ASSUME NEW j \in S PROVE i <= j
  <2>1. i \in Nat /\ j \in Nat
    OBVIOUS
  <2>2. ~(j < i)
    BY <1>2, <1>3, <2>1
  <2> QED  BY <2>1, <2>2
<1> QED  BY <1>4 DEF First

LEMMA FirstHaving ==
  ASSUME RegistryTypeOK, NEW id, NEW state, Having(id, state) # {}
  PROVE  /\ First(Having(id, state)) \in DOMAIN projects
         /\ projects[First(Having(id, state))].id = id
         /\ projects[First(Having(id, state))].state = state
<1>1. Having(id, state) \in SUBSET Nat
  BY DEF Having, RegistryTypeOK
<1>2. First(Having(id, state)) \in Having(id, state)
  BY <1>1, FirstIsFirst
<1> QED  BY <1>2 DEF Having

\* A reference leads to the id of a row, or to nothing.
LEMMA ResolveType ==
  ASSUME RegistryTypeOK, NEW w, NEW states
  PROVE  Resolve(projects, w, states) \in Word \cup {None}
<1> DEFINE exact == {i \in DOMAIN projects : projects[i].state \in states /\ w \in Names(projects[i])}
           close == {i \in DOMAIN projects : /\ projects[i].state \in states
                                             /\ Key[w] \in Keys(projects[i])}
           past  == {i \in DOMAIN projects : /\ projects[i].state = "merged"
                                             /\ Key[w] \in Keys(projects[i])}
           target == {i \in DOMAIN projects : /\ past # {}
                                              /\ projects[i].id = projects[First(past)].into
                                              /\ projects[i].state \in states}
<1>1. exact \in SUBSET DOMAIN projects /\ close \in SUBSET DOMAIN projects
      /\ target \in SUBSET DOMAIN projects
  OBVIOUS
<1>2. \A S \in SUBSET DOMAIN projects : S # {} => projects[First(S)].id \in Word
  <2> SUFFICES ASSUME NEW S \in SUBSET DOMAIN projects, S # {}
               PROVE  projects[First(S)].id \in Word
      OBVIOUS
  <2>1. S \in SUBSET Nat
    BY DEF RegistryTypeOK
  <2>2. First(S) \in DOMAIN projects
    BY <2>1, FirstIsFirst
  <2>3. \A i \in DOMAIN projects : projects[i] \in Row
    BY DEF RegistryTypeOK
  <2>4. projects[First(S)] \in Row
    BY <2>2, <2>3
  <2> QED  BY <2>4 DEF Row
<1>3. Resolve(projects, w, states) =
        IF exact # {} THEN projects[First(exact)].id
        ELSE IF close # {} THEN projects[First(close)].id
        ELSE IF target # {} THEN projects[First(target)].id ELSE None
  BY DEF Resolve
<1> HIDE DEF exact, close, target
<1> QED  BY <1>1, <1>2, <1>3

LEMMA ResolvedType ==
  ASSUME RegistryTypeOK, NEW r \in RequestType
  PROVE  /\ Resolved(r).req = r
         /\ Resolved(r).id \in Word \cup {None} /\ Resolved(r).to \in Word \cup {None}
         /\ Resolved(r).id # None => Resolved(r) \in CallType
<1>1. r.ref \in Word
  BY DEF RequestType
<1> QED  BY <1>1, ResolveType DEF Resolved, CallType

-----------------------------------------------------------------------------
\* A row in use is changed, and keeps what merges brought it.
LEMMA RowChanged ==
  ASSUME RegistryTypeOK, RowsInv, NEW i \in DOMAIN projects, NEW row \in Row,
         DOMAIN projects' = DOMAIN projects, projects'[i] = row,
         \A k \in DOMAIN projects : k # i => projects'[k] = projects[k],
         projects[i].state # "merged", row.state # "merged", row.id = projects[i].id,
         \A k \in DOMAIN projects :
            projects[k].state = "merged" /\ projects[k].into = row.id =>
              /\ Names(projects[k]) \subseteq row.aliases \cup {row.id}
              /\ \A t \in Todo : projects[k].todos[t] # "none" => row.todos[t] # "none"
  PROVE  RowsInv'
<1> USE DEF RowsInv
<1>1. \A k \in DOMAIN projects : projects'[k].id = projects[k].id
  OBVIOUS
<1>2. OneRowPerId'
  BY <1>1 DEF OneRowPerId
<1>3. MergedIntoRow'
  BY <1>1 DEF MergedIntoRow
<1>4. MergedKept'
  <2> SUFFICES ASSUME NEW k \in DOMAIN projects, NEW j \in DOMAIN projects,
                      projects'[k].state = "merged", projects'[j].id = projects'[k].into
               PROVE  /\ Names(projects'[k]) \subseteq projects'[j].aliases \cup {projects'[j].id}
                      /\ \A t \in Todo : projects'[k].todos[t] # "none" =>
                                           projects'[j].todos[t] # "none"
      BY DEF MergedKept, Names
  <2>1. k # i /\ projects'[k] = projects[k]
    OBVIOUS
  <2>2. CASE j = i
    BY <2>1, <2>2
  <2>3. CASE j # i
    BY <2>1, <2>3 DEF MergedKept
  <2> QED  BY <2>2, <2>3
<1> QED  BY <1>2, <1>3, <1>4

\* The rows with one of them replaced are a file again.
LEMMA RowsType ==
  ASSUME NEW ps \in Seq(Row), NEW qs, DOMAIN qs = DOMAIN ps,
         qs = [k \in DOMAIN qs |-> qs[k]], \A k \in DOMAIN ps : qs[k] \in Row
  PROVE  qs \in Seq(Row)
<1>1. DOMAIN ps = 1 .. Len(ps) /\ Len(ps) \in Nat
  OBVIOUS
<1>2. qs \in [1 .. Len(ps) -> Row]
  BY <1>1
<1> QED  BY <1>1, <1>2

\* The row that a call was resolved to and finds in the state it needs.
LEMMA CalledRow ==
  ASSUME RegistryTypeOK, NEW id, NEW state, Having(id, state) # {}
  PROVE  \E i \in DOMAIN projects :
            /\ i = First(Having(id, state)) /\ projects[i] \in Row
            /\ projects[i].id = id /\ projects[i].state = state
BY FirstHaving DEF RegistryTypeOK

LEMMA CallReturns ==
  ASSUME RegistryInv, NEW c \in Caller, Return(c)
  PROVE  call' \in [Caller -> CallType \cup {None}] /\ MergesApart'
<1>1. call' \in [Caller -> CallType \cup {None}]
  BY DEF RegistryInv, RegistryTypeOK, Return
<1>2. \A d \in Caller : call'[d] = call[d] \/ call'[d] = None
  BY DEF RegistryInv, RegistryTypeOK, Return
<1> QED  BY <1>1, <1>2 DEF MergesApart, RegistryInv

LEMMA CallShape ==
  ASSUME RegistryInv, NEW c \in Caller, call[c] # None
  PROVE  call[c] \in CallType /\ call[c].req \in RequestType
BY DEF RegistryInv, RegistryTypeOK, CallType

-----------------------------------------------------------------------------
\* One row replaced by what an operation makes of it.
LEMMA RowReplaced ==
  ASSUME RegistryInv, NEW c \in Caller, Return(c),
         NEW i \in DOMAIN projects, NEW row \in Row,
         projects' = [projects EXCEPT ![i] = row],
         projects[i].state # "merged", row.state # "merged", row.id = projects[i].id,
         \A k \in DOMAIN projects :
            projects[k].state = "merged" /\ projects[k].into = row.id =>
              /\ Names(projects[k]) \subseteq row.aliases \cup {row.id}
              /\ \A t \in Todo : projects[k].todos[t] # "none" => row.todos[t] # "none"
  PROVE  RegistryInv'
<1> USE DEF RegistryInv
<1>1. projects \in Seq(Row)
  BY DEF RegistryTypeOK
<1>2. /\ DOMAIN projects' = DOMAIN projects /\ projects'[i] = row
      /\ \A k \in DOMAIN projects : k # i => projects'[k] = projects[k]
      /\ projects' = [k \in DOMAIN projects' |-> projects'[k]]
  BY <1>1
<1>3. \A k \in DOMAIN projects : projects'[k] \in Row
  BY <1>1, <1>2
<1>4. RowsInv'
  BY <1>2, RowChanged
<1>5. projects' \in Seq(Row)
  BY <1>1, <1>2, <1>3, RowsType
<1> QED  BY <1>4, <1>5, CallReturns DEF RegistryTypeOK

\* What was merged into a row in use, the row still has.
LEMMA KeptByRow ==
  ASSUME RowsInv, NEW i \in DOMAIN projects
  PROVE  \A k \in DOMAIN projects :
            projects[k].state = "merged" /\ projects[k].into = projects[i].id =>
              /\ Names(projects[k]) \subseteq projects[i].aliases \cup {projects[i].id}
              /\ \A t \in Todo : projects[k].todos[t] # "none" => projects[i].todos[t] # "none"
BY DEF RowsInv, MergedKept

LEMMA StateSet ==
  ASSUME RegistryInv, NEW c \in Caller, NEW op, NEW from \in {"active", "archived"},
         NEW to \in {"active", "archived", "deleted"}, SetState(c, op, from, to)
  PROVE  RegistryInv'
<1>1. PICK i \in DOMAIN projects :
         /\ i = First(Having(call[c].id, from)) /\ projects[i] \in Row
         /\ projects[i].id = call[c].id /\ projects[i].state = from
  BY CalledRow DEF SetState, RegistryInv
<1> DEFINE row == [projects[i] EXCEPT !.state = to]
<1>2. /\ row \in Row /\ row.id = projects[i].id /\ row.aliases = projects[i].aliases
      /\ row.todos = projects[i].todos /\ row.state = to
  BY <1>1 DEF Row, State
<1>3. projects' = [projects EXCEPT ![i] = row]
  BY <1>1 DEF SetState
<1>4. \A k \in DOMAIN projects :
        projects[k].state = "merged" /\ projects[k].into = row.id =>
          /\ Names(projects[k]) \subseteq row.aliases \cup {row.id}
          /\ \A t \in Todo : projects[k].todos[t] # "none" => row.todos[t] # "none"
  BY <1>2, KeptByRow DEF RegistryInv
<1>5. Return(c)
  BY DEF SetState
<1>6. row.state # "merged" /\ projects[i].state # "merged"
  BY <1>1, <1>2
<1> HIDE DEF row
<1> QED  BY <1>2, <1>3, <1>4, <1>5, <1>6, RowReplaced

\* A todo's mark is changed, to one that leaves the todo there.
LEMMA TodoMarked ==
  ASSUME RegistryInv, NEW c \in Caller, Return(c), call[c] # None,
         Having(call[c].id, "active") # {}, NEW mark \in Mark \ {"none"},
         projects' = [projects EXCEPT
            ![First(Having(call[c].id, "active"))].todos[call[c].req.todo] = mark]
  PROVE  RegistryInv'
<1>1. PICK i \in DOMAIN projects :
         /\ i = First(Having(call[c].id, "active")) /\ projects[i] \in Row
         /\ projects[i].id = call[c].id /\ projects[i].state = "active"
  BY CalledRow DEF RegistryInv
<1> DEFINE marks == [projects[i].todos EXCEPT ![call[c].req.todo] = mark]
           row == [projects[i] EXCEPT !.todos = marks]
<1>2. projects[i].todos \in [Todo -> Mark]
  BY <1>1 DEF Row
<1>3. /\ marks \in [Todo -> Mark]
      /\ \A t \in Todo : projects[i].todos[t] # "none" => marks[t] # "none"
  BY <1>2
<1>4. projects' = [projects EXCEPT ![i] = row]
  BY <1>1
<1> HIDE DEF marks
<1>5. /\ row \in Row /\ row.id = projects[i].id /\ row.aliases = projects[i].aliases
      /\ row.todos = marks /\ row.state = projects[i].state
  BY <1>1, <1>3 DEF Row
<1>6. \A k \in DOMAIN projects :
        projects[k].state = "merged" /\ projects[k].into = row.id =>
          /\ Names(projects[k]) \subseteq row.aliases \cup {row.id}
          /\ \A t \in Todo : projects[k].todos[t] # "none" => row.todos[t] # "none"
  BY <1>3, <1>5, KeptByRow DEF RegistryInv
<1> HIDE DEF row
<1> QED  BY <1>1, <1>4, <1>5, <1>6, RowReplaced

LEMMA Updated ==
  ASSUME RegistryInv, NEW c \in Caller, Update(c)
  PROVE  RegistryInv'
<1>1. PICK i \in DOMAIN projects :
         /\ i = First(Having(call[c].id, "active")) /\ projects[i] \in Row
         /\ projects[i].id = call[c].id /\ projects[i].state = "active"
  BY CalledRow DEF RegistryInv, Update, UpdateAllowed
<1>2. call[c] \in CallType /\ call[c].req \in RequestType
  BY CallShape DEF Update, Calling
<1> DEFINE r == call[c].req
           name == IF r.name = None THEN projects[i].name ELSE r.name
           aliases == IF r.aliases = None THEN projects[i].aliases
                      ELSE Aliases(call[c].id, r.aliases)
           row == [projects[i] EXCEPT !.name = name, !.aliases = aliases]
<1>3. projects' = [projects EXCEPT ![i] = row]
  BY <1>1 DEF Update
<1>4. name \in Word
  BY <1>1, <1>2 DEF RequestType, Row
<1>5. aliases \in SUBSET Word
  <2>1. projects[i].aliases \in SUBSET Word
    BY <1>1 DEF Row
  <2>2. r.aliases # None => OwnAliases(call[c].id, r.aliases) \in SUBSET Word
    BY <1>2 DEF RequestType, OwnAliases
  <2>3. Historical(call[c].id) \in SUBSET Word
    <3>1. \A k \in DOMAIN projects : projects[k] \in Row
      BY DEF RegistryInv, RegistryTypeOK
    <3>2. \A k \in DOMAIN projects : Names(projects[k]) \in SUBSET Word
      BY <3>1 DEF Row, Names
    <3> QED  BY <3>2 DEF Historical
  <2> QED  BY <2>1, <2>2, <2>3 DEF Aliases
<1>6. \A k \in DOMAIN projects :
        projects[k].state = "merged" /\ projects[k].into = projects[i].id =>
          Names(projects[k]) \subseteq aliases \cup {projects[i].id}
  <2>1. \A k \in DOMAIN projects :
          projects[k].state = "merged" /\ projects[k].into = projects[i].id =>
            Names(projects[k]) \subseteq Historical(call[c].id)
    BY <1>1 DEF Historical
  <2> QED  BY <1>1, <2>1, KeptByRow DEF Aliases, RegistryInv
<1>7. Return(c)
  BY DEF Update
<1> HIDE DEF name, aliases
<1>8. /\ row \in Row /\ row.id = projects[i].id /\ row.aliases = aliases
      /\ row.todos = projects[i].todos /\ row.state = projects[i].state
  BY <1>1, <1>4, <1>5 DEF Row
<1>9. \A k \in DOMAIN projects :
        projects[k].state = "merged" /\ projects[k].into = row.id =>
          /\ Names(projects[k]) \subseteq row.aliases \cup {row.id}
          /\ \A t \in Todo : projects[k].todos[t] # "none" => row.todos[t] # "none"
  BY <1>6, <1>8, KeptByRow DEF RegistryInv
<1> HIDE DEF row
<1> QED  BY <1>1, <1>3, <1>7, <1>8, <1>9, RowReplaced

\* A new row has an id that no row is, was or is called by: nothing was merged
\* into it.
LEMMA Created ==
  ASSUME RegistryInv, NEW c \in Caller, Create(c)
  PROVE  RegistryInv'
<1> USE DEF RegistryInv
<1>1. call[c] \in CallType /\ call[c].req \in RequestType
  BY CallShape DEF Create, Calling
<1> DEFINE r == call[c].req
           row == [id |-> r.ref, name |-> IF r.name = None THEN r.ref ELSE r.name,
                   aliases |-> OwnAliases(r.ref, r.aliases),
                   state |-> "active", into |-> None,
                   todos |-> [t \in Todo |-> "none"]]
           n == Len(projects) + 1
<1>2. projects' = Append(projects, row)
  BY DEF Create
<1>3. row \in Row
  <2>1. r.ref \in Word /\ r.name \in Word \cup {None}
        /\ r.aliases \in (SUBSET Word) \cup {None}
    BY <1>1 DEF RequestType
  <2>2. OwnAliases(r.ref, r.aliases) \in SUBSET Word
    BY <2>1 DEF OwnAliases
  <2> QED  BY <2>1, <2>2 DEF Row, State, Mark
<1>4. \A k \in DOMAIN projects : Key[r.ref] # Key[projects[k].id]
  BY DEF Create, CreateAllowed, Keys, Names
<1>5. row.id = r.ref /\ row.state = "active"
  OBVIOUS
<1> HIDE DEF row
<1>6. projects \in Seq(Row)
  BY DEF RegistryTypeOK
<1>7. /\ DOMAIN projects' = DOMAIN projects \cup {n} /\ n \notin DOMAIN projects
      /\ projects'[n] = row
      /\ \A k \in DOMAIN projects : projects'[k] = projects[k]
      /\ projects' \in Seq(Row)
  BY <1>2, <1>3, <1>6
<1> HIDE DEF n
<1>8. OneRowPerId'
  BY <1>4, <1>5, <1>7 DEF OneRowPerId, RowsInv
<1>9. MergedIntoRow'
  BY <1>5, <1>7 DEF MergedIntoRow, RowsInv
<1>10. MergedKept'
  <2> SUFFICES ASSUME NEW k \in DOMAIN projects', NEW j \in DOMAIN projects',
                      projects'[k].state = "merged", projects'[j].id = projects'[k].into
               PROVE  /\ Names(projects'[k]) \subseteq projects'[j].aliases \cup {projects'[j].id}
                      /\ \A t \in Todo : projects'[k].todos[t] # "none" =>
                                           projects'[j].todos[t] # "none"
      BY DEF MergedKept, Names
  <2>1. k \in DOMAIN projects /\ projects'[k] = projects[k]
    BY <1>5, <1>7
  <2>2. PICK l \in DOMAIN projects : projects[l].id = projects[k].into
    BY <2>1 DEF MergedIntoRow, RowsInv
  <2>3. j # n
    BY <1>4, <1>5, <1>7, <2>1, <2>2
  <2>4. j \in DOMAIN projects /\ projects'[j] = projects[j]
    BY <1>7, <2>3
  <2> QED  BY <2>1, <2>4 DEF MergedKept, RowsInv
<1>11. Return(c)
  BY DEF Create
<1> QED  BY <1>7, <1>8, <1>9, <1>10, <1>11, CallReturns DEF RegistryTypeOK, RowsInv

\* The target is another row, and takes over what the source had, what earlier
\* merges had brought the source included.
LEMMA Merged ==
  ASSUME RegistryInv, NEW c \in Caller, Merge(c)
  PROVE  RegistryInv'
<1> USE DEF RegistryInv
<1>0. Having(call[c].id, "active") # {} /\ Having(call[c].to, "active") # {}
  BY Zenon DEF Merge
<1>1. PICK s \in DOMAIN projects :
         /\ s = First(Having(call[c].id, "active")) /\ projects[s] \in Row
         /\ projects[s].id = call[c].id /\ projects[s].state = "active"
  BY <1>0, CalledRow
<1>2. PICK t \in DOMAIN projects :
         /\ t = First(Having(call[c].to, "active")) /\ projects[t] \in Row
         /\ projects[t].id = call[c].to /\ projects[t].state = "active"
  BY <1>0, CalledRow
<1>3. s # t /\ projects[s].id # projects[t].id
  BY <1>1, <1>2 DEF MergesApart, Merge, Calling
<1> DEFINE aliases == (projects[t].aliases \cup Names(projects[s])) \ {projects[t].id}
           marks == MergeTodos(projects[t].todos, projects[s].todos)
           target == [projects[t] EXCEPT !.aliases = aliases, !.todos = marks]
           source == [projects[s] EXCEPT !.state = "merged", !.into = projects[t].id]
<1>4. projects' = [projects EXCEPT ![t] = target, ![s] = source]
  <2>1. projects' = [projects EXCEPT
           ![t].aliases = (@ \cup Names(projects[s])) \ {projects[t].id},
           ![t].todos = MergeTodos(@, projects[s].todos),
           ![s].state = "merged", ![s].into = projects[t].id]
    BY <1>1, <1>2 DEF Merge
  <2> QED  BY <1>3, <2>1
<1>5. aliases \in SUBSET Word
  BY <1>1, <1>2 DEF Row, Names
<1>6. /\ marks \in [Todo -> Mark]
      /\ \A u \in Todo : projects[t].todos[u] # "none" \/ projects[s].todos[u] # "none"
                           => marks[u] # "none"
  <2>1. projects[s].todos \in [Todo -> Mark] /\ projects[t].todos \in [Todo -> Mark]
    BY <1>1, <1>2 DEF Row
  <2> QED  BY <2>1 DEF MergeTodos
<1>7. /\ projects[t].aliases \subseteq aliases \cup {projects[t].id}
      /\ Names(projects[s]) \subseteq aliases \cup {projects[t].id}
  OBVIOUS
<1> HIDE DEF aliases, marks
<1>8. /\ target \in Row /\ target.id = projects[t].id /\ target.aliases = aliases
      /\ target.todos = marks /\ target.state = "active"
  BY <1>2, <1>5, <1>6 DEF Row
<1>9. /\ source \in Row /\ source.id = projects[s].id /\ source.state = "merged"
      /\ source.into = projects[t].id /\ source.todos = projects[s].todos
      /\ source.aliases = projects[s].aliases /\ Names(source) = Names(projects[s])
  BY <1>1, <1>2 DEF Row, State, Names
<1> HIDE DEF target, source
<1>10. projects \in Seq(Row)
  BY DEF RegistryTypeOK
<1>11. /\ DOMAIN projects' = DOMAIN projects
       /\ projects'[s] = source /\ projects'[t] = target
       /\ \A k \in DOMAIN projects : k \notin {s, t} => projects'[k] = projects[k]
       /\ projects' = [k \in DOMAIN projects' |-> projects'[k]]
  BY <1>3, <1>4, <1>10
<1>12. \A k \in DOMAIN projects : projects'[k] \in Row /\ projects'[k].id = projects[k].id
  BY <1>8, <1>9, <1>10, <1>11
<1>13. projects' \in Seq(Row)
  BY <1>10, <1>11, <1>12, RowsType
<1>14. OneRowPerId'
  BY <1>11, <1>12 DEF OneRowPerId, RowsInv
<1>15. MergedIntoRow'
  <2> SUFFICES ASSUME NEW k \in DOMAIN projects, projects'[k].state = "merged"
               PROVE  \E j \in DOMAIN projects : projects'[j].id = projects'[k].into
      BY <1>11 DEF MergedIntoRow
  <2>1. CASE k = s
    BY <1>9, <1>11, <1>12, <2>1
  <2>2. CASE k # s
    <3>1. k # t /\ projects'[k] = projects[k]
      BY <1>8, <1>11, <2>2
    <3> QED  BY <1>12, <3>1 DEF MergedIntoRow, RowsInv
  <2> QED  BY <2>1, <2>2
<1>16. MergedKept'
  <2> SUFFICES ASSUME NEW k \in DOMAIN projects, NEW j \in DOMAIN projects,
                      projects'[k].state = "merged", projects'[j].id = projects'[k].into
               PROVE  /\ Names(projects'[k]) \subseteq projects'[j].aliases \cup {projects'[j].id}
                      /\ \A u \in Todo : projects'[k].todos[u] # "none" =>
                                           projects'[j].todos[u] # "none"
      BY <1>11 DEF MergedKept, Names
  <2>1. CASE k = s
    <3>1. projects[j].id = projects[t].id
      BY <1>9, <1>11, <1>12, <2>1
    <3>2. j = t
      BY <3>1 DEF OneRowPerId, RowsInv
    <3> QED  BY <1>6, <1>7, <1>8, <1>9, <1>11, <2>1, <3>2
  <2>2. CASE k # s
    <3>1. projects'[k] = projects[k] /\ projects[k].state = "merged"
          /\ projects[j].id = projects[k].into
      BY <1>8, <1>11, <1>12, <2>2
    <3>2. /\ Names(projects[k]) \subseteq projects[j].aliases \cup {projects[j].id}
          /\ \A u \in Todo : projects[k].todos[u] # "none" => projects[j].todos[u] # "none"
      BY <3>1, KeptByRow DEF RowsInv
    <3>3. CASE j = t
      BY <1>6, <1>7, <1>8, <1>11, <3>1, <3>2, <3>3
    <3>4. CASE j = s
      BY <1>9, <1>11, <3>1, <3>2, <3>4
    <3>5. CASE j \notin {s, t}
      BY <1>11, <3>1, <3>2, <3>5, SMTT(40)
    <3> QED  BY <3>3, <3>4, <3>5
  <2> QED  BY <2>1, <2>2
<1>17. Return(c)
  BY Zenon DEF Merge
<1> QED  BY <1>13, <1>14, <1>15, <1>16, <1>17, CallReturns, SMTT(40) DEF RegistryTypeOK, RowsInv

-----------------------------------------------------------------------------
LEMMA Began ==
  ASSUME RegistryInv, NEW c \in Caller, NEW r \in RequestType, BeginWith(c, r)
  PROVE  RegistryInv'
<1>1. Resolved(r) \in CallType /\ Resolved(r).req = r
  BY ResolvedType DEF RegistryInv, BeginWith
<1>2. call' = [call EXCEPT ![c] = Resolved(r)] /\ projects' = projects
      /\ (r.op = "merge" => Resolved(r).to # Resolved(r).id)
  BY DEF BeginWith
<1> HIDE DEF Resolved
<1>3. RegistryTypeOK'
  BY <1>1, <1>2 DEF RegistryInv, RegistryTypeOK
<1>4. \A d \in Caller : call'[d] = call[d] \/ (d = c /\ call'[d] = Resolved(r))
  BY <1>2 DEF RegistryInv, RegistryTypeOK
<1>5. MergesApart'
  BY <1>1, <1>2, <1>4 DEF RegistryInv, MergesApart
<1>6. RowsInv'
  BY <1>2 DEF RegistryInv, RowsInv, OneRowPerId, MergedIntoRow, MergedKept
<1> QED  BY <1>3, <1>5, <1>6 DEF RegistryInv

LEMMA Mutated ==
  ASSUME RegistryInv, NEW c \in Caller, Mutate(c) \/ Refuse(c)
  PROVE  RegistryInv'
<1>1. CASE Create(c)
  BY <1>1, Created
<1>2. CASE Update(c)
  BY <1>2, Updated
<1>3. CASE AddTodo(c)
  <2>1. "pending" \in Mark \ {"none"}
    BY DEF Mark
  <2> QED  BY <1>3, <2>1, TodoMarked DEF AddTodo, Calling
<1>4. CASE SetTodoStatus(c)
  <2>1. call[c].req.mark \in Mark \ {"none"}
    BY <1>4, CallShape DEF SetTodoStatus, Calling, RequestType
  <2> QED  BY <1>4, <2>1, TodoMarked DEF SetTodoStatus, Calling
<1>5. CASE Merge(c)
  BY <1>5, Merged
<1>6. CASE Delete(c)
  BY <1>6, StateSet DEF Delete
<1>7. CASE Archive(c)
  BY <1>7, StateSet DEF Archive
<1>8. CASE Unarchive(c)
  BY <1>8, StateSet DEF Unarchive
<1>9. CASE Refuse(c)
  <2>1. Return(c) /\ projects' = projects
    BY <1>9 DEF Refuse
  <2>2. RowsInv'
    BY <2>1 DEF RegistryInv, RowsInv, OneRowPerId, MergedIntoRow, MergedKept
  <2> QED  BY <2>1, <2>2, CallReturns DEF RegistryInv, RegistryTypeOK
<1> QED  BY <1>1, <1>2, <1>3, <1>4, <1>5, <1>6, <1>7, <1>8, <1>9 DEF Mutate

LEMMA RegistryStart == RegistryInit => RegistryInv
<1> SUFFICES ASSUME RegistryInit PROVE RegistryInv
    OBVIOUS
<1>1. RegistryTypeOK
  BY ProjectsAssumption DEF RegistryInit, RegistryTypeOK
<1>2. \A i \in DOMAIN projects : projects[i].state # "merged"
  BY ProjectsAssumption DEF RegistryInit
<1>3. OneRowPerId
  BY ProjectsAssumption DEF RegistryInit, OneRowPerId
<1>4. MergesApart
  BY DEF RegistryInit, MergesApart
<1> QED  BY <1>1, <1>2, <1>3, <1>4 DEF RegistryInv, RowsInv, MergedIntoRow, MergedKept

\* The rows of the registry, and the calls that have resolved a reference and wait
\* for its lock, keep merged projects and their targets together.
THEOREM RegistryInvariant == RegistrySpec => []RegistryInv
<1>1. RegistryInit => RegistryInv
  BY RegistryStart
<1>2. RegistryInv /\ [RegistryNext]_registryVars => RegistryInv'
  <2> SUFFICES ASSUME RegistryInv, [RegistryNext]_registryVars PROVE RegistryInv'
      OBVIOUS
  <2>1. CASE RegistryNext
    <3>1. PICK c \in Caller : Begin(c) \/ Mutate(c) \/ Refuse(c)
      BY <2>1 DEF RegistryNext
    <3>2. CASE Begin(c)
      BY <3>2, Began, RequestAssumption DEF Begin
    <3> QED  BY <3>1, <3>2, Mutated
  <2>2. CASE UNCHANGED registryVars
    BY <2>2 DEF registryVars, RegistryInv, RegistryTypeOK, RowsInv, OneRowPerId,
                MergedIntoRow, MergedKept, MergesApart
  <2> QED  BY <2>1, <2>2
<1> QED  BY <1>1, <1>2, PTL DEF RegistrySpec

\* What a merged project was called and had to do stays with the project it was
\* merged into, whatever callers of the registry do in whatever order.
THEOREM RegistryMergedKept == RegistrySpec => []MergedKept
<1>1. RegistryInv => MergedKept
  BY DEF RegistryInv, RowsInv
<1> QED  BY <1>1, RegistryInvariant, PTL

-----------------------------------------------------------------------------
(***************************************************************************)
(* Governance and the console only make calls that the registry takes, so  *)
(* the registry's invariant carries over.                                  *)
(***************************************************************************)
GovernanceInv == GovernanceTypeOK /\ RegistryInv

LEMMA PlannedType ==
  ASSUME RegistryTypeOK, NEW r \in RequestType, Plannable(r)
  PROVE  Planned(r) \in RequestType
<1>1. CASE r.op = "create"
  BY <1>1 DEF Planned
<1>2. CASE r.op # "create"
  <2>1. Resolved(r).id \in Word /\ Resolved(r).to \in Word \cup {None}
        /\ (r.op = "merge" => Resolved(r).to # None)
    BY ResolvedType DEF Plannable
  <2>2. Planned(r) = [r EXCEPT !.ref = Resolved(r).id, !.to = Resolved(r).to]
    BY <1>2 DEF Planned
  <2> HIDE DEF Resolved
  <2> QED  BY <2>1, <2>2 DEF RequestType
<1> QED  BY <1>1, <1>2

LEMMA GovernanceStep ==
  GovernanceInv /\ [GovernanceNext]_governanceVars => GovernanceInv'
<1> SUFFICES ASSUME GovernanceInv, [GovernanceNext]_governanceVars
             PROVE  GovernanceInv'
    OBVIOUS
<1> USE DEF GovernanceInv
<1>0. UNCHANGED <<projects, call>> => RegistryInv'
  BY DEF RegistryInv, RegistryTypeOK, RowsInv, OneRowPerId, MergedIntoRow,
         MergedKept, MergesApart
<1>a. RegistryTypeOK /\ (RegistryInv' => RegistryTypeOK')
  BY DEF RegistryInv
<1>1. ASSUME NEW a \in Auth, NEW r \in Proposal, Plan(a, r) PROVE GovernanceInv'
  <2>1. Planned(r) \in RequestType
    BY <1>1, PlannedType, ProposalAssumption, <1>a DEF Plan
  <2>2. [req |-> Planned(r), expired |-> FALSE] \in AuthType
    BY <2>1 DEF AuthType
  <2> QED  BY <1>0, <1>1, <1>a, <2>2 DEF Plan, GovernanceTypeOK
<1>2. ASSUME NEW a \in Auth, Expire(a) PROVE GovernanceInv'
  <2>1. authorization[a] \in [req : RequestType, expired : BOOLEAN]
    BY <1>2 DEF Expire, GovernanceTypeOK, AuthType
  <2>2. [authorization[a] EXCEPT !.expired = TRUE] \in AuthType
    BY <2>1 DEF AuthType
  <2> QED  BY <1>0, <1>2, <1>a, <2>2 DEF Expire, GovernanceTypeOK
<1>3. ASSUME NEW c \in Caller, NEW a \in Auth, Take(c, a) PROVE GovernanceInv'
  <2>1. authorization[a] \in [req : RequestType, expired : BOOLEAN]
    BY <1>3 DEF Take, GovernanceTypeOK, AuthType
  <2>2. Change(authorization[a].req, authorization[a].req.ref, TRUE) \in ChangeType
    BY <2>1 DEF Change, ChangeType, RequestType
  <2>3. Used \in AuthType /\ None \in ChangeType
    BY DEF AuthType, ChangeType
  <2> QED  BY <1>0, <1>3, <1>a, <2>2, <2>3 DEF Take, GovernanceTypeOK
<1>4. ASSUME NEW c \in Caller, NEW r \in Direct, ConsoleDelete(c, r) PROVE GovernanceInv'
  <2>1. r \in RequestType /\ Resolved(r).id \in Word
    BY <1>4, <1>a, ProposalAssumption, ResolvedType DEF ConsoleDelete
  <2>2. Change(r, Resolved(r).id, FALSE) \in ChangeType
    BY <2>1 DEF Change, ChangeType
  <2> QED  BY <1>0, <1>4, <1>a, <2>2 DEF ConsoleDelete, GovernanceTypeOK
<1>5. ASSUME NEW c \in Caller, Count(c) PROVE GovernanceInv'
  <2>1. approved[c] \in [req : RequestType, project : Word, planned : BOOLEAN, counted : BOOLEAN]
    BY <1>5 DEF Count, GovernanceTypeOK, ChangeType
  <2>2. [approved[c] EXCEPT !.counted = TRUE] \in ChangeType /\ None \in ChangeType
    BY <2>1 DEF ChangeType
  <2>3. approved' \in [Caller -> ChangeType]
    BY <1>5, <2>2 DEF Count, GovernanceTypeOK
  <2> QED  BY <1>0, <1>5, <1>a, <2>3 DEF Count, GovernanceTypeOK
<1>6. ASSUME NEW c \in Caller, Enter(c) PROVE GovernanceInv'
  <2>1. approved[c].req \in RequestType
    BY <1>6 DEF Enter, GovernanceTypeOK, ChangeType
  <2>2. \/ approved' = [approved EXCEPT ![c] = None] /\ UNCHANGED <<projects, call>>
        \/ BeginWith(c, approved[c].req) /\ UNCHANGED approved
    BY <1>6 DEF Enter
  <2>3. RegistryInv'
    BY <1>0, <2>1, <2>2, Began
  <2>4. approved' \in [Caller -> ChangeType]
    BY <2>2 DEF GovernanceTypeOK, ChangeType
  <2> QED  BY <1>6, <2>3, <2>4 DEF Enter, GovernanceTypeOK, RegistryInv
<1>7. ASSUME NEW c \in Caller, Finish(c) PROVE GovernanceInv'
  <2>1. RegistryInv'
    BY <1>7, Mutated DEF Finish
  <2> QED  BY <1>7, <2>1 DEF Finish, GovernanceTypeOK, ChangeType, RegistryInv
<1>8. ASSUME NEW c \in Caller, ConsoleCall(c) PROVE GovernanceInv'
  <2>1. RegistryInv'
    BY <1>8, Mutated, Began, ProposalAssumption DEF ConsoleCall
  <2> QED  BY <1>8, <2>1 DEF ConsoleCall, GovernanceTypeOK, RegistryInv
<1>9. ASSUME NEW j \in Job, Queue(j) PROVE GovernanceInv'
  <2>1. PICK i \in DOMAIN projects :
           jobs' = [jobs EXCEPT ![j] = [project |-> projects[i].id, status |-> "pending"]]
    BY <1>9 DEF Queue
  <2>2. \A k \in DOMAIN projects : projects[k] \in Row
    BY DEF RegistryInv, RegistryTypeOK
  <2>3. projects[i].id \in Word
    BY <2>2 DEF Row
  <2>4. jobs' \in [Job -> [project : Word \cup {None}, status : JobStatus]]
    BY <2>1, <2>3 DEF GovernanceTypeOK, JobStatus
  <2> QED  BY <1>0, <1>9, <1>a, <2>4 DEF Queue, GovernanceTypeOK
<1>10. ASSUME NEW j \in Job, Work(j) PROVE GovernanceInv'
  <2>1. PICK s \in {"leased", "failed", "completed"} :
           jobs' = [jobs EXCEPT ![j].status = s]
    BY <1>10 DEF Work
  <2>2. jobs[j] \in [project : Word \cup {None}, status : JobStatus]
    BY DEF GovernanceTypeOK
  <2>3. [jobs[j] EXCEPT !.status = s] \in [project : Word \cup {None}, status : JobStatus]
    BY <2>2 DEF JobStatus
  <2>4. jobs' \in [Job -> [project : Word \cup {None}, status : JobStatus]]
    BY <2>1, <2>3 DEF GovernanceTypeOK
  <2> QED  BY <1>0, <1>10, <1>a, <2>4 DEF Work, GovernanceTypeOK
<1>11. CASE Restart
  <2>1. \A c \in Caller : call'[c] = None
    BY <1>11 DEF Restart
  <2>2. RegistryInv'
    BY <1>11, <2>1 DEF Restart, RegistryInv, RegistryTypeOK, RowsInv, OneRowPerId,
                       MergedIntoRow, MergedKept, MergesApart
  <2> QED  BY <1>11, <2>2 DEF Restart, GovernanceTypeOK, AuthType, ChangeType, RegistryInv
<1>12. CASE UNCHANGED governanceVars
  BY <1>0, <1>12, <1>a DEF governanceVars, GovernanceTypeOK
<1> QED
  BY <1>1, <1>2, <1>3, <1>4, <1>5, <1>6, <1>7, <1>8, <1>9, <1>10, <1>11, <1>12
     DEF GovernanceNext

LEMMA GovernanceStart == GovernanceInit => GovernanceInv
BY RegistryStart DEF GovernanceInit, GovernanceInv, GovernanceTypeOK, RegistryInv,
                     AuthType, ChangeType, JobStatus

\* The planned, the approved and the entered calls are calls of the registry.
THEOREM GovernanceInvariant == GovernanceSpec => []GovernanceInv
<1> QED  BY GovernanceStart, GovernanceStep, PTL DEF GovernanceSpec

\* The same promise when users approve changes, the console makes its own and
\* the process restarts between any two steps.
THEOREM GovernanceMergedKept == GovernanceSpec => []MergedKept
<1>1. GovernanceInv => MergedKept
  BY DEF GovernanceInv, RegistryInv, RowsInv
<1> QED  BY <1>1, GovernanceInvariant, PTL

-----------------------------------------------------------------------------

(***************************************************************************)
(* DerivedQueue.  Under the ledger's lock nothing is queued twice.  And    *)
(* whenever the set of latest L3 results has changed, the submit that      *)
(* changed it is yet to list them; while it is at it the change is its own *)
(* to answer for, unless its queueing was dropped.                         *)
(***************************************************************************)
OnceInv ==
  /\ \A s \in Source : profile[<<s, 2>>] = "none"
  /\ \A set \in SUBSET Profile : <<set, 2>> \notin portraits

\* Someone will still queue the portrait of the latest results.
PortraitOwed == \/ \E p \in Profile : profile[p] = "listing"
                \/ \E p \in Profile : profile[p] = "queueing" /\ listed[p] = Latest
OwedInv ==
  /\ \A s \in Source : timeline[s] = "completed" => Claims(s) # {} \/ s \in dropped
  /\ Cardinality(Latest) >= 2 /\ dropped \cap Profile = {}
       => <<Latest, 1>> \in portraits \/ PortraitOwed
DerivedInv == DerivedTypeOK /\ OnceInv /\ OwedInv

LEMMA ProfileFinite == \A S \in SUBSET Profile : Cardinality(S) \in Nat
<1>1. IsFiniteSet({1, 2})
  BY FS_Interval, 1 \in Int, 2 \in Int, {1, 2} = 1..2
<1>2. IsFiniteSet(Profile)
  BY <1>1, KindsAssumption, FS_Product DEF Profile
<1> QED  BY <1>2, FS_Subset, FS_CardinalityType

LEMMA OneClaim ==
  ASSUME OnceInv, NEW s \in Source
  PROVE  Claims(s) = {} \/ Claims(s) = {<<s, 1>>}
<1>1. Claims(s) \subseteq {<<s, 1>>}
  BY DEF OnceInv, Claims
<1> QED  BY <1>1

\* The latest results change only when a result is settled.
LEMMA LatestKept ==
  ASSUME \A p \in Profile : profile'[p] \in Settled <=> profile[p] \in Settled,
         \A p \in Profile : profile[p] \in Settled => committed'[p] = committed[p]
  PROVE  Latest' = Latest
<1>1. Done3' = Done3
  BY DEF Done3
<1>2. \A p \in Done3 : committed'[p] = committed[p]
  BY DEF Done3
<1> QED  BY <1>1, <1>2 DEF Latest

LEMMA DerivedInvInit == DerivedInit => DerivedInv
<1> SUFFICES ASSUME DerivedInit PROVE DerivedInv
    OBVIOUS
<1> DEFINE done == Earlier \X {1}
<1>1. done \in SUBSET Profile
  BY DerivedAssumption DEF Profile
<1>2. DerivedTypeOK
  BY <1>1 DEF DerivedInit, DerivedTypeOK, Settled
<1>3. OnceInv
  BY DEF DerivedInit, OnceInv, Profile
<1>4. Done3 = done
  BY <1>1 DEF DerivedInit, Done3, Settled
<1>5. \A p, q \in done : committed[p] = 1 /\ committed[q] = 1
  BY <1>1 DEF DerivedInit
<1>6. Latest = done
  BY <1>4, <1>5 DEF Latest
<1>7. Cardinality(Latest) >= 2 => <<Latest, 1>> \in portraits
  BY <1>6 DEF DerivedInit
<1>8. \A s \in Source : timeline[s] = "completed" => <<s, 1>> \in Claims(s)
  BY <1>1 DEF DerivedInit, Claims, Profile
<1>9. OwedInv
  BY <1>7, <1>8 DEF OwedInv
<1> QED  BY <1>2, <1>3, <1>9 DEF DerivedInv

\* enqueueJob adds one job, and only if there is none of that evidence.
LEMMA QueueProfileIs ==
  ASSUME DerivedTypeOK, OnceInv, NEW s \in Source, QueueProfile(s)
  PROVE  /\ profile' \in [Profile -> {"none", "leased"} \cup Settled]
         /\ profile'[<<s, 1>>] # "none"
         /\ \A p \in Profile : \/ profile'[p] = profile[p]
                               \/ /\ p = <<s, 1>> /\ profile[p] = "none"
                                  /\ profile'[p] = "leased"
<1>1. <<s, 1>> \in Profile
  BY DEF Profile
<1>2. CASE Claims(s) # {}
  <2>1. <<s, 1>> \in Claims(s)
    BY <1>2, OneClaim
  <2> QED  BY <1>2, <2>1 DEF QueueProfile, DerivedTypeOK, Claims
<1>3. CASE Claims(s) = {}
  <2>1. profile[<<s, 1>>] = "none"
    BY <1>1, <1>3 DEF Claims
  <2> QED  BY <1>1, <1>3, <2>1 DEF QueueProfile, DerivedTypeOK
<1> QED  BY <1>2, <1>3

LEMMA QueuePortraitIs ==
  ASSUME DerivedTypeOK, OnceInv, NEW set \in SUBSET Profile, QueuePortrait(set)
  PROVE  /\ portraits' = portraits \cup {<<set, 1>>}
         /\ portraits' \subseteq (SUBSET Profile) \X {1, 2}
         /\ \A other \in SUBSET Profile : <<other, 2>> \notin portraits'
<1>1. <<set, 2>> \notin portraits
  BY DEF OnceInv
<1>2. portraits' = portraits \cup {<<set, 1>>}
  BY <1>1 DEF QueuePortrait
<1> QED  BY <1>2 DEF DerivedTypeOK, OnceInv

\* A finished timeline stays accounted for.
LEMMA TimelineOwed ==
  ASSUME DerivedInv, DerivedTypeOK',
         \A p \in Profile : profile[p] # "none" => profile'[p] # "none",
         \A s \in Source : timeline'[s] = "completed" =>
            \/ timeline[s] = "completed" /\ (s \in dropped => s \in dropped')
            \/ profile'[<<s, 1>>] # "none"
            \/ s \in dropped'
  PROVE  \A s \in Source : timeline'[s] = "completed" => Claims(s)' # {} \/ s \in dropped'
<1>1. ASSUME NEW s \in Source, Claims(s) # {}  PROVE Claims(s)' # {}
  <2>1. PICK p \in {s} \X {1, 2} : profile[p] # "none"
    BY <1>1 DEF Claims
  <2>2. p \in Profile
    BY DEF Profile
  <2> QED  BY <2>1, <2>2 DEF Claims
<1>2. ASSUME NEW s \in Source, profile'[<<s, 1>>] # "none"  PROVE Claims(s)' # {}
  BY <1>2 DEF Claims
<1> QED  BY <1>1, <1>2 DEF DerivedInv, OwedInv

\* Who owes the portrait still does.
LEMMA StillOwed ==
  ASSUME DerivedInv, Latest' = Latest, portraits \subseteq portraits',
         dropped' \cap Profile = {} => dropped \cap Profile = {},
         \A p \in Profile : profile[p] = "listing" => profile'[p] = "listing",
         \A p \in Profile : profile[p] = "queueing" =>
            \/ profile'[p] = "queueing" /\ listed'[p] = listed[p]
            \/ <<listed[p], 1>> \in portraits'
  PROVE  Cardinality(Latest') >= 2 /\ dropped' \cap Profile = {}
           => <<Latest', 1>> \in portraits' \/ PortraitOwed'
<1>1. CASE \E p \in Profile : profile[p] = "listing"
  BY <1>1 DEF PortraitOwed
<1>2. CASE \E p \in Profile : profile[p] = "queueing" /\ listed[p] = Latest
  <2>1. PICK p \in Profile : profile[p] = "queueing" /\ listed[p] = Latest
    BY <1>2
  <2> QED  BY <2>1 DEF PortraitOwed
<1>3. CASE ~PortraitOwed
  BY <1>3 DEF DerivedInv, OwedInv
<1> QED  BY <1>1, <1>2, <1>3 DEF PortraitOwed

\* Steps that settle no result and end no listing or queueing.
LEMMA QuietStep ==
  ASSUME DerivedInv, DerivedTypeOK', OnceInv', portraits \subseteq portraits', listed' = listed,
         dropped' \cap Profile = {} => dropped \cap Profile = {},
         \A p \in Profile : profile[p] \in Settled => committed'[p] = committed[p],
         \A p \in Profile : \/ profile'[p] = profile[p]
                            \/ profile[p] = "none" /\ profile'[p] = "leased",
         \A s \in Source : timeline'[s] = "completed" =>
            \/ timeline[s] = "completed" /\ (s \in dropped => s \in dropped')
            \/ profile'[<<s, 1>>] # "none"
            \/ s \in dropped'
  PROVE  DerivedInv'
<1>1. Latest' = Latest
  BY LatestKept DEF Settled
<1>2. Cardinality(Latest') >= 2 /\ dropped' \cap Profile = {}
           => <<Latest', 1>> \in portraits' \/ PortraitOwed'
  BY <1>1, StillOwed
<1>3. \A p \in Profile : profile[p] # "none" => profile'[p] # "none"
  OBVIOUS
<1> QED  BY <1>2, <1>3, TimelineOwed DEF DerivedInv, OwedInv

LEMMA DerivedInvNext == DerivedInv /\ [DerivedNext]_derivedVars => DerivedInv'
<1> SUFFICES ASSUME DerivedInv, [DerivedNext]_derivedVars PROVE DerivedInv'
    OBVIOUS
<1> DerivedTypeOK /\ OnceInv /\ OwedInv
    BY DEF DerivedInv
<1> DEFINE Owes == Cardinality(Latest') >= 2 /\ dropped' \cap Profile = {}
                     => <<Latest', 1>> \in portraits' \/ PortraitOwed'
<1>1. ASSUME NEW s \in Source, CompleteTimeline(s)  PROVE DerivedInv'
  <2>1. DerivedTypeOK' /\ OnceInv'
    BY <1>1 DEF CompleteTimeline, DerivedTypeOK, OnceInv
  <2> QED  BY <1>1, <2>1, QuietStep DEF CompleteTimeline, DerivedTypeOK
<1>2. ASSUME NEW s \in Source, DeriveProfile(s)  PROVE DerivedInv'
  <2>1. /\ profile' \in [Profile -> {"none", "leased"} \cup Settled]
        /\ profile'[<<s, 1>>] # "none"
        /\ \A p \in Profile : \/ profile'[p] = profile[p]
                              \/ /\ p = <<s, 1>> /\ profile[p] = "none"
                                 /\ profile'[p] = "leased"
    BY <1>2, QueueProfileIs DEF DeriveProfile
  <2>2. DerivedTypeOK'
    BY <1>2, <2>1 DEF DeriveProfile, DerivedTypeOK
  <2>3. OnceInv'
    BY <1>2, <2>1 DEF DeriveProfile, OnceInv, Profile
  <2> QED  BY <1>2, <2>1, <2>2, <2>3, QuietStep DEF DeriveProfile, DerivedTypeOK
<1>3. ASSUME NEW s \in Source, DropProfile(s) \/ RepeatTimeline(s)  PROVE DerivedInv'
  <2>1. DerivedTypeOK' /\ OnceInv'
    BY <1>3 DEF DropProfile, RepeatTimeline, DerivedTypeOK, OnceInv
  <2>2. s \notin Profile
    BY KindsAssumption
  <2>3. dropped' \cap Profile = {} => dropped \cap Profile = {}
    BY <1>3, <2>2 DEF DropProfile, RepeatTimeline
  <2>4. \A t \in Source : timeline'[t] = "completed" =>
          \/ timeline[t] = "completed" /\ (t \in dropped => t \in dropped')
          \/ t \in dropped'
    BY <1>3 DEF DropProfile, RepeatTimeline, DerivedTypeOK
  <2> QED  BY <1>3, <2>1, <2>3, <2>4, QuietStep DEF DropProfile, RepeatTimeline
<1>4. ASSUME NEW p \in Profile, CommitProfile(p)  PROVE DerivedInv'
  <2>1. Cardinality({q \in Profile : committed[q] > 0}) \in Nat
    BY ProfileFinite
  <2>2. DerivedTypeOK' /\ OnceInv'
    BY <1>4, <2>1 DEF CommitProfile, DerivedTypeOK, OnceInv
  <2>3. \A q \in Profile : profile[q] \in Settled => committed'[q] = committed[q]
    BY <1>4 DEF CommitProfile, DerivedTypeOK, Settled
  <2> QED  BY <1>4, <2>2, <2>3, QuietStep DEF CommitProfile
<1>5. ASSUME NEW r \in Reviewer, Recheck(r) \/ (\E s \in Source : ReviewTimeline(r, s))
                                  \/ (\E p \in Profile : ReviewProfile(r, p))
      PROVE  DerivedInv'
  <2>1. review' \in [Reviewer -> {NoReview} \cup
                        [source : Source, set : SUBSET Profile, rechecked : BOOLEAN]]
    <3>1. CASE Recheck(r)
      <4>1. [review[r] EXCEPT !.rechecked = TRUE]
              \in [source : Source, set : SUBSET Profile, rechecked : BOOLEAN]
        BY <3>1 DEF Recheck, DerivedTypeOK
      <4> QED  BY <3>1, <4>1 DEF Recheck, DerivedTypeOK
    <3>2. ASSUME NEW s \in Source, ReviewTimeline(r, s)
          PROVE  review' \in [Reviewer -> {NoReview} \cup
                        [source : Source, set : SUBSET Profile, rechecked : BOOLEAN]]
      BY <3>2 DEF ReviewTimeline, DerivedTypeOK
    <3>3. ASSUME NEW p \in Profile, ReviewProfile(r, p)
          PROVE  review' \in [Reviewer -> {NoReview} \cup
                        [source : Source, set : SUBSET Profile, rechecked : BOOLEAN]]
      <4>1. [source |-> p[1], set |-> Latest, rechecked |-> FALSE]
              \in [source : Source, set : SUBSET Profile, rechecked : BOOLEAN]
        BY DEF Profile, Latest, Done3
      <4> QED  BY <3>3, <4>1 DEF ReviewProfile, DerivedTypeOK
    <3> QED  BY <1>5, <3>1, <3>2, <3>3
  <2>2. UNCHANGED <<timeline, profile, committed, portraits, listed, dropped>>
    BY <1>5 DEF Recheck, ReviewTimeline, ReviewProfile
  <2>3. DerivedTypeOK' /\ OnceInv'
    BY <2>1, <2>2 DEF DerivedTypeOK, OnceInv
  <2> QED  BY <2>2, <2>3, QuietStep
<1>6. ASSUME NEW r \in Reviewer, Reconcile(r)  PROVE DerivedInv'
  <2>1. /\ review[r].source \in Source /\ review[r].set \in SUBSET Profile
        /\ review' \in [Reviewer -> {NoReview} \cup
                        [source : Source, set : SUBSET Profile, rechecked : BOOLEAN]]
    BY <1>6 DEF Reconcile, DerivedTypeOK
  <2>2. UNCHANGED <<timeline, committed, listed, dropped>>
    BY <1>6 DEF Reconcile
  <2>3. CASE QueuePortrait(review[r].set) /\ UNCHANGED profile
    <3>1. DerivedTypeOK' /\ OnceInv' /\ portraits \subseteq portraits'
      BY <2>1, <2>2, <2>3, QueuePortraitIs DEF DerivedTypeOK, OnceInv
    <3> QED  BY <2>2, <2>3, <3>1, QuietStep
  <2>4. CASE QueueProfile(review[r].source) /\ UNCHANGED portraits
    <3> DEFINE s == review[r].source
    <3>1. /\ profile' \in [Profile -> {"none", "leased"} \cup Settled]
          /\ \A p \in Profile : \/ profile'[p] = profile[p]
                                \/ /\ p = <<s, 1>> /\ profile[p] = "none"
                                   /\ profile'[p] = "leased"
      BY <2>1, <2>4, QueueProfileIs
    <3>2. DerivedTypeOK'
      BY <2>1, <2>2, <2>4, <3>1 DEF DerivedTypeOK
    <3>3. OnceInv'
      BY <2>4, <3>1 DEF OnceInv, Profile
    <3> QED  BY <2>2, <2>4, <3>1, <3>2, <3>3, QuietStep
  <2> QED  BY <1>6, <2>3, <2>4 DEF Reconcile
\* A result that is settled is about to be listed.
<1>7. ASSUME NEW p \in Profile, CompleteProfile(p) \/ RepeatProfile(p)  PROVE DerivedInv'
  <2>1. DerivedTypeOK' /\ OnceInv'
    BY <1>7 DEF CompleteProfile, RepeatProfile, DerivedTypeOK, OnceInv, Settled, Profile
  <2>2. PortraitOwed'
    BY <1>7 DEF CompleteProfile, RepeatProfile, DerivedTypeOK, PortraitOwed
  <2>3. \A q \in Profile : profile[q] # "none" => profile'[q] # "none"
    BY <1>7 DEF CompleteProfile, RepeatProfile, DerivedTypeOK
  <2>4. UNCHANGED timeline /\ \A s \in Source : s \in dropped => s \in dropped'
    BY <1>7, KindsAssumption DEF CompleteProfile, RepeatProfile
  <2> QED  BY <2>1, <2>2, <2>3, <2>4, TimelineOwed DEF DerivedInv, OwedInv
<1>8. ASSUME NEW p \in Profile, ListProfiles(p)  PROVE DerivedInv'
  <2>1. Latest \in SUBSET Profile
    BY DEF Latest, Done3
  <2>2. DerivedTypeOK' /\ OnceInv'
    BY <1>8, <2>1 DEF ListProfiles, DerivedTypeOK, OnceInv, Settled
  <2>3. \A q \in Profile : profile'[q] \in Settled <=> profile[q] \in Settled
    BY <1>8 DEF ListProfiles, DerivedTypeOK, Settled
  <2>4. Latest' = Latest
    BY <1>8, <2>3, LatestKept DEF ListProfiles
  <2>5. Cardinality(Latest') >= 2 => PortraitOwed'
    BY <1>8, <2>4 DEF ListProfiles, DerivedTypeOK, PortraitOwed
  <2>6. \A q \in Profile : profile[q] # "none" => profile'[q] # "none"
    BY <1>8 DEF ListProfiles, DerivedTypeOK
  <2> QED  BY <1>8, <2>2, <2>5, <2>6, TimelineOwed DEF ListProfiles, DerivedInv, OwedInv
<1>9. ASSUME NEW p \in Profile, DerivePortrait(p)  PROVE DerivedInv'
  <2>1. listed[p] \in SUBSET Profile
    BY DEF DerivedTypeOK
  <2>2. /\ portraits' = portraits \cup {<<listed[p], 1>>}
        /\ portraits' \subseteq (SUBSET Profile) \X {1, 2}
        /\ \A set \in SUBSET Profile : <<set, 2>> \notin portraits'
    BY <1>9, <2>1, QueuePortraitIs DEF DerivePortrait
  <2>3. /\ profile[p] = "queueing" /\ profile'[p] = "completed"
        /\ \A q \in Profile : q # p => profile'[q] = profile[q] /\ listed'[q] = listed[q]
    BY <1>9 DEF DerivePortrait, EndProfile, DerivedTypeOK
  <2>4. DerivedTypeOK'
    BY <1>9, <2>2 DEF DerivePortrait, EndProfile, DerivedTypeOK, Settled
  <2>5. OnceInv'
    BY <2>2, <2>3 DEF OnceInv, Profile
  <2>6. Latest' = Latest
    BY <1>9, <2>3, LatestKept DEF DerivePortrait, Settled
  <2>7. UNCHANGED <<timeline, dropped>>
    BY <1>9 DEF DerivePortrait
  <2>8. Owes
    BY <2>2, <2>3, <2>6, <2>7, StillOwed
  <2>9. \A q \in Profile : profile[q] # "none" => profile'[q] # "none"
    BY <2>3
  <2> QED  BY <2>4, <2>5, <2>7, <2>8, <2>9, TimelineOwed DEF DerivedInv, OwedInv
<1>10. ASSUME NEW p \in Profile, DropPortrait(p)  PROVE DerivedInv'
  <2>1. DerivedTypeOK' /\ OnceInv'
    BY <1>10 DEF DropPortrait, EndProfile, DerivedTypeOK, OnceInv, Settled
  <2>2. p \in dropped' \cap Profile /\ UNCHANGED timeline /\ dropped \subseteq dropped'
    BY <1>10 DEF DropPortrait
  <2>3. \A q \in Profile : profile[q] # "none" => profile'[q] # "none"
    BY <1>10 DEF DropPortrait, EndProfile, DerivedTypeOK
  <2> QED  BY <2>1, <2>2, <2>3, TimelineOwed DEF DerivedInv, OwedInv
<1>11. CASE UNCHANGED derivedVars
  <2>1. DerivedTypeOK' /\ OnceInv'
    BY <1>11 DEF derivedVars, DerivedTypeOK, OnceInv
  <2> QED  BY <1>11, <2>1, QuietStep DEF derivedVars
<1> QED
  BY <1>1, <1>2, <1>3, <1>4, <1>5, <1>6, <1>7, <1>8, <1>9, <1>10, <1>11 DEF DerivedNext

\* A finished result has the one job that is to be derived from it, or somebody who
\* owes it that job, or was dropped; and so for the portrait of the latest ones.
THEOREM DerivedInvariant == DerivedSpec => []DerivedInv
BY DerivedInvInit, DerivedInvNext, PTL DEF DerivedSpec

\* Nothing is derived twice, for any number of results, projects and reconciliations.
THEOREM DerivedDerivedOnce == DerivedSpec => []DerivedOnce
<1>1. DerivedInv => DerivedOnce
  <2> SUFFICES ASSUME DerivedInv PROVE DerivedOnce
      OBVIOUS
  <2>1. ASSUME NEW s \in Source  PROVE Cardinality(Claims(s)) <= 1
    <3>1. CASE Claims(s) = {}
      BY <3>1, FS_EmptySet
    <3>2. CASE Claims(s) = {<<s, 1>>}
      <4>1. Cardinality({<<s, 1>>}) = 1
        BY FS_Singleton, Zenon
      <4> QED  BY <3>2, <4>1
    <3> QED  BY <3>1, <3>2, OneClaim DEF DerivedInv
  <2>2. \A x, y \in portraits : x[1] = y[1] => x = y
    BY DEF DerivedInv, DerivedTypeOK, OnceInv
  <2> QED  BY <2>1, <2>2 DEF DerivedOnce
<1> QED  BY <1>1, DerivedInvariant, PTL

\* Nothing is silently left underived: a finished result without its next job, or
\* latest results without their portrait, is one whose queueing was dropped.
THEOREM DerivedNothingUnderived == DerivedSpec => []NothingUnderived
<1>1. DerivedInv => NothingUnderived
  <2> SUFFICES ASSUME DerivedInv PROVE NothingUnderived
      OBVIOUS
  <2>1. (\A p \in Profile : profile[p] \in {"none", "leased", "completed"}) => ~PortraitOwed
    BY DEF PortraitOwed
  <2> QED  BY <2>1 DEF DerivedInv, OwedInv, NothingUnderived, Done2
<1> QED  BY <1>1, DerivedInvariant, PTL

-----------------------------------------------------------------------------

(***************************************************************************)
(* EvidenceChain.  The registry and the ledger only grow: two ids that     *)
(* lead to one project always will, a row keeps its kind, project and      *)
(* evidence, and one that is recorded is never pending again.  So what a   *)
(* submit found of its evidence still holds when it records the result,    *)
(* though everything it read may have changed.                             *)
(***************************************************************************)
AnyScope == Namespace \cup {Unscoped}
Starting == [at : {"job", "ids"}, kind : Target, of : AnyScope, refs : SUBSET Ref,
             job : Nat \cup {Unscoped}]
Validating == [at : {"evidence"}, kind : Target, of : AnyScope, refs : SUBSET Ref,
               job : Nat \cup {Unscoped}, ids : SUBSET Namespace]
Recording == [at : {"record"}, kind : Target, of : AnyScope, items : SUBSET Item,
              job : Nat \cup {Unscoped}]
Deriving == [at : {"derive"}, kind : {"l2", "l3"}, of : Namespace, row : Nat]
Replacing == [at : {"replace"}, kind : {"l3", "l4"}, of : AnyScope, turn : L1]
SubmitType == Starting \cup Validating \cup Recording \cup Deriving \cup Replacing

ChainTyped ==
  /\ owner \in [Namespace -> Namespace]
  /\ \A p \in Namespace : owner[owner[p]] = owner[p]
  /\ ledgerRows \in Seq(LedgerRow) /\ Len(ledgerRows) <= MaxRows
  /\ submits \in [Submitter -> SubmitType \cup {Unscoped}]

\* An item of this layer: of the project it is under if it is a row.
ItemSound(e, layer) ==
  /\ e.layer = layer /\ (e.ref \in L1 <=> layer = "l1")
  /\ e.ref \notin L1 => /\ e.ref \in Numbers /\ ledgerRows[e.ref].kind = e.layer
                        /\ ledgerRows[e.ref].status # "pending"
                        /\ owner[ledgerRows[e.ref].of] = owner[e.under]
\* A turn: of the project it is under, as the capture or as Core has it.
TurnSound(e, migration) ==
  e.ref \in L1 =>
    owner[IF migration THEN CoreHas[e.ref] ELSE Hinted[e.ref]] = owner[e.under]

\* The layer a row rests on.
Base(row) == IF row.authorized THEN "l1" ELSE Below[row.kind]

\* Where the turns of a migration come from is found out by the submit.
RowSound(row) ==
  /\ row.kind = "l4" <=> row.of = Unscoped
  /\ row.migration => row.kind = "l2"
  /\ row.authorized => Confirmed(row)
  /\ \A e \in row.evidence : ItemSound(e, Base(row))
  /\ ~(row.migration /\ row.status = "pending") =>
       \A e \in row.evidence : TurnSound(e, row.migration)
  /\ row.status # "pending" =>
       /\ row.evidence # {}
       /\ row.kind # "l4" => \A e \in row.evidence : owner[e.under] = owner[row.of]

JobMatches(w) ==
  w.job # Unscoped =>
    /\ w.job \in Numbers /\ ledgerRows[w.job].kind = w.kind
    /\ w.at # "job" /\ w.kind # "l4" => owner[ledgerRows[w.job].of] = owner[w.of]
ItemsSound(w) ==
  /\ w.items # {}
  /\ \A e \in w.items : /\ ItemSound(e, Below[w.kind])
                        /\ w.kind # "l4" => owner[e.under] = owner[w.of]
  /\ IF w.job = Unscoped
     THEN \A e \in w.items : TurnSound(e, FALSE)
     ELSE /\ w.items = ledgerRows[w.job].evidence
          /\ \A e \in w.items : TurnSound(e, ledgerRows[w.job].migration)
SubmitSound(w) ==
  w # Unscoped =>
    /\ w.kind = "l4" <=> w.of = Unscoped
    /\ w.at \notin {"derive", "replace"} => JobMatches(w)
    /\ w.at = "replace" /\ w.kind # "l4" => Hinted[w.turn] = w.of
    /\ w.at = "evidence" /\ w.kind # "l4" => \A q \in w.ids : owner[q] = owner[w.of]
    /\ w.at = "record" => ItemsSound(w)
    /\ w.at = "derive" => /\ w.row \in Numbers /\ ledgerRows[w.row].kind = w.kind
                          /\ ledgerRows[w.row].status # "pending"
                          /\ owner[ledgerRows[w.row].of] = owner[w.of]
ChainInv ==
  /\ ChainTyped
  /\ \A i \in Numbers : RowSound(ledgerRows[i])
  /\ \A s \in Submitter : SubmitSound(submits[s])

\* What a step may do to the registry and the ledger.
ChainGrown ==
  /\ owner' \in [Namespace -> Namespace]
  /\ \A p \in Namespace : owner'[owner'[p]] = owner'[p]
  /\ \A p, q \in Namespace : owner[p] = owner[q] => owner'[p] = owner'[q]
  /\ ledgerRows' \in Seq(LedgerRow) /\ Len(ledgerRows') <= MaxRows
  /\ \A i \in Numbers :
       /\ i \in DOMAIN ledgerRows'
       /\ ledgerRows'[i].kind = ledgerRows[i].kind /\ ledgerRows'[i].of = ledgerRows[i].of
       /\ ledgerRows'[i].evidence = ledgerRows[i].evidence
       /\ ledgerRows'[i].migration = ledgerRows[i].migration
       /\ ledgerRows[i].status # "pending" => ledgerRows'[i].status # "pending"

LEMMA RowsTyped ==
  ASSUME ChainTyped, NEW i \in Numbers
  PROVE  ledgerRows[i] \in LedgerRow /\ i \in 1 .. MaxRows
BY EvidenceAssumption DEF ChainTyped, Numbers

LEMMA BelowKinds ==
  \A k \in Target : Below[k] \in {"l1", "l2", "l3"} /\ (Below[k] = "l1" <=> k = "l2")
                    /\ (Below[k] = "l2" <=> k = "l3") /\ (Below[k] = "l3" <=> k = "l4")
BY DEF Below, Target

\* The project a recorded row below is of.
LEMMA BelowOf ==
  ASSUME ChainInv, NEW i \in Numbers, ledgerRows[i].kind # "l4"
  PROVE  ledgerRows[i].of \in Namespace
BY RowsTyped DEF ChainInv, RowSound, LedgerRow

LEMMA ItemStays ==
  ASSUME ChainInv, ChainGrown, NEW e \in Item, NEW k \in {"l1", "l2", "l3"}, ItemSound(e, k)
  PROVE  ItemSound(e, k)'
<1>1. CASE e.ref \in L1
  BY <1>1 DEF ItemSound
<1>2. CASE e.ref \notin L1
  <2>1. e.ref \in Numbers /\ ledgerRows[e.ref].kind = e.layer /\ e.layer # "l4"
    BY <1>2 DEF ItemSound
  <2>2. ledgerRows[e.ref].of \in Namespace /\ e.under \in Namespace
    BY <2>1, BelowOf DEF Item
  <2>3. owner'[ledgerRows[e.ref].of] = owner'[e.under]
    BY <1>2, <2>2 DEF ChainGrown, ItemSound
  <2> QED  BY <1>2, <2>1, <2>3 DEF ItemSound, ChainGrown, Numbers
<1> QED  BY <1>1, <1>2

LEMMA TurnStays ==
  ASSUME ChainGrown, NEW e \in Item, NEW m \in BOOLEAN, TurnSound(e, m)
  PROVE  TurnSound(e, m)'
<1>1. e.under \in Namespace
  BY DEF Item
<1>2. e.ref \in L1 => Hinted[e.ref] \in Namespace /\ CoreHas[e.ref] \in Namespace
  BY EvidenceAssumption
<1> QED  BY <1>1, <1>2 DEF TurnSound, ChainGrown

LEMMA RowStays ==
  ASSUME ChainInv, ChainGrown, NEW row \in LedgerRow, RowSound(row)
  PROVE  RowSound(row)'
<1>1. /\ row.kind \in Target /\ row.migration \in BOOLEAN
      /\ \A e \in row.evidence : e \in Item /\ e.under \in Namespace
      /\ row.kind # "l4" => row.of \in Namespace
      /\ Base(row) \in {"l1", "l2", "l3"}
  BY BelowKinds DEF LedgerRow, Item, RowSound, Base
<1>2. \A e \in row.evidence : ItemSound(e, Base(row))'
  BY <1>1, ItemStays DEF RowSound
<1>3. ~(row.migration /\ row.status = "pending") =>
        \A e \in row.evidence : TurnSound(e, row.migration)'
  BY <1>1, TurnStays DEF RowSound
<1>4. row.status # "pending" /\ row.kind # "l4" =>
        \A e \in row.evidence : owner'[e.under] = owner'[row.of]
  BY <1>1 DEF RowSound, ChainGrown
<1>5. Base(row)' = Base(row) /\ Confirmed(row)' = Confirmed(row)
  BY DEF Base, Confirmed
<1> QED  BY <1>2, <1>3, <1>4, <1>5 DEF RowSound

LEMMA SubmitStays ==
  ASSUME ChainInv, ChainGrown, NEW w \in SubmitType, SubmitSound(w)
  PROVE  SubmitSound(w)'
<1>1. w # Unscoped => w.kind \in Target /\ w.of \in AnyScope
  BY DEF SubmitType, Starting, Validating, Recording, Deriving, Replacing, Target, AnyScope
<1>2. w # Unscoped /\ w.kind # "l4" => w.of \in Namespace
  BY <1>1 DEF SubmitSound, AnyScope
<1>3. w # Unscoped /\ w.at \notin {"derive", "replace"} => JobMatches(w)'
  <2> SUFFICES ASSUME w # Unscoped, w.at \notin {"derive", "replace"}, w.job # Unscoped
               PROVE  JobMatches(w)'
      BY DEF JobMatches
  <2>1. w.job \in Numbers /\ ledgerRows[w.job].kind = w.kind
    BY DEF SubmitSound, JobMatches
  <2>2. w.kind # "l4" => ledgerRows[w.job].of \in Namespace
    BY <2>1, BelowOf
  <2> QED  BY <1>2, <2>1, <2>2 DEF SubmitSound, JobMatches, ChainGrown, Numbers
<1>4. w # Unscoped /\ w.at = "evidence" /\ w.kind # "l4" =>
        \A q \in w.ids : owner'[q] = owner'[w.of]
  <2>1. w.at = "evidence" => w.ids \subseteq Namespace
    BY DEF SubmitType, Starting, Validating, Recording, Deriving, Replacing
  <2> QED  BY <1>2, <2>1 DEF SubmitSound, ChainGrown
<1>5. w # Unscoped /\ w.at = "record" => ItemsSound(w)'
  <2> SUFFICES ASSUME w # Unscoped, w.at = "record"
               PROVE  ItemsSound(w)'
      OBVIOUS
  <2>1. ItemsSound(w) /\ \A e \in w.items : e \in Item /\ e.under \in Namespace
    BY DEF SubmitSound, SubmitType, Starting, Validating, Recording, Deriving, Replacing, Item
  <2>2. \A e \in w.items : ItemSound(e, Below[w.kind])'
    <3>1. w # Unscoped => Below[w.kind] \in {"l1", "l2", "l3"}
      BY <1>1, BelowKinds
    <3> QED  BY <2>1, <3>1, ItemStays DEF ItemsSound
  <2>3. w.kind # "l4" => \A e \in w.items : owner'[e.under] = owner'[w.of]
    BY <1>2, <2>1 DEF ItemsSound, ChainGrown
  <2>4. CASE w.job = Unscoped
    <3>1. \A e \in w.items : TurnSound(e, FALSE)'
      BY <2>1, <2>4, TurnStays DEF ItemsSound
    <3> QED  BY <2>1, <2>2, <2>3, <2>4, <3>1 DEF ItemsSound
  <2>5. CASE w.job # Unscoped
    <3>1. w.job \in Numbers
      BY <2>5 DEF SubmitSound, JobMatches
    <3>2. PICK m \in BOOLEAN : m = ledgerRows[w.job].migration
      BY <3>1, RowsTyped DEF ChainInv, LedgerRow
    <3>3. \A e \in w.items : TurnSound(e, m)'
      BY <2>1, <2>5, <3>2, TurnStays DEF ItemsSound
    <3>4. ledgerRows'[w.job].migration = m /\ ledgerRows'[w.job].evidence = w.items
      BY <2>1, <2>5, <3>1, <3>2 DEF ItemsSound, ChainGrown
    <3>5. \A e \in w.items : TurnSound(e, ledgerRows[w.job].migration)'
      BY <3>3, <3>4
    <3> QED  BY <2>1, <2>2, <2>3, <2>5, <3>4, <3>5 DEF ItemsSound
  <2> QED  BY <2>4, <2>5
<1>6. w # Unscoped /\ w.at = "derive" =>
        /\ w.row \in DOMAIN ledgerRows' /\ ledgerRows'[w.row].kind = w.kind
        /\ ledgerRows'[w.row].status # "pending"
        /\ owner'[ledgerRows'[w.row].of] = owner'[w.of]
  <2> SUFFICES ASSUME w # Unscoped, w.at = "derive"
               PROVE  /\ w.row \in DOMAIN ledgerRows' /\ ledgerRows'[w.row].kind = w.kind
                      /\ ledgerRows'[w.row].status # "pending"
                      /\ owner'[ledgerRows'[w.row].of] = owner'[w.of]
      OBVIOUS
  <2>1. w.kind # "l4" /\ w.row \in Numbers /\ ledgerRows[w.row].kind = w.kind
    BY DEF SubmitSound, SubmitType, Starting, Validating, Recording, Deriving, Replacing
  <2>2. ledgerRows[w.row].of \in Namespace
    BY <2>1, BelowOf
  <2> QED  BY <1>2, <2>1, <2>2 DEF SubmitSound, ChainGrown
<1> QED  BY <1>3, <1>4, <1>5, <1>6 DEF SubmitSound, Numbers

-----------------------------------------------------------------------------
\* What was found sound before the step is sound after it.
LEMMA ChainStep ==
  ASSUME ChainInv, ChainGrown,
         \A i \in DOMAIN ledgerRows' :
            \E row \in LedgerRow : ledgerRows'[i] = row /\ RowSound(row),
         submits' \in [Submitter -> SubmitType \cup {Unscoped}],
         \A s \in Submitter : \E w \in SubmitType \cup {Unscoped} :
            submits'[s] = w /\ (SubmitSound(w) \/ (w # Unscoped /\ SubmitSound(w)'))
  PROVE  ChainInv'
<1>1. ChainTyped'
  BY DEF ChainTyped, ChainGrown
<1>2. ASSUME NEW i \in DOMAIN ledgerRows'
      PROVE  RowSound(ledgerRows[i])'
  <2>1. PICK row \in LedgerRow : ledgerRows'[i] = row /\ RowSound(row)
    OBVIOUS
  <2>2. RowSound(row)'
    BY <2>1, RowStays
  <2> QED  BY <2>1, <2>2
<1>3. ASSUME NEW s \in Submitter
      PROVE  SubmitSound(submits[s])'
  <2>1. PICK w \in SubmitType \cup {Unscoped} :
           submits'[s] = w /\ (SubmitSound(w) \/ (w # Unscoped /\ SubmitSound(w)'))
    OBVIOUS
  <2>2. w # Unscoped => SubmitSound(w)'
    BY <2>1, SubmitStays
  <2>3. w = Unscoped => SubmitSound(w)'
    BY DEF SubmitSound
  <2> QED  BY <2>1, <2>2, <2>3
<1> QED  BY <1>1, <1>2, <1>3 DEF ChainInv, Numbers

\* The same for a step that leaves the registry and the ledger as they are.
LEMMA OnlySubmits ==
  ASSUME ChainInv, UNCHANGED <<owner, ledgerRows>>,
         NEW s \in Submitter, NEW x \in SubmitType \cup {Unscoped}, SubmitSound(x),
         Advance(s, x)
  PROVE  ChainInv'
<1>1. ChainGrown
  BY DEF ChainInv, ChainTyped, ChainGrown, Numbers
<1>2. \A i \in DOMAIN ledgerRows' :
         \E row \in LedgerRow : ledgerRows'[i] = row /\ RowSound(row)
  BY RowsTyped DEF ChainInv, Numbers
<1>3. submits' \in [Submitter -> SubmitType \cup {Unscoped}]
  BY DEF Advance, ChainInv, ChainTyped
<1>4. \A t \in Submitter : submits'[t] \in {submits[t], x} /\ SubmitSound(submits'[t])
  BY DEF Advance, ChainInv, ChainTyped
<1> QED  BY <1>1, <1>2, <1>3, <1>4, ChainStep

\* One row is added.
LEMMA RowAdded ==
  ASSUME ChainInv, owner' = owner, NEW row \in LedgerRow, RowSound(row),
         ledgerRows' = Append(ledgerRows, row), Len(ledgerRows') <= MaxRows
  PROVE  /\ ChainGrown
         /\ \A i \in DOMAIN ledgerRows' :
              \E r \in LedgerRow : ledgerRows'[i] = r /\ RowSound(r)
<1>1. ledgerRows \in Seq(LedgerRow)
  BY DEF ChainInv, ChainTyped
<1>2. /\ ledgerRows' \in Seq(LedgerRow)
      /\ \A i \in Numbers : i \in DOMAIN ledgerRows' /\ ledgerRows'[i] = ledgerRows[i]
      /\ \A i \in DOMAIN ledgerRows' : i \in Numbers \/ ledgerRows'[i] = row
  BY <1>1 DEF Numbers
<1>3. ChainGrown
  BY <1>2 DEF ChainGrown, ChainInv, ChainTyped
<1>4. \A i \in DOMAIN ledgerRows' :
         \E r \in LedgerRow : ledgerRows'[i] = r /\ RowSound(r)
  BY <1>2, RowsTyped DEF ChainInv
<1> QED  BY <1>3, <1>4

LEMMA RowQueued ==
  ASSUME ChainInv, owner' = owner, NEW row \in LedgerRow, RowSound(row),
         ledgerRows' = Queued(row), Len(ledgerRows') <= MaxRows
  PROVE  /\ ChainGrown
         /\ \A i \in DOMAIN ledgerRows' :
              \E r \in LedgerRow : ledgerRows'[i] = r /\ RowSound(r)
<1>1. ledgerRows' = ledgerRows \/ ledgerRows' = Append(ledgerRows, row)
  BY DEF Queued
<1>2. CASE ledgerRows' = ledgerRows
  BY <1>2, RowsTyped DEF ChainInv, ChainTyped, ChainGrown, Numbers
<1>3. CASE ledgerRows' = Append(ledgerRows, row)
  BY <1>3, RowAdded
<1> QED  BY <1>1, <1>2, <1>3

\* One row gets another status.
LEMMA RowSettled ==
  ASSUME ChainInv, owner' = owner, NEW i \in Numbers,
         NEW status \in {"completed", "retired"},
         ledgerRows' = [ledgerRows EXCEPT ![i].status = status],
         RowSound([ledgerRows[i] EXCEPT !.status = status])
  PROVE  /\ ChainGrown
         /\ \A j \in DOMAIN ledgerRows' :
              \E r \in LedgerRow : ledgerRows'[j] = r /\ RowSound(r)
<1> DEFINE new == [ledgerRows[i] EXCEPT !.status = status]
<1>1. /\ new \in LedgerRow /\ new.status = status /\ new.kind = ledgerRows[i].kind
      /\ new.of = ledgerRows[i].of /\ new.evidence = ledgerRows[i].evidence
      /\ new.migration = ledgerRows[i].migration
  BY RowsTyped DEF LedgerRow, ChainInv
<1>2. ledgerRows' = [ledgerRows EXCEPT ![i] = new] /\ RowSound(new)
  OBVIOUS
<1> HIDE DEF new
<1>3. ledgerRows \in Seq(LedgerRow)
  BY DEF ChainInv, ChainTyped
<1>4. /\ ledgerRows' \in Seq(LedgerRow) /\ Len(ledgerRows') = Len(ledgerRows)
      /\ DOMAIN ledgerRows' = Numbers /\ ledgerRows'[i] = new
      /\ \A j \in Numbers : j # i => ledgerRows'[j] = ledgerRows[j]
  BY <1>1, <1>2, <1>3 DEF Numbers
<1>5. ChainGrown
  BY <1>1, <1>4 DEF ChainGrown, ChainInv, ChainTyped
<1>6. \A j \in DOMAIN ledgerRows' :
         \E r \in LedgerRow : ledgerRows'[j] = r /\ RowSound(r)
  BY <1>1, <1>2, <1>4, RowsTyped DEF ChainInv
<1> QED  BY <1>5, <1>6

-----------------------------------------------------------------------------
LEMMA MergeStep ==
  ASSUME ChainInv, NEW p \in Namespace, NEW q \in Namespace, MergeProject(p, q)
  PROVE  ChainInv'
<1>1. /\ owner \in [Namespace -> Namespace] /\ owner[q] = q /\ p # q
      /\ \A r \in Namespace : owner[r] \in Namespace /\ owner[owner[r]] = owner[r]
      /\ owner' = [r \in Namespace |-> IF owner[r] = p THEN q ELSE owner[r]]
  BY DEF MergeProject, ChainInv, ChainTyped
<1>2. /\ owner' \in [Namespace -> Namespace]
      /\ \A r \in Namespace : owner'[r] = IF owner[r] = p THEN q ELSE owner[r]
  BY <1>1
<1>3. \A r \in Namespace : owner'[owner'[r]] = owner'[r]
  BY <1>1, <1>2
<1>4. ledgerRows' = ledgerRows /\ submits' = submits
  BY DEF MergeProject
<1>5. ChainGrown
  BY <1>2, <1>3, <1>4 DEF ChainGrown, ChainInv, ChainTyped, Numbers
<1>6. \A i \in DOMAIN ledgerRows' :
         \E row \in LedgerRow : ledgerRows'[i] = row /\ RowSound(row)
  BY <1>4, RowsTyped DEF ChainInv, Numbers
<1>7. \A s \in Submitter : submits'[s] \in SubmitType \cup {Unscoped}
                           /\ SubmitSound(submits'[s])
  BY <1>4 DEF ChainInv, ChainTyped
<1>8. submits' \in [Submitter -> SubmitType \cup {Unscoped}]
  BY <1>4 DEF ChainInv, ChainTyped
<1> QED  BY <1>5, <1>6, <1>7, <1>8, ChainStep

\* The ledger moves, the submits do not.
LEMMA OnlyLedger ==
  ASSUME ChainInv, ChainGrown, submits' = submits,
         \A i \in DOMAIN ledgerRows' :
            \E row \in LedgerRow : ledgerRows'[i] = row /\ RowSound(row)
  PROVE  ChainInv'
<1>1. submits' \in [Submitter -> SubmitType \cup {Unscoped}]
      /\ \A s \in Submitter : submits'[s] \in SubmitType \cup {Unscoped}
                              /\ SubmitSound(submits'[s])
  BY DEF ChainInv, ChainTyped
<1> QED  BY <1>1, ChainStep

LEMMA RetireStep ==
  ASSUME ChainInv, NEW i \in Numbers, RetireRevision(i)
  PROVE  ChainInv'
<1>1. ledgerRows[i] \in LedgerRow /\ RowSound(ledgerRows[i])
  BY RowsTyped DEF ChainInv
<1>2. ledgerRows[i].status = "completed" /\ owner' = owner /\ submits' = submits
      /\ ledgerRows' = [ledgerRows EXCEPT ![i].status = "retired"]
  BY DEF RetireRevision
<1> DEFINE old == ledgerRows[i]
           new == [old EXCEPT !.status = "retired"]
<1>3. /\ new.kind = old.kind /\ new.of = old.of /\ new.evidence = old.evidence
      /\ new.migration = old.migration /\ new.authorized = old.authorized
      /\ new.status = "retired" /\ old.status # "pending"
  BY <1>1, <1>2 DEF LedgerRow
<1>4. /\ Confirmed(old) => Confirmed(new)
      /\ Base(new) = Base(old)
  BY <1>3 DEF Confirmed, Base
<1>5. RowSound(old)
  BY <1>1
<1> HIDE DEF old, new
<1>6. RowSound(new)
  BY <1>3, <1>4, <1>5 DEF RowSound
<1> QED  BY <1>2, <1>6, RowSettled, OnlyLedger DEF old, new

\* The turns of a queued row are under its project.
LEMMA TurnsQueued ==
  ASSUME ChainInv, NEW p \in Namespace, NEW ts \in SUBSET L1, NEW migration \in BOOLEAN,
         ~migration => \A t \in ts : owner[Hinted[t]] = p
  PROVE  /\ NewRow("l2", p, Turns(ts, p), "pending", migration) \in LedgerRow
         /\ RowSound(NewRow("l2", p, Turns(ts, p), "pending", migration))
<1> DEFINE row == NewRow("l2", p, Turns(ts, p), "pending", migration)
<1>1. \A e \in Turns(ts, p) : /\ e \in Item /\ e.ref \in ts /\ e.layer = "l1"
                              /\ e.under = p
  BY DEF Turns, Item, Ref
<1>2. /\ row.kind = "l2" /\ row.of = p /\ row.evidence = Turns(ts, p)
      /\ row.status = "pending" /\ row.migration = migration /\ ~row.authorized
  BY DEF NewRow
<1>3. row \in LedgerRow
  BY <1>1 DEF NewRow, LedgerRow, Target
<1>4. \A e \in Turns(ts, p) : ItemSound(e, "l1")
  BY <1>1 DEF ItemSound
<1>5. ~migration => \A e \in Turns(ts, p) : TurnSound(e, migration)
  <2>1. \A e \in Turns(ts, p) : ~migration => owner[Hinted[e.ref]] = p
    BY <1>1
  <2>2. \A t \in ts : Hinted[t] \in Namespace
    BY EvidenceAssumption
  <2>3. ~migration => \A e \in Turns(ts, p) : owner[p] = p
    BY <1>1, <2>1, <2>2 DEF ChainInv, ChainTyped
  <2> QED  BY <1>1, <2>1, <2>3 DEF TurnSound
<1>6. p # Unscoped
  BY EvidenceAssumption
<1> HIDE DEF row
<1>7. RowSound(row)
  BY <1>2, <1>4, <1>5, <1>6, BelowKinds DEF RowSound, Base, Target
<1> QED  BY <1>3, <1>7 DEF row

LEMMA QueueStep ==
  ASSUME ChainInv, NEW p \in Namespace, QueueTurns(p) \/ QueueLegacy(p)
  PROVE  ChainInv'
<1>1. PICK ts \in SUBSET L1, migration \in BOOLEAN :
         /\ ~migration => \A t \in ts : owner[Hinted[t]] = p
         /\ ledgerRows' = Queued(NewRow("l2", p, Turns(ts, p), "pending", migration))
  <2>1. CASE QueueTurns(p)
    BY <2>1, EvidenceAssumption DEF QueueTurns
  <2>2. CASE QueueLegacy(p)
    BY <2>2 DEF QueueLegacy
  <2> QED  BY <2>1, <2>2
<1>2. owner' = owner /\ submits' = submits /\ Len(ledgerRows) < MaxRows
  BY DEF QueueTurns, QueueLegacy, HasRoom
<1>3. PICK row \in LedgerRow : row = NewRow("l2", p, Turns(ts, p), "pending", migration)
                               /\ RowSound(row)
  BY <1>1, TurnsQueued
<1>4. Len(ledgerRows') <= MaxRows
  <2>1. ledgerRows' = ledgerRows \/ ledgerRows' = Append(ledgerRows, row)
    BY <1>1, <1>3 DEF Queued
  <2> QED  BY <1>2, <2>1, EvidenceAssumption DEF ChainInv, ChainTyped
<1> QED  BY <1>1, <1>2, <1>3, <1>4, RowQueued, OnlyLedger

-----------------------------------------------------------------------------
\* Which stage a submit is at says what it holds.
LEMMA SubmitStages ==
  ASSUME ChainInv, NEW s \in Submitter, submits[s] # Unscoped
  PROVE  /\ submits[s] \in SubmitType /\ SubmitSound(submits[s])
         /\ submits[s].at \in {"job", "ids"} => submits[s] \in Starting
         /\ submits[s].at = "evidence" => submits[s] \in Validating
         /\ submits[s].at = "record" => submits[s] \in Recording
         /\ submits[s].at = "derive" => submits[s] \in Deriving
         /\ submits[s].at = "replace" => submits[s] \in Replacing
         /\ submits[s].kind \in Target
         /\ submits[s].kind # "l4" => submits[s].of \in Namespace
<1>1. submits[s] \in SubmitType /\ SubmitSound(submits[s])
  BY DEF ChainInv, ChainTyped
<1>2. submits[s].kind \in Target /\ submits[s].of \in AnyScope
  BY <1>1 DEF SubmitType, Starting, Validating, Recording, Deriving, Replacing, Target, AnyScope
<1>3. submits[s].kind # "l4" => submits[s].of \in Namespace
  BY <1>1, <1>2 DEF SubmitSound, AnyScope
<1>4. /\ submits[s].at \in {"job", "ids"} => submits[s] \in Starting
      /\ submits[s].at = "evidence" => submits[s] \in Validating
      /\ submits[s].at = "record" => submits[s] \in Recording
      /\ submits[s].at = "derive" => submits[s] \in Deriving
      /\ submits[s].at = "replace" => submits[s] \in Replacing
  BY <1>1 DEF SubmitType, Starting, Validating, Recording, Deriving, Replacing
<1> QED  BY <1>1, <1>2, <1>3, <1>4

LEMMA TurnedDown ==
  ASSUME ChainInv, NEW s \in Submitter, TurnDown(s)
  PROVE  ChainInv'
<1>1. SubmitSound(Unscoped)
  BY DEF SubmitSound
<1> QED  BY <1>1, OnlySubmits DEF TurnDown

LEMMA BeginStep ==
  ASSUME ChainInv, NEW s \in Submitter, BeginDirect(s) \/ BeginJob(s)
  PROVE  ChainInv'
<1>1. \A k \in Target, p \in Namespace :
         ScopeOf(k, p) \in AnyScope /\ (k = "l4" <=> ScopeOf(k, p) = Unscoped)
  BY EvidenceAssumption DEF ScopeOf, AnyScope, ChainInv, ChainTyped
<1>2. CASE BeginDirect(s)
  <2>1. PICK k \in Target, p \in Namespace, refs \in NamedRefs :
           Advance(s, [at |-> "ids", kind |-> k, of |-> ScopeOf(k, p), refs |-> refs,
                       job |-> Unscoped])
    BY <1>2 DEF BeginDirect
  <2> DEFINE x == [at |-> "ids", kind |-> k, of |-> ScopeOf(k, p), refs |-> refs,
                   job |-> Unscoped]
  <2>2. x \in SubmitType
    BY <1>1, EvidenceAssumption DEF SubmitType, Starting
  <2>3. SubmitSound(x)
    BY <1>1 DEF SubmitSound, JobMatches
  <2>4. Advance(s, x) /\ UNCHANGED <<owner, ledgerRows>>
    BY <1>2, <2>1 DEF BeginDirect
  <2> HIDE DEF x
  <2> QED  BY <2>2, <2>3, <2>4, OnlySubmits
<1>3. CASE BeginJob(s)
  <2>1. PICK j \in Numbers, p \in Namespace :
           Advance(s, [at |-> "job", kind |-> ledgerRows[j].kind,
                       of |-> ScopeOf(ledgerRows[j].kind, p), refs |-> {}, job |-> j])
    BY <1>3 DEF BeginJob
  <2>2. PICK k \in Target : k = ledgerRows[j].kind
    BY RowsTyped DEF ChainInv, LedgerRow
  <2> DEFINE x == [at |-> "job", kind |-> k, of |-> ScopeOf(k, p), refs |-> {}, job |-> j]
  <2>3. x \in SubmitType
    BY <1>1, RowsTyped DEF SubmitType, Starting, ChainInv
  <2>4. SubmitSound(x)
    BY <1>1, <2>2 DEF SubmitSound, JobMatches
  <2>5. Advance(s, x) /\ UNCHANGED <<owner, ledgerRows>>
    BY <1>3, <2>1, <2>2 DEF BeginJob
  <2> HIDE DEF x
  <2> QED  BY <2>3, <2>4, <2>5, OnlySubmits
<1> QED  BY <1>2, <1>3

\* The job's project leads where the submit's does.
LEMMA MatchStep ==
  ASSUME ChainInv, NEW s \in Submitter, MatchJob(s)
  PROVE  ChainInv'
<1> DEFINE w == submits[s]
           of == ledgerRows[w.job].of
<1>1. w # Unscoped /\ w.at = "job" /\ w \in Starting /\ SubmitSound(w)
  BY SubmitStages DEF MatchJob, SubmitAt
<1>2. CASE TurnDown(s)
  BY <1>2, TurnedDown
<1>3. CASE /\ (IF of = Unscoped THEN Unscoped ELSE owner[of]) = w.of
           /\ Advance(s, [w EXCEPT !.at = "ids"]) /\ UNCHANGED <<owner, ledgerRows>>
  <2> DEFINE x == [w EXCEPT !.at = "ids"]
  <2>1. /\ x \in Starting /\ x.at = "ids" /\ x.kind = w.kind /\ x.of = w.of
        /\ x.job = w.job
    BY <1>1 DEF Starting
  <2>2. w.job # Unscoped /\ w.kind # "l4" => owner[of] = owner[w.of]
    <3>1. w.job # Unscoped /\ w.kind # "l4" => of \in Namespace
      BY <1>1, BelowOf DEF SubmitSound, JobMatches
    <3> QED  BY <1>3, <3>1, EvidenceAssumption DEF ChainInv, ChainTyped
  <2> HIDE DEF x
  <2>3. x \in SubmitType
    BY <2>1 DEF SubmitType
  <2>4. SubmitSound(x)
    BY <1>1, <2>1, <2>2 DEF SubmitSound, JobMatches
  <2>5. Advance(s, x) /\ UNCHANGED <<owner, ledgerRows>>
    BY <1>3 DEF x
  <2> QED  BY <2>3, <2>4, <2>5, OnlySubmits
<1> QED  BY <1>2, <1>3 DEF MatchJob

\* The ids a project is stored under all lead to it.
LEMMA IdsStep ==
  ASSUME ChainInv, NEW s \in Submitter, ReadIds(s)
  PROVE  ChainInv'
<1> DEFINE w == submits[s]
           ids == IF w.of = Unscoped THEN {} ELSE StoredUnder(w.of)
           x == [at |-> "evidence", kind |-> w.kind, of |-> w.of, refs |-> w.refs,
                 job |-> w.job, ids |-> ids]
<1>1. w # Unscoped /\ w.at = "ids" /\ w \in Starting /\ SubmitSound(w)
  BY SubmitStages DEF ReadIds, SubmitAt
<1>2. w.of \in Namespace => /\ StoredUnder(w.of) \subseteq Namespace
                            /\ \A q \in StoredUnder(w.of) : owner[q] = owner[w.of]
  BY DEF StoredUnder
<1>3. ids \subseteq Namespace /\ \A q \in ids : owner[q] = owner[w.of]
  BY <1>1, <1>2 DEF Starting, AnyScope
<1>4. Advance(s, x) /\ UNCHANGED <<owner, ledgerRows>>
  BY DEF ReadIds
<1> HIDE DEF ids
<1>5. x \in SubmitType
  BY <1>1, <1>3 DEF SubmitType, Starting, Validating
<1>6. SubmitSound(x)
  BY <1>1, <1>3 DEF SubmitSound, JobMatches
<1> HIDE DEF x
<1> QED  BY <1>4, <1>5, <1>6, OnlySubmits

-----------------------------------------------------------------------------
\* What validateDistillationEvidenceChain lets through is sound.
LEMMA JobEvidenceSound ==
  ASSUME ChainInv, NEW w \in Validating, SubmitSound(w), w # Unscoped,
         w.job # Unscoped, JobEvidence(w) # {},
         NEW x, x = [at |-> "record", kind |-> w.kind, of |-> w.of,
                     items |-> JobEvidence(w), job |-> w.job]
  PROVE  x \in SubmitType /\ SubmitSound(x)
<1> DEFINE row == ledgerRows[w.job]
<1>1. w.job \in Numbers /\ row.kind = w.kind /\ w.at = "evidence" /\ w.kind \in Target
      /\ w.of \in AnyScope
  BY DEF SubmitSound, JobMatches, Validating
<1>2. row \in LedgerRow /\ RowSound(row)
  BY <1>1, RowsTyped DEF ChainInv
<1>3. /\ JobEvidence(w) = row.evidence /\ row.evidence # {}
      /\ \A e \in row.evidence : e.layer = Below[w.kind]
      /\ w.kind # "l4" => \A e \in row.evidence : e.under \in w.ids
      /\ row.migration => InCoreScope(row.evidence, w.of)
  BY DEF JobEvidence
<1>4. w.kind # "l4" => \A e \in row.evidence : owner[e.under] = owner[w.of]
  BY <1>1, <1>3 DEF SubmitSound
<1>5. w.kind # "l4" => w.of \in Namespace
  BY <1>1 DEF SubmitSound, AnyScope
<1>6. \A e \in row.evidence : TurnSound(e, row.migration)
  <2>1. CASE row.migration
    <3>1. w.kind = "l2"
      BY <1>1, <1>2, <2>1 DEF RowSound
    <3>2. \A e \in row.evidence : CoreHas[e.ref] \in StoredUnder(w.of)
      BY <1>3, <2>1 DEF InCoreScope
    <3>3. \A e \in row.evidence : owner[CoreHas[e.ref]] = owner[w.of]
      BY <3>2 DEF StoredUnder
    <3> QED  BY <1>4, <2>1, <3>1, <3>3 DEF TurnSound
  <2>2. CASE ~row.migration
    BY <1>2, <2>2 DEF RowSound
  <2> QED  BY <2>1, <2>2
<1>7. x \in SubmitType
  <2>1. row.evidence \in SUBSET Item /\ w.job \in Nat \cup {Unscoped}
    BY <1>2 DEF LedgerRow, Validating
  <2> QED  BY <1>1, <1>3, <2>1 DEF SubmitType, Recording
<1>8. /\ x.at = "record" /\ x.kind = w.kind /\ x.of = w.of /\ x.items = row.evidence
      /\ x.job = w.job
  BY <1>3
<1>9. ItemsSound(x)
  <2>1. \A e \in row.evidence : ItemSound(e, Below[w.kind])
    BY <1>2, <1>3 DEF RowSound, ItemSound
  <2> QED  BY <1>1, <1>3, <1>4, <1>6, <1>8, <2>1 DEF ItemsSound
<1>10. JobMatches(x)
  BY <1>1, <1>8 DEF SubmitSound, JobMatches
<1> QED  BY <1>7, <1>8, <1>9, <1>10 DEF SubmitSound

LEMMA NamedEvidenceSound ==
  ASSUME ChainInv, NEW w \in Validating, SubmitSound(w), w # Unscoped,
         w.job = Unscoped, NamedEvidence(w) # {},
         NEW x, x = [at |-> "record", kind |-> w.kind, of |-> w.of,
                     items |-> NamedEvidence(w), job |-> w.job]
  PROVE  x \in SubmitType /\ SubmitSound(x)
<1>1. w.at = "evidence" /\ w.kind \in Target /\ w.of \in AnyScope
  BY DEF Validating
<1> DEFINE turns == {[ref |-> t, layer |-> "l1", under |-> Hinted[t]] : t \in w.refs \cap Usable}
           results == {[ref |-> i, layer |-> Below[w.kind], under |-> ledgerRows[i].of] :
                         i \in w.refs \cap Revisions(Below[w.kind])}
           items == NamedEvidence(w)
<1>2. /\ items = IF w.kind = "l2" THEN turns ELSE results
      /\ w.kind # "l4" => \A e \in items : e.under \in w.ids
  BY DEF NamedEvidence
<1>3. \A e \in turns : /\ e \in Item /\ e.layer = "l1" /\ e.ref \in L1
                       /\ e.under = Hinted[e.ref]
  BY EvidenceAssumption DEF Item, Ref
<1>4. w.kind # "l2" =>
        \A e \in results : /\ e \in Item /\ e.layer = Below[w.kind] /\ e.ref \in Numbers
                           /\ e.ref \notin L1 /\ ledgerRows[e.ref].kind = e.layer
                           /\ ledgerRows[e.ref].status # "pending"
                           /\ e.under = ledgerRows[e.ref].of
  <2> SUFFICES ASSUME w.kind # "l2",
                      NEW i \in w.refs \cap Revisions(Below[w.kind]),
                      NEW e, e = [ref |-> i, layer |-> Below[w.kind], under |-> ledgerRows[i].of]
               PROVE  /\ e \in Item /\ e.layer = Below[w.kind] /\ e.ref \in Numbers
                      /\ e.ref \notin L1 /\ ledgerRows[e.ref].kind = e.layer
                      /\ ledgerRows[e.ref].status # "pending"
                      /\ e.under = ledgerRows[e.ref].of
      OBVIOUS
  <2>1. /\ i \in Numbers /\ ledgerRows[i].kind = Below[w.kind]
        /\ ledgerRows[i].status # "pending"
    BY DEF Revisions
  <2>2. Below[w.kind] \in {"l1", "l2", "l3"} /\ Below[w.kind] # "l4"
    BY <1>1, BelowKinds
  <2>3. ledgerRows[i].of \in Namespace
    BY <2>1, <2>2, BelowOf
  <2>4. i \in 1 .. MaxRows /\ i \notin L1
    BY <2>1, RowsTyped, EvidenceAssumption DEF ChainInv
  <2> QED  BY <2>1, <2>2, <2>3, <2>4 DEF Item, Ref
<1> HIDE DEF turns, results, items
<1>5. items # {} /\ items \subseteq Item
  BY <1>2, <1>3, <1>4 DEF items
<1>6. \A e \in items : ItemSound(e, Below[w.kind]) /\ TurnSound(e, FALSE)
  <2>1. CASE w.kind = "l2"
    BY <1>1, <1>2, <1>3, <2>1, BelowKinds DEF ItemSound, TurnSound
  <2>2. CASE w.kind # "l2"
    BY <1>1, <1>2, <1>4, <2>2, BelowKinds DEF ItemSound, TurnSound
  <2> QED  BY <2>1, <2>2
<1>7. w.kind # "l4" => \A e \in items : owner[e.under] = owner[w.of]
  BY <1>1, <1>2 DEF SubmitSound
<1>8. /\ x.at = "record" /\ x.kind = w.kind /\ x.of = w.of /\ x.items = items
      /\ x.job = Unscoped
  BY DEF items
<1>9. x \in SubmitType
  BY <1>1, <1>5, <1>8 DEF SubmitType, Recording, items
<1>10. ItemsSound(x)
  BY <1>5, <1>6, <1>7, <1>8 DEF ItemsSound
<1> QED  BY <1>8, <1>9, <1>10 DEF SubmitSound, JobMatches

LEMMA ValidateStep ==
  ASSUME ChainInv, NEW s \in Submitter, Validate(s)
  PROVE  ChainInv'
<1> DEFINE items == IF submits[s].job = Unscoped THEN NamedEvidence(submits[s])
                    ELSE JobEvidence(submits[s])
<1>1. submits[s] # Unscoped /\ submits[s] \in Validating /\ SubmitSound(submits[s])
  BY SubmitStages DEF Validate, SubmitAt
<1>2. CASE items = {}
  BY <1>2, TurnedDown DEF Validate
<1>3. CASE items # {}
  <2> DEFINE x == [at |-> "record", kind |-> submits[s].kind, of |-> submits[s].of,
                   items |-> items, job |-> submits[s].job]
  <2>1. Advance(s, x) /\ UNCHANGED <<owner, ledgerRows>>
    BY <1>3 DEF Validate
  <2>2. x \in SubmitType /\ SubmitSound(x)
    BY <1>1, <1>3, JobEvidenceSound, NamedEvidenceSound
  <2> HIDE DEF x
  <2> QED  BY <2>1, <2>2, OnlySubmits
<1> QED  BY <1>2, <1>3

-----------------------------------------------------------------------------
\* A submit that moves to a stage that is sound in the ledger it leaves.
LEMMA LedgerAndSubmit ==
  ASSUME ChainInv, ChainGrown,
         \A i \in DOMAIN ledgerRows' :
            \E row \in LedgerRow : ledgerRows'[i] = row /\ RowSound(row),
         NEW s \in Submitter, NEW x \in SubmitType \cup {Unscoped}, Advance(s, x),
         SubmitSound(x)'
  PROVE  ChainInv'
<1>1. submits' \in [Submitter -> SubmitType \cup {Unscoped}]
  BY DEF Advance, ChainInv, ChainTyped
<1>2. \A t \in Submitter : \/ submits'[t] = submits[t]
                           \/ submits'[t] = x
  BY DEF Advance, ChainInv, ChainTyped
<1>3. \A t \in Submitter : submits[t] \in SubmitType \cup {Unscoped} /\ SubmitSound(submits[t])
  BY DEF ChainInv, ChainTyped
<1>4. SubmitSound(Unscoped)
  BY DEF SubmitSound
<1>5. \A t \in Submitter : \E w \in SubmitType \cup {Unscoped} :
         submits'[t] = w /\ (SubmitSound(w) \/ (w # Unscoped /\ SubmitSound(w)'))
  <2> SUFFICES ASSUME NEW t \in Submitter
               PROVE  \E w \in SubmitType \cup {Unscoped} :
                         submits'[t] = w /\ (SubmitSound(w) \/ (w # Unscoped /\ SubmitSound(w)'))
      OBVIOUS
  <2>1. CASE submits'[t] = submits[t]
    BY <1>3, <2>1
  <2>2. CASE submits'[t] = x
    BY <1>4, <2>2
  <2> QED  BY <1>2, <2>1, <2>2
<1> QED  BY <1>1, <1>5, ChainStep

LEMMA AtEnd ==
  ASSUME ChainInv, ChainGrown,
         \A i \in DOMAIN ledgerRows' :
            \E row \in LedgerRow : ledgerRows'[i] = row /\ RowSound(row),
         NEW s \in Submitter, Advance(s, Unscoped)
  PROVE  ChainInv'
<1>1. SubmitSound(Unscoped)'
  BY DEF SubmitSound
<1> QED  BY <1>1, LedgerAndSubmit

\* The result of a job is as sound as the evidence that was validated.
LEMMA JobCompleted ==
  ASSUME ChainInv, NEW s \in Submitter, RecordResult(s), submits[s].job # Unscoped
  PROVE  /\ ChainGrown
         /\ \A i \in DOMAIN ledgerRows' :
              \E r \in LedgerRow : ledgerRows'[i] = r /\ RowSound(r)
         /\ submits[s].job \in Numbers
         /\ ledgerRows'[submits[s].job].status = "completed"
         /\ ledgerRows[submits[s].job].kind = submits[s].kind
         /\ submits[s].kind # "l4" =>
              owner[ledgerRows[submits[s].job].of] = owner[submits[s].of]
<1> DEFINE w == submits[s]
           row == ledgerRows[w.job]
           new == [row EXCEPT !.status = "completed"]
<1>1. w # Unscoped /\ w.at = "record" /\ w \in Recording /\ SubmitSound(w)
  BY SubmitStages DEF RecordResult, SubmitAt
<1>2. /\ w.job \in Numbers /\ row.kind = w.kind
      /\ w.kind # "l4" => owner[row.of] = owner[w.of]
      /\ ItemsSound(w)
  BY <1>1 DEF SubmitSound, JobMatches
<1>3. row \in LedgerRow /\ RowSound(row)
  BY <1>2, RowsTyped DEF ChainInv
<1>4. /\ new.kind = row.kind /\ new.of = row.of /\ new.evidence = row.evidence
      /\ new.migration = row.migration /\ new.status = "completed"
      /\ new.authorized = row.authorized
  BY <1>3 DEF LedgerRow
<1>5. w.items = row.evidence
  BY <1>2 DEF ItemsSound
<1> HIDE DEF new
<1>6. RowSound(new)
  <2>1. Base(new) = Base(row) /\ (Confirmed(row) => Confirmed(new))
    BY <1>4 DEF Base, Confirmed
  <2> QED  BY <1>2, <1>3, <1>4, <1>5, <2>1 DEF RowSound, ItemsSound
<1>7. ledgerRows' = [ledgerRows EXCEPT ![w.job].status = "completed"] /\ owner' = owner
  BY DEF RecordResult
<1>8. ledgerRows'[w.job].status = "completed"
  BY <1>2, <1>3, <1>7 DEF ChainInv, ChainTyped, LedgerRow, Numbers
<1>9. RowSound([ledgerRows[w.job] EXCEPT !.status = "completed"])
  BY <1>6 DEF new
<1> HIDE DEF w, row
<1>10. /\ ChainGrown
       /\ \A i \in DOMAIN ledgerRows' :
            \E r \in LedgerRow : ledgerRows'[i] = r /\ RowSound(r)
  BY <1>2, <1>7, <1>9, RowSettled
<1> QED  BY <1>2, <1>8, <1>10 DEF w, row

LEMMA LastAppended ==
  ASSUME NEW S, NEW q \in Seq(S), NEW x \in S
  PROVE  /\ Len(q) + 1 \in DOMAIN Append(q, x)
         /\ Append(q, x)[Len(q) + 1] = x
OBVIOUS

\* A record that is there already, or a new one.
LEMMA RowRecorded ==
  ASSUME ChainInv, NEW row \in LedgerRow, RowSound(row), owner' = owner,
         ledgerRows' = LedgerWith(row), Len(ledgerRows') <= MaxRows
  PROVE  /\ ChainGrown
         /\ \A i \in DOMAIN ledgerRows' :
              \E r \in LedgerRow : ledgerRows'[i] = r /\ RowSound(r)
         /\ \E i \in DOMAIN ledgerRows' : ledgerRows'[i] = row
<1>1. ledgerRows' = IF row \in {ledgerRows[i] : i \in Numbers} THEN ledgerRows
                    ELSE Append(ledgerRows, row)
  BY DEF LedgerWith
<1>2. ledgerRows \in Seq(LedgerRow)
  BY DEF ChainInv, ChainTyped
<1>3. CASE ledgerRows' = ledgerRows /\ row \in {ledgerRows[i] : i \in Numbers}
  <2>1. \E i \in DOMAIN ledgerRows' : ledgerRows'[i] = row
    BY <1>3 DEF Numbers
  <2>2. ChainGrown
    BY <1>3 DEF ChainInv, ChainTyped, ChainGrown, Numbers
  <2>3. \A i \in DOMAIN ledgerRows' :
          \E r \in LedgerRow : ledgerRows'[i] = r /\ RowSound(r)
    BY <1>3, RowsTyped DEF ChainInv, Numbers
  <2> QED  BY <2>1, <2>2, <2>3
<1>4. CASE ledgerRows' = Append(ledgerRows, row)
  <2>1. Len(ledgerRows) + 1 \in DOMAIN ledgerRows'
        /\ ledgerRows'[Len(ledgerRows) + 1] = row
    BY <1>2, <1>4, LastAppended
  <2>2. /\ ChainGrown
        /\ \A i \in DOMAIN ledgerRows' :
             \E r \in LedgerRow : ledgerRows'[i] = r /\ RowSound(r)
    BY <1>4, RowAdded
  <2> QED  BY <2>1, <2>2
<1> QED  BY <1>1, <1>3, <1>4

\* So is a result that was submitted without a job.
LEMMA RevisionRecorded ==
  ASSUME ChainInv, NEW s \in Submitter, RecordResult(s), submits[s].job = Unscoped,
         NEW row, row = NewRow(submits[s].kind, submits[s].of, submits[s].items,
                               "completed", FALSE)
  PROVE  /\ ChainGrown
         /\ \A i \in DOMAIN ledgerRows' :
              \E r \in LedgerRow : ledgerRows'[i] = r /\ RowSound(r)
         /\ \E i \in DOMAIN ledgerRows' : ledgerRows'[i] = row
<1> DEFINE w == submits[s]
<1>1. w # Unscoped /\ w.at = "record" /\ w \in Recording /\ SubmitSound(w)
  BY SubmitStages DEF RecordResult, SubmitAt
<1>2. ItemsSound(w) /\ (w.kind = "l4" <=> w.of = Unscoped)
  BY <1>1 DEF SubmitSound
<1>3. /\ row.kind = w.kind /\ row.of = w.of /\ row.evidence = w.items
      /\ row.status = "completed" /\ row.migration = FALSE /\ ~row.authorized
  BY DEF NewRow
<1>4. row \in LedgerRow
  BY <1>1 DEF NewRow, LedgerRow, Recording, AnyScope
<1>5. RowSound(row)
  BY <1>2, <1>3 DEF RowSound, ItemsSound, Base
<1>6. ledgerRows' = LedgerWith(row) /\ owner' = owner /\ Len(ledgerRows') <= MaxRows
  BY DEF RecordResult, RoomFor
<1> QED  BY <1>4, <1>5, <1>6, RowRecorded

LEMMA RecordStep ==
  ASSUME ChainInv, NEW s \in Submitter, RecordResult(s)
  PROVE  ChainInv'
<1>1. /\ submits[s] # Unscoped /\ submits[s].at = "record" /\ submits[s] \in Recording
      /\ SubmitSound(submits[s]) /\ submits[s].kind \in Target
      /\ submits[s].kind # "l4" => submits[s].of \in Namespace
  BY SubmitStages DEF RecordResult, SubmitAt
<1>2. PICK row : row = NewRow(submits[s].kind, submits[s].of, submits[s].items,
                              "completed", FALSE)
  OBVIOUS
<1>3. PICK n : n = IF submits[s].job # Unscoped THEN submits[s].job
                   ELSE CHOOSE i \in DOMAIN ledgerRows' : ledgerRows'[i] = row
  OBVIOUS
<1>4. /\ ChainGrown
      /\ \A i \in DOMAIN ledgerRows' :
           \E r \in LedgerRow : ledgerRows'[i] = r /\ RowSound(r)
      /\ n \in DOMAIN ledgerRows' /\ ledgerRows'[n].kind = submits[s].kind
      /\ ledgerRows'[n].status # "pending"
      /\ submits[s].kind # "l4" => owner'[ledgerRows'[n].of] = owner'[submits[s].of]
  <2>1. CASE submits[s].job # Unscoped
    <3>1. n = submits[s].job /\ owner' = owner
      BY <1>3, <2>1 DEF RecordResult
    <3> QED  BY <2>1, <3>1, JobCompleted DEF ChainGrown
  <2>2. CASE submits[s].job = Unscoped
    <3>1. \E i \in DOMAIN ledgerRows' : ledgerRows'[i] = row
      BY <1>2, <2>2, RevisionRecorded
    <3>2. n \in DOMAIN ledgerRows' /\ ledgerRows'[n] = row
      BY <1>3, <2>2, <3>1
    <3>3. row.kind = submits[s].kind /\ row.of = submits[s].of /\ row.status = "completed"
      BY <1>2 DEF NewRow
    <3> QED  BY <1>2, <2>2, <3>2, <3>3, RevisionRecorded
  <2> QED  BY <2>1, <2>2
<1>5. CASE Advance(s, Unscoped)
  BY <1>4, <1>5, AtEnd
<1>6. CASE /\ submits[s].kind \in {"l2", "l3"}
           /\ Advance(s, [at |-> "derive", kind |-> submits[s].kind,
                          of |-> submits[s].of, row |-> n])
  <2>1. PICK x : x = [at |-> "derive", kind |-> submits[s].kind,
                      of |-> submits[s].of, row |-> n]
    OBVIOUS
  <2>2. n \in Nat
    BY <1>4 DEF ChainGrown
  <2>3. x \in SubmitType
    BY <1>1, <1>6, <2>1, <2>2 DEF SubmitType, Deriving
  <2>4. /\ x.at = "derive" /\ x.kind = submits[s].kind /\ x.of = submits[s].of
        /\ x.row = n /\ x.kind # "l4" /\ x.of # Unscoped
    BY <1>1, <1>6, <2>1, EvidenceAssumption
  <2>5. SubmitSound(x)'
    BY <1>4, <2>4 DEF SubmitSound, Numbers
  <2>6. Advance(s, x)
    BY <1>6, <2>1
  <2> QED  BY <1>4, <2>3, <2>5, <2>6, LedgerAndSubmit
<1>7. \/ Advance(s, Unscoped)
      \/ /\ submits[s].kind \in {"l2", "l3"}
         /\ Advance(s, [at |-> "derive", kind |-> submits[s].kind,
                        of |-> submits[s].of, row |-> n])
  <2>1. n = IF submits[s].job # Unscoped THEN submits[s].job
            ELSE CHOOSE i \in DOMAIN ledgerRows' : ledgerRows'[i] = row
    BY <1>3
  <2> QED  BY <1>2, <2>1 DEF RecordResult
<1> QED  BY <1>5, <1>6, <1>7

-----------------------------------------------------------------------------
LEMMA DeriveStep ==
  ASSUME ChainInv, NEW s \in Submitter, DeriveNext(s)
  PROVE  ChainInv'
<1> DEFINE w == submits[s]
           item == [ref |-> w.row, layer |-> "l2", under |-> w.of]
           row == NewRow("l3", w.of, {item}, "pending", FALSE)
<1>1. w # Unscoped /\ w.at = "derive" /\ w.kind = "l2" /\ w \in Deriving /\ SubmitSound(w)
  BY SubmitStages DEF DeriveNext, SubmitAt
<1>2. /\ w.row \in Numbers /\ ledgerRows[w.row].kind = "l2" /\ w.of \in Namespace
      /\ ledgerRows[w.row].status # "pending" /\ owner[ledgerRows[w.row].of] = owner[w.of]
  BY <1>1 DEF SubmitSound, Deriving
<1>3. w.row \in 1 .. MaxRows /\ w.row \notin L1 /\ w.of # Unscoped
  BY <1>2, RowsTyped, EvidenceAssumption DEF ChainInv
<1>4. item \in Item /\ item.ref = w.row /\ item.layer = "l2" /\ item.under = w.of
  BY <1>2, <1>3 DEF Item, Ref
<1>5. ItemSound(item, "l2") /\ TurnSound(item, FALSE)
  BY <1>2, <1>3, <1>4 DEF ItemSound, TurnSound
<1>6. ledgerRows' = Queued(row) /\ Len(ledgerRows') <= MaxRows /\ owner' = owner
      /\ Advance(s, Unscoped)
  BY DEF DeriveNext, RoomFor
<1> HIDE DEF item
<1>7. /\ row \in LedgerRow /\ row.kind = "l3" /\ row.of = w.of /\ row.evidence = {item}
      /\ row.status = "pending" /\ row.migration = FALSE /\ ~row.authorized
  BY <1>2, <1>4 DEF NewRow, LedgerRow, Target
<1> HIDE DEF row
<1>8. RowSound(row)
  BY <1>3, <1>5, <1>7, BelowKinds DEF RowSound, Base, Target
<1> QED  BY <1>6, <1>7, <1>8, RowQueued, AtEnd

LEMMA PortraitStep ==
  ASSUME ChainInv, NEW s \in Submitter, DerivePortraitJob(s)
  PROVE  ChainInv'
<1>1. PICK set \in SUBSET Revisions("l3") :
         ledgerRows' = Queued(NewRow("l4", Unscoped,
            {[ref |-> i, layer |-> "l3", under |-> ledgerRows[i].of] : i \in set},
            "pending", FALSE))
  BY DEF DerivePortraitJob
<1> DEFINE items == {[ref |-> i, layer |-> "l3", under |-> ledgerRows[i].of] : i \in set}
           row == NewRow("l4", Unscoped, items, "pending", FALSE)
<1>2. \A i \in set : /\ i \in Numbers /\ ledgerRows[i].kind = "l3" /\ i \in 1 .. MaxRows
                     /\ ledgerRows[i].status # "pending" /\ i \notin L1
                     /\ ledgerRows[i].of \in Namespace
  <2> SUFFICES ASSUME NEW i \in set
               PROVE  /\ i \in Numbers /\ ledgerRows[i].kind = "l3" /\ i \in 1 .. MaxRows
                      /\ ledgerRows[i].status # "pending" /\ i \notin L1
                      /\ ledgerRows[i].of \in Namespace
      OBVIOUS
  <2>1. i \in Numbers /\ ledgerRows[i].kind = "l3" /\ ledgerRows[i].status = "completed"
    BY DEF Revisions
  <2> QED  BY <2>1, RowsTyped, BelowOf, EvidenceAssumption DEF ChainInv
<1>3. \A e \in items : /\ e \in Item /\ e.ref \in set /\ e.layer = "l3"
                       /\ e.under = ledgerRows[e.ref].of
  BY <1>2 DEF Item, Ref
<1>4. ledgerRows' = Queued(row) /\ Len(ledgerRows') <= MaxRows /\ owner' = owner
      /\ Advance(s, Unscoped)
  BY <1>1 DEF DerivePortraitJob, RoomFor
<1> HIDE DEF items
<1>5. \A e \in items : ItemSound(e, "l3") /\ TurnSound(e, FALSE)
  BY <1>2, <1>3 DEF ItemSound, TurnSound
<1>6. /\ row \in LedgerRow /\ row.kind = "l4" /\ row.of = Unscoped /\ row.evidence = items
      /\ row.status = "pending" /\ row.migration = FALSE /\ ~row.authorized
  BY <1>3 DEF NewRow, LedgerRow, Target
<1> HIDE DEF row
<1>7. RowSound(row)
  BY <1>5, <1>6, BelowKinds DEF RowSound, Base, Target
<1> QED  BY <1>4, <1>6, <1>7, RowQueued, AtEnd

\* A text the user dictated rests on the turn of the confirmation.
LEMMA ConfirmStep ==
  ASSUME ChainInv, NEW s \in Submitter, ConfirmReplacement(s)
  PROVE  ChainInv'
<1>1. PICK k \in {"l3", "l4"}, p \in Namespace, t \in Confirming :
         /\ k = "l3" => Hinted[t] = p
         /\ Advance(s, [at |-> "replace", kind |-> k,
                        of |-> IF k = "l4" THEN Unscoped ELSE p, turn |-> t])
  BY DEF ConfirmReplacement
<1> DEFINE x == [at |-> "replace", kind |-> k, of |-> IF k = "l4" THEN Unscoped ELSE p,
                 turn |-> t]
<1>2. x \in SubmitType
  BY EvidenceAssumption DEF SubmitType, Replacing, AnyScope
<1>3. SubmitSound(x)
  BY <1>1, EvidenceAssumption DEF SubmitSound
<1>4. Advance(s, x) /\ UNCHANGED <<owner, ledgerRows>>
  BY <1>1 DEF ConfirmReplacement
<1> HIDE DEF x
<1> QED  BY <1>2, <1>3, <1>4, OnlySubmits

LEMMA ReplaceStep ==
  ASSUME ChainInv, NEW s \in Submitter, RecordReplacement(s)
  PROVE  ChainInv'
<1>1. PICK w \in Replacing : w = submits[s] /\ SubmitSound(w) /\ w # Unscoped
  BY SubmitStages DEF RecordReplacement, SubmitAt
<1> DEFINE e == [ref |-> w.turn, layer |-> "l1", under |-> Hinted[w.turn]]
           row == Replacement(w.kind, w.of, w.turn)
<1>2. /\ w.kind \in {"l3", "l4"} /\ w.of \in AnyScope /\ w.turn \in L1
      /\ (w.kind = "l4" <=> w.of = Unscoped)
      /\ w.kind # "l4" => Hinted[w.turn] = w.of
  BY <1>1 DEF Replacing, SubmitSound
<1>3. /\ Turns({w.turn}, Hinted[w.turn]) = {e} /\ e \in Item /\ e.ref = w.turn
      /\ e.layer = "l1" /\ e.under = Hinted[w.turn]
  BY <1>2, EvidenceAssumption DEF Turns, Item, Ref
<1> HIDE DEF e
<1>4. /\ row.kind = w.kind /\ row.of = w.of /\ row.status = "completed"
      /\ row.evidence = {e} /\ row.evidence = Turns({w.turn}, Hinted[w.turn])
      /\ row.migration = FALSE /\ row.authorized = TRUE
  BY <1>3 DEF Replacement, NewRow
<1>5. row \in LedgerRow
  <2>1. row = [kind |-> w.kind, of |-> w.of, evidence |-> {e}, status |-> "completed",
               migration |-> FALSE, authorized |-> TRUE]
    <3> DEFINE plain == NewRow(w.kind, w.of, Turns({w.turn}, Hinted[w.turn]), "completed", FALSE)
    <3>1. plain = [kind |-> w.kind, of |-> w.of, evidence |-> {e}, status |-> "completed",
                   migration |-> FALSE, authorized |-> FALSE]
      BY <1>3 DEF NewRow
    <3>2. row = [plain EXCEPT !.authorized = TRUE]
      BY DEF Replacement
    <3> HIDE DEF row, plain
    <3> QED  BY <3>1, <3>2
  <2> HIDE DEF row
  <2> QED  BY <1>2, <1>3, <2>1 DEF LedgerRow, Target, AnyScope
<1> HIDE DEF row
<1>6. Confirmed(row)
  BY <1>2, <1>4 DEF Confirmed
<1>7. ItemSound(e, Base(row)) /\ TurnSound(e, FALSE)
  BY <1>2, <1>3, <1>4 DEF ItemSound, TurnSound, Base
<1>8. RowSound(row)
  BY <1>2, <1>3, <1>4, <1>6, <1>7 DEF RowSound
<1>9. ledgerRows' = LedgerWith(row) /\ Len(ledgerRows') <= MaxRows /\ owner' = owner
      /\ Advance(s, Unscoped)
  BY <1>1 DEF RecordReplacement, RoomFor, row
<1> QED  BY <1>5, <1>8, <1>9, RowRecorded, AtEnd

LEMMA ChainStart ==
  ASSUME EvidenceInit
  PROVE  ChainInv
<1>1. ChainTyped
  BY EvidenceAssumption, LedgerAssumption DEF EvidenceInit, ChainTyped
<1>2. \A p \in Namespace : owner[p] = p
  BY DEF EvidenceInit
<1>3. ASSUME NEW i \in Numbers
      PROVE  RowSound(ledgerRows[i])
  <2> DEFINE row == ledgerRows[i]
  <2>1. /\ row \in LedgerRow /\ i \in DOMAIN Ledger0 /\ row = Ledger0[i]
        /\ ledgerRows = Ledger0
    BY <1>1, RowsTyped DEF EvidenceInit, Numbers
  <2>2. /\ row.evidence # {} /\ (row.kind = "l4" <=> row.of = Unscoped)
        /\ row.migration => row.kind = "l2"
        /\ row.authorized => Confirmed(row)
        /\ \A e \in row.evidence :
             /\ e.layer = Base(row) /\ (row.kind # "l4" => e.under = row.of)
             /\ e.layer = "l1" =>
                  /\ e.ref \in L1
                  /\ row.migration /\ row.status # "pending" => CoreHas[e.ref] = e.under
                  /\ ~row.migration => Hinted[e.ref] = e.under
             /\ e.layer # "l1" =>
                  /\ e.ref \in Numbers /\ ledgerRows[e.ref].kind = e.layer
                  /\ ledgerRows[e.ref].status # "pending" /\ ledgerRows[e.ref].of = e.under
    <3>1. row.authorized => \A e \in row.evidence : e.layer = "l1"
      BY <2>1, LedgerAssumption DEF Confirmed, Turns
    <3> QED  BY <2>1, <3>1, LedgerAssumption DEF Numbers, Base
  <2>3. \A e \in row.evidence : e.under \in Namespace
    BY <2>1 DEF LedgerRow, Item
  <2> HIDE DEF row
  <2>4. \A e \in row.evidence : ItemSound(e, Base(row))
    <3>1. \A j \in Numbers : j \notin L1
      BY <1>1, RowsTyped, EvidenceAssumption
    <3> QED  BY <1>2, <2>2, <2>3, <3>1 DEF ItemSound
  <2>5. ~(row.migration /\ row.status = "pending") =>
          \A e \in row.evidence : TurnSound(e, row.migration)
    <3>1. \A e \in row.evidence : e.layer # "l1" => e.ref \notin L1
      BY <1>1, <2>2, RowsTyped, EvidenceAssumption
    <3> QED  BY <1>2, <2>2, <2>3, <3>1 DEF TurnSound
  <2>6. row.kind # "l4" => \A e \in row.evidence : owner[e.under] = owner[row.of]
    BY <2>2
  <2> QED  BY <2>2, <2>4, <2>5, <2>6 DEF RowSound, row
<1>4. \A s \in Submitter : SubmitSound(submits[s])
  BY DEF EvidenceInit, SubmitSound
<1> QED  BY <1>1, <1>3, <1>4 DEF ChainInv

\* The evidence of the recorded results, and of those on their way to be recorded,
\* is recorded and of merged projects at most, in every state.
THEOREM EvidenceInvariant == EvidenceSpec => []ChainInv
<1>1. EvidenceInit => ChainInv
  BY ChainStart
<1>2. ChainInv /\ [EvidenceNext]_evidenceVars => ChainInv'
  <2> SUFFICES ASSUME ChainInv, [EvidenceNext]_evidenceVars PROVE ChainInv'
      OBVIOUS
  <2>1. ASSUME NEW p \in Namespace, QueueTurns(p) \/ QueueLegacy(p) PROVE ChainInv'
    BY <2>1, QueueStep
  <2>2. ASSUME NEW p \in Namespace, NEW q \in Namespace, MergeProject(p, q) PROVE ChainInv'
    BY <2>2, MergeStep
  <2>3. ASSUME NEW i \in Numbers, RetireRevision(i) PROVE ChainInv'
    BY <2>3, RetireStep
  <2>4. ASSUME NEW s \in Submitter, BeginDirect(s) \/ BeginJob(s) PROVE ChainInv'
    BY <2>4, BeginStep
  <2>5. ASSUME NEW s \in Submitter, MatchJob(s) PROVE ChainInv'
    BY <2>5, MatchStep
  <2>6. ASSUME NEW s \in Submitter, ReadIds(s) PROVE ChainInv'
    BY <2>6, IdsStep
  <2>7. ASSUME NEW s \in Submitter, Validate(s) PROVE ChainInv'
    BY <2>7, ValidateStep
  <2>8. ASSUME NEW s \in Submitter, RecordResult(s) PROVE ChainInv'
    BY <2>8, RecordStep
  <2>9. ASSUME NEW s \in Submitter, DeriveNext(s) PROVE ChainInv'
    BY <2>9, DeriveStep
  <2>10. ASSUME NEW s \in Submitter, DerivePortraitJob(s) PROVE ChainInv'
    BY <2>10, PortraitStep
  <2>11. ASSUME NEW s \in Submitter, GoAway(s) PROVE ChainInv'
    BY <2>11, TurnedDown DEF GoAway
  <2>13. ASSUME NEW s \in Submitter, ConfirmReplacement(s) \/ RecordReplacement(s)
         PROVE  ChainInv'
    BY <2>13, ConfirmStep, ReplaceStep
  <2>12. CASE UNCHANGED evidenceVars
    <3>1. owner' = owner /\ ledgerRows' = ledgerRows /\ submits' = submits
      BY <2>12 DEF evidenceVars
    <3>2. ChainGrown
      BY <3>1 DEF ChainInv, ChainTyped, ChainGrown, Numbers
    <3>3. \A i \in DOMAIN ledgerRows' :
            \E row \in LedgerRow : ledgerRows'[i] = row /\ RowSound(row)
      BY <3>1, RowsTyped DEF ChainInv, Numbers
    <3> QED  BY <3>1, <3>2, <3>3, OnlyLedger
  <2> QED
    BY <2>1, <2>2, <2>3, <2>4, <2>5, <2>6, <2>7, <2>8, <2>9, <2>10, <2>11, <2>12, <2>13
       DEF EvidenceNext
<1> QED  BY <1>1, <1>2, PTL DEF EvidenceSpec

\* Every recorded result rests on recorded results of the layer below, or on the
\* turn in which the user confirmed the text dictated, and on nothing of a project
\* not merged with its own, whatever a submit's readings were overtaken by.
THEOREM EvidenceChainGrounded == EvidenceSpec => []ChainGrounded
<1>1. ChainInv => ChainGrounded
  <2> SUFFICES ASSUME ChainInv, NEW i \in Numbers, ledgerRows[i].status # "pending",
                      NEW e \in ledgerRows[i].evidence
               PROVE  /\ ~ledgerRows[i].authorized => e.layer = Below[ledgerRows[i].kind]
                      /\ e.ref \notin L1 => /\ ledgerRows[e.ref].kind = e.layer
                                            /\ ledgerRows[e.ref].status # "pending"
                      /\ owner[Origin(ledgerRows[i], e)] = owner[e.under]
                      /\ ledgerRows[i].kind # "l4" => owner[e.under] = owner[ledgerRows[i].of]
      BY DEF ChainGrounded, ChainInv, RowSound
  <2>1. RowSound(ledgerRows[i]) /\ ledgerRows[i] \in LedgerRow
    BY RowsTyped DEF ChainInv
  <2>2. ItemSound(e, Base(ledgerRows[i])) /\ TurnSound(e, ledgerRows[i].migration)
    BY <2>1 DEF RowSound
  <2>3. owner[Origin(ledgerRows[i], e)] = owner[e.under]
    BY <2>1, <2>2, SMTT(40) DEF Origin, ItemSound, TurnSound, LedgerRow
  <2> QED  BY <2>1, <2>2, <2>3 DEF RowSound, ItemSound, Base
<1> QED  BY <1>1, EvidenceInvariant, PTL

(***************************************************************************)
(* What a recursive function computes.  A function on 0..N that each step  *)
(* determines from the one before exists, by the least number it cannot be *)
(* continued to; the sums and the rounds below are such functions.         *)
(***************************************************************************)
Iterated(X, x0, N, next, f) ==
  /\ f \in [0..N -> X] /\ f[0] = x0
  /\ \A n \in 1..N : f[n] = next[<<n, f[n - 1]>>]
LEMMA Iterates ==
  ASSUME NEW X, NEW x0 \in X, NEW N \in Nat, NEW next \in [(1..N) \X X -> X]
  PROVE  \E f : Iterated(X, x0, N, next, f)
<1> USE DEF Iterated
<1> DEFINE Upto(m, f) == f[0] = x0 /\ \A n \in 1..m : f[n] = next[<<n, f[n - 1]>>]
           stuck == {m \in 0..N : \A f \in [0..m -> X] : ~Upto(m, f)}
<1> SUFFICES ASSUME stuck # {} PROVE FALSE
    BY SMTT(40)
<1>1. stuck \in SUBSET Nat
  OBVIOUS
<1>2. First(stuck) \in stuck /\ \A j \in stuck : First(stuck) <= j
  BY <1>1, FirstIsFirst
<1>3. PICK m \in 0..N : m = First(stuck)
  BY <1>2
<1>4. m # 0
  <2>1. [i \in 0..0 |-> x0] \in [0..0 -> X] /\ Upto(0, [i \in 0..0 |-> x0])
    OBVIOUS
  <2>2. m \in stuck
    BY <1>2, <1>3
  <2> QED  BY <2>1, <2>2
<1>5. m - 1 \in 0..N /\ ~(m <= m - 1)
  BY <1>4
<1>6. PICK f \in [0..(m - 1) -> X] : Upto(m - 1, f)
  <2>1. m - 1 \notin stuck
    <3> HIDE DEF stuck
    <3> QED  BY <1>2, <1>3, <1>5
  <2> QED  BY <1>5, <2>1
<1> DEFINE g == [i \in 0..m |-> IF i = m THEN next[<<m, f[m - 1]>>] ELSE f[i]]
<1>7. f[m - 1] \in X /\ m \in 1..N
  BY <1>4
<1>8. next[<<m, f[m - 1]>>] \in X
  BY <1>7
<1>9. g \in [0..m -> X]
  BY <1>4, <1>8
<1>10. g[0] = x0
  BY <1>4, <1>6
<1>11. ASSUME NEW n \in 1..m PROVE g[n] = next[<<n, g[n - 1]>>]
  <2>1. n - 1 \in 0..m /\ n - 1 # m /\ g[n - 1] = f[n - 1]
    OBVIOUS
  <2>2. CASE n = m
    BY <2>1, <2>2
  <2>3. CASE n # m
    <3>1. n \in 1..(m - 1) /\ g[n] = f[n]
      BY <2>3
    <3> QED  BY <1>6, <2>1, <3>1
  <2> QED  BY <2>2, <2>3
<1> QED  BY <1>2, <1>3, <1>9, <1>10, <1>11, Zenon

-----------------------------------------------------------------------------
(* Sums *)

SumsTo(size, f) == /\ f \in [0..Len(size) -> Nat] /\ f[0] = 0
                   /\ \A n \in 1..Len(size) : f[n] = f[n - 1] + size[n]

LEMMA SumOf ==
  ASSUME NEW size \in Seq(Nat)
  PROVE  \E f : SumsTo(size, f) /\ Summed(size) = f[Len(size)]
<1> DEFINE N == Len(size)
           next == [p \in (1..N) \X Nat |-> p[2] + size[p[1]]]
           Fits(f) == f = [n \in 0..N |-> IF n = 0 THEN 0 ELSE f[n - 1] + size[n]]
<1>1. N \in Nat /\ \A n \in 1..N : size[n] \in Nat
  OBVIOUS
<1>2. next \in [(1..N) \X Nat -> Nat] /\ \A n \in 1..N : \A v \in Nat : next[<<n, v>>] = v + size[n]
  BY <1>1
<1> HIDE DEF N, next
<1> HIDE DEF Fits
<1>3. PICK f \in [0..N -> Nat] : f[0] = 0 /\ \A n \in 1..N : f[n] = next[<<n, f[n - 1]>>]
  <2>1. \E f : Iterated(Nat, 0, N, next, f)
    BY <1>1, <1>2, Iterates
  <2> QED  BY <2>1 DEF Iterated
<1>4. \A n \in 1..N : n - 1 \in 0..N /\ f[n - 1] \in Nat /\ f[n] = f[n - 1] + size[n]
  <2> SUFFICES ASSUME NEW n \in 1..N
               PROVE  n - 1 \in 0..N /\ f[n - 1] \in Nat /\ f[n] = f[n - 1] + size[n]
      OBVIOUS
  <2>1. n - 1 \in 0..N
    BY <1>1
  <2>2. f[n - 1] \in Nat
    BY <1>3, <2>1
  <2> QED  BY <1>2, <1>3, <2>1, <2>2
<1> USE DEF Fits
<1>5. Fits(f)
  BY <1>3, <1>4
<1>6. PICK g : Fits(g) /\ Summed(size) = g[N]
  BY <1>5 DEF Summed, N
<1>7. g[0] = 0 /\ \A n \in 1..N : g[n] = g[n - 1] + size[n]
  BY <1>1, <1>6, SMTT(40)
<1> DEFINE apart == {n \in 0..N : g[n] # f[n]}
<1>8. apart = {}
  <2> SUFFICES ASSUME apart # {} PROVE FALSE
      OBVIOUS
  <2>1. apart \in SUBSET Nat
    OBVIOUS
  <2>2. PICK n \in apart : \A m \in apart : n <= m
    BY <2>1, FirstIsFirst
  <2>3. n \in 1..N /\ n - 1 \in 0..N /\ ~(n <= n - 1)
    BY <1>1, <1>3, <1>7
  <2>4. g[n - 1] = f[n - 1]
    BY <2>2, <2>3
  <2> QED  BY <1>4, <1>7, <2>2, <2>3, <2>4
<1>9. \A n \in 0..N : g[n] = f[n]
  BY <1>8
<1>10. SumsTo(size, f)
  BY <1>3, <1>4 DEF SumsTo, N
<1> QED  BY <1>1, <1>6, <1>9, <1>10 DEF N

LEMMA SumIsNat ==
  ASSUME NEW size \in Seq(Nat) PROVE Summed(size) \in Nat
<1>1. PICK f : SumsTo(size, f) /\ Summed(size) = f[Len(size)]
  BY SumOf
<1> QED  BY <1>1 DEF SumsTo

\* More terms, each at least as large, sum up to as much at least.
LEMMA SumMonotone ==
  ASSUME NEW v \in Seq(Nat), NEW w \in Seq(Nat), Len(v) <= Len(w),
         \A n \in 1..Len(v) : v[n] <= w[n]
  PROVE  Summed(v) <= Summed(w)
<1>1. PICK f : SumsTo(v, f) /\ Summed(v) = f[Len(v)]
  BY SumOf
<1>2. PICK g : SumsTo(w, g) /\ Summed(w) = g[Len(w)]
  BY SumOf
<1> DEFINE L == Len(v)
           M == Len(w)
           above == {n \in 0..L : ~(f[n] <= g[n])}
           falls == {n \in L..M : ~(g[L] <= g[n])}
<1>3. L \in Nat /\ M \in Nat /\ L <= M /\ above \in SUBSET Nat /\ falls \in SUBSET Nat
  OBVIOUS
<1>4. /\ f \in [0..L -> Nat] /\ f[0] = 0 /\ \A n \in 1..L : f[n] = f[n - 1] + v[n]
      /\ g \in [0..M -> Nat] /\ g[0] = 0 /\ \A n \in 1..M : g[n] = g[n - 1] + w[n]
  BY <1>1, <1>2 DEF SumsTo
<1>5. /\ \A n \in 1..L : v[n] \in Nat /\ w[n] \in Nat /\ v[n] <= w[n]
      /\ \A n \in 1..M : w[n] \in Nat
  BY SMTT(40)
<1> HIDE DEF L, M
<1>6. ASSUME above # {} PROVE FALSE
  <2>1. PICK n \in above : \A m \in above : n <= m
    BY <1>3, <1>6, FirstIsFirst
  <2>2. n \in 1..L /\ n - 1 \in 0..L /\ ~(n <= n - 1) /\ n \in 1..M /\ n - 1 \in 0..M
    BY <1>3, <1>4, <2>1
  <2>3. f[n - 1] <= g[n - 1]
    BY <2>1, <2>2
  <2>4. f[n - 1] \in Nat /\ g[n - 1] \in Nat
    BY <1>4, <2>2
  <2> QED  BY <1>4, <1>5, <2>1, <2>2, <2>3, <2>4, SMTT(40)
<1>7. ASSUME falls # {} PROVE FALSE
  <2>1. PICK n \in falls : \A m \in falls : n <= m
    BY <1>3, <1>7, FirstIsFirst
  <2>2. g[L] \in Nat /\ n # L
    BY <1>3, <1>4, <2>1
  <2>3. n \in 1..M /\ n - 1 \in L..M /\ n - 1 \in 0..M /\ ~(n <= n - 1)
    BY <1>3, <2>2
  <2>4. g[L] <= g[n - 1] /\ g[n - 1] \in Nat
    BY <1>4, <2>1, <2>3
  <2> QED  BY <1>4, <1>5, <2>1, <2>2, <2>3, <2>4, SMTT(40)
<1>8. f[L] <= g[L] /\ g[L] <= g[M] /\ f[L] \in Nat /\ g[L] \in Nat /\ g[M] \in Nat
  <2>1. L \in 0..L /\ M \in L..M /\ L \in 0..M /\ M \in 0..M
    BY <1>3
  <2> QED  BY <1>4, <1>6, <1>7, <2>1
<1> QED  BY <1>1, <1>2, <1>8 DEF L, M

LEMMA SumOneMore ==
  ASSUME NEW v \in Seq(Nat), NEW w \in Seq(Nat), Len(w) = Len(v) + 1,
         \A n \in 1..Len(v) : w[n] = v[n]
  PROVE  Summed(w) = Summed(v) + w[Len(w)]
<1> DEFINE L == Len(v)
<1>1. L \in Nat /\ Len(w) = L + 1 /\ \A n \in 1..L : w[n] = v[n]
  OBVIOUS
<1>2. PICK f : SumsTo(v, f) /\ Summed(v) = f[L]
  BY SumOf
<1>3. PICK g : SumsTo(w, g) /\ Summed(w) = g[L + 1]
  BY <1>1, SumOf
<1> HIDE DEF L
<1>4. /\ f \in [0..L -> Nat] /\ f[0] = 0 /\ \A n \in 1..L : f[n] = f[n - 1] + v[n]
      /\ g \in [0..(L + 1) -> Nat] /\ g[0] = 0 /\ \A n \in 1..(L + 1) : g[n] = g[n - 1] + w[n]
  BY <1>1, <1>2, <1>3 DEF SumsTo, L
<1> DEFINE apart == {n \in 0..L : g[n] # f[n]}
<1>5. apart = {}
  <2> SUFFICES ASSUME apart # {} PROVE FALSE
      OBVIOUS
  <2>1. apart \in SUBSET Nat
    OBVIOUS
  <2>2. PICK n \in apart : \A m \in apart : n <= m
    BY <2>1, FirstIsFirst
  <2>3. n \in 1..L /\ n \in 1..(L + 1) /\ n - 1 \in 0..L /\ ~(n <= n - 1)
    BY <1>1, <1>4
  <2>4. g[n - 1] = f[n - 1]
    BY <2>2, <2>3
  <2> QED  BY <1>1, <1>4, <2>2, <2>3, <2>4
<1>6. g[L] = f[L] /\ g[L + 1] = g[L] + w[L + 1]
  <2>1. L \in 0..L /\ L + 1 \in 1..(L + 1) /\ (L + 1) - 1 = L
    BY <1>1
  <2> QED  BY <1>1, <1>4, <1>5, <2>1
<1> QED  BY <1>1, <1>2, <1>3, <1>6

LEMMA SumNothing ==
  ASSUME NEW v \in Seq(Nat), \A n \in 1..Len(v) : v[n] = 0
  PROVE  Summed(v) = 0
<1>1. PICK f : SumsTo(v, f) /\ Summed(v) = f[Len(v)]
  BY SumOf
<1> DEFINE L == Len(v)
           more == {n \in 0..L : f[n] # 0}
<1>2. L \in Nat /\ f \in [0..L -> Nat] /\ f[0] = 0 /\ \A n \in 1..L : f[n] = f[n - 1] + v[n]
  BY <1>1 DEF SumsTo
<1> HIDE DEF L
<1>3. more = {}
  <2> SUFFICES ASSUME more # {} PROVE FALSE
      OBVIOUS
  <2>1. more \in SUBSET Nat
    OBVIOUS
  <2>2. PICK n \in more : \A m \in more : n <= m
    BY <2>1, FirstIsFirst
  <2>3. n \in 1..L /\ n - 1 \in 0..L /\ ~(n <= n - 1)
    BY <1>2
  <2>4. f[n - 1] = 0 /\ v[n] = 0
    BY <2>2, <2>3 DEF L
  <2> QED  BY <1>2, <2>2, <2>3, <2>4
<1> QED  BY <1>1, <1>2, <1>3 DEF L

(***************************************************************************)
(* ResultTransport.  What a client is told expired is excused for good: an *)
(* excuse only gets stronger as the clock moves and results are added.  So *)
(* it is enough that every result given up is excused when it is.          *)
(***************************************************************************)
LEMMA TextType ==
  ASSUME NEW t \in LongText
  PROVE  /\ t.size \in Nat \ {0} /\ t.bytes \in Nat /\ t.splits \subseteq 1..(t.size - 1)
         /\ \A k \in t.splits : k + 1 \notin t.splits
  BY TransportAssumption

LEMMA LogType ==
  ASSUME NEW log \in Seq(Result), NEW i \in DOMAIN log
  PROVE  /\ log[i] \in Result /\ log[i].text \in LongText /\ i \in Nat /\ log[i].time \in Nat
         /\ log[i].text.size \in Nat /\ log[i].text.bytes \in Nat
<1>1. log[i] \in Result /\ i \in Nat
  OBVIOUS
<1>2. log[i].text \in LongText /\ log[i].time \in 1..MaxClock
  BY <1>1 DEF Result
<1> QED  BY <1>1, <1>2, TextType

LEMMA LogFinite ==
  ASSUME NEW log \in Seq(Result)
  PROVE  IsFiniteSet(DOMAIN log) /\ DOMAIN log \subseteq Nat
<1>1. DOMAIN log = 1..Len(log) /\ Len(log) \in Nat
  OBVIOUS
<1> QED  BY <1>1, FS_Interval

\* What is kept of a log weighs as much as the sum says.
LEMMA Weighs ==
  ASSUME NEW log \in Seq(Result), NEW S
  PROVE  /\ [i \in DOMAIN log |-> IF i \in S THEN log[i].text.size ELSE 0] \in Seq(Nat)
         /\ [i \in DOMAIN log |-> IF i \in S THEN log[i].text.bytes ELSE 0] \in Seq(Nat)
         /\ Chars(log, S) \in Nat /\ Bytes(log, S) \in Nat
<1> DEFINE sizes == [i \in DOMAIN log |-> IF i \in S THEN log[i].text.size ELSE 0]
           bytes == [i \in DOMAIN log |-> IF i \in S THEN log[i].text.bytes ELSE 0]
<1>1. \A i \in DOMAIN log : log[i].text.size \in Nat /\ log[i].text.bytes \in Nat
  BY LogType
<1>2. DOMAIN log = 1..Len(log) /\ Len(log) \in Nat
  OBVIOUS
<1>3. sizes \in [1..Len(log) -> Nat] /\ bytes \in [1..Len(log) -> Nat]
  BY <1>1, <1>2
<1>4. sizes \in Seq(Nat) /\ bytes \in Seq(Nat)
  BY <1>2, <1>3
<1>5. Summed(sizes) \in Nat /\ Summed(bytes) \in Nat
  BY <1>4, SumIsNat
<1> QED  BY <1>4, <1>5 DEF Chars, Bytes

LEMMA WeighsMore ==
  ASSUME NEW log \in Seq(Result), NEW more \in Seq(Result), Len(log) <= Len(more),
         \A i \in DOMAIN log : more[i] = log[i], NEW S, NEW T, S \cap DOMAIN log \subseteq T
  PROVE  Chars(log, S) <= Chars(more, T) /\ Bytes(log, S) <= Bytes(more, T)
<1> DEFINE sizes(l, s) == [i \in DOMAIN l |-> IF i \in s THEN l[i].text.size ELSE 0]
           bytes(l, s) == [i \in DOMAIN l |-> IF i \in s THEN l[i].text.bytes ELSE 0]
<1>1. /\ sizes(log, S) \in Seq(Nat) /\ bytes(log, S) \in Seq(Nat)
      /\ sizes(more, T) \in Seq(Nat) /\ bytes(more, T) \in Seq(Nat)
  BY Weighs
<1>2. /\ Len(sizes(log, S)) = Len(log) /\ Len(bytes(log, S)) = Len(log)
      /\ Len(sizes(more, T)) = Len(more) /\ Len(bytes(more, T)) = Len(more)
  OBVIOUS
<1>3. \A i \in 1..Len(log) : /\ sizes(log, S)[i] <= sizes(more, T)[i]
                             /\ bytes(log, S)[i] <= bytes(more, T)[i]
  <2> SUFFICES ASSUME NEW i \in 1..Len(log)
               PROVE  /\ sizes(log, S)[i] <= sizes(more, T)[i]
                      /\ bytes(log, S)[i] <= bytes(more, T)[i]
      OBVIOUS
  <2>1. i \in DOMAIN log /\ i \in DOMAIN more
    OBVIOUS
  <2>2. more[i] = log[i] /\ log[i].text.size \in Nat /\ log[i].text.bytes \in Nat
    BY <2>1, LogType
  <2> QED  BY <2>1, <2>2
<1>4. Chars(log, S) = Summed(sizes(log, S)) /\ Bytes(log, S) = Summed(bytes(log, S))
      /\ Chars(more, T) = Summed(sizes(more, T)) /\ Bytes(more, T) = Summed(bytes(more, T))
  BY DEF Chars, Bytes
<1> HIDE DEF sizes, bytes
<1>5. Summed(sizes(log, S)) <= Summed(sizes(more, T))
  BY <1>1, <1>2, <1>3, SumMonotone
<1>6. Summed(bytes(log, S)) <= Summed(bytes(more, T))
  BY <1>1, <1>2, <1>3, SumMonotone
<1> QED  BY <1>4, <1>5, <1>6

LEMMA OneMoreWeighs ==
  ASSUME NEW log \in Seq(Result), NEW row \in Result, NEW S, S \subseteq DOMAIN log
  PROVE  /\ Chars(Append(log, row), S) = Chars(log, S)
         /\ Bytes(Append(log, row), S) = Bytes(log, S)
         /\ Chars(Append(log, row), S \cup {Len(log) + 1}) = Chars(log, S) + row.text.size
<1> DEFINE sizes(l, s) == [i \in DOMAIN l |-> IF i \in s THEN l[i].text.size ELSE 0]
           bytes(l, s) == [i \in DOMAIN l |-> IF i \in s THEN l[i].text.bytes ELSE 0]
           more == Append(log, row)
           n == Len(log) + 1
<1>1. /\ more \in Seq(Result) /\ Len(more) = n /\ Len(log) \in Nat
      /\ more[n] = row /\ \A i \in DOMAIN log : more[i] = log[i]
      /\ DOMAIN log = 1..Len(log) /\ DOMAIN more = 1..n
  OBVIOUS
<1> HIDE DEF more
<1>2. n \notin S /\ n \in 1..n /\ \A i \in 1..Len(log) : i # n /\ i \in DOMAIN log /\ i \in DOMAIN more
  BY <1>1
<1>3. /\ sizes(log, S) \in Seq(Nat) /\ bytes(log, S) \in Seq(Nat)
      /\ sizes(more, S) \in Seq(Nat) /\ bytes(more, S) \in Seq(Nat)
      /\ sizes(more, S \cup {n}) \in Seq(Nat)
  BY <1>1, Weighs
<1>4. /\ Len(sizes(log, S)) = Len(log) /\ Len(bytes(log, S)) = Len(log)
      /\ Len(sizes(more, S)) = n /\ Len(bytes(more, S)) = n
      /\ Len(sizes(more, S \cup {n})) = n
  BY <1>1
<1>5. /\ \A i \in 1..Len(log) : /\ sizes(more, S)[i] = sizes(log, S)[i]
                                /\ bytes(more, S)[i] = bytes(log, S)[i]
                                /\ sizes(more, S \cup {n})[i] = sizes(log, S)[i]
      /\ sizes(more, S)[n] = 0 /\ bytes(more, S)[n] = 0
      /\ sizes(more, S \cup {n})[n] = row.text.size
  BY <1>1, <1>2
<1> HIDE DEF sizes, bytes, n
<1>6. /\ Summed(sizes(more, S)) = Summed(sizes(log, S)) + 0
      /\ Summed(bytes(more, S)) = Summed(bytes(log, S)) + 0
      /\ Summed(sizes(more, S \cup {n})) = Summed(sizes(log, S)) + row.text.size
  <2>1. n = Len(log) + 1
    BY DEF n
  <2>2. Summed(sizes(more, S)) = Summed(sizes(log, S)) + sizes(more, S)[n]
    BY <1>3, <1>4, <1>5, <2>1, SumOneMore, ZenonT(60)
  <2>3. Summed(bytes(more, S)) = Summed(bytes(log, S)) + bytes(more, S)[n]
    BY <1>3, <1>4, <1>5, <2>1, SumOneMore, ZenonT(60)
  <2>4. Summed(sizes(more, S \cup {n})) = Summed(sizes(log, S)) + sizes(more, S \cup {n})[n]
    BY <1>3, <1>4, <1>5, <2>1, SumOneMore, ZenonT(60)
  <2> QED  BY <1>5, <2>2, <2>3, <2>4
<1>7. Summed(sizes(log, S)) \in Nat /\ Summed(bytes(log, S)) \in Nat
  BY <1>3, SumIsNat
<1>8. /\ Chars(log, S) = Summed(sizes(log, S)) /\ Bytes(log, S) = Summed(bytes(log, S))
      /\ Chars(more, S) = Summed(sizes(more, S)) /\ Bytes(more, S) = Summed(bytes(more, S))
      /\ Chars(more, S \cup {n}) = Summed(sizes(more, S \cup {n}))
  BY DEF sizes, bytes, Chars, Bytes
<1>9. /\ Chars(more, S) = Chars(log, S) /\ Bytes(more, S) = Bytes(log, S)
      /\ Chars(more, S \cup {n}) = Chars(log, S) + row.text.size
  BY <1>6, <1>7, <1>8
<1> QED  BY <1>9 DEF more, n

LEMMA MinOfTwo ==
  ASSUME NEW a \in Nat, NEW b \in Nat
  PROVE  /\ Min({a, b}) \in Nat /\ Min({a, b}) <= a /\ Min({a, b}) <= b
         /\ Min({a, b}) \in {a, b}
<1>1. \E x \in {a, b} : \A y \in {a, b} : x <= y
  OBVIOUS
<1>2. Min({a, b}) \in {a, b} /\ \A y \in {a, b} : Min({a, b}) <= y
  BY <1>1 DEF Min
<1> QED  BY <1>2

\* What stays of the log is what it was.
LEMMA InMemoryKept ==
  ASSUME made \in Seq(Result), made' \in Seq(Result), Len(made) <= Len(made'),
         \A i \in DOMAIN made : made'[i] = made[i]
  PROVE  /\ DOMAIN made \subseteq DOMAIN made'
         /\ InMemory = InMemory' \cap DOMAIN made
         /\ \A i \in InMemory : OfAccount(i) \subseteq OfAccount(i)'
<1>1. DOMAIN made = 1..Len(made) /\ DOMAIN made' = 1..Len(made')
      /\ Len(made) \in Nat /\ Len(made') \in Nat
  OBVIOUS
<1>2. DOMAIN made \subseteq DOMAIN made'
  BY <1>1
<1>3. InMemory = InMemory' \cap DOMAIN made
  BY <1>2 DEF InMemory
<1> QED  BY <1>2, <1>3 DEF OfAccount, InMemory

LEMMA StillExcused ==
  ASSUME made \in Seq(Result), made' \in Seq(Result), Len(made) <= Len(made'),
         \A i \in DOMAIN made : made'[i] = made[i],
         clock \in Nat, clock' \in Nat, clock <= clock',
         booted \in Nat, booted' \in Nat, booted <= booted',
         NEW i \in DOMAIN made, Excused(i)
  PROVE  Excused(i)'
<1>1. /\ DOMAIN made \subseteq DOMAIN made' /\ InMemory = InMemory' \cap DOMAIN made
      /\ \A j \in InMemory : OfAccount(j) \subseteq OfAccount(j)'
  BY InMemoryKept
<1>2. made'[i] = made[i] /\ made[i].time \in Nat /\ i \in Nat /\ ResultTTL \in Nat
      /\ MaxCount \in Nat /\ MaxChars \in Nat /\ MaxBytes \in Nat
  BY LogType, TransportAssumption
<1>3. CASE ~Good(made, i, clock)
  BY <1>2, <1>3, SMTT(40) DEF Excused, Good
<1>4. CASE i \in InMemory /\ i <= booted
  BY <1>1, <1>2, <1>4 DEF Excused
<1> DEFINE mine == From(OfAccount(i), i)
           mine2 == From(OfAccount(i)', i)
<1>5. ASSUME i \in InMemory
      PROVE  /\ i \in InMemory' /\ mine \subseteq mine2 /\ mine \subseteq DOMAIN made
             /\ mine2 \subseteq DOMAIN made'
             /\ From(InMemory, i) \subseteq From(InMemory', i)
             /\ From(InMemory, i) \subseteq DOMAIN made
  BY <1>1, <1>5 DEF From, OfAccount, InMemory
<1>6. CASE i \in InMemory /\ Cardinality(mine) > MaxCount
  <2>1. IsFiniteSet(mine2)
    BY <1>5, <1>6, LogFinite, FS_Subset
  <2>2. Cardinality(mine) <= Cardinality(mine2) /\ Cardinality(mine) \in Nat
        /\ Cardinality(mine2) \in Nat
    BY <1>5, <1>6, <2>1, FS_Subset, FS_CardinalityType
  <2>3. Cardinality(mine2) > MaxCount
    BY <1>2, <1>6, <2>2
  <2> QED  BY <1>5, <1>6, <2>3 DEF Excused
<1>7. CASE i \in InMemory /\ Chars(made, mine) > MaxChars
  <2>1. Chars(made, mine) <= Chars(made', mine2)
    BY <1>5, <1>7, WeighsMore
  <2>2. Chars(made, mine) \in Nat /\ Chars(made', mine2) \in Nat
    BY Weighs
  <2>3. Chars(made', mine2) > MaxChars
    BY <1>2, <1>7, <2>1, <2>2
  <2> QED  BY <1>5, <1>7, <2>3 DEF Excused
<1>8. CASE i \in InMemory /\ Bytes(made, From(InMemory, i)) > MaxBytes
  <2>1. Bytes(made, From(InMemory, i)) <= Bytes(made', From(InMemory', i))
    BY <1>5, <1>8, WeighsMore
  <2>2. Bytes(made, From(InMemory, i)) \in Nat /\ Bytes(made', From(InMemory', i)) \in Nat
    BY Weighs
  <2>3. Bytes(made', From(InMemory', i)) > MaxBytes
    BY <1>2, <1>8, <2>1, <2>2
  <2> QED  BY <1>5, <1>8, <2>3 DEF Excused
<1> QED  BY <1>3, <1>4, <1>6, <1>7, <1>8 DEF Excused

\* What pruning gives up is too old, or newer results take up the bytes.
LEMMA PrunedExcused ==
  ASSUME made' \in Seq(Result), NEW s, s \subseteq InMemory',
         NEW i \in s, i \notin Pruned(made', s, clock')
  PROVE  Excused(i)'
<1> DEFINE live == {j \in s : Good(made', j, clock')}
<1>1. i \in InMemory'
  OBVIOUS
<1>2. CASE i \notin live
  BY <1>2 DEF Excused
<1>3. CASE i \in live
  <2>1. ~(Bytes(made', From(live, i)) <= MaxBytes)
    BY <1>3 DEF Pruned
  <2>2. From(live, i) \cap DOMAIN made' \subseteq From(InMemory', i)
    BY DEF From
  <2>3. Bytes(made', From(live, i)) <= Bytes(made', From(InMemory', i))
    BY <2>2, WeighsMore
  <2>4. Bytes(made', From(live, i)) \in Nat /\ Bytes(made', From(InMemory', i)) \in Nat
        /\ MaxBytes \in Nat
    BY Weighs, TransportAssumption
  <2>5. Bytes(made', From(InMemory', i)) > MaxBytes
    BY <2>1, <2>3, <2>4
  <2> QED  BY <1>1, <2>5 DEF Excused
<1> QED  BY <1>2, <1>3

LEMMA PrunedFits ==
  ASSUME NEW log \in Seq(Result), NEW s, s \subseteq DOMAIN log, NEW time
  PROVE  Pruned(log, s, time) \subseteq s /\ Bytes(log, Pruned(log, s, time)) <= MaxBytes
<1> DEFINE live == {j \in s : Good(log, j, time)}
           kept == Pruned(log, s, time)
<1>1. kept = {i \in live : Bytes(log, From(live, i)) <= MaxBytes}
  BY DEF Pruned
<1>2. MaxBytes \in Nat
  BY TransportAssumption
<1> HIDE DEF kept
<1>3. CASE kept = {}
  <2>1. [i \in DOMAIN log |-> IF i \in kept THEN log[i].text.bytes ELSE 0] \in Seq(Nat)
    BY Weighs
  <2>2. Bytes(log, kept) = 0
    BY <1>3, <2>1, SumNothing DEF Bytes
  <2> QED  BY <1>1, <1>2, <2>2 DEF kept
<1>4. CASE kept # {}
  <2>1. kept \in SUBSET Nat
    BY <1>1, LogFinite
  <2>2. PICK i \in kept : \A j \in kept : i <= j
    BY <1>4, <2>1, FirstIsFirst
  <2>3. kept \cap DOMAIN log \subseteq From(live, i)
    BY <1>1, <2>1, <2>2 DEF From
  <2>4. Bytes(log, kept) <= Bytes(log, From(live, i))
    BY <2>3, WeighsMore
  <2>5. Bytes(log, kept) \in Nat /\ Bytes(log, From(live, i)) \in Nat
    BY Weighs
  <2>6. Bytes(log, From(live, i)) <= MaxBytes
    BY <1>1
  <2> QED  BY <1>1, <1>2, <2>4, <2>5, <2>6 DEF kept
<1> QED  BY <1>3, <1>4

\* A result that had to make room for another of its account.
LEMMA RoomExcused ==
  ASSUME made \in Seq(Result), NEW row \in Result, ~row.spooled, made' = Append(made, row),
         NEW s, s \subseteq InMemory,
         NEW i \in s, i \notin Roomy(made', s, row.account, row.text)
  PROVE  Excused(i)'
<1> DEFINE own == {j \in s : made'[j].account = row.account}
           n == Len(made) + 1
           mine == From(own, i)
           mine2 == From(OfAccount(i)', i)
<1>1. /\ made' \in Seq(Result) /\ Len(made') = n /\ Len(made) \in Nat
      /\ made'[n] = row /\ \A j \in DOMAIN made : made'[j] = made[j]
      /\ DOMAIN made = 1..Len(made) /\ DOMAIN made' = 1..n
  OBVIOUS
<1>2. i \in own /\ ~(Cardinality(mine) < MaxCount /\ Chars(made', mine) + row.text.size <= MaxChars)
  BY DEF Roomy
<1>3. /\ s \subseteq DOMAIN made /\ s \subseteq InMemory' /\ n \in InMemory'
      /\ n \notin DOMAIN made /\ \A j \in DOMAIN made : j <= n /\ j \in Nat /\ j \in DOMAIN made'
  <2>1. s \subseteq DOMAIN made /\ \A j \in s : ~made[j].spooled
    BY DEF InMemory
  <2>2. \A j \in DOMAIN made : j <= n /\ j \in Nat /\ j \in DOMAIN made'
    BY <1>1
  <2>3. n \notin DOMAIN made /\ n \in DOMAIN made'
    BY <1>1
  <2> QED  BY <1>1, <2>1, <2>2, <2>3 DEF InMemory
<1> HIDE DEF n
<1>4. /\ mine \subseteq DOMAIN made /\ mine \cup {n} \subseteq mine2 /\ n \notin mine
      /\ mine2 \subseteq DOMAIN made' /\ i \in InMemory'
  BY <1>1, <1>2, <1>3 DEF From, OfAccount, InMemory
<1>5. MaxCount \in Nat /\ MaxChars \in Nat /\ row.text.size \in Nat
  BY TransportAssumption, TextType DEF Result
<1> HIDE DEF own, mine, mine2
<1>6. CASE ~(Cardinality(mine) < MaxCount)
  <2>1. IsFiniteSet(mine) /\ IsFiniteSet(mine2)
    BY <1>1, <1>4, LogFinite, FS_Subset
  <2>2. IsFiniteSet(mine \cup {n}) /\ Cardinality(mine \cup {n}) = Cardinality(mine) + 1
    BY <1>4, <2>1, FS_AddElement
  <2>3. Cardinality(mine \cup {n}) <= Cardinality(mine2)
    BY <1>4, <2>1, FS_Subset
  <2>4. Cardinality(mine) \in Nat /\ Cardinality(mine2) \in Nat
    BY <2>1, FS_CardinalityType
  <2>5. Cardinality(mine2) > MaxCount
    BY <1>5, <1>6, <2>2, <2>3, <2>4
  <2> QED  BY <1>4, <2>5 DEF Excused, mine2
<1>7. CASE ~(Chars(made', mine) + row.text.size <= MaxChars)
  <2>1. Chars(made', mine) = Chars(made, mine)
        /\ Chars(made', mine \cup {n}) = Chars(made, mine) + row.text.size
    <3>1. Chars(Append(made, row), mine) = Chars(made, mine)
      BY <1>4, OneMoreWeighs
    <3>2. Chars(Append(made, row), mine \cup {Len(made) + 1}) = Chars(made, mine) + row.text.size
      BY <1>4, OneMoreWeighs
    <3>3. made' = Append(made, row) /\ n = Len(made) + 1
      BY DEF n
    <3> QED  BY <3>1, <3>2, <3>3, Zenon
  <2>2. Chars(made', mine \cup {n}) <= Chars(made', mine2)
    <3>1. made' \in Seq(Result) /\ Len(made') <= Len(made')
          /\ (mine \cup {n}) \cap DOMAIN made' \subseteq mine2
      BY <1>1, <1>4
    <3>2. \A l \in Seq(Result) : \A S, T : Len(l) <= Len(l) /\ S \cap DOMAIN l \subseteq T =>
             Chars(l, S) <= Chars(l, T)
      BY WeighsMore
    <3> QED  BY <3>1, <3>2, Zenon
  <2>3. Chars(made, mine) \in Nat /\ Chars(made', mine2) \in Nat
    BY <1>1, Weighs
  <2>4. Chars(made', mine2) > MaxChars
    BY <1>5, <1>7, <2>1, <2>2, <2>3
  <2> QED  BY <1>4, <2>4 DEF Excused, mine2
<1> QED  BY <1>2, <1>6, <1>7

\* A piece ends after it begins, and not within a pair.
LEMMA PieceEnds ==
  ASSUME NEW text \in LongText, NEW offset \in Nat, offset < text.size, NEW chars \in Nat \ {0, 1}
  PROVE  LET end == SafeEnd(text, offset, Min({text.size, offset + chars}))
         IN end \in Nat /\ end > offset /\ end <= text.size /\ end \notin text.splits
<1>1. /\ text.size \in Nat \ {0} /\ text.splits \subseteq 1..(text.size - 1)
      /\ \A k \in text.splits : k + 1 \notin text.splits
  BY TextType
<1> DEFINE size == text.size
           least == Min({size, offset + chars})
<1>2. least \in Nat /\ least <= size /\ least \in {size, offset + chars}
  <2>1. size \in Nat /\ offset + chars \in Nat
    BY <1>1
  <2> QED  BY <2>1, MinOfTwo
<1> HIDE DEF least
<1>3. least > offset
  <2>1. offset + chars > offset /\ offset + chars \in Nat /\ size > offset
    BY <1>1
  <2> QED  BY <1>2, <2>1
<1>4. CASE least \in text.splits
  <2>1. least = offset + chars
    BY <1>1, <1>2, <1>4
  <2>2. SafeEnd(text, offset, least) = least - 1
    BY <1>3, <1>4 DEF SafeEnd
  <2>3. least - 1 \in Nat /\ least - 1 > offset /\ least - 1 <= size /\ (least - 1) + 1 = least
    BY <1>1, <1>2, <2>1
  <2>4. least - 1 \notin text.splits
    BY <1>1, <1>4, <2>3
  <2> QED  BY <2>2, <2>3, <2>4 DEF least
<1>5. CASE least \notin text.splits
  <2>1. SafeEnd(text, offset, least) = least
    BY <1>5 DEF SafeEnd
  <2> QED  BY <1>2, <1>3, <1>5, <2>1 DEF least
<1> QED  BY <1>4, <1>5

\* Either the next piece, or the result is neither in memory nor in a good file.
LEMMA ReadPiece ==
  ASSUME NEW log \in Seq(Result), NEW mem, NEW files, NEW i \in DOMAIN log, NEW offset \in Nat,
         offset < log[i].text.size, NEW chars \in Nat \ {0, 1}, NEW time
  PROVE  LET r == Advanced(log, mem, files, i, offset, chars, time)
         IN /\ r \in [of : {i}, at : Nat, expired : BOOLEAN]
            /\ ~r.expired => r.at > offset /\ r.at \notin log[i].text.splits
            /\ r.expired => r.at = offset /\ i \notin mem /\ (i \in files => ~Good(log, i, time))
<1> DEFINE end == SafeEnd(log[i].text, offset, Min({log[i].text.size, offset + chars}))
<1>1. end \in Nat /\ end > offset /\ end \notin log[i].text.splits
  BY LogType, PieceEnds
<1> HIDE DEF end
<1>2. Advanced(log, mem, files, i, offset, chars, time) =
        IF i \in mem \/ (i \in files /\ Good(log, i, time))
        THEN [of |-> i, expired |-> FALSE, at |-> end]
        ELSE [of |-> i, expired |-> TRUE, at |-> offset]
  BY DEF Advanced, end
<1> QED  BY <1>1, <1>2

LEMMA WrappedRow ==
  ASSUME TransportTypeOK, NEW c \in Client, NEW text \in LongText, NEW spooled \in BOOLEAN,
         clock < MaxClock
  PROVE  /\ [account |-> AccountOf[c], text |-> text, time |-> clock + 1, spooled |-> spooled] \in Result
         /\ New(c, text, spooled) \in Seq(Result)
         /\ Len(New(c, text, spooled)) = Len(made) + 1 /\ Len(made) \in Nat
         /\ New(c, text, spooled)[Len(made) + 1] =
              [account |-> AccountOf[c], text |-> text, time |-> clock + 1, spooled |-> spooled]
         /\ \A i \in DOMAIN made : New(c, text, spooled)[i] = made[i]
<1> DEFINE row == [account |-> AccountOf[c], text |-> text, time |-> clock + 1, spooled |-> spooled]
<1>1. clock \in Nat /\ MaxClock \in Nat /\ made \in Seq(Result)
  BY TransportAssumption DEF TransportTypeOK
<1>2. clock + 1 \in 1..MaxClock
  BY <1>1
<1>3. row \in Result
  BY <1>2 DEF Result
<1>4. New(c, text, spooled) = Append(made, row)
  BY DEF New
<1> HIDE DEF row
<1>5. /\ Append(made, row) \in Seq(Result) /\ Len(Append(made, row)) = Len(made) + 1
      /\ Append(made, row)[Len(made) + 1] = row /\ Len(made) \in Nat
      /\ \A i \in DOMAIN made : Append(made, row)[i] = made[i]
  BY <1>1, <1>3
<1> QED  BY <1>3, <1>4, <1>5 DEF row

LEMMA ClientReads ==
  ASSUME client \in [Client -> [of : 0..Len(made), at : Nat, expired : BOOLEAN]],
         NEW c \in Client, NEW i \in DOMAIN made', made \in Seq(Result), made' \in Seq(Result),
         Len(made) <= Len(made'),
         NEW r \in [of : {i}, at : Nat, expired : BOOLEAN], client' = [client EXCEPT ![c] = r]
  PROVE  /\ client' \in [Client -> [of : 0..Len(made'), at : Nat, expired : BOOLEAN]]
         /\ client'[c] = r /\ \A d \in Client \ {c} : client'[d] = client[d]
<1>1. 0..Len(made) \subseteq 0..Len(made') /\ i \in 0..Len(made')
  OBVIOUS
<1>2. r \in [of : 0..Len(made'), at : Nat, expired : BOOLEAN]
  BY <1>1
<1>3. \A d \in Client : client[d] \in [of : 0..Len(made'), at : Nat, expired : BOOLEAN]
  BY <1>1
<1> QED  BY <1>2, <1>3

\* The parts of TransportInv.
GivenUp == /\ cached \subseteq InMemory /\ spool \cap InMemory = {}
           /\ \A i \in InMemory \ cached : Excused(i)
           /\ \A i \in DOMAIN made \ (InMemory \cup spool) : ~Good(made, i, clock)
AllExcused == {i \in DOMAIN made : Excused(i)}
ReadsTold ==
  \A c \in Client : client[c].of # 0 =>
    IF client[c].expired THEN client[c].of \in AllExcused
    ELSE client[c].at > 0 /\ client[c].at \notin made[client[c].of].text.splits
CapsHold ==
  /\ Bytes(made, cached) <= MaxBytes
  /\ \A i \in cached : Cardinality(From(OfAccount(i), i) \cap cached) <= MaxCount

TransportInv == TransportTypeOK /\ GivenUp /\ ReadsTold /\ CapsHold

LogGrows ==
  /\ TransportTypeOK /\ made' \in Seq(Result) /\ Len(made) <= Len(made')
  /\ \A i \in DOMAIN made : made'[i] = made[i]
  /\ clock' \in Nat /\ clock <= clock' /\ booted' \in Nat /\ booted <= booted'

LEMMA ExcusedGrows ==
  ASSUME LogGrows, NEW i \in AllExcused PROVE i \in DOMAIN made' /\ Excused(i)' /\ i \in AllExcused'
<1>1. made \in Seq(Result) /\ clock \in Nat /\ booted \in Nat
  BY TransportAssumption DEF LogGrows, TransportTypeOK
<1>2. i \in DOMAIN made /\ Excused(i) /\ i \in DOMAIN made'
  BY DEF AllExcused, LogGrows, TransportTypeOK
<1>3. Excused(i)'
  BY <1>1, <1>2, StillExcused DEF LogGrows
<1> QED  BY <1>2, <1>3 DEF AllExcused

LEMMA ToldUnread ==
  ASSUME LogGrows, ReadsTold, client' = client PROVE ReadsTold'
<1> SUFFICES ASSUME NEW c \in Client, client[c].of # 0
             PROVE  IF client[c].expired THEN client[c].of \in AllExcused'
                    ELSE client[c].at > 0 /\ client[c].at \notin made'[client[c].of].text.splits
    BY DEF ReadsTold
<1>1. client[c].of \in DOMAIN made
  BY DEF LogGrows, TransportTypeOK
<1>2. IF client[c].expired THEN client[c].of \in AllExcused
      ELSE client[c].at > 0 /\ client[c].at \notin made[client[c].of].text.splits
  BY DEF ReadsTold
<1>3. made'[client[c].of] = made[client[c].of]
  BY <1>1 DEF LogGrows
<1> QED  BY <1>2, <1>3, ExcusedGrows

LEMMA ToldRead ==
  ASSUME LogGrows, ReadsTold, GivenUp', NEW c \in Client, NEW i \in DOMAIN made',
         NEW offset \in Nat, offset < made'[i].text.size, NEW chars \in Nat \ {0, 1},
         client' = [client EXCEPT ![c] = Advanced(made', cached', spool', i, offset, chars, clock')]
  PROVE  /\ ReadsTold'
         /\ client' \in [Client -> [of : 0..Len(made'), at : Nat, expired : BOOLEAN]]
<1> DEFINE r == Advanced(made', cached', spool', i, offset, chars, clock')
<1>1. /\ r \in [of : {i}, at : Nat, expired : BOOLEAN]
      /\ ~r.expired => r.at > offset /\ r.at \notin made'[i].text.splits
      /\ r.expired => r.at = offset /\ i \notin cached' /\ (i \in spool' => ~Good(made', i, clock'))
  BY ReadPiece DEF LogGrows
<1>2. client' = [client EXCEPT ![c] = r]
  OBVIOUS
<1> HIDE DEF r
<1>3. client \in [Client -> [of : 0..Len(made), at : Nat, expired : BOOLEAN]] /\ made \in Seq(Result)
  BY DEF LogGrows, TransportTypeOK
<1>4. /\ client' \in [Client -> [of : 0..Len(made'), at : Nat, expired : BOOLEAN]]
      /\ client'[c] = r /\ \A d \in Client \ {c} : client'[d] = client[d]
  BY <1>1, <1>2, <1>3, ClientReads DEF LogGrows
<1>5. r.expired => Excused(i)'
  <2> SUFFICES ASSUME r.expired PROVE Excused(i)'
      OBVIOUS
  <2>1. i \notin cached' /\ (i \in spool' => ~Good(made', i, clock'))
    BY <1>1
  <2>2. CASE i \in InMemory'
    BY <2>1, <2>2 DEF GivenUp
  <2>3. CASE i \notin InMemory'
    <3>1. ~Good(made', i, clock')
      BY <2>1, <2>3 DEF GivenUp
    <3> QED  BY <3>1 DEF Excused
  <2> QED  BY <2>2, <2>3
<1>6. ~r.expired => r.at > 0 /\ r.at \notin made'[i].text.splits
  BY <1>1
<1>7. ASSUME NEW d \in Client, client'[d].of # 0
      PROVE  IF client'[d].expired THEN client'[d].of \in AllExcused'
             ELSE client'[d].at > 0 /\ client'[d].at \notin made'[client'[d].of].text.splits
  <2>1. CASE d = c
    <3>1. client'[d] = r /\ r.of = i
      BY <1>1, <1>4, <2>1
    <3>2. r.expired => i \in AllExcused'
      BY <1>5 DEF AllExcused
    <3> QED  BY <1>6, <3>1, <3>2
  <2>2. CASE d # c
    <3>1. client'[d] = client[d] /\ client[d].of \in DOMAIN made
      BY <1>3, <1>4, <1>7, <2>2
    <3>2. IF client[d].expired THEN client[d].of \in AllExcused
          ELSE client[d].at > 0 /\ client[d].at \notin made[client[d].of].text.splits
      BY <1>7, <3>1 DEF ReadsTold
    <3>3. made'[client[d].of] = made[client[d].of]
      BY <3>1 DEF LogGrows
    <3> QED  BY <3>1, <3>2, <3>3, ExcusedGrows
  <2> QED  BY <2>1, <2>2
<1> QED  BY <1>4, <1>7 DEF ReadsTold

\* Of the results in memory some are given up, and each is excused; of the files
\* those that are too old.
LEMMA SomeGivenUp ==
  ASSUME LogGrows, GivenUp, InMemory' = InMemory, cached' \subseteq cached,
         \A i \in cached \ cached' : Excused(i)', spool' \cap InMemory' = {},
         \A i \in spool \ spool' : ~Good(made', i, clock'), DOMAIN made' \ DOMAIN made \subseteq spool'
  PROVE  GivenUp'
<1>1. made \in Seq(Result) /\ clock \in Nat /\ clock' \in Nat /\ clock <= clock' /\ ResultTTL \in Nat
  BY TransportAssumption DEF LogGrows, TransportTypeOK
<1>2. ASSUME NEW i \in InMemory', i \notin cached' PROVE Excused(i)'
  <2>1. i \in DOMAIN made /\ i \in InMemory
    BY DEF InMemory
  <2>2. CASE i \in cached
    BY <1>2, <2>2
  <2>3. CASE i \notin cached
    BY <2>1, <2>3, ExcusedGrows DEF GivenUp, AllExcused
  <2> QED  BY <2>2, <2>3
<1>3. ASSUME NEW i \in DOMAIN made', i \notin InMemory', i \notin spool'
      PROVE  ~Good(made', i, clock')
  <2>1. i \in DOMAIN made /\ i \notin InMemory
    BY <1>3
  <2>2. made'[i] = made[i] /\ made[i].time \in Nat
    BY <1>1, <2>1, LogType DEF LogGrows
  <2>3. CASE i \in spool
    BY <1>3, <2>3
  <2>4. CASE i \notin spool
    <3>1. ~Good(made, i, clock)
      BY <2>1, <2>4 DEF GivenUp
    <3> QED  BY <1>1, <2>2, <3>1 DEF Good
  <2> QED  BY <2>3, <2>4
<1> QED  BY <1>2, <1>3 DEF GivenUp

LEMMA FewerCapped ==
  ASSUME LogGrows, GivenUp, CapsHold, NEW kept, kept \subseteq cached, NEW i \in kept
  PROVE  Cardinality(From(OfAccount(i)', i) \cap kept) <= MaxCount
<1> DEFINE few == From(OfAccount(i)', i) \cap kept
           many == From(OfAccount(i), i) \cap cached
<1>1. few \subseteq many /\ many \subseteq DOMAIN made
  BY DEF LogGrows, GivenUp, From, OfAccount, InMemory
<1>2. IsFiniteSet(many)
  BY <1>1, LogFinite, FS_Subset DEF LogGrows, TransportTypeOK
<1>3. Cardinality(few) <= Cardinality(many) /\ Cardinality(few) \in Nat /\ Cardinality(many) \in Nat
  BY <1>1, <1>2, FS_Subset, FS_CardinalityType
<1>4. Cardinality(many) <= MaxCount /\ MaxCount \in Nat
  BY TransportAssumption DEF CapsHold
<1> QED  BY <1>3, <1>4

LEMMA TransportStart == TransportInit => TransportInv
<1> SUFFICES ASSUME TransportInit PROVE TransportInv
    OBVIOUS
<1>1. /\ made = <<>> /\ cached = {} /\ spool = {} /\ clock = 0 /\ booted = 0
      /\ client = [c \in Client |-> Reading0] /\ MaxClock \in Nat /\ MaxBytes \in Nat
  BY TransportAssumption DEF TransportInit
<1>2. TransportTypeOK
  <2>1. made \in Seq(Result) /\ Len(made) = 0 /\ DOMAIN made = {}
    BY <1>1
  <2> QED  BY <1>1, <2>1 DEF TransportTypeOK, Reading0
<1>3. InMemory = {} /\ DOMAIN made = {}
  BY <1>1 DEF InMemory
<1>4. Pruned(made, {}, 0) = {} /\ Bytes(made, Pruned(made, {}, 0)) <= MaxBytes
  BY <1>2, PrunedFits DEF TransportTypeOK
<1> QED
  BY <1>1, <1>2, <1>3, <1>4 DEF TransportInv, GivenUp, ReadsTold, CapsHold, Reading0

\* The log, the clock and the start of the process as they are.
LEMMA LogStays ==
  ASSUME TransportTypeOK, made' = made, booted' \in Nat, booted <= booted',
         clock' \in Nat, clock <= clock'
  PROVE  LogGrows /\ InMemory' = InMemory
<1>1. made \in Seq(Result)
  BY DEF TransportTypeOK
<1>2. Len(made) <= Len(made')
  BY <1>1
<1> QED  BY <1>1, <1>2 DEF LogGrows, InMemory

LEMMA PrunedBetween ==
  ASSUME TransportInv, LogGrows,
         cached' = Pruned(made', cached, clock'), InMemory' = InMemory
  PROVE  /\ cached' \subseteq cached /\ \A i \in cached \ cached' : Excused(i)'
         /\ CapsHold'
<1>1. cached \subseteq InMemory' /\ cached \subseteq DOMAIN made' /\ made' \in Seq(Result)
  BY DEF TransportInv, GivenUp, LogGrows, InMemory
<1>2. cached' \subseteq cached /\ Bytes(made', cached') <= MaxBytes
  BY <1>1, PrunedFits
<1>3. \A i \in cached \ cached' : Excused(i)'
  BY <1>1, PrunedExcused
<1>4. \A i \in cached' : Cardinality(From(OfAccount(i)', i) \cap cached') <= MaxCount
  BY <1>2, FewerCapped DEF TransportInv
<1> QED  BY <1>2, <1>3, <1>4 DEF CapsHold

LEMMA ReadOnStep ==
  ASSUME TransportInv, NEW c \in Client, NEW n \in Chunk, ReadOn(c, n) PROVE TransportInv'
<1> DEFINE i == client[c].of
           offset == client[c].at
<1>1. TransportTypeOK /\ made' = made /\ spool' = spool /\ clock' = clock /\ booted' = booted
      /\ cached' = Pruned(made', cached, clock')
      /\ client' = [client EXCEPT ![c] = Advanced(made', cached', spool', i, offset, n, clock')]
  BY DEF ReadOn, TransportInv
<1>2. /\ i \in DOMAIN made' /\ offset \in Nat /\ offset < made'[i].text.size /\ n \in Nat \ {0, 1}
  <2>1. client[c] \in [of : 0..Len(made), at : Nat, expired : BOOLEAN] /\ made \in Seq(Result)
    BY <1>1 DEF TransportTypeOK
  <2>2. i # 0 /\ offset < made[i].text.size
    BY DEF ReadOn, Reads
  <2> QED  BY <1>1, <2>1, <2>2, TransportAssumption
<1>3. clock \in Nat /\ booted \in Nat /\ clock <= clock /\ booted <= booted
  BY <1>1, TransportAssumption DEF TransportTypeOK
<1>4. LogGrows /\ InMemory' = InMemory
  BY <1>1, <1>3, LogStays
<1>5. cached' \subseteq cached /\ (\A j \in cached \ cached' : Excused(j)') /\ CapsHold'
  BY <1>1, <1>4, PrunedBetween
<1>6. GivenUp'
  <2>1. spool' \cap InMemory' = {} /\ DOMAIN made' \ DOMAIN made = {} /\ spool \ spool' = {}
    BY <1>1, <1>4 DEF TransportInv, GivenUp
  <2> QED  BY <1>4, <1>5, <2>1, SomeGivenUp DEF TransportInv
<1> HIDE DEF i, offset
<1>7. /\ ReadsTold'
      /\ client' \in [Client -> [of : 0..Len(made'), at : Nat, expired : BOOLEAN]]
  BY <1>1, <1>2, <1>4, <1>6, ToldRead DEF TransportInv
<1>8. TransportTypeOK'
  BY <1>1, <1>5, <1>7 DEF TransportTypeOK
<1> QED  BY <1>5, <1>6, <1>7, <1>8 DEF TransportInv

LEMMA PassTimeStep ==
  ASSUME TransportInv, PassTime PROVE TransportInv'
<1>1. TransportTypeOK /\ made' = made /\ spool' = spool /\ clock' = clock + 1 /\ booted' = booted
      /\ client' = client /\ clock < MaxClock
      /\ (cached' = cached \/ cached' = Pruned(made', cached, clock'))
  BY DEF PassTime, TransportInv
<1>2. clock \in Nat /\ booted \in Nat /\ MaxClock \in Nat /\ clock' \in 0..MaxClock
      /\ clock <= clock' /\ booted <= booted' /\ clock' \in Nat
  BY <1>1, TransportAssumption DEF TransportTypeOK
<1>3. LogGrows /\ InMemory' = InMemory
  BY <1>1, <1>2, LogStays
<1>4. cached' \subseteq cached /\ (\A j \in cached \ cached' : Excused(j)') /\ CapsHold'
  <2>1. CASE cached' = cached
    <3>1. \A j \in cached : OfAccount(j)' = OfAccount(j)
      BY <1>1, <1>3 DEF OfAccount
    <3> QED  BY <1>1, <2>1, <3>1 DEF CapsHold, TransportInv
  <2>2. CASE cached' = Pruned(made', cached, clock')
    BY <1>3, <2>2, PrunedBetween
  <2> QED  BY <1>1, <2>1, <2>2
<1>5. GivenUp'
  <2>1. spool' \cap InMemory' = {} /\ DOMAIN made' \ DOMAIN made = {} /\ spool \ spool' = {}
    BY <1>1, <1>3 DEF TransportInv, GivenUp
  <2> QED  BY <1>3, <1>4, <2>1, SomeGivenUp DEF TransportInv
<1>6. ReadsTold'
  BY <1>1, <1>3, ToldUnread DEF TransportInv
<1>7. TransportTypeOK'
  BY <1>1, <1>2, <1>4 DEF TransportTypeOK
<1> QED  BY <1>4, <1>5, <1>6, <1>7 DEF TransportInv

LEMMA RebootStep ==
  ASSUME TransportInv, Reboot PROVE TransportInv'
<1>1. TransportTypeOK /\ made' = made /\ spool' = spool /\ clock' = clock /\ booted' = Len(made)
      /\ client' = client /\ cached' = {}
  BY DEF Reboot, TransportInv
<1>2. /\ clock \in Nat /\ booted \in Nat /\ booted' \in Nat /\ clock <= clock /\ booted <= booted'
      /\ made \in Seq(Result) /\ booted' \in 0..Len(made)
  BY <1>1, TransportAssumption DEF TransportTypeOK
<1>3. LogGrows /\ InMemory' = InMemory
  BY <1>1, <1>2, LogStays
<1>4. \A i \in cached : Excused(i)'
  <2>1. \A i \in cached : i \in InMemory' /\ i <= booted'
    BY <1>1, <1>2, <1>3 DEF TransportInv, GivenUp, InMemory
  <2> QED  BY <2>1 DEF Excused
<1>5. GivenUp'
  <2>1. spool' \cap InMemory' = {} /\ DOMAIN made' \ DOMAIN made = {} /\ spool \ spool' = {}
    BY <1>1, <1>3 DEF TransportInv, GivenUp
  <2> QED  BY <1>1, <1>3, <1>4, <2>1, SomeGivenUp DEF TransportInv
<1>6. CapsHold'
  <2>1. Pruned(made', {}, 0) = {} /\ Bytes(made', Pruned(made', {}, 0)) <= MaxBytes
    BY <1>1, <1>2, PrunedFits
  <2> QED  BY <1>1, <2>1 DEF CapsHold
<1>7. ReadsTold'
  BY <1>1, <1>3, ToldUnread DEF TransportInv
<1>8. TransportTypeOK'
  BY <1>1, <1>2 DEF TransportTypeOK
<1> QED  BY <1>5, <1>6, <1>7, <1>8 DEF TransportInv

\* What a wrap adds to the log.
LEMMA WrapGrows ==
  ASSUME TransportInv, NEW c \in Client, NEW text \in LongText, NEW spooled \in BOOLEAN,
         clock < MaxClock, made' = New(c, text, spooled), clock' = clock + 1, booted' = booted
  PROVE  LET n == Len(made) + 1
             row == [account |-> AccountOf[c], text |-> text, time |-> clock + 1, spooled |-> spooled]
         IN /\ LogGrows /\ made' = Append(made, row) /\ row \in Result
            /\ n \in Nat /\ n \notin DOMAIN made /\ DOMAIN made' = DOMAIN made \cup {n}
            /\ made'[n] = row /\ InMemory' = IF spooled THEN InMemory ELSE InMemory \cup {n}
            /\ clock' \in 0..MaxClock /\ booted' \in 0..Len(made')
<1> DEFINE n == Len(made) + 1
           row == [account |-> AccountOf[c], text |-> text, time |-> clock + 1, spooled |-> spooled]
<1>1. TransportTypeOK
  BY DEF TransportInv
<1>2. /\ made \in Seq(Result) /\ clock \in Nat /\ booted \in 0..Len(made) /\ MaxClock \in Nat
  BY <1>1, TransportAssumption DEF TransportTypeOK
<1>3. /\ row \in Result /\ made' \in Seq(Result) /\ Len(made') = n /\ Len(made) \in Nat
      /\ made'[n] = row /\ \A i \in DOMAIN made : made'[i] = made[i]
  BY <1>1, WrappedRow
<1>4. made' = Append(made, row)
  BY DEF New
<1>5. row.spooled = spooled
  OBVIOUS
<1> HIDE DEF row
<1>6. n \in Nat /\ n \notin DOMAIN made /\ DOMAIN made' = DOMAIN made \cup {n}
  BY <1>2, <1>3
<1>7. InMemory' = IF spooled THEN InMemory ELSE InMemory \cup {n}
  BY <1>3, <1>5, <1>6 DEF InMemory
<1>8. clock' \in Nat /\ clock <= clock' /\ booted' \in Nat /\ booted <= booted'
      /\ Len(made) <= Len(made') /\ clock' \in 0..MaxClock /\ booted' \in 0..Len(made')
  BY <1>2, <1>3
<1> QED  BY <1>1, <1>3, <1>4, <1>6, <1>7, <1>8 DEF LogGrows, row

LEMMA FirstChunkType == FirstChunk \in Nat \ {0, 1} /\ 0 \in Nat
  BY TransportAssumption

LEMMA WrapSpooledStep ==
  ASSUME TransportInv, NEW c \in Client, NEW text \in LongText, WrapSpooled(c, text)
  PROVE  TransportInv'
<1> DEFINE n == Len(made) + 1
           row == [account |-> AccountOf[c], text |-> text, time |-> clock + 1, spooled |-> TRUE]
<1>1. /\ clock < MaxClock /\ made' = New(c, text, TRUE) /\ clock' = clock + 1 /\ booted' = booted
      /\ cached' = Pruned(made', cached, clock')
  BY DEF WrapSpooled
<1>2. /\ LogGrows /\ n \in Nat /\ n \notin DOMAIN made /\ DOMAIN made' = DOMAIN made \cup {n}
      /\ made'[n] = row /\ InMemory' = InMemory
      /\ clock' \in 0..MaxClock /\ booted' \in 0..Len(made')
  BY <1>1, WrapGrows
<1>3. made \in Seq(Result) /\ made' \in Seq(Result) /\ Len(New(c, text, TRUE)) = n
  <2>1. made \in Seq(Result)
    BY <1>2 DEF LogGrows, TransportTypeOK
  <2> QED  BY <1>1, <1>2, <2>1, WrappedRow DEF LogGrows
<1>4. PICK seen : spool' = (spool \ {i \in seen : ~Good(made', i, clock')}) \cup {n}
  BY <1>1, <1>3 DEF WrapSpooled
<1>5. client' = [client EXCEPT ![c] = Advanced(made', cached', spool', n, 0, FirstChunk, clock')]
  BY <1>1, <1>3 DEF WrapSpooled
<1>6. cached' \subseteq cached /\ (\A i \in cached \ cached' : Excused(i)') /\ CapsHold'
  BY <1>1, <1>2, PrunedBetween
<1>7. GivenUp'
  <2>1. GivenUp /\ InMemory \subseteq DOMAIN made
    BY DEF TransportInv, InMemory
  <2>2. spool' \cap InMemory' = {} /\ DOMAIN made' \ DOMAIN made \subseteq spool'
    BY <1>2, <1>4, <2>1 DEF GivenUp
  <2>3. \A i \in spool \ spool' : ~Good(made', i, clock')
    BY <1>4
  <2> QED  BY <1>2, <1>6, <2>1, <2>2, <2>3, SomeGivenUp
<1>8. 0 < made'[n].text.size
  BY <1>2, TextType
<1> HIDE DEF n
<1>9. /\ ReadsTold'
      /\ client' \in [Client -> [of : 0..Len(made'), at : Nat, expired : BOOLEAN]]
  BY <1>2, <1>5, <1>7, <1>8, ToldRead, FirstChunkType DEF TransportInv
<1>10. TransportTypeOK'
  <2>1. cached' \subseteq DOMAIN made' /\ spool' \subseteq DOMAIN made' /\ cached' \cap spool' = {}
    BY <1>2, <1>4, <1>6, <1>7 DEF TransportInv, TransportTypeOK, GivenUp
  <2> QED  BY <1>2, <1>3, <1>9, <2>1 DEF TransportTypeOK
<1> QED  BY <1>6, <1>7, <1>9, <1>10 DEF TransportInv

LEMMA RoomCapped ==
  ASSUME TransportInv, LogGrows, NEW account, NEW text, NEW n, n = Len(made) + 1,
         made'[n].account = account, NEW s, s \subseteq cached,
         NEW kept, kept \subseteq Roomy(made', s, account, text) \cup {n}, NEW i \in kept
  PROVE  Cardinality(From(OfAccount(i)', i) \cap kept) <= MaxCount
<1> DEFINE own == {j \in s : made'[j].account = account}
           room == Roomy(made', s, account, text)
           mine == From(OfAccount(i)', i) \cap kept
<1>1. /\ s \subseteq DOMAIN made /\ room \subseteq s /\ made \in Seq(Result)
      /\ MaxCount \in Nat \ {0} /\ GivenUp /\ CapsHold
  BY TransportAssumption DEF TransportInv, GivenUp, InMemory, LogGrows, TransportTypeOK, Roomy
<1>2. \A j \in room : j \in own => Cardinality(From(own, j)) < MaxCount
  BY DEF Roomy
<1>3. n \in Nat /\ n \notin DOMAIN made /\ \A j \in DOMAIN made : j \in Nat /\ ~(j >= n)
  BY <1>1
<1>4. kept \subseteq room \cup {n} /\ \A j \in mine : j \in OfAccount(i)' /\ j >= i /\ j \in kept
  BY DEF From
<1> HIDE DEF room, mine
<1>5. CASE i = n
  <2>1. mine \subseteq {n}
    BY <1>1, <1>3, <1>4, <1>5
  <2>2. Cardinality(mine) <= Cardinality({n}) /\ Cardinality({n}) = 1 /\ Cardinality(mine) \in Nat
    BY <2>1, FS_Singleton, FS_Subset, FS_CardinalityType
  <2> QED  BY <1>1, <2>2 DEF mine
<1>6. CASE i \in room /\ i \in own
  <2> DEFINE older == From(own, i)
  <2>1. older \subseteq DOMAIN made
    BY <1>1 DEF From
  <2>2. mine \subseteq older \cup {n}
    BY <1>1, <1>4, <1>6 DEF From, OfAccount
  <2>3. IsFiniteSet(older) /\ n \notin older
    BY <1>1, <1>3, <2>1, LogFinite, FS_Subset
  <2> HIDE DEF older
  <2>4. IsFiniteSet(older \cup {n}) /\ Cardinality(older \cup {n}) = Cardinality(older) + 1
    BY <2>3, FS_AddElement
  <2>5. Cardinality(mine) <= Cardinality(older \cup {n})
    BY <2>2, <2>4, FS_Subset
  <2>6. IsFiniteSet(mine)
    BY <2>2, <2>4, FS_Subset
  <2>7. Cardinality(older) \in Nat /\ Cardinality(mine) \in Nat /\ Cardinality(older) < MaxCount
    BY <1>2, <1>6, <2>3, <2>6, FS_CardinalityType DEF older
  <2> QED  BY <1>1, <2>4, <2>5, <2>7 DEF mine
<1>7. CASE i \in room /\ i \notin own
  <2>1. i \in kept \ {n} /\ kept \ {n} \subseteq cached /\ made'[i].account # account
    BY <1>1, <1>3, <1>4, <1>7
  <2>2. n \notin OfAccount(i)'
    BY <2>1 DEF OfAccount
  <2>3. mine = From(OfAccount(i)', i) \cap (kept \ {n})
    BY <2>2 DEF mine, From
  <2>4. Cardinality(From(OfAccount(i)', i) \cap (kept \ {n})) <= MaxCount
    BY <1>1, <2>1, FewerCapped
  <2> QED  BY <2>3, <2>4 DEF mine
<1> QED  BY <1>4, <1>5, <1>6, <1>7

LEMMA WrapInMemoryStep ==
  ASSUME TransportInv, NEW c \in Client, NEW text \in LongText, WrapInMemory(c, text)
  PROVE  TransportInv'
<1> DEFINE n == Len(made) + 1
           row == [account |-> AccountOf[c], text |-> text, time |-> clock + 1, spooled |-> FALSE]
           still == Pruned(made', cached, clock')
           room == Roomy(made', still, AccountOf[c], text)
<1>1. /\ clock < MaxClock /\ made' = New(c, text, FALSE) /\ clock' = clock + 1 /\ booted' = booted
      /\ spool' = spool
  BY DEF WrapInMemory
<1>2. /\ LogGrows /\ made' = Append(made, row) /\ row \in Result
      /\ n \in Nat /\ n \notin DOMAIN made /\ DOMAIN made' = DOMAIN made \cup {n}
      /\ made'[n] = row /\ InMemory' = InMemory \cup {n}
      /\ clock' \in 0..MaxClock /\ booted' \in 0..Len(made')
  BY <1>1, WrapGrows
<1>3. made \in Seq(Result) /\ made' \in Seq(Result) /\ Len(New(c, text, FALSE)) = n
  <2>1. made \in Seq(Result)
    BY <1>2 DEF LogGrows, TransportTypeOK
  <2> QED  BY <1>1, <1>2, <2>1, WrappedRow DEF LogGrows
<1>4. cached' = Pruned(made', room \cup {n}, clock')
  BY <1>1, <1>3 DEF WrapInMemory
<1>5. client' = [client EXCEPT ![c] = Advanced(made', cached', spool', n, 0, FirstChunk, clock')]
  BY <1>1, <1>3 DEF WrapInMemory
<1>6. GivenUp /\ cached \subseteq DOMAIN made /\ cached \subseteq InMemory /\ cached \subseteq InMemory'
  BY <1>2 DEF TransportInv, GivenUp, InMemory
<1>7. still \subseteq cached
  BY <1>2, <1>3, <1>6, PrunedFits
<1>8. room \subseteq still
  BY DEF Roomy
<1>9. \A i \in cached : i \notin still => Excused(i)'
  BY <1>3, <1>6, PrunedExcused
<1>10. \A i \in still : i \notin room => Excused(i)'
  <2>1. row.account = AccountOf[c] /\ row.text = text /\ ~row.spooled
    OBVIOUS
  <2>2. still \subseteq InMemory
    BY <1>6, <1>7
  <2> HIDE DEF still, row
  <2>3. \A i \in still : i \notin Roomy(made', still, row.account, row.text) => Excused(i)'
    BY <1>2, <1>3, <2>1, <2>2, RoomExcused
  <2> QED  BY <2>1, <2>3
<1> HIDE DEF still, room, n, row
<1>11. room \cup {n} \subseteq InMemory' /\ room \cup {n} \subseteq DOMAIN made'
  BY <1>2, <1>6, <1>7, <1>8
<1>12. \A i \in room \cup {n} : i \notin cached' => Excused(i)'
  BY <1>3, <1>4, <1>11, PrunedExcused
<1>13. cached' \subseteq room \cup {n} /\ Bytes(made', cached') <= MaxBytes
  BY <1>3, <1>4, <1>11, PrunedFits
<1>14. CapsHold'
  <2>1. n = Len(made) + 1 /\ made'[n].account = AccountOf[c]
    BY <1>2 DEF n, row
  <2>2. \A i \in cached' : Cardinality(From(OfAccount(i)', i) \cap cached') <= MaxCount
    BY <1>2, <1>7, <1>13, <2>1, RoomCapped DEF room
  <2> QED  BY <1>13, <2>2 DEF CapsHold
<1>15. GivenUp'
  <2>1. cached' \subseteq InMemory' /\ spool' \cap InMemory' = {}
    BY <1>1, <1>2, <1>11, <1>13 DEF GivenUp, TransportInv, TransportTypeOK
  <2>2. \A i \in InMemory' \ cached' : Excused(i)'
    <3> SUFFICES ASSUME NEW i \in InMemory', i \notin cached' PROVE Excused(i)'
        OBVIOUS
    <3>1. CASE i \in room \cup {n}
      BY <1>12, <3>1
    <3>2. CASE i \in cached /\ i \notin room
      BY <1>9, <1>10, <3>2
    <3>3. CASE i \in InMemory /\ i \notin cached
      <4>1. i \in AllExcused
        BY <1>6, <3>3 DEF GivenUp, AllExcused, InMemory
      <4> QED  BY <1>2, <4>1, ExcusedGrows
    <3> QED  BY <1>2, <3>1, <3>2, <3>3
  <2>3. \A i \in DOMAIN made' \ (InMemory' \cup spool') : ~Good(made', i, clock')
    <3> SUFFICES ASSUME NEW i \in DOMAIN made', i \notin InMemory', i \notin spool'
                 PROVE  ~Good(made', i, clock')
        OBVIOUS
    <3>1. i \in DOMAIN made /\ i \notin InMemory /\ i \notin spool
      BY <1>1, <1>2
    <3>2. ~Good(made, i, clock)
      BY <1>6, <3>1 DEF GivenUp
    <3>3. made'[i] = made[i] /\ made[i].time \in Nat /\ clock \in Nat /\ clock' \in Nat
          /\ clock <= clock' /\ ResultTTL \in Nat
      BY <1>2, <1>3, <3>1, LogType, TransportAssumption DEF LogGrows, TransportTypeOK
    <3> QED  BY <3>2, <3>3 DEF Good
  <2> QED  BY <2>1, <2>2, <2>3 DEF GivenUp
<1>16. 0 < made'[n].text.size /\ n \in DOMAIN made'
  BY <1>2, TextType DEF row
<1>17. /\ ReadsTold'
       /\ client' \in [Client -> [of : 0..Len(made'), at : Nat, expired : BOOLEAN]]
  BY <1>2, <1>5, <1>15, <1>16, ToldRead, FirstChunkType DEF TransportInv
<1>18. TransportTypeOK'
  <2>1. cached' \subseteq DOMAIN made' /\ spool' \subseteq DOMAIN made' /\ cached' \cap spool' = {}
    BY <1>1, <1>2, <1>11, <1>13, <1>15 DEF TransportInv, TransportTypeOK, GivenUp
  <2> QED  BY <1>2, <1>3, <1>17, <2>1 DEF TransportTypeOK
<1> QED  BY <1>14, <1>15, <1>17, <1>18 DEF TransportInv

LEMMA TransportStep == TransportInv /\ [TransportNext]_transportVars => TransportInv'
<1> SUFFICES ASSUME TransportInv, [TransportNext]_transportVars PROVE TransportInv'
    OBVIOUS
<1>1. ASSUME NEW c \in Client, NEW t \in LongText, WrapInMemory(c, t) PROVE TransportInv'
  BY <1>1, WrapInMemoryStep
<1>2. ASSUME NEW c \in Client, NEW t \in LongText, WrapSpooled(c, t) PROVE TransportInv'
  BY <1>2, WrapSpooledStep
<1>3. ASSUME NEW c \in Client, NEW n \in Chunk, ReadOn(c, n) PROVE TransportInv'
  BY <1>3, ReadOnStep
<1>4. CASE PassTime
  BY <1>4, PassTimeStep
<1>5. CASE Reboot
  BY <1>5, RebootStep
<1>6. CASE UNCHANGED transportVars
  <2>1. UNCHANGED <<made, cached, spool, clock, booted, client>>
    BY <1>6 DEF transportVars
  <2> QED
    BY <2>1 DEF TransportInv, TransportTypeOK, GivenUp, ReadsTold, CapsHold, AllExcused, Excused,
                InMemory, OfAccount
<1> QED  BY <1>1, <1>2, <1>3, <1>4, <1>5, <1>6 DEF TransportNext

\* Results, files, the clock and the readers keep their types, and with them the
\* invariant that every result given up is excused.
THEOREM TransportInvariant == TransportSpec => []TransportInv
<1> QED  BY TransportStart, TransportStep, PTL DEF TransportSpec

\* TransportTypeOK for any texts, chunk sizes, caps and number of clients.
THEOREM TransportTypes == TransportSpec => []TransportTypeOK
<1>1. TransportInv => TransportTypeOK
  BY DEF TransportInv
<1> QED  BY <1>1, TransportInvariant, PTL

\* A client that follows next_offset is told "expired" only of a result that is
\* old, was in the memory of an earlier process or had to make room, and gets
\* pieces that end beyond their start and outside of a pair; the caps hold, for
\* any number of clients and accounts and in any order of wraps and reads.
THEOREM TransportResultReadBack == TransportSpec => []ResultReadBack
<1>1. TransportInv => ResultReadBack
  BY DEF TransportInv, ReadsTold, CapsHold, AllExcused, ResultReadBack
<1> QED  BY <1>1, TransportInvariant, PTL

\* A client that reads on gets further or is told "expired" where it is.
ReadsAdvance ==
  \A c \in Client : client'[c].of = client[c].of /\ client'[c] # client[c] =>
    \/ ~client'[c].expired /\ client'[c].at > client[c].at
    \/ client'[c].expired /\ client'[c].at = client[c].at

LEMMA ReadAdvances ==
  ASSUME TransportTypeOK, made' \in Seq(Result), NEW c \in Client, NEW i \in DOMAIN made',
         NEW offset \in Nat, offset < made'[i].text.size, NEW chars \in Nat \ {0, 1},
         client' = [client EXCEPT ![c] = Advanced(made', cached', spool', i, offset, chars, clock')],
         i = client[c].of => offset = client[c].at
  PROVE  ReadsAdvance
<1> DEFINE r == Advanced(made', cached', spool', i, offset, chars, clock')
<1>1. /\ r \in [of : {i}, at : Nat, expired : BOOLEAN]
      /\ ~r.expired => r.at > offset
      /\ r.expired => r.at = offset
  BY ReadPiece
<1>2. client'[c] = r /\ \A d \in Client \ {c} : client'[d] = client[d]
  BY DEF TransportTypeOK
<1> HIDE DEF r
<1> QED  BY <1>1, <1>2 DEF ReadsAdvance

\* No read is stuck: with the chunk sizes that are allowed, each piece of a result
\* ends beyond where it begins, a pair at its end or not.
THEOREM TransportReadsAdvance == TransportSpec => [][ReadsAdvance]_transportVars
<1>1. TransportInv /\ TransportInv' /\ [TransportNext]_transportVars
        => [ReadsAdvance]_transportVars
  <2> SUFFICES ASSUME TransportInv, TransportInv', TransportNext PROVE ReadsAdvance
      OBVIOUS
  <2>1. TransportTypeOK /\ made \in Seq(Result) /\ made' \in Seq(Result) /\ Len(made) \in Nat
    BY DEF TransportInv, TransportTypeOK
  <2>2. ASSUME NEW c \in Client, NEW t \in LongText, NEW b \in BOOLEAN, clock < MaxClock,
               made' = New(c, t, b),
               client' = [client EXCEPT ![c] = Advanced(made', cached', spool', Len(made) + 1,
                                                        0, FirstChunk, clock')]
        PROVE  ReadsAdvance
    <3> DEFINE n == Len(made) + 1
    <3>1. n \in DOMAIN made' /\ 0 < made'[n].text.size
      <4>1. /\ Len(made') = n
            /\ made'[n] = [account |-> AccountOf[c], text |-> t, time |-> clock + 1, spooled |-> b]
        BY <2>1, <2>2, WrappedRow
      <4>2. n \in DOMAIN made'
        BY <2>1, <4>1
      <4> QED  BY <4>1, <4>2, TextType
    <3>2. client[c].of # n
      BY <2>1 DEF TransportTypeOK
    <3>3. client' = [client EXCEPT ![c] = Advanced(made', cached', spool', n, 0, FirstChunk, clock')]
      BY <2>2
    <3> HIDE DEF n
    <3> QED  BY <2>1, <3>1, <3>2, <3>3, FirstChunkType, ReadAdvances
  <2>3. ASSUME NEW c \in Client, NEW t \in LongText, WrapInMemory(c, t) PROVE ReadsAdvance
    <3>1. clock < MaxClock /\ made' = New(c, t, FALSE) /\ Len(New(c, t, FALSE)) = Len(made) + 1
          /\ clock' = clock + 1 /\ spool' = spool
      BY <2>1, <2>3, WrappedRow DEF WrapInMemory
    <3> QED  BY <2>2, <2>3, <3>1 DEF WrapInMemory
  <2>4. ASSUME NEW c \in Client, NEW t \in LongText, WrapSpooled(c, t) PROVE ReadsAdvance
    <3>1. clock < MaxClock /\ made' = New(c, t, TRUE) /\ Len(New(c, t, TRUE)) = Len(made) + 1
          /\ clock' = clock + 1
      BY <2>1, <2>4, WrappedRow DEF WrapSpooled
    <3> QED  BY <2>2, <2>4, <3>1 DEF WrapSpooled
  <2>5. ASSUME NEW c \in Client, NEW n \in Chunk, ReadOn(c, n) PROVE ReadsAdvance
    <3>1. client[c] \in [of : 0..Len(made), at : Nat, expired : BOOLEAN]
      BY <2>1 DEF TransportTypeOK
    <3>2. /\ made' = made /\ client[c].of # 0 /\ client[c].at < made[client[c].of].text.size
          /\ client' = [client EXCEPT ![c] = Advanced(made', cached', spool', client[c].of,
                                                      client[c].at, n, clock')]
      BY <2>5 DEF ReadOn, Reads
    <3>3. client[c].of \in DOMAIN made' /\ client[c].at \in Nat /\ n \in Nat \ {0, 1}
      BY <2>1, <3>1, <3>2, TransportAssumption
    <3> QED  BY <2>1, <3>2, <3>3, ReadAdvances
  <2>6. client' = client => ReadsAdvance
    BY DEF ReadsAdvance
  <2> QED  BY <2>3, <2>4, <2>5, <2>6 DEF TransportNext, PassTime, Reboot
<1> QED  BY <1>1, TransportInvariant, PTL DEF TransportSpec

(***************************************************************************)
(* ContextRetrieval.  The scope is what the evidence agrees on; the names  *)
(* its memory is looked up by are its own because a merged project's names *)
(* are kept as aliases of the one it was merged into (MergedKept).  The    *)
(* budget is a loop: BudgetInv holds after each of its visits.             *)
(***************************************************************************)

LEMMA RetrievedType ==
  /\ \A m \in Retrieved : m.size \in Nat \ {0}
  /\ Memory \subseteq Retrieved /\ Fresh \subseteq Retrieved
<1>1. \A m \in Memory \cup Fresh : m.size \in Nat \ {0}
  BY MemoryAssumption
<1>2. \A m \in [layer : {"chart"}, size : {ChartSize}, under : Word] : m.size \in Nat \ {0}
  BY CapAssumption
<1> QED  BY <1>1, <1>2 DEF Retrieved

LEMMA SequenceOfSet ==
  ASSUME NEW S, IsFiniteSet(S)
  PROVE  /\ SetToSeq(S) \in Seq(S) /\ Range(SetToSeq(S)) \subseteq S
         /\ S = {} => SetToSeq(S) = <<>>
<1> DEFINE n == Cardinality(S)
<1>1. n \in Nat /\ ExistsBijection(1..n, S)
  BY FS_CardinalityType, FS_CountingElements
<1>2. PICK f \in Bijection(1..n, S) : TRUE
  BY <1>1 DEF ExistsBijection
<1>3. f \in [1..n -> S] /\ IsInjective(f)
  BY <1>2 DEF Bijection, Injection, IsInjective
<1>4. SetToSeq(S) \in [1..n -> S]
  BY <1>3 DEF SetToSeq
<1>5. SetToSeq(S) \in Seq(S)
  BY <1>1, <1>4
<1>6. S = {} => SetToSeq(S) = <<>>
  <2> SUFFICES ASSUME S = {} PROVE SetToSeq(S) = <<>>
      OBVIOUS
  <2>1. n = 0
    BY FS_EmptySet
  <2> QED  BY <1>4, <2>1
<1> QED  BY <1>4, <1>5, <1>6 DEF Range

-----------------------------------------------------------------------------
(* The scope and its names *)

LEMMA CanonicalType ==
  ASSUME RegistryTypeOK, NEW w PROVE Canonical(w) \in Word \cup {None}
  BY ResolveType DEF Canonical

LEMMA ScopeIsEvidence ==
  ASSUME NEW r \in ReadingType, Scope(r) # None
  PROVE  /\ Scope(r) \in Word
         /\ r.project \in {None, Scope(r)} /\ r.workspace \in {None, Scope(r)}
<1> DEFINE found == Given(r.workspace) \cup
                    IF r.project # None THEN {r.project} ELSE r.aliases \cup r.semantic
<1>1. Scope(r) = Unanimous(found)
  BY DEF Scope
<1>2. PICK p \in found : found = {p}
  BY <1>1 DEF Unanimous
<1>3. Scope(r) = p
  BY <1>1, <1>2 DEF Unanimous
<1>4. found \subseteq Word
  BY NoneAssumption DEF ReadingType, Given
<1> QED  BY <1>2, <1>3, <1>4 DEF Given

LEMMA StorageIdsType ==
  ASSUME RegistryTypeOK, NEW id \in Word
  PROVE  StorageIds(projects, id) \subseteq Word /\ id \in StorageIds(projects, id)
<1> DEFINE target == {i \in DOMAIN projects : projects[i].id = id /\ projects[i].state \in Routable}
           merged == {i \in DOMAIN projects : projects[i].state = "merged" /\ projects[i].into = id}
<1>1. \A i \in DOMAIN projects : projects[i].aliases \subseteq Word /\ Names(projects[i]) \subseteq Word
                                 /\ i \in Nat
  <2>1. \A i \in DOMAIN projects : projects[i] \in Row /\ i \in Nat
    BY DEF RegistryTypeOK
  <2> QED  BY <2>1 DEF Row, Names
<1>2. target # {} => First(target) \in DOMAIN projects
  <2>1. target \in SUBSET Nat
    BY <1>1
  <2> QED  BY <2>1, FirstIsFirst
<1>3. UNION {Names(projects[i]) : i \in merged} \subseteq Word
  BY <1>1
<1>4. StorageIds(projects, id) = IF target = {} THEN {id}
        ELSE {id} \cup projects[First(target)].aliases \cup UNION {Names(projects[i]) : i \in merged}
  BY DEF StorageIds
<1> HIDE DEF target, merged
<1> QED  BY <1>1, <1>2, <1>3, <1>4

\* A project is of its own family, however deep the merges into it.
LEMMA OwnFamily ==
  ASSUME NEW id PROVE id \in Family(id)
<1> DEFINE more(S) == S \cup {projects[i].id : i \in {k \in DOMAIN projects :
                                projects[k].state = "merged" /\ projects[k].into \in S}}
           ids == {id} \cup {projects[i].id : i \in DOMAIN projects}
           X == SUBSET ids
           next == [p \in (1..MaxProjects) \X X |-> more(p[2])]
           Fits(f) == f = [n \in 0..MaxProjects |-> IF n = 0 THEN {id} ELSE more(f[n - 1])]
<1>1. MaxProjects \in Nat /\ {id} \in X
  BY BoundAssumption
<1>2. \A S \in X : more(S) \in X
  OBVIOUS
<1>3. next \in [(1..MaxProjects) \X X -> X]
      /\ \A n \in 1..MaxProjects : \A S \in X : next[<<n, S>>] = more(S)
  BY <1>2
<1> HIDE DEF X, next, more
<1>4. PICK f : Iterated(X, {id}, MaxProjects, next, f)
  BY <1>1, <1>3, Iterates
<1>5. f \in [0..MaxProjects -> X] /\ f[0] = {id}
      /\ \A n \in 1..MaxProjects : f[n] = next[<<n, f[n - 1]>>]
  BY <1>4 DEF Iterated
<1>6. \A n \in 1..MaxProjects : n - 1 \in 0..MaxProjects /\ f[n] = more(f[n - 1])
  <2> SUFFICES ASSUME NEW n \in 1..MaxProjects
               PROVE  n - 1 \in 0..MaxProjects /\ f[n] = more(f[n - 1])
      OBVIOUS
  <2>1. n - 1 \in 0..MaxProjects
    BY <1>1
  <2>2. f[n - 1] \in X
    BY <1>5, <2>1
  <2> QED  BY <1>3, <1>5, <2>1, <2>2
<1>7. Fits(f)
  BY <1>5, <1>6
<1>8. PICK g : Fits(g) /\ Family(id) = g[MaxProjects]
  BY <1>7 DEF Family, more
<1>9. \A S : S \subseteq more(S)
  BY DEF more
<1>10. g[0] = {id} /\ \A n \in 1..MaxProjects : g[n] = more(g[n - 1])
  <2>1. g = [n \in 0..MaxProjects |-> IF n = 0 THEN {id} ELSE more(g[n - 1])]
    BY <1>8
  <2>2. \A n \in 0..MaxProjects : g[n] = IF n = 0 THEN {id} ELSE more(g[n - 1])
    BY <2>1, Zenon
  <2> QED  BY <1>1, <2>2
<1> HIDE DEF Fits
<1> DEFINE lost == {n \in 0..MaxProjects : id \notin g[n]}
<1>11. lost = {}
  <2> SUFFICES ASSUME lost # {} PROVE FALSE
      OBVIOUS
  <2>1. lost \in SUBSET Nat
    OBVIOUS
  <2>2. PICK n \in lost : \A m \in lost : n <= m
    BY <2>1, FirstIsFirst
  <2>3. n # 0 /\ n - 1 \in 0..MaxProjects /\ ~(n <= n - 1)
    BY <1>1, <1>10, <2>2
  <2>4. id \in g[n - 1] /\ g[n] = more(g[n - 1])
    BY <1>1, <1>10, <2>2, <2>3
  <2> QED  BY <1>9, <2>2, <2>4
<1> QED  BY <1>1, <1>8, <1>11

\* A name that memory is looked up by is the project's own, or an alias of it.
LEMMA NamesOfScope ==
  ASSUME RegistryTypeOK, MergedKept, NEW id \in Word, NEW w \in StorageIds(projects, id),
         OthersMemory(w, id)
  PROVE  Aliased(w, id)
<1> DEFINE target == {i \in DOMAIN projects : projects[i].id = id /\ projects[i].state \in Routable}
           merged == {i \in DOMAIN projects : projects[i].state = "merged" /\ projects[i].into = id}
           t == First(target)
<1>1. StorageIds(projects, id) = IF target = {} THEN {id}
        ELSE {id} \cup projects[t].aliases \cup UNION {Names(projects[i]) : i \in merged}
  BY DEF StorageIds
<1>2. id \in Family(id)
  BY OwnFamily
<1>3. w # id
  BY <1>2 DEF OthersMemory
<1>4. target # {} /\ w \in projects[t].aliases \cup UNION {Names(projects[i]) : i \in merged}
  BY <1>1, <1>3
<1>5. t \in target
  <2>1. target \in SUBSET Nat
    BY DEF RegistryTypeOK
  <2> QED  BY <1>4, <2>1, FirstIsFirst
<1> HIDE DEF t
<1>6. w \in projects[t].aliases
  <2>1. CASE w \in UNION {Names(projects[i]) : i \in merged}
    <3>1. PICK i \in merged : w \in Names(projects[i])
      BY <2>1
    <3>2. Names(projects[i]) \subseteq projects[t].aliases \cup {projects[t].id}
      BY <1>5 DEF MergedKept
    <3> QED  BY <1>3, <1>5, <3>1, <3>2
  <2> QED  BY <1>4, <2>1
<1> QED  BY <1>2, <1>5, <1>6 DEF Aliased

-----------------------------------------------------------------------------
(* The collections *)

LEMMA ListingType ==
  ASSUME RegistryTypeOK, NEW q PROVE Listing(projects, Active) \subseteq Word /\ Mentioned(q) \subseteq Word
<1>1. \A i \in DOMAIN projects : projects[i].id \in Word
  <2>1. \A i \in DOMAIN projects : projects[i] \in Row
    BY DEF RegistryTypeOK
  <2> QED  BY <2>1 DEF Row
<1> QED  BY <1>1 DEF Listing, Mentioned

\* The chart is found under a name of the project.
LEMMA ChartType ==
  ASSUME NEW scope \in Word \cup {None}, NEW ids \in SUBSET Word, scope # None => scope \in ids
  PROVE  /\ Chart(scope, ids) \subseteq Retrieved /\ IsFiniteSet(Chart(scope, ids))
         /\ scope = None => Chart(scope, ids) = {}
         /\ \A m \in Chart(scope, ids) : m.layer = "chart" /\ m.under \in ids
<1> DEFINE charted == (ids \cup Given(scope)) \cap Charted
           first == CHOOSE w \in charted : \A v \in charted : Rank[w] <= Rank[v]
           item == [layer |-> "chart", size |-> ChartSize, under |-> first]
<1>1. Chart(scope, ids) = IF scope = None \/ charted = {} THEN {} ELSE {item}
  BY DEF Chart
<1>2. CASE scope = None \/ charted = {}
  BY <1>1, <1>2, FS_EmptySet
<1>3. CASE scope # None /\ charted # {}
  <2>1. charted \subseteq ids
    BY <1>3 DEF Given
  <2>2. {Rank[w] : w \in charted} \in SUBSET Nat /\ {Rank[w] : w \in charted} # {}
    BY <1>3, <2>1, MemoryAssumption
  <2>3. \E w \in charted : \A v \in charted : Rank[w] <= Rank[v]
    <3> DEFINE ranks == {Rank[w] : w \in charted}
    <3>1. First(ranks) \in ranks /\ \A j \in ranks : First(ranks) <= j
      <4> HIDE DEF ranks
      <4> QED  BY <2>2, FirstIsFirst DEF ranks
    <3>2. PICK w \in charted : Rank[w] = First(ranks)
      BY <3>1
    <3> QED  BY <3>1, <3>2
  <2> HIDE DEF charted
  <2>4. first \in charted
    BY <2>3
  <2>5. first \in Word /\ first \in ids
    BY <2>1, <2>4
  <2> HIDE DEF first
  <2>6. item \in Retrieved /\ item.layer = "chart" /\ item.under \in ids
    BY <2>5 DEF Retrieved
  <2>7. Chart(scope, ids) = {item}
    BY <1>1, <1>3
  <2> HIDE DEF item
  <2>8. IsFiniteSet({item})
    BY FS_Singleton
  <2> QED  BY <1>3, <2>6, <2>7, <2>8
<1> QED  BY <1>2, <1>3

LEMMA OfType ==
  ASSUME NEW layers, NEW ids
  PROVE  /\ Of(layers, ids) \subseteq Memory /\ IsFiniteSet(Of(layers, ids))
         /\ \A m \in Of(layers, ids) : m.layer \in layers /\ m.under \in ids
<1>1. Of(layers, ids) \subseteq Memory
  BY DEF Of
<1> QED  BY <1>1, MemoryAssumption, FS_Subset DEF Of

LEMMA RecalledOwn ==
  ASSUME NEW scope, NEW ids, scope # None => scope \in ids
  PROVE  /\ Recalled(scope, ids) \subseteq Memory /\ IsFiniteSet(Recalled(scope, ids))
         /\ scope # None => \A m \in Recalled(scope, ids) :
               IF m.layer = "L3" THEN m.under = scope ELSE m.under \in ids
<1> DEFINE own == Of({"L3", "L2"}, Given(scope))
           named == Of({"L2"}, ids)
           raw == Of({"L1"}, ids)
<1>1. Recalled(scope, ids) = own \cup named \/ Recalled(scope, ids) = raw
  BY DEF Recalled
<1>2. /\ own \subseteq Memory /\ \A m \in own : m.layer \in {"L3", "L2"} /\ m.under \in Given(scope)
      /\ named \subseteq Memory /\ \A m \in named : m.layer = "L2" /\ m.under \in ids
      /\ raw \subseteq Memory /\ \A m \in raw : m.layer = "L1" /\ m.under \in ids
  BY OfType
<1> HIDE DEF own, named, raw
<1>3. Recalled(scope, ids) \subseteq Memory
  BY <1>1, <1>2
<1>4. scope # None => \A m \in Recalled(scope, ids) :
               IF m.layer = "L3" THEN m.under = scope ELSE m.under \in ids
  BY <1>1, <1>2 DEF Given
<1> QED  BY <1>3, <1>4, MemoryAssumption, FS_Subset

LEMMA RangeOfBoth ==
  ASSUME NEW S, NEW s \in Seq(S), NEW t \in Seq(S)
  PROVE  s \o t \in Seq(S) /\ Range(s \o t) \subseteq Range(s) \cup Range(t)
<1>1. s \o t \in Seq(S) /\ DOMAIN (s \o t) = 1..(Len(s) + Len(t))
      /\ DOMAIN s = 1..Len(s) /\ DOMAIN t = 1..Len(t) /\ Len(s) \in Nat /\ Len(t) \in Nat
  OBVIOUS
<1>2. ASSUME NEW i \in DOMAIN (s \o t) PROVE (s \o t)[i] \in Range(s) \cup Range(t)
  <2>1. CASE i <= Len(s)
    <3>1. i \in DOMAIN s /\ (s \o t)[i] = s[i]
      BY <1>1, <2>1
    <3> QED  BY <3>1 DEF Range
  <2>2. CASE ~(i <= Len(s))
    <3>1. i - Len(s) \in DOMAIN t /\ (s \o t)[i] = t[i - Len(s)]
      BY <1>1, <2>2
    <3> QED  BY <3>1 DEF Range
  <2> QED  BY <2>1, <2>2
<1> QED  BY <1>1, <1>2 DEF Range

OwnLists(r, lists) ==
  IF r.scope = None
  THEN /\ lists[4] = <<>>
       /\ \A m \in Range(lists[2]) : m \in Fresh /\ m.thread = r.ask.thread
  ELSE \A m \in Range(lists[2]) \cup Range(lists[4]) :
         \/ m \in Fresh
         \/ IF m.layer = "L3" THEN m.under = r.scope ELSE m.under \in r.ids

LEMMA CollectionsOwn ==
  ASSUME NEW r \in ReadingType, r.scope # None => r.scope \in r.ids
  PROVE  Collections(r) \in [1..4 -> Seq(Retrieved)] /\ OwnLists(r, Collections(r))
<1> DEFINE fresh == {m \in FreshTurns(r.scope, r.ids, r.ask.thread) : Admitted(r, m)}
           recalled == {m \in Recalled(r.scope, r.ids) : Admitted(r, m)}
           global == Of({"L4"}, {None})
           skills == Of({"Skill"}, Given(r.scope) \cup r.skillIds)
           chart == Chart(r.scope, r.ids)
<1>1. r.scope \in Word \cup {None} /\ r.ids \in SUBSET Word
  BY DEF ReadingType
<1>2. fresh \subseteq Fresh /\ IsFiniteSet(fresh)
  <2>1. fresh \subseteq Fresh
    BY DEF FreshTurns
  <2> QED  BY <2>1, MemoryAssumption, FS_Subset
<1>3. recalled \subseteq Recalled(r.scope, r.ids) /\ recalled \subseteq Memory /\ IsFiniteSet(recalled)
  <2>1. recalled \subseteq Recalled(r.scope, r.ids) /\ recalled \subseteq Memory
    BY RecalledOwn
  <2> QED  BY <2>1, MemoryAssumption, FS_Subset
<1>4. r.scope # None => \A m \in recalled : IF m.layer = "L3" THEN m.under = r.scope ELSE m.under \in r.ids
  BY <1>3, RecalledOwn
<1>5. r.scope = None => \A m \in fresh \cup recalled : m \in Fresh /\ m.thread = r.ask.thread
  BY DEF Admitted
<1>6. /\ global \subseteq Memory /\ IsFiniteSet(global)
      /\ skills \subseteq Memory /\ IsFiniteSet(skills)
  BY OfType
<1>7. /\ chart \subseteq Retrieved /\ IsFiniteSet(chart)
      /\ r.scope = None => chart = {}
      /\ \A m \in chart : m.layer = "chart" /\ m.under \in r.ids
  BY <1>1, ChartType
<1>8. Collections(r) = << SetToSeq(global), SetToSeq(fresh) \o SetToSeq(recalled),
                         SetToSeq(skills), SetToSeq(chart) >>
  BY DEF Collections
<1> HIDE DEF fresh, recalled, global, skills, chart
<1>9. Memory \subseteq Retrieved /\ Fresh \subseteq Retrieved
  BY RetrievedType
<1>10. \A S : IsFiniteSet(S) /\ S \subseteq Retrieved => SetToSeq(S) \in Seq(Retrieved)
  <2> SUFFICES ASSUME NEW S, IsFiniteSet(S), S \subseteq Retrieved
               PROVE  SetToSeq(S) \in Seq(Retrieved)
      OBVIOUS
  <2>1. SetToSeq(S) \in Seq(S)
    BY SequenceOfSet
  <2> QED  BY <2>1
<1>11. /\ SetToSeq(global) \in Seq(Retrieved) /\ SetToSeq(fresh) \in Seq(Retrieved)
       /\ SetToSeq(recalled) \in Seq(Retrieved) /\ SetToSeq(skills) \in Seq(Retrieved)
       /\ SetToSeq(chart) \in Seq(Retrieved)
  BY <1>2, <1>3, <1>6, <1>7, <1>9, <1>10
<1>12. /\ SetToSeq(fresh) \o SetToSeq(recalled) \in Seq(Retrieved)
       /\ Range(SetToSeq(fresh) \o SetToSeq(recalled)) \subseteq fresh \cup recalled
  <2>1. Range(SetToSeq(fresh)) \subseteq fresh /\ Range(SetToSeq(recalled)) \subseteq recalled
    BY <1>2, <1>3, SequenceOfSet
  <2> QED  BY <1>11, <2>1, RangeOfBoth
<1>13. Range(SetToSeq(chart)) \subseteq chart /\ (r.scope = None => SetToSeq(chart) = <<>>)
  <2>1. Range(SetToSeq(chart)) \subseteq chart /\ (chart = {} => SetToSeq(chart) = <<>>)
    BY <1>7, SequenceOfSet
  <2> QED  BY <1>7, <2>1
<1> DEFINE both == SetToSeq(fresh) \o SetToSeq(recalled)
           of1 == SetToSeq(global)
           of3 == SetToSeq(skills)
           of4 == SetToSeq(chart)
<1>14. /\ of1 \in Seq(Retrieved) /\ both \in Seq(Retrieved)
       /\ of3 \in Seq(Retrieved) /\ of4 \in Seq(Retrieved)
       /\ Range(both) \subseteq fresh \cup recalled /\ Range(of4) \subseteq chart
       /\ r.scope = None => of4 = <<>>
       /\ Collections(r) = <<of1, both, of3, of4>>
  <2>1. of1 \in Seq(Retrieved) /\ of3 \in Seq(Retrieved) /\ of4 \in Seq(Retrieved)
    BY <1>11
  <2>2. both \in Seq(Retrieved) /\ Range(both) \subseteq fresh \cup recalled
    BY <1>12
  <2>3. Range(of4) \subseteq chart /\ (r.scope = None => of4 = <<>>)
    BY <1>13
  <2>4. Collections(r) = <<of1, both, of3, of4>>
    BY <1>8
  <2> HIDE DEF both, of1, of3, of4
  <2> QED  BY <2>1, <2>2, <2>3, <2>4
<1> HIDE DEF both, of1, of3, of4
<1>15. Collections(r) \in [1..4 -> Seq(Retrieved)]
  BY <1>14
<1>16. Collections(r)[2] = both /\ Collections(r)[4] = of4
  BY <1>14
<1>17. OwnLists(r, Collections(r))
  <2>1. CASE r.scope = None
    BY <1>5, <1>14, <1>16, <2>1 DEF OwnLists
  <2>2. CASE r.scope # None
    <3>1. \A m \in chart : m.layer # "L3" /\ m.under \in r.ids
      BY <1>7
    <3>2. \A m \in Range(both) \cup Range(of4) : m \in Fresh \/ m \in recalled \/ m \in chart
      BY <1>2, <1>14
    <3> QED  BY <1>4, <1>16, <2>2, <3>1, <3>2 DEF OwnLists
  <2> QED  BY <2>1, <2>2
<1> QED  BY <1>15, <1>17

-----------------------------------------------------------------------------
(* The budget *)

Kept == [item : Retrieved, size : Nat]
Acc == [at : [1..4 -> Nat], left : Nat, dropped : Nat, out : [1..4 -> Seq(Kept)]]
Sum4(f) == f[1] + f[2] + f[3] + f[4]
Before(f, k) == IF k = 1 THEN 0 ELSE IF k = 2 THEN f[1]
                ELSE IF k = 3 THEN f[1] + f[2] ELSE f[1] + f[2] + f[3]
Lens(out) == [j \in 1..4 |-> Len(out[j])]
Sizes(out) == [j \in 1..4 |-> SizeOf(out[j])]
Firsts(out) == [j \in 1..4 |-> FirstSize(out[j])]

LEMMA SumOfFour ==
  ASSUME NEW f \in [1..4 -> Nat], NEW g \in [1..4 -> Nat], NEW k \in 1..4,
         \A j \in 1..4 : j # k => g[j] = f[j]
  PROVE  Sum4(f) \in Nat /\ Sum4(g) \in Nat /\ Sum4(g) = Sum4(f) + (g[k] - f[k])
<1>1. f[1] \in Nat /\ f[2] \in Nat /\ f[3] \in Nat /\ f[4] \in Nat
  OBVIOUS
<1>2. g[1] \in Nat /\ g[2] \in Nat /\ g[3] \in Nat /\ g[4] \in Nat
  OBVIOUS
<1>3. k = 1 \/ k = 2 \/ k = 3 \/ k = 4
  OBVIOUS
<1>4. Sum4(g) = Sum4(f) + (g[k] - f[k])
  <2>1. CASE k = 1
    <3>1. g[2] = f[2] /\ g[3] = f[3] /\ g[4] = f[4]
      BY <2>1
    <3> QED  BY <1>1, <1>2, <2>1, <3>1 DEF Sum4
  <2>2. CASE k = 2
    <3>1. g[1] = f[1] /\ g[3] = f[3] /\ g[4] = f[4]
      BY <2>2
    <3> QED  BY <1>1, <1>2, <2>2, <3>1 DEF Sum4
  <2>3. CASE k = 3
    <3>1. g[1] = f[1] /\ g[2] = f[2] /\ g[4] = f[4]
      BY <2>3
    <3> QED  BY <1>1, <1>2, <2>3, <3>1 DEF Sum4
  <2>4. CASE k = 4
    <3>1. g[1] = f[1] /\ g[2] = f[2] /\ g[3] = f[3]
      BY <2>4
    <3> QED  BY <1>1, <1>2, <2>4, <3>1 DEF Sum4
  <2> QED  BY <1>3, <2>1, <2>2, <2>3, <2>4
<1> QED  BY <1>1, <1>2, <1>4 DEF Sum4

LEMMA SumType == ASSUME NEW f \in [1..4 -> Nat] PROVE Sum4(f) \in Nat
<1>1. f[1] \in Nat /\ f[2] \in Nat /\ f[3] \in Nat /\ f[4] \in Nat
  OBVIOUS
<1> QED  BY <1>1 DEF Sum4

LEMMA SumOfLess ==
  ASSUME NEW f \in [1..4 -> Nat], NEW g \in [1..4 -> Nat], \A k \in 1..4 : f[k] <= g[k]
  PROVE  Sum4(f) <= Sum4(g)
<1>1. /\ f[1] \in Nat /\ f[2] \in Nat /\ f[3] \in Nat /\ f[4] \in Nat
      /\ g[1] \in Nat /\ g[2] \in Nat /\ g[3] \in Nat /\ g[4] \in Nat
  OBVIOUS
<1>2. f[1] <= g[1] /\ f[2] <= g[2] /\ f[3] <= g[3] /\ f[4] <= g[4]
  OBVIOUS
<1> QED  BY <1>1, <1>2 DEF Sum4

LEMMA SumOfNone ==
  ASSUME NEW f, \A k \in 1..4 : f[k] = 0 PROVE Sum4(f) = 0
<1>1. f[1] = 0 /\ f[2] = 0 /\ f[3] = 0 /\ f[4] = 0
  OBVIOUS
<1> QED  BY <1>1 DEF Sum4

LEMMA BeforeAll ==
  ASSUME NEW f \in [1..4 -> Nat], NEW k \in 1..4
  PROVE  /\ Before(f, k) \in Nat /\ Sum4(f) \in Nat
         /\ (\A j \in 1..4 : j >= k => f[j] = 0) => Before(f, k) = Sum4(f)
<1>1. f[1] \in Nat /\ f[2] \in Nat /\ f[3] \in Nat /\ f[4] \in Nat
  OBVIOUS
<1>2. k = 1 \/ k = 2 \/ k = 3 \/ k = 4
  OBVIOUS
<1> QED  BY <1>1, <1>2 DEF Before, Sum4

LEMMA BeforeSame ==
  ASSUME NEW f, NEW g, NEW k \in 1..4, \A j \in 1..4 : j < k => f[j] = g[j]
  PROVE  Before(f, k) = Before(g, k)
<1>1. k = 1 \/ k = 2 \/ k = 3 \/ k = 4
  OBVIOUS
<1> QED  BY <1>1 DEF Before

LEMMA OutType ==
  ASSUME NEW out \in [1..4 -> Seq(Kept)]
  PROVE  /\ Lens(out) \in [1..4 -> Nat] /\ Sizes(out) \in [1..4 -> Nat]
         /\ Firsts(out) \in [1..4 -> Nat]
         /\ \A k \in 1..4 : [i \in DOMAIN out[k] |-> out[k][i].size] \in Seq(Nat)
<1>1. \A k \in 1..4 : out[k] \in Seq(Kept)
  OBVIOUS
<1>2. \A k \in 1..4 : [i \in DOMAIN out[k] |-> out[k][i].size] \in Seq(Nat)
  <2> SUFFICES ASSUME NEW k \in 1..4
               PROVE  [i \in DOMAIN out[k] |-> out[k][i].size] \in Seq(Nat)
      OBVIOUS
  <2>1. DOMAIN out[k] = 1..Len(out[k]) /\ Len(out[k]) \in Nat
    BY <1>1
  <2>2. \A i \in DOMAIN out[k] : out[k][i].size \in Nat
    <3>1. \A i \in DOMAIN out[k] : out[k][i] \in Kept
      BY <1>1
    <3> QED  BY <3>1 DEF Kept
  <2> QED  BY <2>1, <2>2
<1>3. \A k \in 1..4 : SizeOf(out[k]) \in Nat
  BY <1>2, SumIsNat DEF SizeOf
<1>4. \A k \in 1..4 : FirstSize(out[k]) \in Nat
  <2> SUFFICES ASSUME NEW k \in 1..4 PROVE FirstSize(out[k]) \in Nat
      OBVIOUS
  <2>1. out[k] # <<>> => out[k][1] \in Kept
    BY <1>1
  <2> QED  BY <2>1 DEF FirstSize, Kept
<1>5. \A k \in 1..4 : Len(out[k]) \in Nat
  BY <1>1
<1> QED  BY <1>2, <1>3, <1>4, <1>5 DEF Lens, Sizes, Firsts

\* After n visits: what was taken of each collection is in the answer or counted,
\* what is in the answer is the budget that is gone, and in the first round its
\* first items are; a collection that got nothing has nothing more to give, or
\* there is nothing left to give it, and the first items before it used it up.
BudgetInv(n, acc, lists) ==
  /\ acc \in Acc
  /\ \A k \in 1..4 : /\ acc.at[k] <= Len(lists[k])
                     /\ \A x \in Range(acc.out[k]) : x.item \in Range(lists[k])
  /\ Sum4(Lens(acc.out)) + acc.dropped = Sum4(acc.at)
  /\ Sum4(Sizes(acc.out)) + acc.left = TotalCap
  /\ \A k \in 1..4 : k > n => acc.at[k] = 0 /\ acc.out[k] = <<>>
  /\ n <= 4 => acc.left + Sum4(Firsts(acc.out)) = TotalCap
  /\ \A k \in 1..4 : k <= n /\ lists[k] # <<>> /\ acc.out[k] = <<>> =>
        /\ acc.at[k] = Len(lists[k]) \/ acc.left = 0
        /\ Before(Firsts(acc.out), k) + Least > TotalCap

LEMMA BudgetStart ==
  ASSUME NEW lists \in [1..4 -> Seq(Retrieved)] PROVE BudgetInv(0, Unvisited, lists)
<1>1. /\ Unvisited.at \in [1..4 -> Nat] /\ Unvisited.out \in [1..4 -> Seq(Kept)]
      /\ Unvisited.left = TotalCap /\ Unvisited.dropped = 0
      /\ \A k \in 1..4 : Unvisited.at[k] = 0 /\ Unvisited.out[k] = <<>>
      /\ Unvisited \in Acc
  <2>1. <<0, 0, 0, 0>> \in [1..4 -> Nat] /\ \A k \in 1..4 : <<0, 0, 0, 0>>[k] = 0
    OBVIOUS
  <2>2. NoLists \in [1..4 -> Seq(Kept)] /\ \A k \in 1..4 : NoLists[k] = <<>>
    <3> DEFINE none == <<>>
    <3>1. none \in Seq(Kept) /\ NoLists = <<none, none, none, none>>
      BY DEF NoLists
    <3> HIDE DEF none
    <3>2. NoLists \in [1..4 -> Seq(Kept)] /\ \A k \in 1..4 : NoLists[k] = none
      BY <3>1
    <3> QED  BY <3>2 DEF none
  <2> QED  BY <2>1, <2>2, CapAssumption DEF Unvisited, Acc
<1> DEFINE a == Unvisited
<1>2. \A k \in 1..4 : Len(a.out[k]) = 0 /\ FirstSize(a.out[k]) = 0 /\ Range(a.out[k]) = {}
  BY <1>1 DEF FirstSize, Range
<1>3. \A k \in 1..4 : SizeOf(a.out[k]) = 0
  <2> SUFFICES ASSUME NEW k \in 1..4 PROVE SizeOf(a.out[k]) = 0
      OBVIOUS
  <2>1. [i \in DOMAIN a.out[k] |-> a.out[k][i].size] = <<>>
    BY <1>1
  <2>2. <<>> \in Seq(Nat) /\ Len(<<>>) = 0 /\ \A n \in 1..Len(<<>>) : <<>>[n] = 0
    OBVIOUS
  <2>3. Summed(<<>>) = 0
    BY <2>2, SumNothing
  <2> QED  BY <2>1, <2>3 DEF SizeOf
<1>4. Sum4(Lens(a.out)) = 0 /\ Sum4(Sizes(a.out)) = 0 /\ Sum4(Firsts(a.out)) = 0 /\ Sum4(a.at) = 0
  <2>1. \A k \in 1..4 : Lens(a.out)[k] = 0 /\ Sizes(a.out)[k] = 0 /\ Firsts(a.out)[k] = 0
    BY <1>2, <1>3 DEF Lens, Sizes, Firsts
  <2> QED  BY <1>1, <2>1, SumOfNone
<1> QED  BY <1>1, <1>2, <1>4, CapAssumption DEF BudgetInv

\* What one more item does to the answer.
OneMore(out, k, x, out2) ==
  /\ out2 \in [1..4 -> Seq(Kept)] /\ \A j \in 1..4 : j # k => out2[j] = out[j]
  /\ Range(out2[k]) = Range(out[k]) \cup {x} /\ out2[k] # <<>>
  /\ Sum4(Lens(out2)) = Sum4(Lens(out)) + 1
  /\ Sum4(Sizes(out2)) = Sum4(Sizes(out)) + x.size
  /\ FirstSize(out2[k]) = IF out[k] = <<>> THEN x.size ELSE FirstSize(out[k])

LEMMA OneMoreItem ==
  ASSUME NEW out \in [1..4 -> Seq(Kept)], NEW k \in 1..4, NEW x \in Kept, NEW out2,
         out2 = [out EXCEPT ![k] = Append(@, x)]
  PROVE  OneMore(out, k, x, out2)
<1>1. out[k] \in Seq(Kept) /\ out2[k] = Append(out[k], x) /\ x.size \in Nat
      /\ \A j \in 1..4 : j # k => out2[j] = out[j]
  BY DEF Kept
<1>2. /\ out2[k] \in Seq(Kept) /\ Len(out2[k]) = Len(out[k]) + 1 /\ Len(out[k]) \in Nat
      /\ out2[k][Len(out[k]) + 1] = x
      /\ \A n \in 1..Len(out[k]) : out2[k][n] = out[k][n]
      /\ DOMAIN out[k] = 1..Len(out[k]) /\ DOMAIN out2[k] = 1..(Len(out[k]) + 1)
  BY <1>1
<1>3. out2 \in [1..4 -> Seq(Kept)]
  BY <1>1, <1>2
<1>4. Range(out2[k]) = Range(out[k]) \cup {x}
  <2>1. \A n \in DOMAIN out2[k] : out2[k][n] \in Range(out[k]) \cup {x}
    BY <1>2 DEF Range
  <2>2. \A n \in DOMAIN out[k] : out[k][n] \in Range(out2[k])
    <3>1. \A n \in DOMAIN out[k] : n \in DOMAIN out2[k] /\ out[k][n] = out2[k][n]
      BY <1>2
    <3> QED  BY <3>1 DEF Range
  <2>3. x \in Range(out2[k])
    <3>1. Len(out[k]) + 1 \in DOMAIN out2[k]
      BY <1>2
    <3> QED  BY <1>2, <3>1 DEF Range
  <2>4. Range(out2[k]) \subseteq Range(out[k]) \cup {x}
    BY <2>1 DEF Range
  <2>5. Range(out[k]) \subseteq Range(out2[k])
    BY <2>2 DEF Range
  <2> QED  BY <2>3, <2>4, <2>5
<1> DEFINE v == [i \in DOMAIN out[k] |-> out[k][i].size]
           w == [i \in DOMAIN out2[k] |-> out2[k][i].size]
<1>5. v \in Seq(Nat) /\ w \in Seq(Nat)
  BY <1>3, OutType
<1>6. Len(v) = Len(out[k]) /\ Len(w) = Len(v) + 1 /\ w[Len(w)] = x.size
      /\ \A n \in 1..Len(v) : w[n] = v[n]
  BY <1>2
<1>7. SizeOf(out2[k]) = SizeOf(out[k]) + x.size
  <2> HIDE DEF v, w
  <2>1. Summed(w) = Summed(v) + w[Len(w)]
    BY <1>5, <1>6, SumOneMore
  <2> QED  BY <1>6, <2>1 DEF SizeOf, v, w
<1>8. /\ Lens(out) \in [1..4 -> Nat] /\ Sizes(out) \in [1..4 -> Nat]
      /\ Lens(out2) \in [1..4 -> Nat] /\ Sizes(out2) \in [1..4 -> Nat]
  BY <1>3, OutType
<1>9. Sum4(Lens(out2)) = Sum4(Lens(out)) + 1
  <2>1. Lens(out2)[k] = Lens(out)[k] + 1 /\ Lens(out)[k] \in Nat
        /\ \A j \in 1..4 : j # k => Lens(out2)[j] = Lens(out)[j]
    BY <1>1, <1>2 DEF Lens
  <2>2. Sum4(Lens(out)) \in Nat /\ Sum4(Lens(out2)) = Sum4(Lens(out)) + (Lens(out2)[k] - Lens(out)[k])
    BY <1>8, <2>1, SumOfFour
  <2> QED  BY <2>1, <2>2
<1>10. Sum4(Sizes(out2)) = Sum4(Sizes(out)) + x.size
  <2>1. Sizes(out2)[k] = Sizes(out)[k] + x.size /\ \A j \in 1..4 : j # k => Sizes(out2)[j] = Sizes(out)[j]
    BY <1>1, <1>7 DEF Sizes
  <2>2. Sum4(Sizes(out)) \in Nat /\ Sum4(Sizes(out2)) = Sum4(Sizes(out)) + (Sizes(out2)[k] - Sizes(out)[k])
    BY <1>8, <2>1, SumOfFour
  <2>3. Sizes(out)[k] \in Nat
    BY <1>8
  <2> QED  BY <1>1, <2>1, <2>2, <2>3
<1>11. out2[k] # <<>> /\ FirstSize(out2[k]) = IF out[k] = <<>> THEN x.size ELSE FirstSize(out[k])
  <2>1. out2[k] # <<>>
    <3>1. Len(<<>>) = 0 /\ Len(out2[k]) # 0
      BY <1>2
    <3> QED  BY <3>1
  <2>2. out[k] = <<>> => out2[k][1] = x
    BY <1>2
  <2>3. out[k] # <<>> => 1 \in 1..Len(out[k])
    BY <1>1
  <2> QED  BY <1>2, <2>1, <2>2, <2>3 DEF FirstSize
<1> QED  BY <1>1, <1>3, <1>4, <1>9, <1>10, <1>11 DEF OneMore

\* A visit that takes nothing: there is nothing left of the budget or of the list.
LEMMA VisitNothing ==
  ASSUME NEW lists \in [1..4 -> Seq(Retrieved)], NEW n \in Nat, NEW k \in 1..4, n < 4 => k = n + 1,
         NEW acc, BudgetInv(n, acc, lists), acc.left = 0 \/ acc.at[k] >= Len(lists[k])
  PROVE  BudgetInv(n + 1, acc, lists)
<1> DEFINE first == Firsts(acc.out)
<1>1. /\ acc \in Acc /\ acc.left \in Nat /\ acc.out \in [1..4 -> Seq(Kept)]
      /\ first \in [1..4 -> Nat]
  BY OutType DEF BudgetInv, Acc
<1>2. \A j \in 1..4 : j > n => acc.at[j] = 0 /\ acc.out[j] = <<>> /\ first[j] = 0
  BY DEF BudgetInv, Firsts, FirstSize
<1>3. n <= 4 => acc.left + Sum4(first) = TotalCap
  BY DEF BudgetInv
<1> HIDE DEF first
<1>4. ASSUME NEW j \in 1..4, j <= n + 1, lists[j] # <<>>, acc.out[j] = <<>>
      PROVE  /\ acc.at[j] = Len(lists[j]) \/ acc.left = 0
             /\ Before(first, j) + Least > TotalCap
  <2>1. CASE j <= n
    BY <1>4, <2>1 DEF BudgetInv, first
  <2>2. CASE ~(j <= n)
    <3>1. j = k /\ j = n + 1 /\ n < 4 /\ n <= 4
      BY <1>4, <2>2
    <3>2. acc.at[j] = 0 /\ \A i \in 1..4 : i >= j => first[i] = 0
      BY <1>2, <3>1
    <3>3. Len(lists[j]) # 0 /\ Len(lists[j]) \in Nat
      BY <1>4
    <3>4. acc.left = 0
      BY <3>1, <3>2, <3>3
    <3>5. Before(first, j) = Sum4(first) /\ Sum4(first) \in Nat
      BY <1>1, <3>2, BeforeAll
    <3> QED  BY <1>3, <3>1, <3>4, <3>5, CapAssumption DEF Least
  <2> QED  BY <2>1, <2>2
<1>5. n + 1 <= 4 => n <= 4
  OBVIOUS
<1>6. \A j \in 1..4 : j > n + 1 => j > n
  OBVIOUS
<1> QED  BY <1>3, <1>4, <1>5, <1>6 DEF BudgetInv, first

LEMMA ListLength ==
  ASSUME NEW lists \in [1..4 -> Seq(Retrieved)], NEW k \in 1..4
  PROVE  Len(lists[k]) \in Nat
<1>1. lists[k] \in Seq(Retrieved)
  OBVIOUS
<1> QED  BY <1>1, LenProperties

LEMMA DropCounts ==
  \A before, at, len \in Nat : at <= len =>
     before + len - at \in Nat /\ before + len - at = before + (len - at)
OBVIOUS

LEMMA NoRoom ==
  ASSUME NEW before \in Nat, NEW left \in Nat, left + before = TotalCap, left < Least
  PROVE  before + Least > TotalCap
BY DEF Least

\* What is left of a list of a given length is dropped: its account stays even.
LEMMA RestDropped ==
  ASSUME NEW acc, NEW next, NEW k \in 1..4, NEW length \in Nat,
         Sum4(Lens(acc.out)) \in Nat, acc.dropped \in Nat, Sum4(acc.at) \in Nat, acc.at[k] \in Nat,
         Sum4(Lens(acc.out)) + acc.dropped = Sum4(acc.at),
         Lens(next.out) = Lens(acc.out), next.dropped = acc.dropped + (length - acc.at[k]),
         Sum4(next.at) = Sum4(acc.at) + (next.at[k] - acc.at[k]), next.at[k] = length
  PROVE  Sum4(Lens(next.out)) + next.dropped = Sum4(next.at)
<1>1. \A kept, before, sum, more \in Int :
        kept + before = sum => kept + (before + more) = sum + more
  OBVIOUS
<1>2. length - acc.at[k] \in Int
  OBVIOUS
<1>3. Sum4(Lens(acc.out)) + (acc.dropped + (length - acc.at[k])) = Sum4(acc.at) + (length - acc.at[k])
  BY <1>1, <1>2
<1> QED  BY <1>3

\* A visit that gives the rest of a list up: too little is left to cut to.
LEMMA VisitDrops ==
  ASSUME NEW lists \in [1..4 -> Seq(Retrieved)], NEW n \in Nat, NEW k \in 1..4, n < 4 => k = n + 1,
         NEW acc, BudgetInv(n, acc, lists), acc.left < Least,
         NEW next, next = DropRest(acc, k, lists)
  PROVE  BudgetInv(n + 1, next, lists)
<1> DEFINE first == Firsts(acc.out)
<1>1. /\ acc \in Acc /\ acc.left \in Nat /\ acc.dropped \in Nat /\ acc.out \in [1..4 -> Seq(Kept)]
      /\ acc.at \in [1..4 -> Nat] /\ Len(lists[k]) \in Nat /\ acc.at[k] \in Nat
      /\ first \in [1..4 -> Nat] /\ Lens(acc.out) \in [1..4 -> Nat]
  <2>1. Len(lists[k]) \in Nat
    BY ListLength
  <2>2. /\ acc \in Acc /\ acc.left \in Nat /\ acc.dropped \in Nat
        /\ acc.out \in [1..4 -> Seq(Kept)] /\ acc.at \in [1..4 -> Nat]
    BY DEF BudgetInv, Acc
  <2>3. first \in [1..4 -> Nat] /\ Lens(acc.out) \in [1..4 -> Nat]
    BY <2>2, OutType
  <2> QED  BY <2>1, <2>2, <2>3
<1>2. /\ \A j \in 1..4 : acc.at[j] <= Len(lists[j]) /\ \A x \in Range(acc.out[j]) : x.item \in Range(lists[j])
      /\ \A j \in 1..4 : j > n => acc.at[j] = 0 /\ acc.out[j] = <<>> /\ first[j] = 0
      /\ n <= 4 => acc.left + Sum4(first) = TotalCap
      /\ Sum4(Lens(acc.out)) + acc.dropped = Sum4(acc.at)
      /\ Sum4(Sizes(acc.out)) + acc.left = TotalCap
      /\ \A j \in 1..4 : j <= n /\ lists[j] # <<>> /\ acc.out[j] = <<>> =>
            /\ acc.at[j] = Len(lists[j]) \/ acc.left = 0
            /\ Before(first, j) + Least > TotalCap
  BY DEF BudgetInv, Firsts, FirstSize
<1>3. /\ next \in Acc /\ next.left = acc.left /\ next.out = acc.out
      /\ next.at[k] = Len(lists[k]) /\ \A j \in 1..4 : j # k => next.at[j] = acc.at[j]
      /\ next.dropped = acc.dropped + (Len(lists[k]) - acc.at[k])
  <2> HIDE DEF first
  <2>1. acc.at[k] <= Len(lists[k])
    BY <1>2
  <2>2. /\ next.at = [acc.at EXCEPT ![k] = Len(lists[k])] /\ next.left = acc.left
        /\ next.out = acc.out /\ next.dropped = acc.dropped + Len(lists[k]) - acc.at[k]
    BY <1>1 DEF DropRest, Acc
  <2>3. next = [at |-> next.at, left |-> next.left, dropped |-> next.dropped, out |-> next.out]
    BY <1>1 DEF DropRest, Acc
  <2>4. /\ acc.dropped + Len(lists[k]) - acc.at[k] \in Nat
        /\ acc.dropped + Len(lists[k]) - acc.at[k] = acc.dropped + (Len(lists[k]) - acc.at[k])
    BY <1>1, <2>1, DropCounts
  <2>5. next.at \in [1..4 -> Nat] /\ next.dropped \in Nat
    BY <1>1, <2>2, <2>4
  <2>6. next \in Acc
    BY <1>1, <2>2, <2>3, <2>5 DEF Acc
  <2> QED  BY <1>1, <2>2, <2>4, <2>6
<1> HIDE DEF first
<1>4. Sum4(Lens(next.out)) + next.dropped = Sum4(next.at)
  <2>1. next.at \in [1..4 -> Nat]
    BY <1>3 DEF Acc
  <2>2. Sum4(next.at) = Sum4(acc.at) + (next.at[k] - acc.at[k]) /\ Sum4(acc.at) \in Nat
    BY <1>1, <1>3, <2>1, SumOfFour
  <2>3. Sum4(Lens(acc.out)) \in Nat
    BY <1>1, BeforeAll
  <2>4. Sum4(Lens(acc.out)) + acc.dropped = Sum4(acc.at) /\ Lens(next.out) = Lens(acc.out)
    BY <1>2, <1>3
  <2>5. /\ next.dropped = acc.dropped + (Len(lists[k]) - acc.at[k])
        /\ next.at[k] = Len(lists[k])
    BY <1>3
  <2> QED  BY <1>1, <2>2, <2>3, <2>4, <2>5, RestDropped
<1>5. ASSUME NEW j \in 1..4, j <= n + 1, lists[j] # <<>>, next.out[j] = <<>>
      PROVE  /\ next.at[j] = Len(lists[j]) \/ next.left = 0
             /\ Before(first, j) + Least > TotalCap
  <2>1. CASE j <= n
    BY <1>2, <1>3, <1>5, <2>1
  <2>2. CASE ~(j <= n)
    <3>1. j = k /\ j = n + 1 /\ n < 4 /\ n <= 4
      BY <1>5, <2>2
    <3>2. \A i \in 1..4 : i >= j => first[i] = 0
      BY <1>2, <3>1
    <3>3. Before(first, j) = Sum4(first) /\ Sum4(first) \in Nat
      BY <1>1, <3>2, BeforeAll
    <3>4. acc.left + Sum4(first) = TotalCap
      BY <1>2, <3>1
    <3>5. Before(first, j) + Least > TotalCap
      <4>1. Sum4(first) \in Nat /\ acc.left \in Nat
        BY <1>1, <3>3
      <4>2. Sum4(first) + Least > TotalCap
        BY <3>4, <4>1, NoRoom, Zenon
      <4> QED  BY <3>3, <4>2
    <3>6. next.at[j] = Len(lists[j])
      BY <1>3, <3>1
    <3> QED  BY <3>5, <3>6
  <2> QED  BY <2>1, <2>2
<1>6. \A j \in 1..4 : next.at[j] <= Len(lists[j])
  <2> SUFFICES ASSUME NEW j \in 1..4 PROVE next.at[j] <= Len(lists[j])
      OBVIOUS
  <2>1. CASE j = k
    BY <1>1, <1>3, <2>1
  <2>2. CASE j # k
    BY <1>2, <1>3, <2>2
  <2> QED  BY <2>1, <2>2
<1>7. \A j \in 1..4 : j > n + 1 => j > n /\ j # k
  OBVIOUS
<1>8. \A j \in 1..4 : j > n + 1 => next.at[j] = 0 /\ next.out[j] = <<>>
  BY <1>2, <1>3, <1>7
<1>9. n + 1 <= 4 => next.left + Sum4(Firsts(next.out)) = TotalCap
  BY <1>2, <1>3 DEF first
<1>10. Firsts(next.out) = first
  BY <1>3 DEF first
<1>11. \A j \in 1..4 : \A x \in Range(next.out[j]) : x.item \in Range(lists[j])
  BY <1>2, <1>3
<1>12. Sum4(Sizes(next.out)) + next.left = TotalCap
  BY <1>2, <1>3
<1> QED  BY <1>3, <1>4, <1>5, <1>6, <1>8, <1>9, <1>10, <1>11, <1>12 DEF BudgetInv

\* One more item out and one more visited leave the account of a list even.
LEMMA OneTaken ==
  ASSUME NEW acc, NEW next,
         Sum4(Lens(acc.out)) \in Nat, acc.dropped \in Nat, Sum4(acc.at) \in Nat,
         Sum4(Lens(acc.out)) + acc.dropped = Sum4(acc.at),
         Sum4(Lens(next.out)) = Sum4(Lens(acc.out)) + 1, next.dropped = acc.dropped,
         Sum4(next.at) = Sum4(acc.at) + 1
  PROVE  Sum4(Lens(next.out)) + next.dropped = Sum4(next.at)
<1>1. \A kept, before, sum \in Nat : kept + before = sum => (kept + 1) + before = sum + 1
  OBVIOUS
<1>2. (Sum4(Lens(acc.out)) + 1) + acc.dropped = Sum4(acc.at) + 1
  BY <1>1
<1> QED  BY <1>2

\* A visit that takes the next item, cut to what there is room for.
Taken(acc, k, item, size) ==
  [acc EXCEPT !.at[k] = @ + 1, !.left = @ - size,
              !.out[k] = Append(@, [item |-> item, size |-> size])]
LEMMA VisitTakes ==
  ASSUME NEW lists \in [1..4 -> Seq(Retrieved)], NEW n \in Nat, NEW k \in 1..4, n < 4 => k = n + 1,
         NEW acc, BudgetInv(n, acc, lists), acc.left # 0, acc.at[k] < Len(lists[k]),
         NEW size \in Nat, size <= acc.left, NEW item \in Retrieved, item \in Range(lists[k]),
         NEW next, next = Taken(acc, k, item, size)
  PROVE  BudgetInv(n + 1, next, lists)
<1> DEFINE first == Firsts(acc.out)
           x == [item |-> item, size |-> size]
<1>1. /\ acc \in Acc /\ acc.left \in Nat /\ acc.dropped \in Nat
      /\ acc.out \in [1..4 -> Seq(Kept)] /\ acc.at \in [1..4 -> Nat]
      /\ first \in [1..4 -> Nat] /\ Lens(acc.out) \in [1..4 -> Nat]
      /\ Sizes(acc.out) \in [1..4 -> Nat]
  <2>1. /\ acc \in Acc /\ acc.left \in Nat /\ acc.dropped \in Nat
        /\ acc.out \in [1..4 -> Seq(Kept)] /\ acc.at \in [1..4 -> Nat]
    BY DEF BudgetInv, Acc
  <2> QED  BY <2>1, OutType
<1>2. /\ \A j \in 1..4 : acc.at[j] <= Len(lists[j]) /\ \A y \in Range(acc.out[j]) : y.item \in Range(lists[j])
      /\ \A j \in 1..4 : j > n => acc.at[j] = 0 /\ acc.out[j] = <<>> /\ first[j] = 0
      /\ n <= 4 => acc.left + Sum4(first) = TotalCap
      /\ Sum4(Lens(acc.out)) + acc.dropped = Sum4(acc.at)
      /\ Sum4(Sizes(acc.out)) + acc.left = TotalCap
      /\ \A j \in 1..4 : j <= n /\ lists[j] # <<>> /\ acc.out[j] = <<>> =>
            /\ acc.at[j] = Len(lists[j]) \/ acc.left = 0
            /\ Before(first, j) + Least > TotalCap
  BY DEF BudgetInv, Firsts, FirstSize
<1> HIDE DEF first
<1>3. Len(lists[k]) \in Nat /\ acc.at[k] \in Nat /\ acc.left - size \in Nat
  <2>1. Len(lists[k]) \in Nat /\ acc.at[k] \in Nat
    BY <1>1, ListLength
  <2>2. acc.left - size \in Nat
    <3>1. acc.left \in Nat
      BY <1>1
    <3> QED  BY <3>1
  <2> QED  BY <2>1, <2>2
<1>4. item \in Range(lists[k])
  OBVIOUS
<1>5. x \in Kept /\ x.item = item /\ x.size = size
  BY DEF Kept
<1> HIDE DEF x
<1>6. /\ next.at = [acc.at EXCEPT ![k] = acc.at[k] + 1] /\ next.left = acc.left - size
      /\ next.dropped = acc.dropped /\ next.out = [acc.out EXCEPT ![k] = Append(@, x)]
  BY <1>1 DEF Acc, x, Taken
<1>7. next = [at |-> next.at, left |-> next.left, dropped |-> next.dropped, out |-> next.out]
  BY <1>1 DEF Acc, Taken
<1>8. /\ next.out \in [1..4 -> Seq(Kept)] /\ \A j \in 1..4 : j # k => next.out[j] = acc.out[j]
      /\ Range(next.out[k]) = Range(acc.out[k]) \cup {x} /\ next.out[k] # <<>>
      /\ Sum4(Lens(next.out)) = Sum4(Lens(acc.out)) + 1
      /\ Sum4(Sizes(next.out)) = Sum4(Sizes(acc.out)) + size
      /\ FirstSize(next.out[k]) = IF acc.out[k] = <<>> THEN size ELSE FirstSize(acc.out[k])
  <2>1. acc.out \in [1..4 -> Seq(Kept)] /\ next.out = [acc.out EXCEPT ![k] = Append(@, x)]
    BY <1>1, <1>6
  <2>2. OneMore(acc.out, k, x, next.out)
    BY <1>5, <2>1, OneMoreItem
  <2> QED  BY <1>5, <2>2 DEF OneMore
<1>9. /\ next.at \in [1..4 -> Nat] /\ next.at[k] = acc.at[k] + 1
      /\ \A j \in 1..4 : j # k => next.at[j] = acc.at[j]
  <2>1. /\ next.at = [acc.at EXCEPT ![k] = acc.at[k] + 1] /\ acc.at[k] + 1 \in Nat
        /\ acc.at \in [1..4 -> Nat]
    <3>1. acc.at[k] \in Nat
      BY <1>3
    <3>2. acc.at[k] + 1 \in Nat
      BY <3>1
    <3> QED  BY <1>1, <1>6, <3>2
  <2> QED  BY <2>1
<1>10. next \in Acc
  BY <1>1, <1>3, <1>6, <1>7, <1>8, <1>9 DEF Acc
<1>11. \A j \in 1..4 : next.at[j] <= Len(lists[j]) /\ \A y \in Range(next.out[j]) : y.item \in Range(lists[j])
  <2> SUFFICES ASSUME NEW j \in 1..4
               PROVE  next.at[j] <= Len(lists[j])
                      /\ \A y \in Range(next.out[j]) : y.item \in Range(lists[j])
      OBVIOUS
  <2>1. CASE j = k
    <3>1. next.at[j] <= Len(lists[j])
      <4>1. next.at[k] = acc.at[k] + 1
        BY <1>9
      <4>2. next.at[k] <= Len(lists[k])
        BY <1>3, <4>1
      <4> QED  BY <2>1, <4>2
    <3>2. ASSUME NEW y \in Range(next.out[k]) PROVE y.item \in Range(lists[k])
      <4>1. y = x \/ y \in Range(acc.out[k])
        BY <1>8
      <4> QED  BY <1>2, <1>4, <1>5, <4>1
    <3> QED  BY <2>1, <3>1, <3>2
  <2>2. CASE j # k
    BY <1>2, <1>8, <1>9, <2>2
  <2> QED  BY <2>1, <2>2
<1>12. Sum4(Lens(next.out)) + next.dropped = Sum4(next.at)
  <2>1. Sum4(next.at) = Sum4(acc.at) + (next.at[k] - acc.at[k]) /\ Sum4(acc.at) \in Nat
    BY <1>1, <1>9, SumOfFour
  <2>2. next.at[k] - acc.at[k] = 1
    BY <1>3, <1>9
  <2>3. Sum4(Lens(acc.out)) \in Nat
    BY <1>1, BeforeAll
  <2>4. Sum4(Lens(acc.out)) + acc.dropped = Sum4(acc.at) /\ next.dropped = acc.dropped
    BY <1>2, <1>6
  <2>5. acc.dropped \in Nat /\ Sum4(Lens(next.out)) = Sum4(Lens(acc.out)) + 1
    BY <1>1, <1>8
  <2>6. Sum4(next.at) = Sum4(acc.at) + 1
    BY <2>1, <2>2
  <2> QED  BY <2>1, <2>3, <2>4, <2>5, <2>6, OneTaken
<1>13. Sum4(Sizes(next.out)) + next.left = TotalCap
  <2>1. Sum4(Sizes(acc.out)) \in Nat
    BY <1>1, BeforeAll
  <2>2. Sum4(Sizes(acc.out)) + acc.left = TotalCap /\ next.left = acc.left - size
    BY <1>2, <1>6
  <2>3. acc.left \in Nat /\ Sum4(Sizes(next.out)) = Sum4(Sizes(acc.out)) + size
    BY <1>1, <1>8
  <2> QED  BY <2>1, <2>2, <2>3
<1>14. \A j \in 1..4 : j > n + 1 => next.at[j] = 0 /\ next.out[j] = <<>>
  <2>1. \A j \in 1..4 : j > n + 1 => j > n /\ j # k
    OBVIOUS
  <2> QED  BY <1>2, <1>8, <1>9, <2>1
\* What the list of the visit had before is nothing, or what it starts with.
<1>15. n >= 4 => acc.out[k] # <<>>
  <2> SUFFICES ASSUME n >= 4, acc.out[k] = <<>> PROVE FALSE
      OBVIOUS
  <2>1. k <= n /\ acc.at[k] # Len(lists[k])
    BY <1>3
  <2>2. lists[k] # <<>>
    <3>1. Len(<<>>) = 0
      OBVIOUS
    <3> QED  BY <1>3, <3>1
  <2> QED  BY <1>2, <2>1, <2>2
<1>16. \A j \in 1..4 : j # k => Firsts(next.out)[j] = first[j]
  BY <1>8 DEF Firsts, first
<1>17. Firsts(next.out) \in [1..4 -> Nat]
  BY <1>8, OutType
<1>18. n + 1 <= 4 => next.left + Sum4(Firsts(next.out)) = TotalCap
  <2> SUFFICES ASSUME n + 1 <= 4 PROVE next.left + Sum4(Firsts(next.out)) = TotalCap
      OBVIOUS
  <2>1. k = n + 1 /\ n <= 4 /\ k > n
    OBVIOUS
  <2>2. acc.out[k] = <<>> /\ first[k] = 0 /\ acc.left + Sum4(first) = TotalCap
    BY <1>2, <2>1
  <2>3. Firsts(next.out)[k] = size
    BY <1>8, <2>2 DEF Firsts
  <2>4. /\ Sum4(Firsts(next.out)) = Sum4(first) + (Firsts(next.out)[k] - first[k])
        /\ Sum4(first) \in Nat
    BY <1>1, <1>16, <1>17, SumOfFour
  <2>5. acc.left \in Nat /\ next.left = acc.left - size
    BY <1>1, <1>6
  <2> QED  BY <2>2, <2>3, <2>4, <2>5
<1>19. ASSUME NEW j \in 1..4, j <= n + 1, lists[j] # <<>>, next.out[j] = <<>>
       PROVE  /\ next.at[j] = Len(lists[j]) \/ next.left = 0
              /\ Before(Firsts(next.out), j) + Least > TotalCap
  <2>1. j # k
    BY <1>8, <1>19
  <2>2. j <= n /\ acc.out[j] = <<>> /\ next.at[j] = acc.at[j]
    <3>1. j <= n
      <4>1. n < 4 => j # n + 1
        BY <2>1
      <4>2. j <= n + 1 /\ j <= 4
        BY <1>19
      <4> QED  BY <4>1, <4>2
    <3> QED  BY <1>8, <1>9, <1>19, <2>1, <3>1
  <2>3. acc.at[j] = Len(lists[j]) /\ Before(first, j) + Least > TotalCap
    BY <1>2, <1>19, <2>2
  <2>4. \A i \in 1..4 : i < j => first[i] = Firsts(next.out)[i]
    <3>1. CASE n < 4
      <4>1. k > n
        BY <3>1
      <4>2. \A i \in 1..4 : i < j => i # k
        BY <2>2, <4>1
      <4> QED  BY <1>16, <4>2
    <3>2. CASE n >= 4
      <4>1. Firsts(next.out)[k] = first[k]
        BY <1>8, <1>15, <3>2 DEF Firsts, first
      <4> QED  BY <1>16, <4>1
    <3> QED  BY <3>1, <3>2
  <2>5. Before(first, j) = Before(Firsts(next.out), j)
    BY <2>4, BeforeSame
  <2> QED  BY <2>2, <2>3, <2>5
<1> QED  BY <1>10, <1>11, <1>12, <1>13, <1>14, <1>18, <1>19 DEF BudgetInv

LEMMA VisitStep ==
  ASSUME NEW lists \in [1..4 -> Seq(Retrieved)], NEW n \in Nat, NEW k \in 1..4, n < 4 => k = n + 1,
         NEW acc, BudgetInv(n, acc, lists)
  PROVE  BudgetInv(n + 1, Visit(acc, k, lists), lists)
<1> DEFINE allowance == Min({ItemCap, acc.left})
           item == lists[k][acc.at[k] + 1]
           size == CutTo(item, allowance)
           taken == Taken(acc, k, item, size)
<1>1. Visit(acc, k, lists) = IF acc.left = 0 \/ acc.at[k] >= Len(lists[k]) THEN acc
                             ELSE IF allowance < Least THEN DropRest(acc, k, lists) ELSE taken
  BY DEF Visit, Taken
<1>2. acc.left \in Nat /\ acc.at[k] \in Nat /\ Len(lists[k]) \in Nat
  <2>1. acc.left \in Nat /\ acc.at[k] \in Nat
    BY DEF BudgetInv, Acc
  <2> QED  BY <2>1, ListLength
<1>3. allowance \in Nat /\ allowance <= acc.left /\ allowance \in {ItemCap, acc.left}
  BY <1>2, CapAssumption, MinOfTwo
<1> HIDE DEF allowance, taken
<1>4. CASE acc.left = 0 \/ acc.at[k] >= Len(lists[k])
  <2>1. Visit(acc, k, lists) = acc
    BY <1>1, <1>4
  <2> QED  BY <1>4, <2>1, VisitNothing
<1>5. CASE ~(acc.left = 0 \/ acc.at[k] >= Len(lists[k])) /\ allowance < Least
  <2>1. Visit(acc, k, lists) = DropRest(acc, k, lists)
    BY <1>1, <1>5
  <2>2. acc.left < Least
    BY <1>2, <1>3, <1>5, CapAssumption DEF Least
  <2> HIDE DEF BudgetInv
  <2>3. BudgetInv(n + 1, DropRest(acc, k, lists), lists)
    BY <2>2, VisitDrops
  <2> QED  BY <2>1, <2>3
<1>6. CASE ~(acc.left = 0 \/ acc.at[k] >= Len(lists[k])) /\ ~(allowance < Least)
  <2>1. Visit(acc, k, lists) = taken
    BY <1>1, <1>6
  <2>2. acc.at[k] < Len(lists[k]) /\ acc.left # 0
    BY <1>2, <1>6
  <2>3. item \in Retrieved /\ item \in Range(lists[k])
    <3>1. lists[k] \in Seq(Retrieved) /\ DOMAIN lists[k] = 1..Len(lists[k])
      OBVIOUS
    <3>2. acc.at[k] + 1 \in 1..Len(lists[k])
      BY <1>2, <2>2
    <3> QED  BY <3>1, <3>2 DEF Range
  <2>4. size \in Nat /\ size <= allowance
    <3>1. item.size \in Nat
      BY <2>3, RetrievedType
    <3>2. allowance \in Least..ItemCap
      <4>1. allowance <= ItemCap
        BY <1>2, CapAssumption, MinOfTwo DEF allowance
      <4> QED  BY <1>3, <1>6, <4>1, CapAssumption DEF Least
    <3>3. Excerpt[item][allowance] \in 1..allowance
      BY <2>3, <3>2, CapAssumption
    <3> HIDE DEF item
    <3>4. size = IF item.size <= allowance THEN item.size ELSE Excerpt[item][allowance]
      BY DEF CutTo
    <3> QED  BY <1>3, <3>1, <3>3, <3>4, SMTT(40)
  <2> HIDE DEF size, item
  <2>5. size <= acc.left
    BY <1>2, <1>3, <2>4
  <2>7. BudgetInv(n + 1, taken, lists)
    BY <2>2, <2>3, <2>4, <2>5, VisitTakes DEF taken
  <2> QED  BY <2>1, <2>7
<1> QED  BY <1>4, <1>5, <1>6

LEMMA Turn ==
  ASSUME NEW n \in Nat
  PROVE  (n % 4) + 1 \in 1..4 /\ (n < 4 => (n % 4) + 1 = n + 1)
OBVIOUS

LEMMA LongestOf ==
  ASSUME NEW lists \in [1..4 -> Seq(Retrieved)]
  PROVE  LET rounds == Max({Len(lists[k]) : k \in 1..4})
         IN rounds \in Nat /\ \A k \in 1..4 : Len(lists[k]) <= rounds
<1> DEFINE S == {Len(lists[k]) : k \in 1..4}
<1>1. \A k \in 1..4 : Len(lists[k]) \in Nat
  BY ListLength
<1>2. \A x \in S : x \in Nat
  BY <1>1
<1>3. \E x \in S : \A y \in S : x >= y
  <2>1. \A i, j \in 1..4 : \E m \in {i, j} :
           m \in 1..4 /\ Len(lists[m]) >= Len(lists[i]) /\ Len(lists[m]) >= Len(lists[j])
    BY <1>1
  <2>2. PICK i \in 1..4 : Len(lists[i]) >= Len(lists[1]) /\ Len(lists[i]) >= Len(lists[2])
    BY <2>1
  <2>3. PICK j \in 1..4 : Len(lists[j]) >= Len(lists[3]) /\ Len(lists[j]) >= Len(lists[4])
    BY <2>1
  <2>4. PICK m \in 1..4 : Len(lists[m]) >= Len(lists[i]) /\ Len(lists[m]) >= Len(lists[j])
    BY <2>1
  <2>5. /\ Len(lists[1]) \in Nat /\ Len(lists[2]) \in Nat /\ Len(lists[3]) \in Nat
        /\ Len(lists[4]) \in Nat /\ Len(lists[i]) \in Nat /\ Len(lists[j]) \in Nat
        /\ Len(lists[m]) \in Nat
    BY <1>1
  <2>6. /\ Len(lists[m]) >= Len(lists[1]) /\ Len(lists[m]) >= Len(lists[2])
        /\ Len(lists[m]) >= Len(lists[3]) /\ Len(lists[m]) >= Len(lists[4])
    BY <2>2, <2>3, <2>4, <2>5
  <2>7. \A k \in 1..4 : k = 1 \/ k = 2 \/ k = 3 \/ k = 4
    OBVIOUS
  <2>8. \A k \in 1..4 : Len(lists[m]) >= Len(lists[k])
    BY <2>6, <2>7
  <2> QED  BY <2>8
<1> HIDE DEF S
<1>4. Max(S) \in S /\ \A y \in S : Max(S) >= y
  BY <1>3 DEF Max
<1>5. \A k \in 1..4 : Len(lists[k]) \in S
  BY DEF S
<1>6. Max(S) \in Nat /\ \A y \in S : y <= Max(S)
  BY <1>2, <1>4
<1> QED  BY <1>5, <1>6 DEF S

\* The rounds end with the budget kept, four visits made at least if there is
\* anything to visit.
LEMMA VisitedBudget ==
  ASSUME NEW lists \in [1..4 -> Seq(Retrieved)]
  PROVE  \E n \in Nat : /\ BudgetInv(n, Visited(lists), lists)
                        /\ n < 4 => \A k \in 1..4 : lists[k] = <<>>
<1> DEFINE rounds == Max({Len(lists[k]) : k \in 1..4})
           N == 4 * rounds
           turn(n) == ((n - 1) % 4) + 1
           next == [p \in (1..N) \X Acc |->
                      IF BudgetInv(p[1] - 1, p[2], lists) THEN Visit(p[2], turn(p[1]), lists)
                      ELSE Unvisited]
           Fits(f) == f = [n \in 0..N |-> IF n = 0 THEN Unvisited
                                          ELSE Visit(f[n - 1], ((n - 1) % 4) + 1, lists)]
<1>1. rounds \in Nat /\ \A k \in 1..4 : Len(lists[k]) <= rounds
  BY LongestOf
<1> HIDE DEF rounds
<1>2. N \in Nat /\ (N < 4 => rounds = 0)
  BY <1>1
<1>3. N < 4 => \A k \in 1..4 : lists[k] = <<>>
  <2> SUFFICES ASSUME N < 4, NEW k \in 1..4 PROVE lists[k] = <<>>
      OBVIOUS
  <2>1. Len(lists[k]) <= 0 /\ Len(lists[k]) \in Nat
    BY <1>1, <1>2, ListLength
  <2>2. lists[k] \in Seq(Retrieved) /\ Len(lists[k]) = 0
    BY <2>1
  <2> QED  BY <2>2, EmptySeq
<1> HIDE DEF N
<1>4. ASSUME NEW n \in 1..N, NEW a, BudgetInv(n - 1, a, lists)
      PROVE  BudgetInv(n, Visit(a, turn(n), lists), lists)
  <2>1. n - 1 \in Nat /\ (n - 1) + 1 = n
    BY <1>2
  <2>2. turn(n) \in 1..4 /\ (n - 1 < 4 => turn(n) = (n - 1) + 1)
    BY <2>1, Turn
  <2> HIDE DEF turn
  <2>3. BudgetInv((n - 1) + 1, Visit(a, turn(n), lists), lists)
    BY <1>4, <2>1, <2>2, VisitStep
  <2> QED  BY <2>1, <2>3
<1>5. BudgetInv(0, Unvisited, lists) /\ Unvisited \in Acc
  BY BudgetStart DEF BudgetInv
<1>6. /\ next \in [(1..N) \X Acc -> Acc]
      /\ \A n \in 1..N : \A a \in Acc : BudgetInv(n - 1, a, lists) =>
            next[<<n, a>>] = Visit(a, turn(n), lists)
  <2>1. \A n \in 1..N : \A a \in Acc : BudgetInv(n - 1, a, lists) => Visit(a, turn(n), lists) \in Acc
    <3>1. \A n, a : BudgetInv(n, a, lists) => a \in Acc
      BY DEF BudgetInv
    <3> HIDE DEF turn
    <3> QED  BY <1>4, <3>1
  <2> HIDE DEF turn
  <2> QED  BY <1>5, <2>1
<1> HIDE DEF next
<1>7. PICK f : Iterated(Acc, Unvisited, N, next, f)
  BY <1>2, <1>5, <1>6, Iterates
<1>8. f \in [0..N -> Acc] /\ f[0] = Unvisited /\ \A n \in 1..N : f[n] = next[<<n, f[n - 1]>>]
  BY <1>7 DEF Iterated
<1> DEFINE lost == {n \in 0..N : ~BudgetInv(n, f[n], lists)}
<1>9. lost = {}
  <2> SUFFICES ASSUME lost # {} PROVE FALSE
      OBVIOUS
  <2>1. lost \in SUBSET Nat
    OBVIOUS
  <2>2. PICK n \in lost : \A m \in lost : n <= m
    BY <2>1, FirstIsFirst
  <2>3. n \in 1..N /\ n - 1 \in 0..N /\ ~(n <= n - 1)
    BY <1>2, <1>5, <1>8, <2>2
  <2>4. BudgetInv(n - 1, f[n - 1], lists) /\ f[n - 1] \in Acc
    BY <1>8, <2>2, <2>3
  <2>5. f[n] = Visit(f[n - 1], turn(n), lists)
    BY <1>6, <1>8, <2>3, <2>4
  <2> HIDE DEF turn
  <2> QED  BY <1>4, <2>2, <2>3, <2>4, <2>5
<1>10. \A n \in 1..N : f[n] = Visit(f[n - 1], turn(n), lists)
  <2> SUFFICES ASSUME NEW n \in 1..N PROVE f[n] = Visit(f[n - 1], turn(n), lists)
      OBVIOUS
  <2>1. n - 1 \in 0..N
    BY <1>2
  <2>2. f[n - 1] \in Acc /\ BudgetInv(n - 1, f[n - 1], lists)
    BY <1>8, <1>9, <2>1
  <2> HIDE DEF turn
  <2> QED  BY <1>6, <1>8, <2>2
<1>11. Fits(f)
  <2>1. f = [n \in 0..N |-> f[n]]
    BY <1>8
  <2>2. \A n \in 0..N : f[n] = IF n = 0 THEN Unvisited ELSE Visit(f[n - 1], ((n - 1) % 4) + 1, lists)
    <3> SUFFICES ASSUME NEW n \in 0..N
                 PROVE  f[n] = IF n = 0 THEN Unvisited
                               ELSE Visit(f[n - 1], ((n - 1) % 4) + 1, lists)
        OBVIOUS
    <3>1. n # 0 => n \in 1..N
      BY <1>2
    <3> QED  BY <1>8, <1>10, <3>1
  <2> QED  BY <2>1, <2>2, Zenon
<1>12. PICK g : Fits(g) /\ Visited(lists) = g[N]
  BY <1>11 DEF Visited, N, rounds
<1>13. g[0] = Unvisited /\ \A n \in 1..N : g[n] = Visit(g[n - 1], turn(n), lists)
  <2>1. g = [n \in 0..N |-> IF n = 0 THEN Unvisited ELSE Visit(g[n - 1], ((n - 1) % 4) + 1, lists)]
    BY <1>12
  <2>2. \A n \in 0..N : g[n] = IF n = 0 THEN Unvisited ELSE Visit(g[n - 1], ((n - 1) % 4) + 1, lists)
    BY <2>1, Zenon
  <2>3. 0 \in 0..N /\ \A n \in 1..N : n \in 0..N /\ n # 0
    BY <1>2
  <2> QED  BY <2>2, <2>3
<1> HIDE DEF Fits
<1> DEFINE gone == {n \in 0..N : ~BudgetInv(n, g[n], lists)}
<1>14. gone = {}
  <2> SUFFICES ASSUME gone # {} PROVE FALSE
      OBVIOUS
  <2>1. gone \in SUBSET Nat
    OBVIOUS
  <2>2. PICK n \in gone : \A m \in gone : n <= m
    BY <2>1, FirstIsFirst
  <2>3. n \in 1..N /\ n - 1 \in 0..N /\ ~(n <= n - 1)
    BY <1>2, <1>5, <1>13, <2>2
  <2>4. BudgetInv(n - 1, g[n - 1], lists) /\ g[n] = Visit(g[n - 1], turn(n), lists)
    BY <1>13, <2>2, <2>3
  <2> HIDE DEF turn
  <2> QED  BY <1>4, <2>2, <2>3, <2>4
<1>15. N \in 0..N
  BY <1>2
<1> QED  BY <1>2, <1>3, <1>12, <1>14, <1>15

LEMMA FirstsBefore ==
  ASSUME NEW out \in [1..4 -> Seq(Kept)], NEW k \in 1..4
  PROVE  Summed([j \in 1..(k - 1) |-> FirstSize(out[j])]) = Before(Firsts(out), k)
<1> DEFINE part(m) == [j \in 1..m |-> FirstSize(out[j])]
<1>1. \A j \in 1..4 : FirstSize(out[j]) \in Nat /\ Firsts(out)[j] = FirstSize(out[j])
  <2>1. Firsts(out) \in [1..4 -> Nat]
    BY OutType
  <2> QED  BY <2>1 DEF Firsts
<1>2. ASSUME NEW m \in 0..3
      PROVE  /\ part(m) \in Seq(Nat) /\ Len(part(m)) = m
             /\ \A j \in 1..m : part(m)[j] = FirstSize(out[j])
  <2>1. \A j \in 1..m : j \in 1..4
    OBVIOUS
  <2>2. part(m) \in [1..m -> Nat] /\ m \in Nat
    BY <1>1, <2>1
  <2> QED  BY <2>2
<1>3. Summed(part(0)) = 0
  <2>1. part(0) \in Seq(Nat) /\ Len(part(0)) = 0
    BY <1>2
  <2> HIDE DEF part
  <2>2. \A j \in 1..Len(part(0)) : part(0)[j] = 0
    BY <2>1
  <2> QED  BY <2>1, <2>2, SumNothing
<1>4. ASSUME NEW m \in 0..2
      PROVE  Summed(part(m + 1)) = Summed(part(m)) + FirstSize(out[m + 1])
  <2>1. m \in 0..3 /\ m + 1 \in 0..3
    OBVIOUS
  <2>2. /\ part(m) \in Seq(Nat) /\ Len(part(m)) = m
        /\ \A j \in 1..m : part(m)[j] = FirstSize(out[j])
    BY <1>2, <2>1
  <2>3. /\ part(m + 1) \in Seq(Nat) /\ Len(part(m + 1)) = m + 1
        /\ \A j \in 1..(m + 1) : part(m + 1)[j] = FirstSize(out[j])
    BY <1>2, <2>1
  <2> HIDE DEF part
  <2>4. \A j \in 1..m : part(m + 1)[j] = part(m)[j]
    BY <2>2, <2>3, SMTT(40)
  <2>5. m + 1 \in 1..(m + 1)
    OBVIOUS
  <2>6. Summed(part(m + 1)) = Summed(part(m)) + part(m + 1)[Len(part(m + 1))]
    BY <2>2, <2>3, <2>4, SumOneMore
  <2> QED  BY <2>3, <2>5, <2>6
<1> HIDE DEF part
<1>5. /\ Summed(part(1)) = 0 + FirstSize(out[1])
      /\ Summed(part(2)) = Summed(part(1)) + FirstSize(out[2])
      /\ Summed(part(3)) = Summed(part(2)) + FirstSize(out[3])
  <2>1. Summed(part(0 + 1)) = 0 + FirstSize(out[0 + 1])
    BY <1>3, <1>4
  <2>2. Summed(part(1 + 1)) = Summed(part(1)) + FirstSize(out[1 + 1])
    BY <1>4
  <2>3. Summed(part(2 + 1)) = Summed(part(2)) + FirstSize(out[2 + 1])
    BY <1>4
  <2>4. 0 + 1 = 1 /\ 1 + 1 = 2 /\ 2 + 1 = 3
    OBVIOUS
  <2> QED  BY <2>1, <2>2, <2>3, <2>4
<1>6. 0 + FirstSize(out[1]) = FirstSize(out[1])
  BY <1>1
<1>7. Summed(part(k - 1)) = Before(Firsts(out), k)
  <2>1. k = 1 \/ k = 2 \/ k = 3 \/ k = 4
    OBVIOUS
  <2>2. CASE k = 1
    BY <1>3, <2>2 DEF Before
  <2>3. CASE k = 2
    <3>1. k - 1 = 1
      BY <2>3
    <3> QED  BY <1>1, <1>5, <1>6, <2>3, <3>1 DEF Before
  <2>4. CASE k = 3
    <3>1. k - 1 = 2
      BY <2>4
    <3> QED  BY <1>1, <1>5, <1>6, <2>4, <3>1 DEF Before
  <2>5. CASE k = 4
    <3>1. k - 1 = 3
      BY <2>5
    <3> QED  BY <1>1, <1>5, <1>6, <2>5, <3>1 DEF Before
  <2> QED  BY <2>1, <2>2, <2>3, <2>4, <2>5
<1> QED  BY <1>7 DEF part

\* What the budget makes of the collections is accounted for.
LEMMA RecallAccounts ==
  ASSUME NEW r, NEW lists \in [1..4 -> Seq(Retrieved)], NEW end,
         end = Visited(lists), r.lists = lists, r.out = end.out, r.dropped = Dropped(end, lists)
  PROVE  /\ Accounted(r) /\ r.out \in [1..4 -> Seq(Kept)] /\ r.dropped \in Nat
         /\ \A k \in 1..4 : \A x \in Range(r.out[k]) : x.item \in Range(lists[k])
<1>1. PICK n \in Nat : /\ BudgetInv(n, end, lists)
                       /\ n < 4 => \A k \in 1..4 : lists[k] = <<>>
  BY VisitedBudget
<1>2. /\ end \in Acc /\ end.out \in [1..4 -> Seq(Kept)] /\ end.dropped \in Nat /\ end.left \in Nat
      /\ \A k \in 1..4 : \A x \in Range(end.out[k]) : x.item \in Range(lists[k])
      /\ Sum4(Lens(end.out)) + end.dropped = Sum4(end.at)
      /\ Sum4(Sizes(end.out)) + end.left = TotalCap
      /\ end.at \in [1..4 -> Nat]
  BY <1>1 DEF BudgetInv, Acc
<1>3. Sum4(Lens(end.out)) \in Nat /\ Sum4(Sizes(end.out)) \in Nat /\ Sum4(end.at) \in Nat
  <2>1. Lens(end.out) \in [1..4 -> Nat] /\ Sizes(end.out) \in [1..4 -> Nat]
    BY <1>2, OutType
  <2> QED  BY <1>2, <2>1, SumType
<1>4. Count4(end.out) = Sum4(Lens(end.out)) /\ Count4(lists) = Sum4(Lens(lists))
  BY DEF Count4, Sum4, Lens
<1>5. Sum4(Lens(lists)) \in Nat
  <2>1. Lens(lists) \in [1..4 -> Nat]
    BY ListLength DEF Lens
  <2> QED  BY <2>1, SumType
<1>6. Dropped(end, lists) = end.dropped + (Sum4(Lens(lists)) - Sum4(end.at))
  BY <1>4 DEF Dropped, Sum4
<1>7. r.dropped \in Nat
  <2>1. \A k \in 1..4 : end.at[k] <= Lens(lists)[k]
    BY <1>1 DEF BudgetInv, Lens
  <2>2. Lens(lists) \in [1..4 -> Nat]
    BY ListLength DEF Lens
  <2>3. Sum4(end.at) <= Sum4(Lens(lists))
    BY <1>2, <2>1, <2>2, SumOfLess
  <2>4. r.dropped = end.dropped + (Sum4(Lens(lists)) - Sum4(end.at)) /\ end.dropped \in Nat
    BY <1>2, <1>6
  <2> QED  BY <1>3, <1>5, <2>3, <2>4
<1>8. Count4(r.out) + r.dropped = Count4(r.lists)
  <2>1. /\ Count4(r.out) = Sum4(Lens(end.out)) /\ Count4(r.lists) = Sum4(Lens(lists))
        /\ r.dropped = end.dropped + (Sum4(Lens(lists)) - Sum4(end.at))
    BY <1>4, <1>6
  <2>2. Sum4(Lens(end.out)) + end.dropped = Sum4(end.at) /\ end.dropped \in Nat
    BY <1>2
  <2> QED  BY <1>3, <1>5, <2>1, <2>2, SMTT(40)
<1>9. Total(r) <= TotalCap
  <2>1. Total(r) = Sum4(Sizes(end.out))
    BY DEF Total, Sum4, Sizes
  <2> QED  BY <1>2, <1>3, <2>1, CapAssumption, SMTT(40)
<1>10. ASSUME NEW k \in 1..4, r.lists[k] # <<>>, r.out[k] = <<>>
      PROVE  Summed([j \in 1..(k - 1) |-> FirstSize(r.out[j])]) > TotalCap - Least
  <2>1. k <= n
    BY <1>1, <1>10
  <2>2. Before(Firsts(end.out), k) + Least > TotalCap
    BY <1>1, <1>10, <2>1 DEF BudgetInv
  <2>3. Before(Firsts(end.out), k) \in Nat
    BY <1>2, OutType, BeforeAll
  <2>4. Before(Firsts(end.out), k) > TotalCap - Least
    BY <2>2, <2>3, CapAssumption DEF Least
  <2> QED  BY <1>2, <2>4, FirstsBefore
<1> QED  BY <1>2, <1>8, <1>9, <1>10, <1>7 DEF Accounted

-----------------------------------------------------------------------------
(* The call *)

\* The names memory is looked up by are those of the scope, its own id among them.
ContextInv ==
  /\ RegistryInv /\ reading \in ReadingType \cup {None}
  /\ reading # None /\ reading.scope # None => reading.scope \in reading.ids

LEMMA RegistryStays ==
  ASSUME RegistryInv, UNCHANGED registryVars PROVE RegistryInv'
BY DEF registryVars, RegistryInv, RegistryTypeOK, RowsInv, OneRowPerId, MergedIntoRow,
       MergedKept, MergesApart

LEMMA EditStep ==
  ASSUME ContextInv, NEW e \in Editor, Edit(e) PROVE ContextInv'
<1>1. e \in Caller
  BY MemoryAssumption
<1>2. RegistryInv'
  <2>1. CASE Begin(e)
    BY <1>1, <2>1, Began, RequestAssumption DEF Begin, ContextInv
  <2>2. CASE Mutate(e) \/ Refuse(e)
    BY <1>1, <2>2, Mutated DEF ContextInv
  <2> QED  BY <2>1, <2>2 DEF Edit
<1> QED  BY <1>2 DEF ContextInv, Edit

LEMMA ListStep ==
  ASSUME ContextInv, NEW q \in Ask, List(q) PROVE ContextInv'
<1>1. RegistryInv'
  BY RegistryStays DEF List, ContextInv
<1>2. Listing(projects, Active) \subseteq Word /\ Mentioned(q) \subseteq Word
  BY ListingType DEF ContextInv, RegistryInv
<1>3. NoLists \in [1..4 -> Seq(Retrieved)] /\ NoLists \in [1..4 -> Seq(Kept)]
  <2> DEFINE none == <<>>
  <2>1. none \in Seq(Retrieved) /\ none \in Seq(Kept) /\ NoLists = <<none, none, none, none>>
    BY DEF NoLists
  <2> HIDE DEF none
  <2> QED  BY <2>1
<1>4. reading' \in ReadingType /\ reading'.scope = None
  BY <1>2, <1>3 DEF List, Asked, ReadingType, ContextStep, Kept
<1> QED  BY <1>1, <1>4 DEF ContextInv

LEMMA ResolveStep ==
  ASSUME ContextInv, ResolveProject \/ ResolveWorkspace \/ ResolveSemantic PROVE ContextInv'
<1>1. reading \in ReadingType /\ reading # None /\ UNCHANGED registryVars
  BY DEF ContextInv, ResolveProject, ResolveWorkspace, ResolveSemantic
<1>2. RegistryInv' /\ RegistryTypeOK
  BY <1>1, RegistryStays DEF ContextInv, RegistryInv
<1>3. \A w : Canonical(w) \in Word \cup {None}
  BY <1>2, CanonicalType
<1>4. reading' \in ReadingType /\ reading'.scope = reading.scope /\ reading'.ids = reading.ids
  <2>1. CASE ResolveProject
    BY <1>1, <1>3, <2>1 DEF ResolveProject, ReadingType, ContextStep
  <2>2. CASE ResolveWorkspace
    BY <1>1, <1>3, <2>2 DEF ResolveWorkspace, ReadingType, ContextStep
  <2>3. CASE ResolveSemantic
    <3> DEFINE semantic == {Canonical(w) : w \in reading.ask.semantic}
                             \cap IF reading.listed = {} THEN Word ELSE reading.listed
    <3>1. semantic \in SUBSET Word
      BY <1>1 DEF ReadingType
    <3>2. reading' = [reading EXCEPT !.step = "storage", !.semantic = semantic]
      BY <2>3 DEF ResolveSemantic
    <3> HIDE DEF semantic
    <3> QED  BY <1>1, <3>1, <3>2 DEF ReadingType, ContextStep
  <2> QED  BY <2>1, <2>2, <2>3
<1> QED  BY <1>1, <1>2, <1>4 DEF ContextInv

LEMMA StorageStep ==
  ASSUME ContextInv, ReadStorageIds PROVE ContextInv' /\ OneScope(reading')
<1>1. reading \in ReadingType /\ reading # None /\ UNCHANGED registryVars
  BY DEF ContextInv, ReadStorageIds
<1>2. RegistryInv' /\ RegistryTypeOK /\ MergedKept
  BY <1>1, RegistryStays DEF ContextInv, RegistryInv, RowsInv
<1> DEFINE scope == Scope(reading)
           ids == IF scope = None THEN {} ELSE StorageIds(projects, scope)
<1>3. reading' = [reading EXCEPT !.step = "skills", !.scope = scope, !.ids = ids,
                                 !.listed = {}, !.aliases = {}, !.semantic = {}]
  BY DEF ReadStorageIds
<1>4. scope # None => /\ scope \in Word /\ reading.project \in {None, scope}
                      /\ reading.workspace \in {None, scope}
  BY <1>1, ScopeIsEvidence
<1>5. ids \in SUBSET Word /\ (scope # None => scope \in ids)
  BY <1>2, <1>4, StorageIdsType
<1>6. scope # None => \A w \in ids : OthersMemory(w, scope) => Aliased(w, scope)
  BY <1>2, <1>4, NamesOfScope
<1> HIDE DEF scope, ids
<1>7. reading' \in ReadingType
  BY <1>1, <1>3, <1>4, <1>5 DEF ReadingType, ContextStep
<1>8. /\ reading'.scope = scope /\ reading'.ids = ids
      /\ reading'.project = reading.project /\ reading'.workspace = reading.workspace
  BY <1>1, <1>3 DEF ReadingType
<1>9. OneScope(reading')
  BY <1>4, <1>6, <1>8 DEF OneScope
<1> QED  BY <1>2, <1>5, <1>7, <1>8, <1>9 DEF ContextInv

LEMMA SkillStep ==
  ASSUME ContextInv, ReadSkillIds PROVE ContextInv'
<1>1. reading \in ReadingType /\ reading # None /\ UNCHANGED registryVars
  BY DEF ContextInv, ReadSkillIds
<1>2. RegistryInv' /\ RegistryTypeOK
  BY <1>1, RegistryStays DEF ContextInv, RegistryInv
<1> DEFINE skillIds == UNION {StorageIds(projects, w) : w \in reading.ask.skills}
<1>3. skillIds \in SUBSET Word
  <2>1. reading.ask.skills \subseteq Word
    BY <1>1, AskAssumption DEF ReadingType
  <2> QED  BY <1>2, <2>1, StorageIdsType
<1>4. reading' = [reading EXCEPT !.step = "recall", !.skillIds = skillIds]
  BY DEF ReadSkillIds
<1> HIDE DEF skillIds
<1>5. reading' \in ReadingType /\ reading'.scope = reading.scope /\ reading'.ids = reading.ids
  BY <1>1, <1>3, <1>4 DEF ReadingType, ContextStep
<1> QED  BY <1>1, <1>2, <1>5 DEF ContextInv

LEMMA RecallStep ==
  ASSUME ContextInv, Recall PROVE ContextInv' /\ OwnItems(reading') /\ Accounted(reading')
<1>1. reading \in ReadingType /\ reading # None /\ UNCHANGED registryVars
      /\ (reading.scope # None => reading.scope \in reading.ids)
  BY DEF ContextInv, Recall
<1>2. RegistryInv'
  BY <1>1, RegistryStays DEF ContextInv
<1> DEFINE lists == Collections(reading)
           end == Visited(lists)
           left == Dropped(end, lists)
           r == reading'
<1>3. r = [reading EXCEPT !.step = "done", !.lists = lists, !.out = end.out, !.dropped = left]
  BY DEF Recall
<1>4. lists \in [1..4 -> Seq(Retrieved)] /\ OwnLists(reading, lists)
  BY <1>1, CollectionsOwn
<1> HIDE DEF lists, r
<1>5. /\ r.lists = lists /\ r.out = end.out /\ r.dropped = left /\ r.scope = reading.scope
      /\ r.ids = reading.ids /\ r.ask = reading.ask
  BY <1>1, <1>3 DEF ReadingType
<1>6. /\ Accounted(r) /\ r.out \in [1..4 -> Seq(Kept)] /\ r.dropped \in Nat
      /\ \A k \in 1..4 : \A x \in Range(r.out[k]) : x.item \in Range(lists[k])
  BY <1>4, <1>5, RecallAccounts
<1> HIDE DEF end, left
<1>7. r \in ReadingType
  BY <1>1, <1>3, <1>4, <1>5, <1>6 DEF ReadingType, ContextStep, Kept
<1>8. OwnItems(r)
  <2>1. CASE r.scope = None
    <3>1. lists[4] = <<>> /\ \A m \in Range(lists[2]) : m \in Fresh /\ m.thread = r.ask.thread
      BY <1>4, <1>5, <2>1 DEF OwnLists
    <3>2. r.out[4] = <<>>
      <4>1. Range(lists[4]) = {}
        BY <3>1 DEF Range
      <4>2. Range(r.out[4]) = {} /\ r.out[4] \in Seq(Kept)
        BY <1>6, <4>1
      <4>3. r.out[4] # <<>> => 1 \in DOMAIN r.out[4]
        BY <4>2
      <4> QED  BY <4>2, <4>3 DEF Range
    <3> QED  BY <1>6, <2>1, <3>1, <3>2 DEF OwnItems, Emitted
  <2>2. CASE r.scope # None
    <3>1. \A m \in Range(lists[2]) \cup Range(lists[4]) :
             \/ m \in Fresh
             \/ IF m.layer = "L3" THEN m.under = r.scope ELSE m.under \in r.ids
      BY <1>4, <1>5, <2>2 DEF OwnLists
    <3> QED  BY <1>6, <2>2, <3>1 DEF OwnItems, Emitted
  <2> QED  BY <2>1, <2>2
<1> QED  BY <1>1, <1>2, <1>5, <1>6, <1>7, <1>8 DEF ContextInv, r

LEMMA ContextStart == ContextInit => ContextInv
BY RegistryStart DEF ContextInit, ContextInv

LEMMA ContextStepKeeps == ContextInv /\ [ContextNext]_contextVars => ContextInv'
<1> SUFFICES ASSUME ContextInv, [ContextNext]_contextVars PROVE ContextInv'
    OBVIOUS
<1>1. CASE \E q \in Ask : List(q)
  BY <1>1, ListStep
<1>2. CASE ResolveProject \/ ResolveWorkspace \/ ResolveSemantic
  BY <1>2, ResolveStep
<1>3. CASE ReadStorageIds
  BY <1>3, StorageStep
<1>4. CASE ReadSkillIds
  BY <1>4, SkillStep
<1>5. CASE Recall
  BY <1>5, RecallStep
<1>6. CASE Answer
  BY <1>6, RegistryStays DEF Answer, ContextInv
<1>7. CASE \E e \in Editor : Edit(e)
  BY <1>7, EditStep
<1>8. CASE UNCHANGED contextVars
  <2>1. UNCHANGED registryVars /\ reading' = reading
    BY <1>8 DEF contextVars, registryVars
  <2> QED  BY <2>1, RegistryStays DEF ContextInv
<1> QED  BY <1>1, <1>2, <1>3, <1>4, <1>5, <1>6, <1>7, <1>8 DEF ContextNext

\* What a call has resolved stays of its type, the id of its scope among the names
\* its memory is looked up by, however the registry is edited meanwhile.
THEOREM ContextInvariant == ContextSpec => []ContextInv
BY ContextStart, ContextStepKeeps, PTL DEF ContextSpec

\* The call, the rows and the capsule are well formed at every step.
THEOREM ContextTypes == ContextSpec => []ContextTypeOK
<1>1. ContextInv => ContextTypeOK
  BY DEF ContextInv, RegistryInv, ContextTypeOK
<1> QED  BY <1>1, ContextInvariant, PTL

\* A capsule is exactly of the one project that all its references lead to, its
\* memory stored under the names of that project, and every candidate is in it
\* within the budget or counted as dropped, for every registry, memory and budget.
THEOREM ContextCapsuleExact == ContextSpec => CapsuleExact
<1> DEFINE Exact == reading # None /\ reading' # reading =>
              /\ reading.step = "storage" => OneScope(reading')
              /\ reading.step = "recall" => OwnItems(reading') /\ Accounted(reading')
<1>1. ContextInv /\ [ContextNext]_contextVars => [Exact]_contextVars
  <2> SUFFICES ASSUME ContextInv, ContextNext, reading # None, reading' # reading
               PROVE  /\ reading.step = "storage" => OneScope(reading')
                      /\ reading.step = "recall" => OwnItems(reading') /\ Accounted(reading')
      OBVIOUS
  <2>1. ASSUME reading.step = "storage" PROVE OneScope(reading')
    <3>1. ReadStorageIds
      BY <2>1 DEF ContextNext, List, ResolveProject, ResolveWorkspace, ResolveSemantic,
                  ReadSkillIds, Recall, Answer, Edit
    <3> QED  BY <3>1, StorageStep
  <2>2. ASSUME reading.step = "recall" PROVE OwnItems(reading') /\ Accounted(reading')
    <3>1. Recall
      BY <2>2 DEF ContextNext, List, ResolveProject, ResolveWorkspace, ResolveSemantic,
                  ReadStorageIds, ReadSkillIds, Answer, Edit
    <3> QED  BY <3>1, RecallStep
  <2> QED  BY <2>1, <2>2
<1> QED  BY <1>1, ContextInvariant, PTL DEF ContextSpec, CapsuleExact
=============================================================================
