-------------------------- MODULE ProjectRegistry --------------------------
(***************************************************************************)
(* The project registry of one account (src/src/project-registry.ts): a    *)
(* JSON file of rows, rewritten whole under the file mutation lock.  Every *)
(* mutator except create first resolves the reference it was given against *)
(* a reading of the file made before the lock is taken, and then works on  *)
(* the row with the id that the reading named; the two steps are Begin and *)
(* the operation's action.                                                 *)
(*                                                                         *)
(* A Word stands for an id, a display name or an alias; Key[w] is its      *)
(* normalised form (NFKC, lower case, no punctuation).  Descriptions,      *)
(* timestamps, suggestion scores and the path checks on ids are left out:  *)
(* no property is about them.  A reading of the file is the file: the      *)
(* cache is kept under the file's inode, size and times.                   *)
(***************************************************************************)
EXTENDS Naturals, Sequences, FiniteSets
CONSTANTS Word,       \* ids, names and aliases
          Key,          \* the normalised form of a word
          Todo,         \* todo ids
          Caller,       \* concurrent calls into the registry
          Request,    \* the calls that may be made
          Projects0,  \* the rows at the start
          MaxProjects,  \* bound on the number of rows
          None

State == {"active", "archived", "merged", "deleted"}
Mark == {"none", "pending", "done"}
Op == {"create", "update", "add-todo", "set-todo", "merge", "delete",
       "archive", "unarchive"}
Row == [id : Word, name : Word, aliases : SUBSET Word, state : State,
        into : Word \cup {None}, todos : [Todo -> Mark]]
\* What a call may leave out is None.
RequestType ==
  {r \in [op : Op, ref : Word, to : Word \cup {None}, name : Word \cup {None},
          aliases : (SUBSET Word) \cup {None}, todo : Todo \cup {None}, mark : Mark] :
     /\ r.op = "merge" => r.to # None
     /\ r.op \in {"add-todo", "set-todo"} => r.todo # None /\ r.mark # "none"}

ASSUME WordAssumption == Key \in [Word -> Word]
ASSUME NoneAssumption == None \notin Word \cup Todo
ASSUME RequestAssumption == Request \subseteq RequestType
ASSUME BoundAssumption == MaxProjects \in Nat
\* The file at the start: one row for each id, none merged.
ASSUME ProjectsAssumption ==
  /\ Projects0 \in Seq(Row)
  /\ \A i \in DOMAIN Projects0 : Projects0[i].state \in {"active", "archived"}
  /\ \A i, j \in DOMAIN Projects0 :
        Key[Projects0[i].id] = Key[Projects0[j].id] => i = j

VARIABLES projects,  \* the rows, in file order
          call       \* per caller: None, or the request with what it resolved to
registryVars == <<projects, call>>

-----------------------------------------------------------------------------
Names(p) == {p.id, p.name} \cup p.aliases
Keys(p) == {Key[w] : w \in Names(p)}
Active == {"active"}
Routable == {"active", "archived"}

\* Array.find over the rows whose index is in S.
First(S) == CHOOSE i \in S : \A j \in S : i <= j

\* An exact word wins over a normalised one, a row in use over a merged one; a
\* merged row leads to the row it was merged into, if that one is in use.
Resolve(ps, w, states) ==
  LET exact == {i \in DOMAIN ps : ps[i].state \in states /\ w \in Names(ps[i])}
      close == {i \in DOMAIN ps : ps[i].state \in states /\ Key[w] \in Keys(ps[i])}
      past  == {i \in DOMAIN ps : ps[i].state = "merged" /\ Key[w] \in Keys(ps[i])}
      target == {i \in DOMAIN ps : /\ past # {}
                                   /\ ps[i].id = ps[First(past)].into
                                   /\ ps[i].state \in states}
  IN IF exact # {} THEN ps[First(exact)].id
     ELSE IF close # {} THEN ps[First(close)].id
     ELSE IF target # {} THEN ps[First(target)].id ELSE None

\* The ids of the rows in these states (list).
Listing(ps, states) == {ps[i].id : i \in {k \in DOMAIN ps : ps[k].state \in states}}

\* The names memory of a project may be stored under: its id and aliases, and
\* what the rows merged into it were called.
StorageIds(ps, id) ==
  LET target == {i \in DOMAIN ps : ps[i].id = id /\ ps[i].state \in Routable}
      merged == {i \in DOMAIN ps : ps[i].state = "merged" /\ ps[i].into = id}
  IN IF target = {} THEN {id}
     ELSE {id} \cup ps[First(target)].aliases \cup UNION {Names(ps[i]) : i \in merged}

\* requireActive and requireArchived: the rows with this id in this state.
Having(id, state) ==
  {i \in DOMAIN projects : projects[i].id = id /\ projects[i].state = state}

\* ensureAliasesAvailable looks at the other active rows only.
AliasesAvailable(id, aliases) ==
  \A i \in DOMAIN projects :
     projects[i].id # id /\ projects[i].state = "active" =>
        {Key[w] : w \in aliases} \cap Keys(projects[i]) = {}

\* What the rows merged into this one were called.
Historical(id) ==
  UNION {Names(projects[i]) :
           i \in {k \in DOMAIN projects :
                    projects[k].state = "merged" /\ projects[k].into = id}}

\* The source's todo replaces the target's of the same id.
MergeTodos(target, source) ==
  [t \in Todo |-> IF source[t] = "none" THEN target[t] ELSE source[t]]

-----------------------------------------------------------------------------
RegistryInit ==
  /\ projects = Projects0
  /\ call = [c \in Caller |-> None]

\* The reference, and for a merge the target, is resolved before the lock.
Resolved(r) ==
  [req |-> r,
   id |-> IF r.op = "create" THEN r.ref
          ELSE Resolve(projects, r.ref, IF r.op = "unarchive" THEN Routable ELSE Active),
   to |-> IF r.op = "merge" THEN Resolve(projects, r.to, Active) ELSE None]

\* Mutant: an unknown reference is not refused.
BeginAnyway(c, r) ==
  /\ call[c] = None
  /\ call' = [call EXCEPT ![c] = Resolved(r)]
  /\ UNCHANGED projects
BeginWith(c, r) ==
  /\ call[c] = None
  /\ Resolved(r).id # None
  /\ r.op = "merge" => Resolved(r).to \notin {None, Resolved(r).id}
  /\ call' = [call EXCEPT ![c] = Resolved(r)]
  /\ UNCHANGED projects
Begin(c) == \E r \in Request : BeginWith(c, r)

Return(c) == call' = [call EXCEPT ![c] = None]
Calling(c, op) == call[c] # None /\ call[c].req.op = op

\* The alias list leaves out what normalises to the project's own id.
OwnAliases(id, aliases) ==
  IF aliases = None THEN {} ELSE {w \in aliases : Key[w] # Key[id]}

\* The id must be new among all rows, the merged and deleted ones too; the name
\* is not checked.
CreateAllowed(c) ==
  LET r == call[c].req
  IN /\ \A i \in DOMAIN projects : Key[r.ref] \notin Keys(projects[i])
     /\ AliasesAvailable(r.ref, OwnAliases(r.ref, r.aliases))

Create(c) ==
  LET r == call[c].req
  IN /\ Calling(c, "create") /\ CreateAllowed(c) /\ Len(projects) < MaxProjects
     /\ projects' = Append(projects,
           [id |-> r.ref, name |-> IF r.name = None THEN r.ref ELSE r.name,
            aliases |-> OwnAliases(r.ref, r.aliases),
            state |-> "active", into |-> None,
            todos |-> [t \in Todo |-> "none"]])
     /\ Return(c)

UpdateAllowed(c) ==
  /\ Having(call[c].id, "active") # {}
  /\ AliasesAvailable(call[c].id, OwnAliases(call[c].id, call[c].req.aliases))

\* Mutant: what merges brought is replaced too.
OnlyOwnAliases(id, aliases) == OwnAliases(id, aliases) \ {id}
\* New aliases replace the old, but for those that a merge brought.
Aliases(id, aliases) == (OwnAliases(id, aliases) \cup Historical(id)) \ {id}

Update(c) ==
  LET r == call[c].req
      i == First(Having(call[c].id, "active"))
  IN /\ Calling(c, "update") /\ UpdateAllowed(c)
     /\ projects' = [projects EXCEPT
           ![i].name = IF r.name = None THEN @ ELSE r.name,
           ![i].aliases = IF r.aliases = None THEN @ ELSE Aliases(call[c].id, r.aliases)]
     /\ Return(c)

\* An id is drawn fresh: here one bound for each call, taken as pending if used.
AddTodo(c) ==
  LET i == First(Having(call[c].id, "active"))
  IN /\ Calling(c, "add-todo") /\ Having(call[c].id, "active") # {}
     /\ projects' = [projects EXCEPT ![i].todos[call[c].req.todo] = "pending"]
     /\ Return(c)

SetTodoStatus(c) ==
  LET i == First(Having(call[c].id, "active"))
  IN /\ Calling(c, "set-todo") /\ Having(call[c].id, "active") # {}
     /\ projects[i].todos[call[c].req.todo] # "none"
     /\ projects' = [projects EXCEPT ![i].todos[call[c].req.todo] = call[c].req.mark]
     /\ Return(c)

\* The target takes over the source's id, name, aliases and todos.
Merge(c) ==
  LET s == First(Having(call[c].id, "active"))
      t == First(Having(call[c].to, "active"))
  IN /\ Calling(c, "merge")
     /\ Having(call[c].id, "active") # {} /\ Having(call[c].to, "active") # {}
     /\ projects' = [projects EXCEPT
           ![t].aliases = (@ \cup Names(projects[s])) \ {projects[t].id},
           ![t].todos = MergeTodos(@, projects[s].todos),
           ![s].state = "merged", ![s].into = projects[t].id]
     /\ Return(c)

SetState(c, op, from, to) ==
  /\ Calling(c, op) /\ Having(call[c].id, from) # {}
  /\ projects' = [projects EXCEPT ![First(Having(call[c].id, from))].state = to]
  /\ Return(c)
Delete(c)    == SetState(c, "delete", "active", "deleted")
Archive(c)   == SetState(c, "archive", "active", "archived")
\* Neither the aliases nor the name of an archived project are kept free for it.
Unarchive(c) == SetState(c, "unarchive", "archived", "active")

\* The operation throws and leaves the file as it is.
Allowed(c) ==
  CASE call[c].req.op = "create" -> CreateAllowed(c)
    [] call[c].req.op = "update" -> UpdateAllowed(c)
    [] call[c].req.op = "merge" -> /\ Having(call[c].id, "active") # {}
                                   /\ Having(call[c].to, "active") # {}
    [] call[c].req.op = "unarchive" -> Having(call[c].id, "archived") # {}
    [] call[c].req.op = "set-todo" ->
         /\ Having(call[c].id, "active") # {}
         /\ projects[First(Having(call[c].id, "active"))].todos[call[c].req.todo] # "none"
    [] OTHER -> Having(call[c].id, "active") # {}
Refuse(c) ==
  /\ call[c] # None /\ ~Allowed(c)
  /\ Return(c) /\ UNCHANGED projects

Mutate(c) == \/ Create(c) \/ Update(c) \/ AddTodo(c) \/ SetTodoStatus(c)
             \/ Merge(c) \/ Delete(c) \/ Archive(c) \/ Unarchive(c)
RegistryNext == \E c \in Caller : Begin(c) \/ Mutate(c) \/ Refuse(c)
RegistrySpec == RegistryInit /\ [][RegistryNext]_registryVars

-----------------------------------------------------------------------------
CallType == [req : RequestType, id : Word, to : Word \cup {None}]
RegistryTypeOK ==
  /\ projects \in Seq(Row)
  /\ call \in [Caller -> CallType \cup {None}]

\* An id names one project for good: no two rows, whatever their states, have
\* ids that normalise alike (create looks at every row, under the lock).
OneRowPerId ==
  \A i, j \in DOMAIN projects : Key[projects[i].id] = Key[projects[j].id] => i = j

\* "Merge converts the source project into a historical alias": what a merged
\* project was called and had to do belongs to the project it was merged into,
\* whatever is later done to that one (new aliases, a further merge, archiving).
MergedKept ==
  \A i, j \in DOMAIN projects :
     projects[i].state = "merged" /\ projects[j].id = projects[i].into =>
        /\ Names(projects[i]) \subseteq projects[j].aliases \cup {projects[j].id}
        /\ \A t \in Todo : projects[i].todos[t] # "none" => projects[j].todos[t] # "none"
=============================================================================
