------------------------- MODULE ProjectGovernance -------------------------
(***************************************************************************)
(* Changes to the registry that a user approves                            *)
(* (src/src/project-governance.ts), and the console's own calls            *)
(* (src/src/memory-control-actions.ts).  A plan resolves the project it is *)
(* about and leaves an authorization in a map of the process; executing it *)
(* takes the authorization away, counts the distillation jobs that an      *)
(* archive or a delete must wait for, and calls the registry, which        *)
(* resolves the reference again.  The console's delete counts for what the *)
(* reference resolves to and hands the registry the reference itself.      *)
(*                                                                         *)
(* A job stands for the ledger's row: its project and whether it is        *)
(* finished.  Each listing of the ledger is one step.                      *)
(***************************************************************************)
EXTENDS ProjectRegistry
CONSTANTS Auth,      \* authorization ids
          Job,       \* jobs of the ledger
          Proposal,  \* the changes that may be planned
          Direct,    \* the calls the console may make itself
          Used

ASSUME ProposalAssumption ==
  /\ Proposal \cup Direct \subseteq RequestType
  /\ \A r \in Proposal : r.op \notin {"add-todo", "set-todo"}

VARIABLES authorization,  \* per id: None, what was planned, or Used
          approved,       \* per caller: None, or the change it is executing, of
                          \* a plan or of the console
          jobs            \* per job: its project and status
governanceVars == <<projects, call, authorization, approved, jobs>>

JobStatus == {"none", "pending", "leased", "failed", "completed"}

GovernanceInit ==
  /\ RegistryInit
  /\ authorization = [a \in Auth |-> None]
  /\ approved = [c \in Caller |-> None]
  /\ jobs = [j \in Job |-> [project |-> None, status |-> "none"]]

\* unfinishedDistillationJobsForProject, of the statuses that matter.
Blockers(id, statuses) ==
  {j \in Job : /\ jobs[j].status \in statuses
               /\ \/ jobs[j].project = id
                  \/ Resolve(projects, jobs[j].project, Active) = id}
Waits(op) == CASE op = "archive" -> {"pending", "leased"}
               [] op = "delete" -> {"pending", "leased", "failed"}
               [] OTHER -> {}

\* An update must change something of the row as it is now.
Effective(r, p) == \/ r.name \notin {None, p.name}
                   \/ r.aliases \notin {None, p.aliases}

Planned(r) ==
  LET now == Resolved(r)
  IN IF r.op = "create" THEN r ELSE [r EXCEPT !.ref = now.id, !.to = now.to]
Plannable(r) ==
  LET now == Resolved(r)
  IN /\ r.op = "create" => Resolve(projects, r.ref, Active) = None
     /\ now.id # None
     /\ r.op = "merge" => now.to \notin {None, now.id}
     /\ r.op = "unarchive" => Having(now.id, "archived") # {}
     /\ r.op = "update" =>
           \E i \in Having(now.id, "active") : Effective(r, projects[i])

Plan(a, r) ==
  /\ authorization[a] = None /\ Plannable(r)
  /\ authorization' = [authorization EXCEPT ![a] = [req |-> Planned(r), expired |-> FALSE]]
  /\ UNCHANGED <<projects, call, approved, jobs>>

\* A day passes.
Expire(a) ==
  /\ authorization[a] \notin {None, Used}
  /\ authorization' = [authorization EXCEPT ![a].expired = TRUE]
  /\ UNCHANGED <<projects, call, approved, jobs>>

Change(r, id, planned) == [req |-> r, project |-> id, planned |-> planned, counted |-> FALSE]

Take(c, a) ==
  /\ call[c] = None /\ approved[c] = None
  /\ authorization[a] \notin {None, Used}
  /\ authorization' = [authorization EXCEPT ![a] = Used]
  /\ approved' = [approved EXCEPT ![c] =
        IF authorization[a].expired THEN None
        ELSE Change(authorization[a].req, authorization[a].req.ref, TRUE)]
  /\ UNCHANGED <<projects, call, jobs>>

\* The console's delete-project: what it counts for is resolved here.
ConsoleDelete(c, r) ==
  /\ call[c] = None /\ approved[c] = None
  /\ r.op = "delete" /\ Resolved(r).id # None
  /\ approved' = [approved EXCEPT ![c] = Change(r, Resolved(r).id, FALSE)]
  /\ UNCHANGED <<projects, call, authorization, jobs>>

Count(c) ==
  /\ approved[c] # None /\ ~approved[c].counted
  /\ Waits(approved[c].req.op) # {}
  /\ IF Blockers(approved[c].project, Waits(approved[c].req.op)) = {}
     THEN approved' = [approved EXCEPT ![c].counted = TRUE]
     ELSE approved' = [approved EXCEPT ![c] = None]
  /\ UNCHANGED <<projects, call, authorization, jobs>>

\* The registry is called with the approved request; it throws when the reference
\* resolves to nothing.
Enter(c) ==
  /\ approved[c] # None /\ call[c] = None
  /\ approved[c].counted \/ Waits(approved[c].req.op) = {}
  /\ IF Resolved(approved[c].req).id = None \/
        (approved[c].req.op = "merge" /\
         Resolved(approved[c].req).to \in {None, Resolved(approved[c].req).id})
     THEN approved' = [approved EXCEPT ![c] = None] /\ UNCHANGED <<projects, call>>
     ELSE BeginWith(c, approved[c].req) /\ UNCHANGED approved
  /\ UNCHANGED <<authorization, jobs>>

Finish(c) ==
  /\ approved[c] # None
  /\ Mutate(c) \/ Refuse(c)
  /\ approved' = [approved EXCEPT ![c] = None]
  /\ UNCHANGED <<authorization, jobs>>

\* The console's other calls go to the registry as they are.
ConsoleCall(c) ==
  /\ approved[c] = None
  /\ \/ \E r \in {q \in Direct : q.op # "delete"} : BeginWith(c, r)
     \/ Mutate(c) \/ Refuse(c)
  /\ UNCHANGED <<authorization, approved, jobs>>

\* A scan queues a job for the project a turn resolves to; a worker settles it.
Queue(j) ==
  /\ jobs[j].status = "none"
  /\ \E i \in DOMAIN projects :
        /\ projects[i].state = "active"
        /\ jobs' = [jobs EXCEPT ![j] = [project |-> projects[i].id, status |-> "pending"]]
  /\ UNCHANGED <<projects, call, authorization, approved>>
Work(j) ==
  /\ \E s \in {"leased", "failed", "completed"} :
        /\ <<jobs[j].status, s>> \in {<<"pending", "leased">>, <<"leased", "failed">>,
                                      <<"leased", "completed">>}
        /\ jobs' = [jobs EXCEPT ![j].status = s]
  /\ UNCHANGED <<projects, call, authorization, approved>>

\* The authorizations and the calls are the process's; the file stays.
Restart ==
  /\ authorization' = [a \in Auth |-> IF authorization[a] = None THEN None ELSE Used]
  /\ approved' = [c \in Caller |-> None]
  /\ call' = [c \in Caller |-> None]
  /\ UNCHANGED <<projects, jobs>>

GovernanceNext ==
  \/ \E a \in Auth, r \in Proposal : Plan(a, r)
  \/ \E a \in Auth : Expire(a)
  \/ \E c \in Caller, a \in Auth : Take(c, a)
  \/ \E c \in Caller, r \in Direct : ConsoleDelete(c, r)
  \/ \E c \in Caller : Count(c) \/ Enter(c) \/ Finish(c) \/ ConsoleCall(c)
  \/ \E j \in Job : Queue(j) \/ Work(j)
  \/ Restart
GovernanceSpec == GovernanceInit /\ [][GovernanceNext]_governanceVars

-----------------------------------------------------------------------------
AuthType == [req : RequestType, expired : BOOLEAN] \cup {None, Used}
ChangeType == [req : RequestType, project : Word, planned : BOOLEAN,
               counted : BOOLEAN] \cup {None}
GovernanceTypeOK ==
  /\ RegistryTypeOK
  /\ authorization \in [Auth -> AuthType]
  /\ approved \in [Caller -> ChangeType]
  /\ jobs \in [Job -> [project : Word \cup {None}, status : JobStatus]]

\* "Execute remains one-shot and validates the planned object before mutation":
\* the project that the execution of an approved plan deletes, archives or merges is
\* the one the plan named and whose unfinished jobs the execution counted.
ApprovedProjectOnly ==
  [][\A i \in DOMAIN projects, c \in Caller :
        /\ approved[c] # None /\ approved[c].planned
        /\ call[c] # None /\ call'[c] = None
        /\ projects'[i].state # projects[i].state
        => projects[i].id = approved[c].project]_governanceVars
=============================================================================
