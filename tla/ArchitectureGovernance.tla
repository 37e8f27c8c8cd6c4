----------------------- MODULE ArchitectureGovernance -----------------------
(***************************************************************************)
(* Replacing a project's architecture document                             *)
(* (src/src/architecture-governance.ts, architecture-history.ts and the    *)
(* managed document of architecture-source.ts).  A plan remembers the      *)
(* fingerprint of what the user was shown; executing it leaves a prepared  *)
(* revision with the content before, writes the document under its lock if *)
(* the fingerprint still holds, and commits the revision.  Until the first *)
(* write the repository's own document, which anyone may edit, is what is  *)
(* shown and fingerprinted.                                                *)
(***************************************************************************)
EXTENDS Naturals, Sequences
CONSTANTS Text,        \* contents, already normalised
          ChangePlan,  \* authorization ids; a plan's revision goes by the same id
          Session,     \* concurrent executions
          Seeds,       \* what the repository's document may hold
          MaxEdits,    \* bound on edits of the repository
          Nothing

Document == [exists : BOOLEAN, content : Text \cup {Nothing}]
RevisionRecord == [before : Document, proposed : Text, status : {"prepared", "committed"},
                   after : Text \cup {Nothing}]

ASSUME TextAssumption == Nothing \notin Text /\ Seeds \subseteq Text \cup {Nothing}
ASSUME NothingAssumption == Nothing \notin RevisionRecord
ASSUME EditsAssumption == MaxEdits \in Nat

VARIABLES managed,    \* the managed document: its content, or Nothing
          repository, \* the repository's document
          edits,      \* how often that was edited
          planned,    \* per authorization: its plan, or Nothing
          executing,  \* per session: the plan it took and how far it is
          history,    \* per plan: its revision record, or Nothing
          written     \* history variable: the plans whose content was written, in order
architectureVars ==
  <<managed, repository, edits, planned, executing, history, written>>

\* inspectProjectArchitecture; the fingerprint is a hash of just these two.
Inspect == IF managed # Nothing THEN [exists |-> TRUE, content |-> managed]
           ELSE [exists |-> FALSE, content |-> repository]

Stage == {"taken", "checked", "prepared", "written"}
PlanRecord == [expected : Document, content : Text, expired : BOOLEAN]
ExecutionRecord == [plan : ChangePlan, stage : Stage, expected : Document, content : Text]
Idle(s) == executing[s] = Nothing
At(s, stage) == executing[s] # Nothing /\ executing[s].stage = stage
Go(s, stage) == executing' = [executing EXCEPT ![s].stage = stage]
Leave(s) == executing' = [executing EXCEPT ![s] = Nothing]

ArchitectureInit ==
  /\ managed = Nothing /\ repository \in Seeds /\ edits = 0
  /\ planned = [p \in ChangePlan |-> Nothing]
  /\ executing = [s \in Session |-> Nothing]
  /\ history = [p \in ChangePlan |-> Nothing]
  /\ written = <<>>

-----------------------------------------------------------------------------
\* An authorization id is drawn once.
PlanChange(p, t) ==
  /\ planned[p] = Nothing /\ history[p] = Nothing
  /\ \A s \in Session : ~Idle(s) => executing[s].plan # p
  /\ Inspect # [exists |-> TRUE, content |-> t]
  /\ planned' = [planned EXCEPT ![p] = [expected |-> Inspect, content |-> t, expired |-> FALSE]]
  /\ UNCHANGED <<managed, repository, edits, executing, history, written>>

ExpirePlan(p) ==
  /\ planned[p] # Nothing
  /\ planned' = [planned EXCEPT ![p].expired = TRUE]
  /\ UNCHANGED <<managed, repository, edits, executing, history, written>>

TakePlan(s, p) ==
  /\ Idle(s) /\ planned[p] # Nothing
  /\ planned' = [planned EXCEPT ![p] = Nothing]
  /\ executing' = [executing EXCEPT ![s] =
        IF planned[p].expired THEN Nothing
        ELSE [plan |-> p, stage |-> "taken", expected |-> planned[p].expected,
              content |-> planned[p].content]]
  /\ UNCHANGED <<managed, repository, edits, history, written>>

Check(s) ==
  /\ At(s, "taken")
  /\ IF Inspect = executing[s].expected THEN Go(s, "checked") ELSE Leave(s)
  /\ UNCHANGED <<managed, repository, edits, planned, history, written>>

\* What was there before is what was just checked.
Prepare(s) ==
  /\ At(s, "checked")
  /\ history' = [history EXCEPT ![executing[s].plan] =
        [before |-> executing[s].expected, proposed |-> executing[s].content,
         status |-> "prepared", after |-> Nothing]]
  /\ Go(s, "prepared")
  /\ UNCHANGED <<managed, repository, edits, planned, written>>

\* Mutant: the document is replaced without a second look.
WriteUnchecked(s) ==
  /\ At(s, "prepared")
  /\ managed' = executing[s].content
  /\ written' = Append(written, executing[s].plan)
  /\ Go(s, "written")
  /\ UNCHANGED <<repository, edits, planned, history>>
\* Under the document's lock: inspected again, and replaced by a rename.
Write(s) ==
  /\ At(s, "prepared")
  /\ IF Inspect = executing[s].expected
     THEN /\ managed' = executing[s].content
          /\ written' = Append(written, executing[s].plan)
          /\ Go(s, "written")
     ELSE Leave(s) /\ UNCHANGED <<managed, written>>
  /\ UNCHANGED <<repository, edits, planned, history>>

Commit(s) ==
  /\ At(s, "written")
  /\ history' = [history EXCEPT ![executing[s].plan] =
                    [@ EXCEPT !.status = "committed", !.after = executing[s].content]]
  /\ Leave(s)
  /\ UNCHANGED <<managed, repository, edits, planned, written>>

EditRepository(t) ==
  /\ edits < MaxEdits /\ t # repository
  /\ repository' = t /\ edits' = edits + 1
  /\ UNCHANGED <<managed, planned, executing, history, written>>

\* The plans and the executions are the process's; the files stay.
CrashArchitecture ==
  /\ planned' = [p \in ChangePlan |-> Nothing]
  /\ executing' = [s \in Session |-> Nothing]
  /\ UNCHANGED <<managed, repository, edits, history, written>>

ArchitectureNext ==
  \/ \E p \in ChangePlan, t \in Text : PlanChange(p, t)
  \/ \E p \in ChangePlan : ExpirePlan(p)
  \/ \E s \in Session, p \in ChangePlan : TakePlan(s, p)
  \/ \E s \in Session : Check(s) \/ Prepare(s) \/ Write(s) \/ Commit(s)
  \/ \E t \in Seeds : EditRepository(t)
  \/ CrashArchitecture
ArchitectureSpec == ArchitectureInit /\ [][ArchitectureNext]_architectureVars

-----------------------------------------------------------------------------
ArchitectureTypeOK ==
  /\ managed \in Text \cup {Nothing} /\ repository \in Text \cup {Nothing}
  /\ edits \in Nat
  /\ planned \in [ChangePlan -> PlanRecord \cup {Nothing}]
  /\ executing \in [Session -> ExecutionRecord \cup {Nothing}]
  /\ history \in [ChangePlan -> RevisionRecord \cup {Nothing}]
  /\ written \in Seq(ChangePlan)

\* What the k-th write replaced, as its revision has it.
ReplacedIs(before, k) ==
  IF k = 1 THEN ~before.exists
  ELSE before = [exists |-> TRUE, content |-> history[written[k - 1]].proposed]
WritesTraced == \A k \in DOMAIN written : /\ history[written[k]] # Nothing
                                          /\ ReplacedIs(history[written[k]].before, k)
DocumentTraced == managed = IF written = <<>> THEN Nothing
                            ELSE history[written[Len(written)]].proposed
Committed(p) == history[p] # Nothing /\ history[p].status = "committed"
IsWritten(p) == \E k \in DOMAIN written : written[k] = p
CommitsTrue == \A p \in ChangePlan :
                 Committed(p) => IsWritten(p) /\ history[p].after = history[p].proposed

\* "history_preserved, rollback_available": whatever crashed and whoever raced,
\* every content the document ever had can be told from the revisions.  Each write
\* has a revision, made before it, that holds what the write replaced and what it
\* wrote; the document is what the last write left; and a revision says committed
\* only of a write that happened.
AuditTrail == WritesTraced /\ DocumentTraced /\ CommitsTrue
=============================================================================
