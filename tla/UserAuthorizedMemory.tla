------------------------ MODULE UserAuthorizedMemory ------------------------
(***************************************************************************)
(* Replacing the canonical L3 of a project, or the canonical L4, with a    *)
(* text the user wrote or approved (src/src/user-authorized-memory.ts).  A *)
(* plan shows what is canonical now; the user's confirmation is a captured *)
(* turn; executing the plan reads Memory Core again, checks the turn,      *)
(* writes to Core, and records the revision in the job ledger.  Every read *)
(* and write is awaited and is a step of its own; the process may die      *)
(* between two of them.                                                    *)
(*                                                                         *)
(* Memory Core is external: it holds one text, which a write replaces, and *)
(* distillation workers write it as well, and record their revision later. *)
(* The clock is the order in which plans and turns are made.               *)
(***************************************************************************)
EXTENDS Naturals
CONSTANTS Body,       \* contents, already normalised
          Approval,   \* authorization ids
          Turn,       \* captured user turns
          Executor,   \* concurrent executions
          Absent

ReplacementPlan == [text : Body, expected : Body \cup {Absent},
                    state : {"open", "expired", "used"}]
ReplacementRun == [approval : Approval, turn : Turn,
                   stage : {"taken", "read", "confirmed", "written"}]
ASSUME AbsentAssumption == Absent \notin Body \cup ReplacementPlan \cup ReplacementRun

VARIABLES canonical,  \* Core's text, or Absent
          revisions,  \* the texts the ledger holds a revision of
          approval,   \* per id: Absent or its plan
          captured,   \* per turn: Absent, or the plans made before it
          replacing,  \* per executor: Absent, or its plan, turn and progress
          overtaken,  \* history: another write came after this executor's reading
          confirmed   \* history: per id, its text was written
authorizedVars ==
  <<canonical, revisions, approval, captured, replacing, overtaken, confirmed>>

AuthorizedInit ==
  /\ canonical = Absent /\ revisions = {}
  /\ approval = [a \in Approval |-> Absent]
  /\ captured = [t \in Turn |-> Absent]
  /\ replacing = [e \in Executor |-> Absent]
  /\ overtaken = [e \in Executor |-> FALSE]
  /\ confirmed = [a \in Approval |-> FALSE]

-----------------------------------------------------------------------------
Replacing(e, stage) == replacing[e] # Absent /\ replacing[e].stage = stage
Proceed(e, stage) == replacing' = [replacing EXCEPT ![e].stage = stage]
EndReplacing(e) == replacing' = [replacing EXCEPT ![e] = Absent]

\* What is replaced must be quoted from the ledger and be what Core holds.
PlanReplacement(a, text) ==
  /\ approval[a] = Absent /\ text # canonical
  /\ canonical # Absent => canonical \in revisions
  /\ approval' = [approval EXCEPT ![a] =
        [text |-> text, expected |-> canonical, state |-> "open"]]
  /\ UNCHANGED <<canonical, revisions, captured, replacing, overtaken, confirmed>>

ExpireApproval(a) ==
  /\ approval[a] # Absent /\ approval[a].state = "open"
  /\ approval' = [approval EXCEPT ![a].state = "expired"]
  /\ UNCHANGED <<canonical, revisions, captured, replacing, overtaken, confirmed>>

CaptureTurn(t) ==
  /\ captured[t] = Absent
  /\ captured' = [captured EXCEPT ![t] = {a \in Approval : approval[a] # Absent}]
  /\ UNCHANGED <<canonical, revisions, approval, replacing, overtaken, confirmed>>

TakeApproval(e, a, t) ==
  /\ replacing[e] = Absent
  /\ approval[a] # Absent /\ approval[a].state # "used"
  /\ approval' = [approval EXCEPT ![a].state = "used"]
  /\ replacing' = [replacing EXCEPT ![e] =
        IF approval[a].state = "expired" THEN Absent
        ELSE [approval |-> a, turn |-> t, stage |-> "taken"]]
  /\ UNCHANGED <<canonical, revisions, captured, overtaken, confirmed>>

\* activeLayerItems.
ReadCanonical(e) ==
  /\ Replacing(e, "taken")
  /\ IF canonical = approval[replacing[e].approval].expected
     THEN Proceed(e, "read") ELSE EndReplacing(e)
  /\ overtaken' = [overtaken EXCEPT ![e] = FALSE]
  /\ UNCHANGED <<canonical, revisions, approval, captured, confirmed>>

\* Mutant: an earlier turn confirms as well.
ConfirmsEarlier(t, a) == captured[t] # Absent
\* The confirmation must have been captured, and after the plan was made.
Confirms(t, a) == captured[t] # Absent /\ a \in captured[t]
Confirm(e) ==
  /\ Replacing(e, "read")
  /\ IF Confirms(replacing[e].turn, replacing[e].approval)
     THEN Proceed(e, "confirmed") ELSE EndReplacing(e)
  /\ UNCHANGED <<canonical, revisions, approval, captured, overtaken, confirmed>>

Overtake(e) == overtaken' = [f \in Executor |-> f # e \/ overtaken[f]]

\* Core refuses, or the answer is lost: the revision is not recorded then.
WriteCanonical(e) ==
  /\ Replacing(e, "confirmed")
  /\ \/ /\ canonical' = approval[replacing[e].approval].text
        /\ confirmed' = [confirmed EXCEPT ![replacing[e].approval] = TRUE]
        /\ Overtake(e)
        /\ Proceed(e, "written") \/ EndReplacing(e)
     \/ EndReplacing(e) /\ UNCHANGED <<canonical, confirmed, overtaken>>
  /\ UNCHANGED <<revisions, approval, captured>>

RecordRevision(e) ==
  /\ Replacing(e, "written")
  /\ revisions' = revisions \cup {approval[replacing[e].approval].text}
  /\ EndReplacing(e)
  /\ UNCHANGED <<canonical, approval, captured, overtaken, confirmed>>

\* A distillation worker's write, and its job's completion.
Distill(text) ==
  /\ canonical' = text
  /\ overtaken' = [e \in Executor |-> TRUE]
  /\ UNCHANGED <<revisions, approval, captured, replacing, confirmed>>
CompleteDistillation(text) ==
  /\ text = canonical
  /\ revisions' = revisions \cup {text}
  /\ UNCHANGED <<canonical, approval, captured, replacing, overtaken, confirmed>>

CrashExecutor ==
  /\ approval' = [a \in Approval |->
       IF approval[a] = Absent THEN Absent ELSE [approval[a] EXCEPT !.state = "used"]]
  /\ replacing' = [e \in Executor |-> Absent]
  /\ UNCHANGED <<canonical, revisions, captured, overtaken, confirmed>>

AuthorizedNext ==
  \/ \E a \in Approval : ExpireApproval(a) \/ \E text \in Body : PlanReplacement(a, text)
  \/ \E t \in Turn : CaptureTurn(t)
  \/ \E e \in Executor :
        \/ \E a \in Approval, t \in Turn : TakeApproval(e, a, t)
        \/ ReadCanonical(e) \/ Confirm(e) \/ WriteCanonical(e) \/ RecordRevision(e)
  \/ \E text \in Body : Distill(text) \/ CompleteDistillation(text)
  \/ CrashExecutor
AuthorizedSpec == AuthorizedInit /\ [][AuthorizedNext]_authorizedVars

-----------------------------------------------------------------------------
AuthorizedTypeOK ==
  /\ canonical \in Body \cup {Absent} /\ revisions \subseteq Body
  /\ approval \in [Approval -> {Absent} \cup ReplacementPlan]
  /\ captured \in [Turn -> {Absent} \cup SUBSET Approval]
  /\ replacing \in [Executor -> {Absent} \cup ReplacementRun]
  /\ overtaken \in [Executor -> BOOLEAN] /\ confirmed \in [Approval -> BOOLEAN]

\* "Do not execute from implied consent, an earlier approval, or a different
\* proposed_content": a text that an authorization wrote was confirmed by a turn
\* captured after it was planned, and what it overwrote is what the user was shown,
\* unless another write reached Core after this execution had read it.
NoBlindOverwrite ==
  [][\A a \in Approval :
        ~confirmed[a] /\ confirmed'[a] =>
          \E e \in Executor :
             /\ replacing[e] # Absent /\ replacing[e].approval = a
             /\ captured[replacing[e].turn] # Absent
             /\ a \in captured[replacing[e].turn]
             /\ canonical = approval[a].expected \/ overtaken[e]]_authorizedVars

\* "Canonical L3/L4 changed after plan; show the new full replacement and obtain fresh
\* user confirmation": what a replacement overwrites is what its plan showed.
ShownOnly ==
  [][\A a \in Approval :
        ~confirmed[a] /\ confirmed'[a] => canonical = approval[a].expected]_authorizedVars
=============================================================================
