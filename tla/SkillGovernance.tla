-------------------------- MODULE SkillGovernance --------------------------
(***************************************************************************)
(* Revising and retiring a Skill with the user's approval                  *)
(* (src/src/skill-governance.ts).  A plan is bound to the fingerprint of   *)
(* the version it was made for; executing it loads that version, takes the *)
(* authorization away and compares the fingerprint.  A retire archives the *)
(* version.  A revise has Memory Core make a new version first and then    *)
(* archives the old one, and the process may die in between.               *)
(*                                                                         *)
(* The archiving, which is retireDistillationMemory of MemoryRetirement,   *)
(* is one step here: carried out, refused, or given up on and carried out  *)
(* after all.  Memory Core is external; its own changes of a Skill are     *)
(* edits.                                                                  *)
(***************************************************************************)
EXTENDS Naturals
CONSTANTS Version,     \* memory ids a Skill's versions may have
          Current,     \* the version at the start
          SkillPlan,   \* authorization ids
          Curator,     \* concurrent executions
          MaxSkillEdits,
          NoSkill

ASSUME SkillAssumption ==
  Current \in Version /\ NoSkill \notin Version /\ MaxSkillEdits \in Nat

VARIABLES skill,      \* per version: its status and how often Core changed it
          skillPlans, \* per authorization: NoSkill or its plan
          curating,   \* per execution: NoSkill, or what it loaded and how far it is
          retired     \* history: a retire was carried out
skillVars == <<skill, skillPlans, curating, retired>>

SkillInit ==
  /\ skill = [v \in Version |->
       [status |-> IF v = Current THEN "activated" ELSE "absent", edits |-> 0]]
  /\ skillPlans = [a \in SkillPlan |-> NoSkill]
  /\ curating = [c \in Curator |-> NoSkill]
  /\ retired = FALSE

-----------------------------------------------------------------------------
Curating(c, stage) == curating[c] # NoSkill /\ curating[c].stage = stage
EndCurating(c) == curating' = [curating EXCEPT ![c] = NoSkill]

\* loadSkillForAccount comes first; the plan and the execution use what it read.
LoadSkill(c, v) ==
  /\ curating[c] = NoSkill /\ skill[v].status # "absent"
  /\ curating' = [curating EXCEPT ![c] =
        [version |-> v, loaded |-> skill[v], stage |-> "loaded"]]
  /\ UNCHANGED <<skill, skillPlans, retired>>

PlanSkill(c, a, op) ==
  /\ Curating(c, "loaded") /\ skillPlans[a] = NoSkill
  /\ skillPlans' = IF curating[c].loaded.status # "activated" THEN skillPlans
       ELSE [skillPlans EXCEPT ![a] = [version |-> curating[c].version, operation |-> op,
                                       expected |-> curating[c].loaded, state |-> "open"]]
  /\ EndCurating(c)
  /\ UNCHANGED <<skill, retired>>

ExpireSkillPlan(a) ==
  /\ skillPlans[a] # NoSkill /\ skillPlans[a].state = "open"
  /\ skillPlans' = [skillPlans EXCEPT ![a].state = "expired"]
  /\ UNCHANGED <<skill, curating, retired>>

\* Mutant: the old version is archived before there is a new one.
ArchiveFirst(op) == "archiving"
\* An authorization is used up whether or not it still fits.  A revise makes the new
\* version before it archives the old one.
FirstStage(op) == IF op = "revise" THEN "revising" ELSE "archiving"
SkillFits(c, a) == /\ skillPlans[a].state = "open"
                   /\ skillPlans[a].expected = curating[c].loaded
                   /\ curating[c].loaded.status = "activated"
TakeSkillPlan(c, a) ==
  /\ Curating(c, "loaded")
  /\ skillPlans[a] # NoSkill /\ skillPlans[a].state # "used"
  /\ skillPlans[a].version = curating[c].version
  /\ skillPlans' = [skillPlans EXCEPT ![a].state = "used"]
  /\ IF SkillFits(c, a)
     THEN /\ curating' = [curating EXCEPT ![c].stage = FirstStage(skillPlans[a].operation)]
          /\ retired' = (retired \/ skillPlans[a].operation = "retire")
     ELSE EndCurating(c) /\ UNCHANGED retired
  /\ UNCHANGED skill

\* Core makes the new version; or it refuses, takes the write for the memory it has, or
\* its answer is lost, and then nothing is archived.
ReviseSkill(c) ==
  /\ Curating(c, "revising")
  /\ \/ \E v \in {w \in Version : skill[w].status = "absent"} :
           /\ skill' = [skill EXCEPT ![v].status = "activated"]
           /\ \/ curating' = [curating EXCEPT ![c].stage = "archiving"]
              \/ EndCurating(c)
     \/ EndCurating(c) /\ UNCHANGED skill
  /\ UNCHANGED <<skillPlans, retired>>

ArchiveSkill(c) ==
  /\ Curating(c, "archiving")
  /\ \/ skill' = [skill EXCEPT ![curating[c].version].status = "archived"]
     \/ UNCHANGED skill
  /\ EndCurating(c)
  /\ UNCHANGED <<skillPlans, retired>>

EditSkill(v) ==
  /\ skill[v].status # "absent" /\ skill[v].edits < MaxSkillEdits
  /\ skill' = [skill EXCEPT ![v].edits = @ + 1]
  /\ UNCHANGED <<skillPlans, curating, retired>>

\* The authorizations and the executions are the process's.
CrashCurator ==
  /\ skillPlans' = [a \in SkillPlan |->
       IF skillPlans[a] = NoSkill THEN NoSkill ELSE [skillPlans[a] EXCEPT !.state = "used"]]
  /\ curating' = [c \in Curator |-> NoSkill]
  /\ UNCHANGED <<skill, retired>>

SkillNext ==
  \/ \E c \in Curator :
        \/ \E v \in Version : LoadSkill(c, v)
        \/ \E a \in SkillPlan, op \in {"revise", "retire"} : PlanSkill(c, a, op)
        \/ \E a \in SkillPlan : TakeSkillPlan(c, a)
        \/ ReviseSkill(c) \/ ArchiveSkill(c)
  \/ \E a \in SkillPlan : ExpireSkillPlan(a)
  \/ \E v \in Version : EditSkill(v)
  \/ CrashCurator
SkillSpec == SkillInit /\ [][SkillNext]_skillVars

-----------------------------------------------------------------------------
SkillRow == [status : {"absent", "activated", "archived"}, edits : 0..MaxSkillEdits]
CuratingStage == {"loaded", "revising", "archiving"}
SkillTypeOK ==
  /\ skill \in [Version -> SkillRow]
  /\ skillPlans \in [SkillPlan -> {NoSkill} \cup
        [version : Version, operation : {"revise", "retire"}, expected : SkillRow,
         state : {"open", "expired", "used"}]]
  /\ curating \in [Curator -> {NoSkill} \cup
        [version : Version, loaded : SkillRow, stage : CuratingStage]]
  /\ retired \in BOOLEAN

\* "Create a new version under the same source skill identity and archive the previous
\* memory id": a Skill that nobody approved to retire has an active version at every
\* moment, although a revise takes two requests, two revises may cross, and the
\* process may die or lose an answer between the requests.
NeverNone == ~retired => \E v \in Version : skill[v].status = "activated"
=============================================================================
