-------------------------- MODULE MemoryRetirement --------------------------
(***************************************************************************)
(* Taking a memory out of use (retireDistillationMemory in                 *)
(* src/src/distillation-jobs.ts, called by the console and by Skill        *)
(* governance).  The completed jobs of the ledger whose result the memory  *)
(* is, its revisions, are put in quarantine under the ledger's lock; the   *)
(* memory is archived or deleted in Memory Core; the revisions are then    *)
(* marked retired.  When Core answers that it refused, they are put back.  *)
(* When its answer is lost they stay in quarantine until the same          *)
(* operation is called again.                                              *)
(*                                                                         *)
(* The generation of a call, a random id in the code, is the caller that   *)
(* makes it: a caller makes one call at a time.  Memory Core is external.  *)
(* An HTTP error of Core means that the request had no effect.             *)
(***************************************************************************)
EXTENDS Naturals, FiniteSets
CONSTANTS Revision,  \* jobs whose result is the memory
          Completed, \* those completed at the start
          Retirer,   \* concurrent calls
          NoCall

ASSUME CompletedAssumption == Completed \subseteq Revision

Operation == {"archived", "deleted"}

VARIABLES retirement,  \* per revision: "absent" from the ledger, in use ("none"),
                       \* in quarantine ("pending"), or retired
          generation,  \* per revision: the call that put it in quarantine
          operation,   \* per revision: what that call does
          retiring,    \* per caller: NoCall, or its call
          memory,      \* Memory Core's: "live", "archived", "deleted"
          late,        \* requests given up on that Core may still receive
          touched,     \* history: Core carried out a call that had the revision in
                       \* quarantine, since it was last in use
          gone         \* history: Core carried out a call, or had deleted the memory,
                       \* since the revision went into its quarantine
retirementVars ==
  <<retirement, generation, operation, retiring, memory, late, touched, gone>>

RetirementInit ==
  /\ retirement = [r \in Revision |-> IF r \in Completed THEN "none" ELSE "absent"]
  /\ generation = [r \in Revision |-> NoCall]
  /\ operation = [r \in Revision |-> "none"]
  /\ retiring = [c \in Retirer |-> NoCall]
  /\ memory = "live"
  /\ late = {}
  /\ touched = [r \in Revision |-> FALSE] /\ gone = [r \in Revision |-> FALSE]

-----------------------------------------------------------------------------
In(c, stage) == retiring[c] # NoCall /\ retiring[c].stage = stage
Mine(c) == {r \in retiring[c].revisions : /\ retirement[r] = "pending"
                                          /\ generation[r] = c}
Done(c) == retiring' = [retiring EXCEPT ![c] = NoCall]
Step(c, stage) == retiring' = [retiring EXCEPT ![c].stage = stage]

Rows == {r \in Revision : retirement[r] # "absent"}

\* The call throws or returns at once.
Conflict(op) ==
  \/ op = "archived" /\ \E r \in Rows : retirement[r] = "deleted"
  \/ \E r \in Rows : retirement[r] = "pending" /\ operation[r] # op
Finished(op) == Rows # {} /\ \A r \in Rows : retirement[r] = op

InUse(op) == {r \in Rows : retirement[r] # op}
Retrying(op) == /\ InUse(op) # {}
                /\ \A r \in InUse(op) : retirement[r] = "pending" /\ operation[r] = op
\* What the revisions were, for those that no earlier call left in quarantine.
Previous(op) == {r \in InUse(op) : retirement[r] # "pending"}

Quarantine(c, op) ==
  /\ retiring[c] = NoCall /\ ~Conflict(op) /\ ~Finished(op)
  /\ retiring' = [retiring EXCEPT ![c] =
        [stage |-> "asking", operation |-> op, revisions |-> InUse(op),
         retrying |-> Retrying(op), previous |-> Previous(op),
         before |-> retirement]]
  /\ retirement' = [r \in Revision |-> IF r \in InUse(op) THEN "pending" ELSE retirement[r]]
  /\ generation' = [r \in Revision |-> IF r \in InUse(op) THEN c ELSE generation[r]]
  /\ operation' = [r \in Revision |-> IF r \in InUse(op) THEN op ELSE operation[r]]
  /\ touched' = [r \in Revision |-> touched[r] /\ r \notin Previous(op)]
  /\ gone' = [r \in Revision |-> IF r \in Previous(op) THEN memory = "deleted" ELSE gone[r]]
  /\ UNCHANGED <<memory, late>>

\* Core archives or deletes; it knows nothing of a memory it deleted.
CoreApply(m) ==
  /\ memory # "deleted"
  /\ memory' = m.operation
  /\ touched' = [r \in Revision |-> touched[r] \/ r \in m.revisions]
  /\ gone' = [r \in Revision |-> gone[r] \/ retirement[r] = "pending"]
Message(c) == [operation |-> retiring[c].operation, revisions |-> retiring[c].revisions]

Apply(c) ==
  /\ In(c, "asking") /\ CoreApply(Message(c))
  /\ Step(c, "applied")
  /\ UNCHANGED <<retirement, generation, operation, late>>

\* Core's answer comes, or the caller gives up on it.
Answered(c) ==
  /\ In(c, "applied")
  /\ Step(c, "finalizing")
  /\ UNCHANGED <<retirement, generation, operation, memory, late, touched, gone>>
GiveUp(c) ==
  /\ In(c, "asking") \/ In(c, "applied")
  /\ late' = IF In(c, "asking") THEN late \cup {Message(c)} ELSE late
  /\ Done(c)
  /\ UNCHANGED <<retirement, generation, operation, memory, touched, gone>>

\* Mutant: the retry takes any refusal for success.
RefusedAsGone(c, status) ==
  /\ In(c, "asking")
  /\ status = 404 <=> memory = "deleted"
  /\ IF retiring[c].retrying THEN Step(c, "finalizing")
     ELSE IF retiring[c].previous # {} THEN Step(c, "restoring") ELSE Done(c)
  /\ UNCHANGED <<retirement, generation, operation, memory, late, touched, gone>>
\* An HTTP error without effect: 404 for a deleted memory, or any other.  The retry
\* of a delete takes 404 for success.
Refused(c, status) ==
  /\ In(c, "asking")
  /\ status = 404 <=> memory = "deleted"
  /\ IF retiring[c].retrying /\ retiring[c].operation = "deleted" /\ status = 404
     THEN Step(c, "finalizing")
     ELSE IF retiring[c].previous # {} THEN Step(c, "restoring") ELSE Done(c)
  /\ UNCHANGED <<retirement, generation, operation, memory, late, touched, gone>>

\* Mutant: the generation is not compared.
RestorableOfAny(c) == {r \in retiring[c].previous : retirement[r] = "pending"}
\* Only what is still in this call's quarantine is put back as it was.
Restorable(c) == Mine(c) \cap retiring[c].previous
Restore(c) ==
  /\ In(c, "restoring")
  /\ retirement' = [r \in Revision |-> IF r \in Restorable(c) THEN retiring[c].before[r]
                                       ELSE retirement[r]]
  /\ generation' = [r \in Revision |-> IF r \in Restorable(c) THEN NoCall ELSE generation[r]]
  /\ operation' = [r \in Revision |-> IF r \notin Restorable(c) THEN operation[r]
                                      ELSE IF retiring[c].before[r] = "none" THEN "none"
                                      ELSE retiring[c].before[r]]
  /\ Done(c)
  /\ UNCHANGED <<memory, late, touched, gone>>

\* All of them, or none: then the call must be made again.
Finalize(c) ==
  /\ In(c, "finalizing")
  /\ retirement' = [r \in Revision |->
        IF Mine(c) = retiring[c].revisions /\ r \in Mine(c) THEN retiring[c].operation
        ELSE retirement[r]]
  /\ Done(c)
  /\ UNCHANGED <<generation, operation, memory, late, touched, gone>>

\* Another job writes the memory, anew if need be, and is completed.
Revise(r) ==
  /\ retirement[r] = "absent"
  /\ retirement' = [retirement EXCEPT ![r] = "none"]
  /\ memory' = "live"
  /\ UNCHANGED <<generation, operation, retiring, late, touched, gone>>

\* A request that was given up on arrives after all.
Late(m) ==
  /\ late' = late \ {m}
  /\ IF memory = "deleted" THEN UNCHANGED <<memory, touched, gone>> ELSE CoreApply(m)
  /\ UNCHANGED <<retirement, generation, operation, retiring>>

\* The process dies; what it asked of Core may still arrive.
CrashRetirer(c) ==
  /\ retiring[c] # NoCall
  /\ late' = IF In(c, "asking") THEN late \cup {Message(c)} ELSE late
  /\ Done(c)
  /\ UNCHANGED <<retirement, generation, operation, memory, touched, gone>>

RetirementNext ==
  \/ \E c \in Retirer :
        \/ \E op \in Operation : Quarantine(c, op)
        \/ Apply(c) \/ Answered(c) \/ GiveUp(c)
        \/ \E status \in {404, 500} : Refused(c, status)
        \/ Restore(c) \/ Finalize(c) \/ CrashRetirer(c)
  \/ \E m \in late : Late(m)
  \/ \E r \in Revision : Revise(r)
RetirementSpec == RetirementInit /\ [][RetirementNext]_retirementVars

-----------------------------------------------------------------------------
Retirement == {"absent", "none", "pending", "archived", "deleted"}
RetirementTypeOK ==
  /\ retirement \in [Revision -> Retirement]
  /\ generation \in [Revision -> Retirer \cup {NoCall}]
  /\ operation \in [Revision -> Operation \cup {"none"}]
  /\ retiring \in [Retirer -> {NoCall} \cup
        [stage : {"asking", "applied", "finalizing", "restoring"},
         operation : Operation, revisions : SUBSET Revision, retrying : BOOLEAN,
         previous : SUBSET Revision, before : [Revision -> Retirement]]]
  /\ memory \in {"live", "archived", "deleted"}
  /\ late \subseteq [operation : Operation, revisions : SUBSET Revision]
  /\ touched \in [Revision -> BOOLEAN] /\ gone \in [Revision -> BOOLEAN]

\* "An ambiguous Core call leaves them quarantined until an explicit retry
\* succeeds": a revision comes out of its quarantine and back into use only if Core
\* carried out no call that put it there, neither the one that puts it back nor
\* one that took it over, or that it took over.
RestoredOnlyIfRefused ==
  [][\A r \in Revision :
        retirement[r] = "pending" /\ retirement'[r] = "none" => ~touched[r]]_retirementVars

\* A revision is marked retired only when the memory is: Core carried out an
\* operation while the revision was in quarantine, or knew the memory no more then.
RetiredOnlyIfGone ==
  [][\A r \in Revision :
        retirement[r] = "pending" /\ retirement'[r] = operation[r] => gone[r]]_retirementVars
=============================================================================
