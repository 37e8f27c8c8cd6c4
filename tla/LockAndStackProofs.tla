------------------------- MODULE LockAndStackProofs -------------------------
(***************************************************************************)
(* Proofs about what keeps the processes of a host apart: ProcessStack,    *)
(* for any services and faults, and FileLock, for any callers, processes   *)
(* and hosts.                                                              *)
(***************************************************************************)
EXTENDS FileLock, ProcessStack, SequenceTheorems, FiniteSetTheorems, TLAPS

(***************************************************************************)
(* ProcessStack.  What is terminated is waited for by whoever asked for    *)
(* it: a recovery, a start that failed, or stop().  So nothing is started  *)
(* meanwhile; and stop() having ended means that nothing is left, since    *)
(* only a retry by the owner makes the stack wanted again.                 *)
(***************************************************************************)
WorkType == [kind : {"none", "start", "recover"}, next : Service, final : BOOLEAN,
             at : {"none", "stopping", "ports", "spawn", "wait", "undo"}]
StackTyped ==
  /\ child \in [Service -> {"none", "alive", "dead"}] /\ doomed \subseteq Service
  /\ terminating \in BOOLEAN /\ desired \in BOOLEAN /\ timer \in BOOLEAN
  /\ stopping \in BOOLEAN /\ closing \in BOOLEAN
  /\ work \in WorkType
  /\ work.kind = "none" <=> work.at = "none"
  /\ owner \in {"starting", "serving", "retrying", "giving up", "exited"}
TerminationAwaited ==
  /\ doomed # {} => terminating
  /\ terminating => \/ work.at \in {"stopping", "undo"}
                    \/ work.kind = "none" /\ stopping
StopHolds ==
  /\ stopping \/ closing \/ owner \in {"retrying", "giving up", "exited"} => ~desired
  /\ timer => desired
  /\ owner = "exited" => ~stopping
  /\ ~stopping /\ ~desired => child = Nobody /\ ~terminating /\ work.kind = "none"
StackInv == StackTyped /\ TerminationAwaited /\ StopHolds /\ OneProcessPerService

\* What Terminate, Stop and Schedule do to the processes, whoever calls them: with
\* now the children, of which some may just have died.
Weaker(now) == /\ now \in [Service -> {"none", "alive", "dead"}]
               /\ \A s \in Service :
                     now[s] = child[s] \/ (child[s] = "alive" /\ now[s] = "dead")

LEMMA FirstService == 1 \in Service
<1>1. Services \in Nat \ {0}
  BY StackAssumption
<1> QED  BY <1>1 DEF Service

LEMMA RestIsWork ==
  /\ Rest \in WorkType /\ Rest.kind = "none" /\ Rest.at = "none"
  /\ \A kind \in {"start", "recover"}, at \in {"stopping", "ports"} :
        Working(kind, at) \in WorkType /\ Working(kind, at).kind = kind
        /\ Working(kind, at).at = at
BY FirstService DEF Rest, Working, WorkType

LEMMA TerminateEffect ==
  ASSUME StackInv, NEW now, Weaker(now), Terminate(now)
  PROVE  /\ child' \in [Service -> {"none", "alive", "dead"}] /\ doomed' \subseteq Service
         /\ terminating' = TRUE /\ OneProcessPerService'
         /\ terminating \/ child' = Nobody
<1>1. CASE terminating
  <2>1. child' = now /\ doomed' = doomed /\ terminating' = terminating
    BY <1>1 DEF Terminate
  <2>2. Living(now) \subseteq Living(child)
    BY DEF Weaker, Living
  <2>3. now \in [Service -> {"none", "alive", "dead"}]
    BY DEF Weaker
  <2>4. OneProcessPerService'
    BY <2>1, <2>2 DEF StackInv, OneProcessPerService, Living
  <2> QED  BY <1>1, <2>1, <2>3, <2>4 DEF StackInv, StackTyped
<1>2. CASE ~terminating
  <2>1. child' = Nobody /\ doomed' = Living(now) /\ terminating' = TRUE
    BY <1>2 DEF Terminate
  <2> QED  BY <2>1 DEF OneProcessPerService, Living, Nobody
<1> QED  BY <1>1, <1>2 DEF StackInv, StackTyped

LEMMA KeptEffect ==
  ASSUME StackInv, NEW now, Weaker(now), child' = now, UNCHANGED <<doomed, terminating>>
  PROVE  /\ child' \in [Service -> {"none", "alive", "dead"}] /\ doomed' \subseteq Service
         /\ OneProcessPerService'
BY DEF StackInv, StackTyped, OneProcessPerService, Weaker, Living

\* stop() leaves somebody who waits for what it terminates.
LEMMA StopEffect ==
  ASSUME StackInv, NEW now, Weaker(now), Stop(now),
         ~terminating \/ work' = work
  PROVE  /\ child' \in [Service -> {"none", "alive", "dead"}] /\ doomed' \subseteq Service
         /\ OneProcessPerService' /\ desired' = FALSE /\ stopping' = TRUE
         /\ timer' \in BOOLEAN /\ timer' = FALSE /\ terminating' \in BOOLEAN
         /\ doomed' # {} => terminating'
         /\ terminating' => terminating \/ work'.kind = "none"
<1>1. CASE stopping
  <2>1. child' = now /\ UNCHANGED <<timer, stopping, doomed, terminating>> /\ desired' = FALSE
    BY <1>1 DEF Stop
  <2> QED  BY <1>1, <2>1, KeptEffect DEF StackInv, StackTyped, StopHolds, TerminationAwaited
<1>2. CASE ~stopping
  <2>1. timer' = FALSE /\ stopping' = TRUE /\ desired' = FALSE
    BY <1>2 DEF Stop
  <2>2. CASE work'.kind = "none"
    <3>1. Terminate(now)
      BY <1>2, <2>2 DEF Stop
    <3> QED  BY <2>1, <2>2, <3>1, TerminateEffect
  <2>3. CASE work'.kind # "none"
    <3>1. child' = now /\ UNCHANGED <<doomed, terminating>>
      BY <1>2, <2>3 DEF Stop
    <3> QED  BY <2>1, <3>1, KeptEffect DEF StackInv, StackTyped, TerminationAwaited
  <2> QED  BY <2>2, <2>3
<1> QED  BY <1>1, <1>2 DEF StackInv, StackTyped

\* scheduleRecovery, after an exit, a failed probe or a failed recovery.
LEMMA ScheduleEffect ==
  ASSUME StackInv, NEW now, Weaker(now), Schedule(now), owner' = owner,
         work' = work \/ (~terminating /\ work' = Rest)
  PROVE  StackInv'
<1>1. work' \in WorkType
      /\ (work'.kind = "none" <=> work'.at = "none")
      /\ (work.kind = "none" => work'.kind = "none")
  BY RestIsWork DEF StackInv, StackTyped
<1>2. terminating => work' = work
  OBVIOUS
<1>3. CASE child' = now /\ UNCHANGED <<doomed, terminating, desired, stopping, closing>>
           /\ timer' \in BOOLEAN /\ (timer' => desired)
  <2>1. /\ child' \in [Service -> {"none", "alive", "dead"}] /\ doomed' \subseteq Service
        /\ OneProcessPerService'
    BY <1>3, KeptEffect
  <2>2. StackTyped'
    BY <1>1, <1>3, <2>1 DEF StackInv, StackTyped
  <2>3. TerminationAwaited'
    BY <1>2, <1>3 DEF StackInv, TerminationAwaited
  <2>4. child = Nobody => now = Nobody
    BY DEF Weaker, Nobody
  <2>5. StopHolds'
    BY <1>1, <1>3, <2>4 DEF StackInv, StopHolds, Nobody
  <2> QED  BY <2>1, <2>2, <2>3, <2>5 DEF StackInv
<1>4. CASE desired /\ Stop(now) /\ closing' = TRUE
  <2>1. /\ child' \in [Service -> {"none", "alive", "dead"}] /\ doomed' \subseteq Service
        /\ OneProcessPerService' /\ desired' = FALSE /\ stopping' = TRUE
        /\ timer' \in BOOLEAN /\ timer' = FALSE /\ terminating' \in BOOLEAN
        /\ doomed' # {} => terminating'
        /\ terminating' => terminating \/ work'.kind = "none"
    BY <1>2, <1>4, StopEffect
  <2>2. StackTyped'
    BY <1>1, <1>4, <2>1 DEF StackInv, StackTyped
  <2>3. TerminationAwaited'
    BY <1>2, <2>1 DEF StackInv, TerminationAwaited
  <2>4. StopHolds'
    BY <1>4, <2>1 DEF StackInv, StopHolds
  <2> QED  BY <2>1, <2>2, <2>3, <2>4 DEF StackInv
<1>5. timer \in BOOLEAN
  BY DEF StackInv, StackTyped
<1> QED  BY <1>3, <1>4, <1>5 DEF Schedule, StackInv, StopHolds

-----------------------------------------------------------------------------
LEMMA ChildrenWeaker ==
  ASSUME StackInv
  PROVE  Weaker(child)
BY DEF Weaker, StackInv, StackTyped

\* startOwnedChildren gives up.
LEMMA FailingStep ==
  ASSUME StackInv, NEW final \in BOOLEAN, work.at \in {"ports", "spawn", "wait"},
         Failing(final)
  PROVE  StackInv'
<1>1. work' = [work EXCEPT !.at = "undo", !.final = final] /\ Terminate(child)
      /\ UNCHANGED <<desired, timer, ownerVars>>
  BY DEF Failing
<1>2. /\ work' \in WorkType
      /\ work'.kind = work.kind /\ work'.at = "undo" /\ work.kind # "none"
  BY <1>1 DEF StackInv, StackTyped, WorkType
<1>3. /\ child' \in [Service -> {"none", "alive", "dead"}] /\ doomed' \subseteq Service
      /\ terminating' = TRUE /\ OneProcessPerService'
  BY <1>1, TerminateEffect, ChildrenWeaker
<1>4. UNCHANGED <<desired, timer, stopping, closing, owner>>
  BY <1>1 DEF ownerVars
<1> QED  BY <1>2, <1>3, <1>4 DEF StackInv, StackTyped, TerminationAwaited, StopHolds

LEMMA KillStep ==
  ASSUME StackInv, Kill
  PROVE  StackInv'
<1>1. /\ doomed' \subseteq doomed /\ terminating' \in BOOLEAN /\ terminating
      /\ doomed' # {} => terminating'
      /\ UNCHANGED <<child, desired, work, timer, stopping, closing, owner>>
  BY DEF Kill, ownerVars
<1> QED  BY <1>1 DEF StackInv, StackTyped, TerminationAwaited, StopHolds,
                     OneProcessPerService, Living

LEMMA StopChildrenStep ==
  ASSUME StackInv, StopChildren \/ Stopped
  PROVE  StackInv'
<1>1. CASE StopChildren
  <2>1. /\ stopping /\ work.kind = "none" /\ Terminate(child)
        /\ UNCHANGED <<desired, work, timer, stopping, closing, owner>>
    BY <1>1 DEF StopChildren, StopWaited, ownerVars
  <2>2. /\ child' \in [Service -> {"none", "alive", "dead"}] /\ doomed' \subseteq Service
        /\ terminating' = TRUE /\ OneProcessPerService'
    BY <2>1, TerminateEffect, ChildrenWeaker
  <2> QED  BY <2>1, <2>2 DEF StackInv, StackTyped, TerminationAwaited, StopHolds
<1>2. CASE Stopped
  <2>1. /\ stopping /\ work.kind = "none" /\ ~terminating /\ child = Nobody
        /\ stopping' = FALSE
        /\ UNCHANGED <<child, doomed, terminating, desired, work, timer, closing, owner>>
    BY <1>2 DEF Stopped, StopWaited
  <2> QED  BY <2>1 DEF StackInv, StackTyped, TerminationAwaited, StopHolds,
                       OneProcessPerService, Living, Nobody
<1> QED  BY <1>1, <1>2

LEMMA DieStep ==
  ASSUME StackInv, NEW s \in Service, Die(s)
  PROVE  StackInv'
<1> DEFINE now == [child EXCEPT ![s] = "dead"]
<1>1. Weaker(now)
  BY DEF Weaker, StackInv, StackTyped, Die
<1>2. /\ child[s] = "alive" /\ work' = work /\ owner' = owner
      /\ \/ Schedule(now)
         \/ work.kind # "none" /\ child' = now
            /\ UNCHANGED <<doomed, terminating, desired, timer, stopping, closing>>
  BY DEF Die
<1> HIDE DEF now
<1>3. CASE Schedule(now)
  BY <1>1, <1>2, <1>3, ScheduleEffect
<1>4. CASE /\ work.kind # "none" /\ child' = now
           /\ UNCHANGED <<doomed, terminating, desired, timer, stopping, closing>>
  <2>1. /\ child' \in [Service -> {"none", "alive", "dead"}] /\ doomed' \subseteq Service
        /\ OneProcessPerService'
    BY <1>1, <1>4, KeptEffect
  <2> QED  BY <1>2, <1>4, <2>1 DEF StackInv, StackTyped, TerminationAwaited, StopHolds
<1> QED  BY <1>2, <1>3, <1>4

LEMMA NothingMoves ==
  ASSUME StackInv, UNCHANGED <<child, doomed, terminating, desired, work, timer, stopping,
                               closing, owner>>
  PROVE  StackInv'
BY DEF StackInv, StackTyped, TerminationAwaited, StopHolds, OneProcessPerService,
       Living, Nobody

LEMMA HealthStep ==
  ASSUME StackInv, Tick \/ \E ok \in BOOLEAN : Probed(ok)
  PROVE  StackInv'
<1>1. /\ work' = work /\ owner' = owner
      /\ \/ Schedule(child)
         \/ UNCHANGED <<child, doomed, terminating, desired, timer, stopping, closing>>
  BY DEF Tick, Probed, Visit
<1> QED  BY <1>1, ScheduleEffect, ChildrenWeaker, NothingMoves

LEMMA RecoverStep ==
  ASSUME StackInv, TimerFires \/ Recovering
  PROVE  StackInv'
<1>1. CASE TimerFires /\ UNCHANGED <<child, doomed, terminating, work>>
  <2>1. timer' = FALSE /\ UNCHANGED <<desired, stopping, closing, owner>>
    BY <1>1 DEF TimerFires, ownerVars
  <2> QED  BY <1>1, <2>1 DEF StackInv, StackTyped, TerminationAwaited, StopHolds,
                             OneProcessPerService, Living, Nobody
<1>2. CASE TimerFires /\ ~UNCHANGED <<child, doomed, terminating, work>>
  <2>1. /\ timer' = FALSE /\ desired /\ work' = Working("recover", "stopping")
        /\ Terminate(child) /\ UNCHANGED <<desired, stopping, closing, owner>>
    BY <1>2 DEF TimerFires, ownerVars
  <2>2. /\ child' \in [Service -> {"none", "alive", "dead"}] /\ doomed' \subseteq Service
        /\ terminating' = TRUE /\ OneProcessPerService'
    BY <2>1, TerminateEffect, ChildrenWeaker
  <2>3. /\ work' \in WorkType
        /\ work'.kind = "recover" /\ work'.at = "stopping"
    BY <2>1, RestIsWork
  <2> QED  BY <2>1, <2>2, <2>3 DEF StackInv, StackTyped, TerminationAwaited, StopHolds
<1>3. CASE Recovering
  <2>1. /\ work.at = "stopping" /\ ~terminating
        /\ UNCHANGED <<child, doomed, terminating, desired, timer, stopping, closing, owner>>
        /\ work' \in {Working("recover", "ports"), Rest}
    BY <1>3 DEF Recovering, ownerVars
  <2>2. /\ work' \in WorkType
        /\ work'.kind = "none" <=> work'.at = "none"
    BY <2>1, RestIsWork
  <2> QED  BY <2>1, <2>2 DEF StackInv, StackTyped, TerminationAwaited, StopHolds,
                             OneProcessPerService, Living
<1> QED  BY <1>1, <1>2, <1>3

LEMMA StartStep ==
  ASSUME StackInv,
         (\E free \in BOOLEAN : Ports(free)) \/ Spawn \/ Ready \/ NotReady
  PROVE  StackInv'
<1>1. CASE \E free \in BOOLEAN : Ports(free)
  <2>1. /\ work.at = "ports"
        /\ \/ Failing(TRUE)
           \/ /\ work' = [work EXCEPT !.at = "spawn"]
              /\ UNCHANGED <<child, doomed, terminating, desired, timer, stopping, closing,
                             owner>>
    BY <1>1 DEF Ports, ownerVars
  <2>2. CASE Failing(TRUE)
    BY <2>1, <2>2, FailingStep
  <2>3. CASE /\ work' = [work EXCEPT !.at = "spawn"]
             /\ UNCHANGED <<child, doomed, terminating, desired, timer, stopping, closing,
                            owner>>
    BY <2>1, <2>3 DEF StackInv, StackTyped, WorkType, TerminationAwaited,
                      StopHolds, OneProcessPerService, Living
  <2> QED  BY <2>1, <2>2, <2>3
<1>2. CASE Spawn
  <2>1. /\ work.at = "spawn"
        /\ \/ Failing(FALSE)
           \/ /\ child' = [child EXCEPT ![work.next] = "alive"]
              /\ work' = [work EXCEPT !.at = "wait"]
              /\ UNCHANGED <<doomed, terminating, desired, timer, stopping, closing, owner>>
    BY <1>2 DEF Spawn, ownerVars
  <2>2. CASE Failing(FALSE)
    BY <2>1, <2>2, FailingStep
  <2>3. CASE /\ child' = [child EXCEPT ![work.next] = "alive"]
             /\ work' = [work EXCEPT !.at = "wait"]
             /\ UNCHANGED <<doomed, terminating, desired, timer, stopping, closing, owner>>
    <3>1. ~terminating /\ doomed = {} /\ work.kind # "none"
      BY <2>1 DEF StackInv, StackTyped, TerminationAwaited
    <3>2. child' \in [Service -> {"none", "alive", "dead"}]
      BY <2>3 DEF StackInv, StackTyped
    <3>3. work' \in WorkType
          /\ work'.kind = work.kind /\ work'.at = "wait"
      BY <2>3 DEF StackInv, StackTyped, WorkType
    <3>4. OneProcessPerService'
      BY <2>3, <3>1 DEF OneProcessPerService
    <3> QED  BY <2>1, <2>3, <3>1, <3>2, <3>3, <3>4
                DEF StackInv, StackTyped, TerminationAwaited, StopHolds
  <2> QED  BY <2>1, <2>2, <2>3
<1>3. CASE Ready
  <2>1. /\ work.at = "wait"
        /\ \/ /\ work.next < Services
              /\ work' = [work EXCEPT !.at = "spawn", !.next = @ + 1] /\ owner' = owner
           \/ work' = Rest /\ owner' \in {owner, "serving"}
              /\ (owner' # owner => work.kind = "start" /\ ~closing)
        /\ UNCHANGED <<child, doomed, terminating, desired, timer, stopping, closing>>
    BY <1>3 DEF Ready
  <2>2. work.kind # "none" /\ work.next \in Service /\ ~terminating
    BY <2>1 DEF StackInv, StackTyped, WorkType, TerminationAwaited
  <2>3. work.next < Services => work.next + 1 \in Service
    <3>1. Services \in Nat
      BY StackAssumption
    <3> QED  BY <2>2, <3>1 DEF Service
  <2>4. /\ work' \in WorkType
        /\ work'.kind = "none" <=> work'.at = "none"
    <3>1. CASE work' = Rest
      BY <3>1, RestIsWork
    <3>2. CASE work.next < Services /\ work' = [work EXCEPT !.at = "spawn", !.next = @ + 1]
      BY <2>2, <2>3, <3>2 DEF StackInv, StackTyped, WorkType
    <3> QED  BY <2>1, <3>1, <3>2
  <2>5. ~stopping => desired
    BY <2>2 DEF StackInv, StopHolds, StackTyped
  <2>6. owner # "exited"
    BY <2>2, <2>5 DEF StackInv, StopHolds
  <2>7. StackTyped' /\ TerminationAwaited' /\ OneProcessPerService'
    BY <2>1, <2>2, <2>4 DEF StackInv, StackTyped, TerminationAwaited,
                            OneProcessPerService, Living
  <2>8. StopHolds'
    BY <2>1, <2>2, <2>5, <2>6 DEF StackInv, StopHolds
  <2> QED  BY <2>7, <2>8 DEF StackInv
<1>4. CASE NotReady
  BY <1>4, FailingStep DEF NotReady
<1> QED  BY <1>1, <1>2, <1>3, <1>4

LEMMA UndoneStep ==
  ASSUME StackInv, Undone
  PROVE  StackInv'
<1>1. work.at = "undo" /\ ~terminating /\ work' = Rest
  BY DEF Undone
<1>2. CASE work.kind = "recover"
  BY <1>1, <1>2, ScheduleEffect, ChildrenWeaker DEF Undone
<1>3. CASE work.kind # "recover"
  <2>1. /\ Stop(child) /\ closing' = closing
        /\ owner' \in {owner, "giving up", "retrying"}
    BY <1>3 DEF Undone
  <2>2. /\ child' \in [Service -> {"none", "alive", "dead"}] /\ doomed' \subseteq Service
        /\ OneProcessPerService' /\ desired' = FALSE /\ stopping' = TRUE
        /\ timer' \in BOOLEAN /\ timer' = FALSE /\ terminating' \in BOOLEAN
        /\ doomed' # {} => terminating'
    BY <1>1, <2>1, StopEffect, ChildrenWeaker
  <2>3. work'.kind = "none" /\ work'.at = "none"
        /\ work' \in WorkType
    BY <1>1, RestIsWork
  <2>4. owner # "exited"
    BY <1>1 DEF StackInv, StopHolds, StackTyped
  <2> QED  BY <2>1, <2>2, <2>3, <2>4 DEF StackInv, StackTyped, TerminationAwaited, StopHolds
<1> QED  BY <1>2, <1>3

LEMMA OwnerStep ==
  ASSUME StackInv, Retry \/ Shutdown \/ Exit
  PROVE  StackInv'
<1>1. CASE Retry
  <2>1. /\ owner = "retrying" /\ ~stopping /\ ~closing /\ owner' = "starting"
        /\ desired' = TRUE /\ work' = Working("start", "ports")
        /\ UNCHANGED <<child, doomed, terminating, timer, stopping, closing>>
    BY <1>1 DEF Retry
  <2>2. ~terminating
    BY <2>1 DEF StackInv, StopHolds
  <2>3. /\ work' \in WorkType
        /\ work'.kind = "start" /\ work'.at = "ports"
    BY <2>1, RestIsWork
  <2> QED  BY <2>1, <2>2, <2>3 DEF StackInv, StackTyped, TerminationAwaited, StopHolds,
                                   OneProcessPerService, Living
<1>2. CASE Shutdown
  <2>1. /\ owner # "exited" /\ closing' = TRUE /\ Stop(child)
        /\ work' = work /\ owner' = owner
    BY <1>2 DEF Shutdown
  <2>2. /\ child' \in [Service -> {"none", "alive", "dead"}] /\ doomed' \subseteq Service
        /\ OneProcessPerService' /\ desired' = FALSE /\ stopping' = TRUE
        /\ timer' \in BOOLEAN /\ timer' = FALSE /\ terminating' \in BOOLEAN
        /\ doomed' # {} => terminating'
        /\ terminating' => terminating \/ work'.kind = "none"
    BY <2>1, StopEffect, ChildrenWeaker
  <2> QED  BY <2>1, <2>2 DEF StackInv, StackTyped, TerminationAwaited, StopHolds
<1>3. CASE Exit
  <2>1. /\ ~stopping /\ (closing \/ owner = "giving up") /\ owner' = "exited"
        /\ UNCHANGED <<child, doomed, terminating, desired, work, timer, stopping, closing>>
    BY <1>3 DEF Exit
  <2> QED  BY <2>1 DEF StackInv, StackTyped, TerminationAwaited, StopHolds,
                       OneProcessPerService, Living, Nobody
<1> QED  BY <1>1, <1>2, <1>3

\* Every termination under way is awaited by the step that wants the service down,
\* and a stopped stack has no child, no timer and no step left.
THEOREM StackInvariant == StackSpec => []StackInv
<1>1. StackInit => StackInv
  BY RestIsWork DEF StackInit, StackInv, StackTyped, TerminationAwaited, StopHolds,
                    OneProcessPerService
<1>2. StackInv /\ [StackNext]_stackVars => StackInv'
  <2> SUFFICES ASSUME StackInv, [StackNext]_stackVars PROVE StackInv'
      OBVIOUS
  <2>1. CASE Age
    BY <2>1, NothingMoves DEF Age, ownerVars
  <2>2. CASE UNCHANGED stackVars
    BY <2>2, NothingMoves DEF stackVars
  <2> QED
    BY <2>1, <2>2, KillStep, StopChildrenStep, HealthStep, RecoverStep, StartStep,
       UndoneStep, OwnerStep, DieStep DEF StackNext, Supervise
<1> QED  BY <1>1, <1>2, PTL DEF StackSpec

\* No child of a service is started before the last one of it is gone, whichever of
\* the first start, its retries, recoveries and stops overlap.
THEOREM StackOneProcess == StackSpec => []OneProcessPerService
<1>1. StackInv => OneProcessPerService
  BY DEF StackInv
<1> QED  BY <1>1, StackInvariant, PTL

\* When the owner releases the stack's lock, nothing of the stack runs or will run.
THEOREM StackNothingLeft == StackSpec => []NothingLeftBehind
<1>1. StackInv => NothingLeftBehind
  BY DEF StackInv, StackTyped, StopHolds, TerminationAwaited, NothingLeftBehind, Living,
         Nobody
<1> QED  BY <1>1, StackInvariant, PTL

-----------------------------------------------------------------------------

(***************************************************************************)
(* For any callers, processes and hosts: the file lock is type correct and *)
(* mutually exclusive, and implements Mutex, as long as no process dies    *)
(* inside another's read-then-probe of its owner record (QuietSpec).       *)
(***************************************************************************)

Running == (Contending \cup Owning)
Guarding == {"restale", "reprobe", "unlink", "dropTrue", "dropFalse"}

\* A running call is at the head of its process' queue.
QueueInv ==
  \A c \in Caller : pc[c] \in Running =>
    tail[ProcOf[c]] # << >> /\ Head(tail[ProcOf[c]]) = c

DeathInv == \A c \in Caller : alive[ProcOf[c]] <=> pc[c] # "dead"

\* Whoever is past O_EXCL is who the file at the path was created by.
OwnerInv ==
  /\ lockFile.by = NoCaller => ~lockFile.written
  /\ \A c \in Caller : pc[c] \in Owning => lockFile.by = c

GuardInv == \A c \in Caller : pc[c] \in Guarding => guard = c

\* What the guard holder knows: a dead owner seen under the guard is still
\* the recorded owner, because only the guard holder removes a dead owner's file.
ReclaimInv ==
  \A c \in Caller :
    /\ pc[c] \in {"probe", "reprobe"} => seen[c] \in Caller
    /\ pc[c] = "reprobe" /\ ~alive[ProcOf[seen[c]]]
         => lockFile = [by |-> seen[c], written |-> TRUE]
    /\ pc[c] = "unlink"
         => /\ lockFile.by \in Caller /\ lockFile.written
            /\ ~alive[ProcOf[lockFile.by]]
            /\ HostOf[ProcOf[lockFile.by]] = HostOf[ProcOf[c]]

LockInv == TypeOK /\ QueueInv /\ DeathInv /\ OwnerInv /\ GuardInv /\ ReclaimInv

USE ProcOfAssumption, HostOfAssumption, NoCallerAssumption

LEMMA InitLockInv == Init => LockInv
  BY DEF Init, LockInv, TypeOK, QueueInv, DeathInv, OwnerInv, GuardInv,
         ReclaimInv, Running, Guarding, Contending, Owning, NoFile

(***************************************************************************)
(* The queue: types, and a running call stays at the head of its queue.    *)
(***************************************************************************)
LEMMA CallQueue ==
  ASSUME TypeOK, QueueInv, NEW c \in Caller, Call(c)
  PROVE  TypeOK' /\ QueueInv'
<1> DEFINE p == ProcOf[c]
<1>1. /\ tail[p] \in Seq(Caller) /\ Append(tail[p], c) \in Seq(Caller)
      /\ Append(tail[p], c) # << >>
      /\ tail[p] # << >> => Head(Append(tail[p], c)) = Head(tail[p])
  <2>1. tail[p] \in Seq(Caller)
    BY DEF TypeOK
  <2>2. QED
    BY <2>1, AppendProperties, HeadTailAppend
<1>2. /\ tail' = [tail EXCEPT ![p] = Append(tail[p], c)]
      /\ pc' = [pc EXCEPT ![c] = "queued"]
  BY DEF Call, Goto
<1>3. TypeOK'
  BY <1>1, <1>2 DEF TypeOK, Call
<1>4. QueueInv'
  BY <1>1, <1>2 DEF TypeOK, QueueInv, Running, Contending, Owning
<1>5. QED
  BY <1>3, <1>4

LEMMA LeaveQueue ==
  ASSUME TypeOK, QueueInv, NEW c \in Caller, pc[c] \in Running, Leave(c)
  PROVE  /\ tail' \in [Process -> Seq(Caller)]
         /\ pc' \in [Caller -> {"idle", "queued", "dead"} \cup Contending \cup Owning]
         /\ QueueInv'
<1> DEFINE p == ProcOf[c]
<1>1. tail[p] \in Seq(Caller) /\ tail[p] # << >> /\ Head(tail[p]) = c
  BY DEF TypeOK, QueueInv
<1>2. Tail(tail[p]) \in Seq(Caller)
  BY <1>1
<1>3. /\ tail' = [tail EXCEPT ![p] = Tail(tail[p])]
      /\ pc' = [pc EXCEPT ![c] = "idle"]
  BY DEF Leave, Goto
<1>4. tail' \in [Process -> Seq(Caller)]
  BY <1>2, <1>3 DEF TypeOK
<1>5. QueueInv'
  BY <1>1, <1>3 DEF TypeOK, QueueInv, Running, Contending, Owning
<1>6. QED
  BY <1>3, <1>4, <1>5 DEF TypeOK

LEMMA GotoQueue ==
  ASSUME TypeOK, QueueInv, NEW c \in Caller, NEW l \in Running,
         Goto(c, l), UNCHANGED tail,
         pc[c] \in Running \/ (tail[ProcOf[c]] # << >> /\ Head(tail[ProcOf[c]]) = c)
  PROVE  /\ pc' \in [Caller -> {"idle", "queued", "dead"} \cup Contending \cup Owning]
         /\ QueueInv'
  BY DEF TypeOK, QueueInv, Goto, Running

LEMMA StepQueue ==
  ASSUME TypeOK, QueueInv, [Next]_vars
  PROVE  TypeOK' /\ QueueInv'
<1> USE DEF Running, Contending, Owning
<1>1. ASSUME NEW c \in Caller, Start(c) PROVE TypeOK' /\ QueueInv'
  BY <1>1, GotoQueue DEF Start, TypeOK
<1>2. ASSUME NEW c \in Caller, Create(c) PROVE TypeOK' /\ QueueInv'
  <2>1. QueueInv' /\ pc' \in [Caller -> {"idle", "queued", "dead"} \cup Contending \cup Owning]
    BY <1>2, GotoQueue DEF Create
  <2>2. QED
    <3>1. /\ lockFile' \in [by : Caller \cup {NoCaller}, written : BOOLEAN]
          /\ expired' \in [Caller -> BOOLEAN]
      <4>1. CASE lockFile = NoFile
        <5>1. /\ lockFile' = [by |-> c, written |-> FALSE]
              /\ expired' = [expired EXCEPT ![c] = FALSE]
          BY <1>2, <4>1 DEF Create
        <5>2. [by |-> c, written |-> FALSE] \in [by : Caller \cup {NoCaller}, written : BOOLEAN]
          OBVIOUS
        <5>3. expired' \in [Caller -> BOOLEAN]
          BY <5>1 DEF TypeOK
        <5>4. QED
          BY <5>1, <5>2, <5>3
      <4>2. CASE lockFile # NoFile
        BY <1>2, <4>2 DEF Create, TypeOK
      <4>3. QED
        BY <4>1, <4>2
    <3>2. UNCHANGED <<alive, tail, guard, seen>>
      BY <1>2 DEF Create
    <3>3. QED
      BY <2>1, <3>1, <3>2 DEF TypeOK
<1>3. ASSUME NEW c \in Caller, WriteOwner(c) PROVE TypeOK' /\ QueueInv'
  BY <1>3, GotoQueue DEF WriteOwner, TypeOK
<1>4. ASSUME NEW c \in Caller, CheckStale(c) PROVE TypeOK' /\ QueueInv'
  <2>1. QueueInv' /\ pc' \in [Caller -> {"idle", "queued", "dead"} \cup Contending \cup Owning]
    BY <1>4, GotoQueue DEF CheckStale, ReadOwner, ProbeOwner
  <2>2. QED
    BY <1>4, <2>1 DEF CheckStale, ReadOwner, ProbeOwner, TypeOK
<1>5. ASSUME NEW c \in Caller, TakeGuard(c) PROVE TypeOK' /\ QueueInv'
  <2>1. QueueInv' /\ pc' \in [Caller -> {"idle", "queued", "dead"} \cup Contending \cup Owning]
    BY <1>5, GotoQueue DEF TakeGuard
  <2>2. QED
    BY <1>5, <2>1 DEF TakeGuard, TypeOK
<1>6. ASSUME NEW c \in Caller, RecheckStale(c) PROVE TypeOK' /\ QueueInv'
  <2>1. QueueInv' /\ pc' \in [Caller -> {"idle", "queued", "dead"} \cup Contending \cup Owning]
    BY <1>6, GotoQueue DEF RecheckStale, ReadOwner, ProbeOwner
  <2>2. QED
    BY <1>6, <2>1 DEF RecheckStale, ReadOwner, ProbeOwner, TypeOK
<1>7. ASSUME NEW c \in Caller, UnlinkStale(c) PROVE TypeOK' /\ QueueInv'
  BY <1>7, GotoQueue DEF UnlinkStale, TypeOK, NoFile
<1>8. ASSUME NEW c \in Caller, DropGuard(c) PROVE TypeOK' /\ QueueInv'
  <2>1. QueueInv' /\ pc' \in [Caller -> {"idle", "queued", "dead"} \cup Contending \cup Owning]
    BY <1>8, GotoQueue DEF DropGuard
  <2>2. QED
    BY <1>8, <2>1 DEF DropGuard, TypeOK
<1>9. ASSUME NEW c \in Caller, RetryOrTimeout(c) PROVE TypeOK' /\ QueueInv'
  <2>1. CASE expired[c]
    BY <1>9, <2>1, LeaveQueue DEF RetryOrTimeout, TypeOK
  <2>2. CASE ~expired[c]
    BY <1>9, <2>2, GotoQueue DEF RetryOrTimeout, TypeOK
  <2>3. QED
    BY <2>1, <2>2
<1>10. ASSUME NEW c \in Caller, Return(c) PROVE TypeOK' /\ QueueInv'
  BY <1>10, GotoQueue DEF Return, TypeOK
<1>11. ASSUME NEW c \in Caller, ReadOwnToken(c) PROVE TypeOK' /\ QueueInv'
  <2>1. CASE lockFile = [by |-> c, written |-> TRUE]
    BY <1>11, <2>1, GotoQueue DEF ReadOwnToken, TypeOK
  <2>2. CASE lockFile # [by |-> c, written |-> TRUE]
    BY <1>11, <2>2, LeaveQueue DEF ReadOwnToken, TypeOK
  <2>3. QED
    BY <2>1, <2>2
<1>12. ASSUME NEW c \in Caller, UnlinkOwn(c) PROVE TypeOK' /\ QueueInv'
  BY <1>12, LeaveQueue DEF UnlinkOwn, TypeOK, NoFile
<1>13. ASSUME NEW c \in Caller, Expire(c) PROVE TypeOK' /\ QueueInv'
  BY <1>13 DEF Expire, TypeOK, QueueInv
<1>14. ASSUME NEW p \in Process, Crash(p) PROVE TypeOK' /\ QueueInv'
  BY <1>14 DEF Crash, TypeOK, QueueInv
<1>15. CASE UNCHANGED vars
  BY <1>15 DEF vars, TypeOK, QueueInv
<1>16. QED
  BY <1>1, <1>2, <1>3, <1>4, <1>5, <1>6, <1>7, <1>8, <1>9, <1>10, <1>11,
     <1>12, <1>13, <1>14, <1>15, CallQueue DEF Next, Step

(***************************************************************************)
(* The files: owner, guard and what a reclaimer knows about a dead owner.  *)
(***************************************************************************)
FileInv == DeathInv /\ OwnerInv /\ GuardInv /\ ReclaimInv

LEMMA StepFile ==
  ASSUME TypeOK, FileInv, [QuietNext]_vars
  PROVE  FileInv'
<1> USE DEF FileInv, TypeOK, DeathInv, OwnerInv, GuardInv, ReclaimInv,
            Guarding, Contending, Owning, NoFile
<1>1. ASSUME NEW c \in Caller, Call(c) PROVE FileInv'
  BY <1>1 DEF Call, Goto
<1>2. ASSUME NEW c \in Caller, Start(c) PROVE FileInv'
  BY <1>2 DEF Start, Goto
<1>3. ASSUME NEW c \in Caller, Create(c) PROVE FileInv'
  BY <1>3 DEF Create, Goto
<1>4. ASSUME NEW c \in Caller, WriteOwner(c) PROVE FileInv'
  BY <1>4 DEF WriteOwner, Goto
<1>5. ASSUME NEW c \in Caller, CheckStale(c) PROVE FileInv'
  <2>1. CASE ReadOwner(c, "stale", "probe", "wait")
    BY <2>1 DEF ReadOwner, Goto
  <2>2. CASE ProbeOwner(c, "probe", "guard", "wait")
    BY <2>2 DEF ProbeOwner, DeadLocalOwner, Goto
  <2>3. QED
    BY <1>5, <2>1, <2>2 DEF CheckStale
<1>6. ASSUME NEW c \in Caller, TakeGuard(c) PROVE FileInv'
  BY <1>6 DEF TakeGuard, Goto
<1>7. ASSUME NEW c \in Caller, RecheckStale(c) PROVE FileInv'
  <2>1. CASE ReadOwner(c, "restale", "reprobe", "dropFalse")
    BY <2>1 DEF ReadOwner, Goto
  <2>2. CASE ProbeOwner(c, "reprobe", "unlink", "dropFalse")
    BY <2>2 DEF ProbeOwner, DeadLocalOwner, Goto
  <2>3. QED
    BY <1>7, <2>1, <2>2 DEF RecheckStale
<1>8. ASSUME NEW c \in Caller, UnlinkStale(c) PROVE FileInv'
  BY <1>8 DEF UnlinkStale, Goto
<1>9. ASSUME NEW c \in Caller, DropGuard(c) PROVE FileInv'
  <2>1. guard = c /\ guard' = NoCaller
    BY <1>9 DEF DropGuard, Goto
  <2>2. \A d \in Caller : pc[d] \in Guarding => d = c
    BY <2>1
  <2>3. pc'[c] \in {"create", "wait"} /\ \A d \in Caller : d # c => pc'[d] = pc[d]
    BY <1>9 DEF DropGuard, Goto
  <2>4. GuardInv'
    BY <2>2, <2>3
  <2>5. QED
    BY <1>9, <2>3, <2>4 DEF DropGuard
<1>10. ASSUME NEW c \in Caller, RetryOrTimeout(c) PROVE FileInv'
  BY <1>10 DEF RetryOrTimeout, Leave, Goto
<1>11. ASSUME NEW c \in Caller, Return(c) PROVE FileInv'
  BY <1>11 DEF Return, Goto
<1>12. ASSUME NEW c \in Caller, ReadOwnToken(c) PROVE FileInv'
  BY <1>12 DEF ReadOwnToken, Leave, Goto
<1>13. ASSUME NEW c \in Caller, UnlinkOwn(c) PROVE FileInv'
  BY <1>13 DEF UnlinkOwn, Leave, Goto
<1>14. ASSUME NEW c \in Caller, Expire(c) PROVE FileInv'
  BY <1>14 DEF Expire
<1>15. ASSUME NEW p \in Process, Crash(p), NoDeathUnderProbe PROVE FileInv'
  BY <1>15 DEF Crash, NoDeathUnderProbe
<1>16. CASE UNCHANGED vars
  BY <1>16 DEF vars
<1>17. QED
  BY <1>1, <1>2, <1>3, <1>4, <1>5, <1>6, <1>7, <1>8, <1>9, <1>10, <1>11,
     <1>12, <1>13, <1>14, <1>15, <1>16 DEF QuietNext, Next, Step

LEMMA StepLockInv == LockInv /\ [QuietNext]_vars => LockInv'
  BY StepQueue, StepFile DEF LockInv, FileInv, QuietNext

LEMMA AlwaysLockInv == QuietSpec => []LockInv
  BY InitLockInv, StepLockInv, PTL DEF QuietSpec

(***************************************************************************)
(* The queues, the files and the callers keep their types.                 *)
(***************************************************************************)
THEOREM LockTypeOK == QuietSpec => []TypeOK
  BY AlwaysLockInv, PTL DEF LockInv

(***************************************************************************)
(* The critical sections under one target path never overlap.              *)
(***************************************************************************)
THEOREM LockMutualExclusion == QuietSpec => []MutualExclusion
<1>1. LockInv => MutualExclusion
  BY DEF LockInv, OwnerInv, MutualExclusion, Owning
<1>2. QED
  BY <1>1, AlwaysLockInv, PTL

(***************************************************************************)
(* No reclaimer takes the lock file from an owner that is alive.           *)
(***************************************************************************)
THEOREM LockOwnerKeepsLock == QuietSpec => []OwnerKeepsLock
<1>1. LockInv => OwnerKeepsLock
  BY DEF LockInv, OwnerInv, OwnerKeepsLock
<1>2. QED
  BY <1>1, AlwaysLockInv, PTL

(***************************************************************************)
(* Only a reclaimer of the same host, which is alive, removes the file of  *)
(* a dead owner, and only with its record in it.                           *)
(***************************************************************************)
THEOREM LockOrphanKept == QuietSpec => OrphanKept
<1>. DEFINE Kept == \A c \in Caller :
              /\ lockFile.by = c /\ pc[c] = "dead"
              /\ \/ ~lockFile.written
                 \/ \A p \in Process : HostOf[p] = HostOf[ProcOf[c]] => ~alive[p]
              => lockFile' = lockFile
<1>1. ASSUME LockInv, [QuietNext]_vars, NEW c \in Caller, lockFile.by = c, pc[c] = "dead",
             \/ ~lockFile.written
             \/ \A p \in Process : HostOf[p] = HostOf[ProcOf[c]] => ~alive[p]
      PROVE  lockFile' = lockFile
  <2>. USE DEF LockInv, TypeOK
  <2>1. ASSUME NEW d \in Caller, Create(d) PROVE lockFile' = lockFile
    BY <1>1, <2>1 DEF Create, NoFile
  <2>2. ASSUME NEW d \in Caller, WriteOwner(d) PROVE lockFile' = lockFile
    BY <1>1, <2>2 DEF WriteOwner
  <2>3. ASSUME NEW d \in Caller, UnlinkStale(d) PROVE FALSE
    BY <1>1, <2>3 DEF UnlinkStale, ReclaimInv, DeathInv
  <2>4. ASSUME NEW d \in Caller, UnlinkOwn(d) PROVE FALSE
    BY <1>1, <2>4 DEF UnlinkOwn, OwnerInv, Owning
  <2>. QED BY <1>1, <2>1, <2>2, <2>3, <2>4
           DEF QuietNext, Next, Step, vars, Call, Start, CheckStale, ReadOwner, ProbeOwner,
               TakeGuard, RecheckStale, DropGuard, Expire, RetryOrTimeout, Return,
               ReadOwnToken, Crash
<1>2. LockInv /\ [QuietNext]_vars => [Kept]_vars
  BY <1>1
<1>. QED BY <1>2, AlwaysLockInv, PTL DEF QuietSpec, OrphanKept

-----------------------------------------------------------------------------
(***************************************************************************)
(* The queue of a process holds each pending caller once.                  *)
(***************************************************************************)
Standing(c) == \E i \in DOMAIN tail[ProcOf[c]] : tail[ProcOf[c]][i] = c

PlaceInv ==
  /\ \A c \in Caller : Standing(c) <=> pc[c] \notin {"idle", "dead"}
  /\ \A p \in Process : \A i, j \in DOMAIN tail[p] : tail[p][i] = tail[p][j] => i = j

LEMMA LeavePlaces ==
  ASSUME TypeOK, QueueInv, PlaceInv, NEW c \in Caller, pc[c] \in Running, Leave(c)
  PROVE  PlaceInv'
<1>. DEFINE p == ProcOf[c]
            s == tail[p]
<1>1. /\ s \in Seq(Caller) /\ s # << >> /\ Head(s) = c
      /\ tail' = [tail EXCEPT ![p] = Tail(s)] /\ pc' = [pc EXCEPT ![c] = "idle"]
  BY DEF TypeOK, QueueInv, Leave, Goto
<1>2. /\ Tail(s) \in Seq(Caller) /\ 1 \in DOMAIN s /\ s[1] = c
      /\ \A i \in DOMAIN Tail(s) : i + 1 \in DOMAIN s /\ i + 1 # 1 /\ Tail(s)[i] = s[i + 1]
      /\ \A i \in DOMAIN s : i # 1 => i - 1 \in DOMAIN Tail(s) /\ Tail(s)[i - 1] = s[i]
      /\ DOMAIN Tail(s) \subseteq Nat
  BY <1>1
<1>3. \A i, j \in DOMAIN Tail(s) : Tail(s)[i] = Tail(s)[j] => i = j
  BY <1>2 DEF PlaceInv
<1>4. \A i \in DOMAIN Tail(s) : Tail(s)[i] # c
  BY <1>2 DEF PlaceInv
<1>. HIDE DEF s
<1>5. ASSUME NEW d \in Caller PROVE Standing(d)' <=> pc'[d] \notin {"idle", "dead"}
  <2>1. CASE d = c
    BY <1>1, <1>4, <2>1 DEF Standing, TypeOK
  <2>2. CASE d # c /\ ProcOf[d] = p
    <3>1. tail'[p] = Tail(s) /\ tail[p] = s /\ pc'[d] = pc[d]
      BY <1>1, <2>2 DEF TypeOK, s
    <3>2. Standing(d)' <=> \E i \in DOMAIN Tail(s) : Tail(s)[i] = d
      BY <2>2, <3>1 DEF Standing
    <3>3. Standing(d) <=> \E i \in DOMAIN s : s[i] = d
      BY <2>2, <3>1 DEF Standing
    <3>4. (\E i \in DOMAIN Tail(s) : Tail(s)[i] = d) <=> \E i \in DOMAIN s : s[i] = d
      BY <1>2, <2>2
    <3>. QED BY <3>1, <3>2, <3>3, <3>4 DEF PlaceInv
  <2>3. CASE ProcOf[d] # p
    BY <1>1, <2>3 DEF Standing, TypeOK, PlaceInv
  <2>. QED BY <2>1, <2>2, <2>3
<1>6. \A q \in Process : \A i, j \in DOMAIN tail'[q] : tail'[q][i] = tail'[q][j] => i = j
  BY <1>1, <1>3 DEF PlaceInv, TypeOK
<1>. QED BY <1>5, <1>6 DEF PlaceInv

LEMMA CallPlaces ==
  ASSUME TypeOK, PlaceInv, NEW c \in Caller, Call(c)
  PROVE  PlaceInv'
<1>. DEFINE p == ProcOf[c]
            s == tail[p]
            t == Append(s, c)
<1>1. /\ s \in Seq(Caller) /\ pc[c] = "idle"
      /\ tail' = [tail EXCEPT ![p] = t] /\ pc' = [pc EXCEPT ![c] = "queued"]
  BY DEF TypeOK, Call, Goto
<1>2. /\ DOMAIN t = DOMAIN s \cup {Len(s) + 1} /\ t[Len(s) + 1] = c
      /\ Len(s) + 1 \notin DOMAIN s /\ \A i \in DOMAIN s : t[i] = s[i]
  BY <1>1
<1>3. \A i \in DOMAIN s : s[i] # c
  BY <1>1 DEF PlaceInv, Standing
<1>4. \A i, j \in DOMAIN t : t[i] = t[j] => i = j
  BY <1>2, <1>3 DEF PlaceInv
<1>. HIDE DEF t
<1>5. ASSUME NEW d \in Caller PROVE Standing(d)' <=> pc'[d] \notin {"idle", "dead"}
  <2>1. CASE d = c
    BY <1>1, <1>2, <2>1 DEF Standing, TypeOK
  <2>2. CASE d # c /\ ProcOf[d] = p
    <3>1. tail'[p] = t /\ tail[p] = s /\ pc'[d] = pc[d]
      BY <1>1, <2>2 DEF TypeOK
    <3>2. Standing(d)' <=> \E i \in DOMAIN t : t[i] = d
      BY <2>2, <3>1 DEF Standing
    <3>3. Standing(d) <=> \E i \in DOMAIN s : s[i] = d
      BY <2>2, <3>1 DEF Standing
    <3>4. (\E i \in DOMAIN t : t[i] = d) <=> \E i \in DOMAIN s : s[i] = d
      BY <1>2, <2>2
    <3>. QED BY <3>1, <3>2, <3>3, <3>4 DEF PlaceInv
  <2>3. CASE ProcOf[d] # p
    BY <1>1, <2>3 DEF Standing, TypeOK, PlaceInv
  <2>. QED BY <2>1, <2>2, <2>3
<1>6. \A q \in Process : \A i, j \in DOMAIN tail'[q] : tail'[q][i] = tail'[q][j] => i = j
  BY <1>1, <1>4 DEF PlaceInv, TypeOK
<1>. QED BY <1>5, <1>6 DEF PlaceInv

\* A step that neither enters nor leaves the queue.
LEMMA StayPlaces ==
  ASSUME PlaceInv, UNCHANGED tail,
         \A c \in Caller : pc'[c] \in {"idle", "dead"} <=> pc[c] \in {"idle", "dead"}
  PROVE  PlaceInv'
BY DEF PlaceInv, Standing

LEMMA StepPlaces == ASSUME LockInv, PlaceInv, [Next]_vars PROVE PlaceInv'
<1>. USE DEF LockInv
<1>1. ASSUME NEW c \in Caller, Call(c) PROVE PlaceInv'
  BY <1>1, CallPlaces
<1>2. ASSUME NEW c \in Caller, pc[c] \in Running, Leave(c) PROVE PlaceInv'
  BY <1>2, LeavePlaces
<1>3. ASSUME NEW c \in Caller, NEW l \in Running, Goto(c, l), UNCHANGED tail,
             pc[c] \notin {"idle", "dead"}
      PROVE  PlaceInv'
  BY <1>3, StayPlaces DEF Goto, TypeOK, Running, Contending, Owning
<1>4. ASSUME NEW c \in Caller,
             \/ Start(c) \/ Create(c) \/ WriteOwner(c) \/ CheckStale(c) \/ TakeGuard(c)
             \/ RecheckStale(c) \/ UnlinkStale(c) \/ DropGuard(c) \/ Return(c)
      PROVE  PlaceInv'
  <2>1. UNCHANGED tail /\ pc[c] \notin {"idle", "dead"} /\ \E l \in Running : Goto(c, l)
    BY <1>4 DEF Start, Create, WriteOwner, CheckStale, ReadOwner, ProbeOwner, TakeGuard,
                RecheckStale, UnlinkStale, DropGuard, Return, Running, Contending, Owning
  <2>. QED BY <1>3, <2>1
<1>5. ASSUME NEW c \in Caller, RetryOrTimeout(c) \/ ReadOwnToken(c) \/ UnlinkOwn(c)
      PROVE  PlaceInv'
  <2>1. pc[c] \in Running /\ pc[c] \notin {"idle", "dead"}
    BY <1>5 DEF RetryOrTimeout, ReadOwnToken, UnlinkOwn, Running, Contending, Owning
  <2>2. Leave(c) \/ (UNCHANGED tail /\ \E l \in Running : Goto(c, l))
    BY <1>5 DEF RetryOrTimeout, ReadOwnToken, UnlinkOwn, Running, Contending, Owning
  <2>. QED BY <1>2, <1>3, <2>1, <2>2
<1>6. ASSUME NEW p \in Process, Crash(p) PROVE PlaceInv'
  <2>1. /\ tail' = [tail EXCEPT ![p] = << >>]
        /\ pc' = [c \in Caller |-> IF ProcOf[c] = p THEN "dead" ELSE pc[c]]
    BY <1>6 DEF Crash
  <2>2. \A c \in Caller : Standing(c)' <=> pc'[c] \notin {"idle", "dead"}
    BY <2>1 DEF PlaceInv, Standing, TypeOK
  <2>3. \A q \in Process : \A i, j \in DOMAIN tail'[q] : tail'[q][i] = tail'[q][j] => i = j
    BY <2>1 DEF PlaceInv, TypeOK
  <2>. QED BY <2>2, <2>3 DEF PlaceInv
<1>7. CASE UNCHANGED <<tail, pc>>
  BY <1>7, StayPlaces
<1>. QED BY <1>1, <1>4, <1>5, <1>6, <1>7 DEF Next, Step, Expire, vars

(***************************************************************************)
(* Every way out of the lock resolves the promise the next caller of the   *)
(* process awaits, and nobody resolves another's (processMutationTails).   *)
(***************************************************************************)
THEOREM LockQueueExact == QuietSpec => []QueueExact
<1>1. Init => PlaceInv
  BY DEF Init, PlaceInv, Standing
<1>2. LockInv /\ PlaceInv => QueueExact
  <2>. SUFFICES ASSUME LockInv, PlaceInv, NEW c \in Caller
                PROVE  Cardinality({i \in DOMAIN tail[ProcOf[c]] : tail[ProcOf[c]][i] = c})
                         = IF pc[c] \in {"idle", "dead"} THEN 0 ELSE 1
    BY DEF QueueExact
  <2>. DEFINE S == {i \in DOMAIN tail[ProcOf[c]] : tail[ProcOf[c]][i] = c}
  <2>1. CASE pc[c] \in {"idle", "dead"}
    <3>1. S = {}
      BY <2>1 DEF PlaceInv, Standing
    <3>. QED BY <2>1, <3>1, FS_EmptySet
  <2>2. CASE pc[c] \notin {"idle", "dead"}
    <3>0. PICK i \in DOMAIN tail[ProcOf[c]] : tail[ProcOf[c]][i] = c
      BY <2>2 DEF PlaceInv, Standing
    <3>1. S = {i}
      BY <3>0 DEF PlaceInv
    <3>. QED BY <2>2, <3>1, FS_Singleton
  <2>. QED BY <2>1, <2>2
<1>3. LockInv /\ PlaceInv /\ [QuietNext]_vars => PlaceInv'
  BY StepPlaces DEF QuietNext
<1>. QED BY <1>1, <1>2, <1>3, AlwaysLockInv, PTL DEF QuietSpec

-----------------------------------------------------------------------------
(***************************************************************************)
(* Refinement: the caller in its section, if any, is Mutex's holder.       *)
(***************************************************************************)
LEMMA HolderIs ==
  ASSUME MutualExclusion, NEW c \in Caller, pc[c] = "crit"
  PROVE  Holder = c
  BY DEF MutualExclusion, Holder

LEMMA HolderNone ==
  ASSUME \A c \in Caller : pc[c] # "crit"
  PROVE  Holder = NoCaller
  BY DEF Holder

(***************************************************************************)
(* Only WriteOwner enters a section, and then nobody else is inside or     *)
(* past O_EXCL; every other step keeps the set of callers inside or shrinks*)
(* it.                                                                     *)
(***************************************************************************)
LEMMA SectionSteps ==
  ASSUME TypeOK, [Next]_vars
  PROVE  \/ \A d \in Caller : pc'[d] = "crit" => pc[d] = "crit"
         \/ \E c \in Caller : WriteOwner(c)
  BY DEF TypeOK, Next, Step, vars, Call, Start, Create, CheckStale, ReadOwner,
         ProbeOwner, TakeGuard, RecheckStale, UnlinkStale, DropGuard, Expire,
         RetryOrTimeout, Return, ReadOwnToken, UnlinkOwn, Crash, Leave, Goto,
         Contending, Owning

(***************************************************************************)
(* The file lock implements Mutex.                                         *)
(***************************************************************************)
THEOREM LockImplementsMutex == QuietSpec => ImplementsMutex
<1>1. Init => Abstract!Init
  BY HolderNone DEF Init, Abstract!Init
<1>2. ASSUME LockInv, MutualExclusion, LockInv', MutualExclusion', [QuietNext]_vars
      PROVE  [Abstract!Next]_Holder
  <2>1. [Next]_vars /\ TypeOK
    BY <1>2 DEF QuietNext, LockInv
  <2>2. ASSUME NEW c \in Caller, WriteOwner(c) PROVE Abstract!Next
    <3>1. pc[c] = "write" /\ pc'[c] = "crit"
      BY <2>1, <2>2 DEF WriteOwner, Goto, TypeOK
    <3>2. \A d \in Caller : pc[d] # "crit"
      BY <1>2, <3>1 DEF LockInv, OwnerInv, Owning
    <3>3. Holder = NoCaller /\ Holder' = c
      BY <1>2, <3>1, <3>2 DEF Holder, MutualExclusion
    <3>4. QED
      BY <3>3 DEF Abstract!Next, Abstract!Acquire
  <2>3. CASE \A d \in Caller : pc'[d] = "crit" => pc[d] = "crit"
    <3>1. CASE \E d \in Caller : pc'[d] = "crit"
      BY <1>2, <2>3, <3>1 DEF Holder, MutualExclusion
    <3>2. CASE \A d \in Caller : pc'[d] # "crit"
      <4>1. Holder' = NoCaller
        BY <3>2 DEF Holder
      <4>2. QED
        BY <4>1 DEF Abstract!Next, Abstract!GiveUp
    <3>3. QED
      BY <3>1, <3>2
  <2>4. QED
    BY <2>1, <2>2, <2>3, SectionSteps
<1>3. QED
  BY <1>1, <1>2, AlwaysLockInv, LockMutualExclusion, PTL
     DEF QuietSpec, ImplementsMutex, Abstract!Spec

=============================================================================
