---------------------------- MODULE ProcessStack ----------------------------
(***************************************************************************)
(* The supervisor of a direct install: ManagedProcessStack                 *)
(* (src/src/process-stack.ts) and the owner that starts it, retries its    *)
(* first start, shuts it down and then releases the stack's lock           *)
(* (src/scripts/run-stack.mjs).  It runs in one process, so whatever lies  *)
(* between two awaits is one step; its children are processes that may die *)
(* or hang at any time.                                                    *)
(*                                                                         *)
(* Services are numbered in start order.  A start and a recovery never run *)
(* together and share startOwnedChildren: work says which of them runs and *)
(* how far it is.  The wait for readiness may fail at any time, by its     *)
(* timeout.  The restart window is Age: the oldest restart leaves it, now   *)
(* or later, and nothing bounds how many do.                               *)
(***************************************************************************)
EXTENDS Naturals, FiniteSets
CONSTANTS Services,     \* their number
          FailureThreshold, MaxRestarts,
          Attempts      \* first starts tried

ASSUME StackAssumption ==
  /\ {Services, FailureThreshold, Attempts} \subseteq Nat \ {0}
  /\ MaxRestarts \in Nat
Service == 1..Services

VARIABLES child,       \* per service: the owned process
          doomed,      \* processes being terminated, no longer owned
          terminating, \* stoppingChildren is pending
          desired, work, timer, restarts,
          monitor,     \* the health interval is set
          probing,     \* the service whose probe checkHealth awaits, or 0
          failures,
          stopping,    \* stop() is pending
          closing,     \* shutdown() was called
          owner, attempt
stackVars == <<child, doomed, terminating, desired, work, timer, restarts,
               monitor, probing, failures, stopping, closing, owner, attempt>>
healthVars == <<monitor, probing, failures>>
ownerVars == <<stopping, closing, owner, attempt>>

Rest == [kind |-> "none", at |-> "none", next |-> 1, final |-> FALSE]
Working(kind, at) == [kind |-> kind, at |-> at, next |-> 1, final |-> FALSE]

StackInit ==
  /\ child = [s \in Service |-> "none"] /\ doomed = {} /\ terminating = FALSE
  /\ desired = TRUE /\ work = Working("start", "ports")
  /\ timer = FALSE /\ restarts = 0
  /\ monitor = FALSE /\ probing = 0 /\ failures = [s \in Service |-> 0]
  /\ stopping = FALSE /\ closing = FALSE /\ owner = "starting" /\ attempt = 1

-----------------------------------------------------------------------------
Nobody == [s \in Service |-> "none"]
Living(now) == {s \in Service : now[s] = "alive"}

\* stopOwnedChildren joins a termination that is pending; else terminateOwnedChildren
\* takes over all that is owned now.
Terminate(now) ==
  IF terminating THEN child' = now /\ UNCHANGED <<doomed, terminating>>
  ELSE child' = Nobody /\ doomed' = Living(now) /\ terminating' = TRUE

\* One child after the other, the last started first: SIGTERM, then SIGKILL.
Kill ==
  /\ terminating
  /\ doomed' = {s \in doomed : \E t \in doomed : s < t}
  /\ terminating' = (doomed # {})
  /\ UNCHANGED <<child, desired, work, timer, restarts, healthVars, ownerVars>>

\* stop(): what it does at once; then it waits for a start or a recovery to end.
Stop(now) ==
  /\ desired' = FALSE
  /\ IF stopping
     THEN child' = now /\ UNCHANGED <<timer, monitor, stopping, doomed, terminating>>
     ELSE /\ timer' = FALSE /\ monitor' = FALSE /\ stopping' = TRUE
          /\ IF work'.kind = "none" THEN Terminate(now)
             ELSE child' = now /\ UNCHANGED <<doomed, terminating>>

\* Mutant: stop() does not wait for a recovery.
StopAtOnce == stopping /\ ~terminating
StopWaited == stopping /\ work.kind = "none" /\ ~terminating
StopChildren ==
  /\ StopWaited /\ child # Nobody
  /\ Terminate(child)
  /\ UNCHANGED <<desired, work, timer, restarts, healthVars, ownerVars>>
Stopped ==
  /\ StopWaited /\ child = Nobody
  /\ stopping' = FALSE
  /\ UNCHANGED <<child, doomed, terminating, desired, work, timer, restarts,
                 healthVars, closing, owner, attempt>>

\* scheduleRecovery.  A fatal event makes the owner shut down at once.
Schedule(now) ==
  IF ~desired \/ work'.kind = "recover" \/ timer
  THEN child' = now /\ UNCHANGED <<doomed, terminating, desired, timer, restarts,
                                   monitor, stopping, closing>>
  ELSE IF restarts >= MaxRestarts
  THEN Stop(now) /\ closing' = TRUE /\ UNCHANGED restarts
  ELSE /\ timer' = TRUE /\ monitor' = FALSE /\ restarts' = restarts + 1
       /\ child' = now
       /\ UNCHANGED <<doomed, terminating, desired, stopping, closing>>

-----------------------------------------------------------------------------
\* A child dies; its exit event counts unless a start or a recovery runs.
Die(s) ==
  /\ child[s] = "alive"
  /\ UNCHANGED work
  /\ LET now == [child EXCEPT ![s] = "dead"]
     IN IF work.kind = "none" THEN Schedule(now)
        ELSE child' = now /\ UNCHANGED <<doomed, terminating, desired, timer, restarts,
                                         monitor, stopping, closing>>
  /\ UNCHANGED <<probing, failures, owner, attempt>>

\* checkHealth comes to service s: a dead child ends the round.
Visit(s) ==
  IF s > Services
  THEN /\ probing' = 0
       /\ UNCHANGED <<child, doomed, terminating, desired, timer, restarts, monitor,
                      stopping, closing>>
  ELSE IF child[s] = "alive"
  THEN /\ probing' = s
       /\ UNCHANGED <<child, doomed, terminating, desired, timer, restarts, monitor,
                      stopping, closing>>
  ELSE probing' = 0 /\ Schedule(child)

Tick ==
  /\ monitor /\ probing = 0 /\ desired /\ work.kind = "none" /\ ~timer
  /\ UNCHANGED work
  /\ Visit(1)
  /\ UNCHANGED <<failures, owner, attempt>>

\* Nothing is checked again after the probe; the service may hang, a dead one fails.
Probed(ok) ==
  /\ probing # 0
  /\ ok => child[probing] = "alive"
  /\ UNCHANGED work
  /\ LET count == IF ok THEN 0 ELSE failures[probing] + 1
     IN /\ failures' = [failures EXCEPT ![probing] = count]
        /\ IF count >= FailureThreshold
           THEN probing' = 0 /\ Schedule(child)
           ELSE Visit(probing + 1)
  /\ UNCHANGED <<owner, attempt>>

Age ==
  /\ restarts > 0
  /\ restarts' = restarts - 1
  /\ UNCHANGED <<child, doomed, terminating, desired, work, timer, healthVars, ownerVars>>

-----------------------------------------------------------------------------
TimerFires ==
  /\ timer /\ timer' = FALSE
  /\ IF ~desired \/ work.kind = "recover"
     THEN UNCHANGED <<child, doomed, terminating, work>>
     ELSE work' = Working("recover", "stopping") /\ Terminate(child)
  /\ UNCHANGED <<desired, restarts, healthVars, ownerVars>>

\* Mutant: the children are started before the old ones are gone.
RecoveringAtOnce ==
  /\ work.at = "stopping"
  /\ work' = IF desired THEN Working("recover", "ports") ELSE Rest
  /\ UNCHANGED <<child, doomed, terminating, desired, timer, restarts,
                 healthVars, ownerVars>>
Recovering ==
  /\ work.at = "stopping" /\ ~terminating
  /\ work' = IF desired THEN Working("recover", "ports") ELSE Rest
  /\ UNCHANGED <<child, doomed, terminating, desired, timer, restarts,
                 healthVars, ownerVars>>

\* startOwnedChildren fails: it stops what it owns and throws.  A taken port is not
\* tried again by the first start.
Failing(final) ==
  /\ work' = [work EXCEPT !.at = "undo", !.final = final]
  /\ Terminate(child)
  /\ UNCHANGED <<desired, timer, restarts, healthVars, ownerVars>>

Ports(free) ==
  /\ work.at = "ports"
  /\ IF free THEN /\ work' = [work EXCEPT !.at = "spawn"]
                  /\ UNCHANGED <<child, doomed, terminating, desired, timer, restarts,
                                 healthVars, ownerVars>>
     ELSE Failing(TRUE)

Spawn ==
  /\ work.at = "spawn"
  /\ IF desired
     THEN /\ child' = [child EXCEPT ![work.next] = "alive"]
          /\ work' = [work EXCEPT !.at = "wait"]
          /\ UNCHANGED <<doomed, terminating, desired, timer, restarts,
                         healthVars, ownerVars>>
     ELSE Failing(FALSE)

\* Mutant: only the exit events are relied on.
BeginNoMonitor == monitor' = monitor
BeginMonitor == monitor' = TRUE

\* A probe that succeeds counts although the start may have been aborted meanwhile.
Ready ==
  /\ work.at = "wait" /\ child[work.next] = "alive"
  /\ IF work.next < Services
     THEN /\ work' = [work EXCEPT !.at = "spawn", !.next = @ + 1]
          /\ UNCHANGED <<monitor, failures, owner>>
     ELSE /\ work' = Rest
          /\ BeginMonitor /\ failures' = [s \in Service |-> 0]
          /\ owner' = IF work.kind = "start" /\ ~closing THEN "serving" ELSE owner
  /\ UNCHANGED <<child, doomed, terminating, desired, timer, restarts, probing,
                 stopping, closing, attempt>>
NotReady == work.at = "wait" /\ Failing(FALSE)

\* A recovery that failed schedules the next; a first start is stopped by its owner.
Undone ==
  /\ work.at = "undo" /\ ~terminating
  /\ work' = Rest
  /\ IF work.kind = "recover" THEN Schedule(child) /\ UNCHANGED owner
     ELSE /\ owner' = IF closing THEN owner
                      ELSE IF work.final \/ attempt = Attempts THEN "giving up" ELSE "retrying"
          /\ Stop(child)
          /\ UNCHANGED <<restarts, closing>>
  /\ UNCHANGED <<probing, failures, attempt>>

-----------------------------------------------------------------------------
Retry ==
  /\ owner = "retrying" /\ ~stopping /\ ~closing
  /\ owner' = "starting" /\ attempt' = attempt + 1
  /\ desired' = TRUE /\ work' = Working("start", "ports")
  /\ UNCHANGED <<child, doomed, terminating, timer, restarts, healthVars,
                 stopping, closing>>

\* SIGINT, SIGTERM or a stop request.
Shutdown ==
  /\ owner # "exited" /\ ~closing
  /\ closing' = TRUE
  /\ UNCHANGED work
  /\ Stop(child)
  /\ UNCHANGED <<restarts, probing, failures, owner, attempt>>

\* stop() has ended: the lock is released and the script has nothing left to do.
Exit ==
  /\ owner # "exited" /\ ~stopping
  /\ closing \/ owner = "giving up"
  /\ owner' = "exited"
  /\ UNCHANGED <<child, doomed, terminating, desired, work, timer, restarts,
                 healthVars, stopping, closing, attempt>>

Supervise == \/ Kill \/ StopChildren \/ Stopped \/ Tick \/ TimerFires \/ Recovering
             \/ (\E free \in BOOLEAN : Ports(free)) \/ Spawn \/ Ready \/ NotReady
             \/ Undone \/ Retry \/ Exit
StackNext == \/ Supervise
             \/ \E ok \in BOOLEAN : Probed(ok)
             \/ \E s \in Service : Die(s)
             \/ Age \/ Shutdown
StackSpec == StackInit /\ [][StackNext]_stackVars

\* Timers fire, signals kill, waits end by their timeouts and promises settle.
StackFairness ==
  /\ WF_stackVars(Kill) /\ WF_stackVars(StopChildren) /\ WF_stackVars(Stopped)
  /\ WF_stackVars(Tick) /\ WF_stackVars(\E ok \in BOOLEAN : Probed(ok))
  /\ WF_stackVars(TimerFires) /\ WF_stackVars(Recovering)
  /\ WF_stackVars(\E free \in BOOLEAN : Ports(free)) /\ WF_stackVars(Spawn)
  /\ WF_stackVars(Ready \/ NotReady) /\ WF_stackVars(Undone)
  /\ WF_stackVars(Retry) /\ WF_stackVars(Exit)
StackFairSpec == StackSpec /\ StackFairness

-----------------------------------------------------------------------------
StackTypeOK ==
  /\ child \in [Service -> {"none", "alive", "dead"}] /\ doomed \subseteq Service
  /\ {terminating, desired, timer, monitor, stopping, closing} \subseteq BOOLEAN
  /\ work \in [kind : {"none", "start", "recover"}, next : Service, final : BOOLEAN,
               at : {"none", "stopping", "ports", "spawn", "wait", "undo"}]
  /\ restarts \in 0..MaxRestarts
  /\ probing \in 0..Services /\ failures \in [Service -> 0..FailureThreshold]
  /\ owner \in {"starting", "serving", "retrying", "giving up", "exited"}
  /\ attempt \in 1..Attempts

\* When the owner has released the stack's lock none of its children runs, and
\* nothing is left that could start one: "the single root owns only its own children.
\* Graceful stop releases the first lock and dedicated ports".
NothingLeftBehind ==
  owner = "exited" =>
    /\ Living(child) = {} /\ doomed = {}
    /\ ~timer /\ work.kind = "none" /\ ~desired

\* Two processes of one service, on one port and one database, never run together:
\* no recovery starts a child before the last one of that service is gone.
OneProcessPerService == Living(child) \cap doomed = {}

\* A child that died while the stack serves is never left alone, whether the exit
\* comes in a start or a recovery, between two probes, or while another recovery is
\* scheduled: a recovery ends what is left of the children and starts all of them
\* anew, or the owner gives up and exits.  And it ends with all of them back or the
\* owner gone, unless restarts leave the window again and again: recoveries that
\* fail slowly enough never use up the budget, and are tried for ever.
Outage == owner = "serving" /\ Living(child) # Service
Over == owner = "exited" \/ Living(child) = Service
StartingAnew == work.kind = "recover" /\ work.at = "ports"
OutageHandled ==
  /\ Outage ~> (Over \/ StartingAnew)
  /\ []<><<Age>>_stackVars \/ (Outage ~> Over)

\* "Parent must exit normally" after a stop: no interval is left to keep it alive.
StopEndsProcess == owner = "exited" => ~monitor
=============================================================================
