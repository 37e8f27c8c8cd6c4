------------------------------ MODULE FileLock ------------------------------
(***************************************************************************)
(* src/src/file-mutation-lock.ts: the lock every durable Memhub file is    *)
(* mutated under.  Callers of one OS process queue behind one another      *)
(* (processMutationTails); the head of each process' queue then contends   *)
(* for the lock file with O_EXCL.  The owner record is written in a second *)
(* step, so a process can die between the two and leave an empty file.  A  *)
(* contender that reads a well-formed owner of its own host whose process  *)
(* is gone takes the .reclaim guard, looks again, and unlinks the file.    *)
(*                                                                         *)
(* Abstracted: a token is the caller that drew it (randomUUID); one target *)
(* path; process ids are not reused; EPERM/EACCES contention on Windows is *)
(* the same branch as EEXIST; file system errors other than contention do  *)
(* not occur.  The 15 s deadline may pass at any moment of a contention.   *)
(***************************************************************************)
EXTENDS Sequences, FiniteSets

CONSTANTS Process, Caller, Host,
          ProcOf,      \* the OS process a caller runs in
          HostOf,      \* the host a process runs on
          NoCaller

ASSUME ProcOfAssumption == ProcOf \in [Caller -> Process]
ASSUME HostOfAssumption == HostOf \in [Process -> Host]
ASSUME NoCallerAssumption == NoCaller \notin Caller

VARIABLES
  alive,    \* alive[p]: process.kill(pid, 0) succeeds
  tail,     \* tail[p]: callers of p chained on processMutationTails, in order
  pc,       \* where each caller's async call stands
  lockFile, \* NoFile, or who created <target>.lock and whether its owner is written
  guard,    \* the caller whose <target>.lock.reclaim exists, or NoCaller
  seen,     \* the owner a caller has parsed out of the lock file and not yet probed
  expired   \* Date.now() >= deadline, of a call that contends

vars == <<alive, tail, pc, lockFile, guard, seen, expired>>

NoFile == [by |-> NoCaller, written |-> FALSE]

Contending == {"create", "stale", "probe", "guard", "restale", "reprobe",
               "unlink", "dropTrue", "dropFalse", "wait"}
Owning == {"write", "crit", "release", "unlinkOwn"}

TypeOK ==
  /\ alive \in [Process -> BOOLEAN]
  /\ tail \in [Process -> Seq(Caller)]
  /\ pc \in [Caller -> {"idle", "queued", "dead"} \cup Contending \cup Owning]
  /\ lockFile \in [by : Caller \cup {NoCaller}, written : BOOLEAN]
  /\ guard \in Caller \cup {NoCaller}
  /\ seen \in [Caller -> Caller \cup {NoCaller}]
  /\ expired \in [Caller -> BOOLEAN]

Init ==
  /\ alive = [p \in Process |-> TRUE]
  /\ tail = [p \in Process |-> << >>]
  /\ pc = [c \in Caller |-> "idle"]
  /\ lockFile = NoFile
  /\ guard = NoCaller
  /\ seen = [c \in Caller |-> NoCaller]
  /\ expired = [c \in Caller |-> FALSE]

Goto(c, l) == pc' = [pc EXCEPT ![c] = l]

-----------------------------------------------------------------------------
\* withFileMutationLock: chain on the process' tail, wait for the predecessor.

Call(c) ==
  /\ pc[c] = "idle"
  /\ tail' = [tail EXCEPT ![ProcOf[c]] = Append(@, c)]
  /\ Goto(c, "queued")
  /\ UNCHANGED <<alive, lockFile, guard, seen, expired>>

Start(c) ==
  /\ pc[c] = "queued"
  /\ tail[ProcOf[c]] # << >> /\ Head(tail[ProcOf[c]]) = c
  /\ Goto(c, "create")
  /\ UNCHANGED <<alive, tail, lockFile, guard, seen, expired>>

\* The finally of withFileMutationLock: the promise the next caller awaits resolves.
Leave(c) ==
  /\ tail' = [tail EXCEPT ![ProcOf[c]] = Tail(@)]
  /\ Goto(c, "idle")

-----------------------------------------------------------------------------
\* withCrossProcessLock: the acquisition loop.

\* Mutant: the file is opened without O_EXCL.
CreateShared(c) ==
  /\ pc[c] = "create"
  /\ lockFile' = [by |-> c, written |-> FALSE]
  /\ expired' = [expired EXCEPT ![c] = FALSE]
  /\ Goto(c, "write")
  /\ UNCHANGED <<alive, tail, guard, seen>>

Create(c) ==
  /\ pc[c] = "create"
  /\ IF lockFile = NoFile
     THEN /\ lockFile' = [by |-> c, written |-> FALSE]
          /\ expired' = [expired EXCEPT ![c] = FALSE]
          /\ Goto(c, "write")
     ELSE UNCHANGED <<lockFile, expired>> /\ Goto(c, "stale")
  /\ UNCHANGED <<alive, tail, guard, seen>>

\* The write goes through the open handle: it shows at the path only while
\* the path still names the file this caller created.
WriteOwner(c) ==
  /\ pc[c] = "write"
  /\ lockFile' = IF lockFile.by = c THEN [by |-> c, written |-> TRUE] ELSE lockFile
  /\ Goto(c, "crit")
  /\ UNCHANGED <<alive, tail, guard, seen, expired>>

\* staleLockCanBeRemoved, up to the parse: a vanished or unparsable file is not stale.
ReadOwner(c, from, parsed, notStale) ==
  /\ pc[c] = from
  /\ IF lockFile.written
     THEN seen' = [seen EXCEPT ![c] = lockFile.by] /\ Goto(c, parsed)
     ELSE UNCHANGED seen /\ Goto(c, notStale)
  /\ UNCHANGED <<alive, tail, lockFile, guard, expired>>

\* Mutant: a process id of another host is probed here.
DeadAnywhere(c, o) == ~alive[ProcOf[o]]

\* Mutant: any answer of kill(pid, 0) counts as alive.
NeverDead(c, o) == FALSE

DeadLocalOwner(c, o) ==
  /\ HostOf[ProcOf[o]] = HostOf[ProcOf[c]]
  /\ ~alive[ProcOf[o]]

\* staleLockCanBeRemoved, from the host comparison on: kill(pid, 0) says ESRCH.
ProbeOwner(c, from, isStale, notStale) ==
  /\ pc[c] = from
  /\ Goto(c, IF DeadLocalOwner(c, seen[c]) THEN isStale ELSE notStale)
  /\ seen' = [seen EXCEPT ![c] = NoCaller]
  /\ UNCHANGED <<alive, tail, lockFile, guard, expired>>

CheckStale(c) ==
  \/ ReadOwner(c, "stale", "probe", "wait")
  \/ ProbeOwner(c, "probe", "guard", "wait")

\* Mutant: a guard that is already there is taken over.
TakeGuardAnyway(c) ==
  /\ pc[c] = "guard"
  /\ guard' = c /\ Goto(c, "restale")
  /\ UNCHANGED <<alive, tail, lockFile, seen, expired>>

\* reclaimDeadLocalLock
TakeGuard(c) ==
  /\ pc[c] = "guard"
  /\ IF guard = NoCaller
     THEN guard' = c /\ Goto(c, "restale")
     ELSE UNCHANGED guard /\ Goto(c, "wait")
  /\ UNCHANGED <<alive, tail, lockFile, seen, expired>>

RecheckStale(c) ==
  \/ ReadOwner(c, "restale", "reprobe", "dropFalse")
  \/ ProbeOwner(c, "reprobe", "unlink", "dropFalse")

UnlinkStale(c) ==
  /\ pc[c] = "unlink"
  /\ lockFile' = NoFile
  /\ Goto(c, "dropTrue")
  /\ UNCHANGED <<alive, tail, guard, seen, expired>>

DropGuard(c) ==
  /\ \/ pc[c] = "dropTrue" /\ Goto(c, "create")
     \/ pc[c] = "dropFalse" /\ Goto(c, "wait")
  /\ guard' = NoCaller
  /\ UNCHANGED <<alive, tail, lockFile, seen, expired>>

Expire(c) ==
  /\ pc[c] \in Contending
  /\ ~expired[c]
  /\ expired' = [expired EXCEPT ![c] = TRUE]
  /\ UNCHANGED <<alive, tail, pc, lockFile, guard, seen>>

\* Mutant: the contender never gives up.
RetryForEver(c) ==
  /\ pc[c] = "wait"
  /\ Goto(c, "create")
  /\ UNCHANGED <<alive, tail, lockFile, guard, seen, expired>>

\* Mutant: a timeout leaves the next caller of the process waiting.
TimeoutKeepsQueue(c) ==
  /\ pc[c] = "wait"
  /\ Goto(c, IF expired[c] THEN "idle" ELSE "create")
  /\ expired' = [expired EXCEPT ![c] = FALSE]
  /\ UNCHANGED <<alive, tail, lockFile, guard, seen>>

RetryOrTimeout(c) ==
  /\ pc[c] = "wait"
  /\ IF expired[c] THEN Leave(c) ELSE Goto(c, "create") /\ UNCHANGED tail
  /\ expired' = [expired EXCEPT ![c] = FALSE]
  /\ UNCHANGED <<alive, lockFile, guard, seen>>

-----------------------------------------------------------------------------
\* run() settles, then releaseOwnedLock.

Return(c) ==
  /\ pc[c] = "crit"
  /\ Goto(c, "release")
  /\ UNCHANGED <<alive, tail, lockFile, guard, seen, expired>>

ReadOwnToken(c) ==
  /\ pc[c] = "release"
  /\ IF lockFile = [by |-> c, written |-> TRUE]
     THEN Goto(c, "unlinkOwn") /\ UNCHANGED tail
     ELSE Leave(c)
  /\ UNCHANGED <<alive, lockFile, guard, seen, expired>>

UnlinkOwn(c) ==
  /\ pc[c] = "unlinkOwn"
  /\ lockFile' = NoFile
  /\ Leave(c)
  /\ UNCHANGED <<alive, guard, seen, expired>>

\* A process dies between any two steps; its files stay behind.
Crash(p) ==
  /\ alive[p]
  /\ alive' = [alive EXCEPT ![p] = FALSE]
  /\ tail' = [tail EXCEPT ![p] = << >>]
  /\ pc' = [c \in Caller |-> IF ProcOf[c] = p THEN "dead" ELSE pc[c]]
  /\ UNCHANGED <<lockFile, guard, seen, expired>>

-----------------------------------------------------------------------------
Step(c) ==
  \/ Start(c) \/ Create(c) \/ WriteOwner(c) \/ CheckStale(c) \/ TakeGuard(c)
  \/ RecheckStale(c) \/ UnlinkStale(c) \/ DropGuard(c) \/ RetryOrTimeout(c)
  \/ Return(c) \/ ReadOwnToken(c) \/ UnlinkOwn(c)

Next ==
  \/ \E c \in Caller : Call(c) \/ Step(c) \/ Expire(c)
  \/ \E p \in Process : Crash(p)

Spec == Init /\ [][Next]_vars

\* No process dies between a contender's read of its owner record and the
\* kill(pid, 0) that follows: the two awaits of staleLockCanBeRemoved are not
\* atomic, and FileLock_aba.cfg shows what happens without this assumption.
NoDeathUnderProbe ==
  \A c \in Caller : pc[c] \in {"probe", "reprobe"} /\ alive[ProcOf[seen[c]]]
                     => alive'[ProcOf[seen[c]]]

QuietNext == Next /\ NoDeathUnderProbe

QuietSpec == Init /\ [][QuietNext]_vars

\* The event loop runs every ready continuation and time passes: every step a
\* live caller has ready is taken.  Nothing is assumed about crashes.
Fairness == \A c \in Caller : WF_vars(Step(c)) /\ WF_vars(Expire(c))

\* A workload in which callers keep coming back.
BusySpec == QuietSpec /\ Fairness /\ \A c \in Caller : WF_vars(Call(c))

-----------------------------------------------------------------------------
(***************************************************************************)
(* The critical sections of two callers never overlap, whatever crashes    *)
(* and reclaims happen around them (the reason for the guard and for the   *)
(* second look in reclaimDeadLocalLock).                                   *)
(***************************************************************************)
MutualExclusion ==
  \A c, d \in Caller : pc[c] = "crit" /\ pc[d] = "crit" => c = d

(***************************************************************************)
(* From O_EXCL to its own unlink a live caller's file stays at the path:   *)
(* no reclaimer removes the file of an owner that is alive (the ABA race   *)
(* the comments of staleLockCanBeRemoved and withCrossProcessLock name).   *)
(***************************************************************************)
OwnerKeepsLock ==
  \A c \in Caller : pc[c] \in Owning => lockFile.by = c

(***************************************************************************)
(* A caller stands in its process' queue exactly while its call is pending:*)
(* every way out of the lock (return, timeout) resolves the promise the    *)
(* next caller of the process awaits, and nobody resolves another's.       *)
(***************************************************************************)
QueueExact ==
  \A c \in Caller :
    Cardinality({i \in DOMAIN tail[ProcOf[c]] : tail[ProcOf[c]][i] = c})
      = IF pc[c] \in {"idle", "dead"} THEN 0 ELSE 1

(***************************************************************************)
(* The lock file of a dead process is never removed while its owner record *)
(* is missing, nor by a process of another host: age is no evidence        *)
(* (staleLockCanBeRemoved; tests/file-mutation-lock-e2e.mjs).              *)
(***************************************************************************)
OrphanKept ==
  [][ \A c \in Caller :
        /\ lockFile.by = c /\ pc[c] = "dead"
        /\ \/ ~lockFile.written
           \/ \A p \in Process : HostOf[p] = HostOf[ProcOf[c]] => ~alive[p]
        => lockFile' = lockFile ]_vars

(***************************************************************************)
(* A call always settles: it enters its section, times out, or dies with   *)
(* its process, even behind a lock nobody will ever release.               *)
(***************************************************************************)
CallSettles ==
  \A c \in Caller : pc[c] = "queued" ~> pc[c] \in {"crit", "idle", "dead"}

GuardOrphaned == guard # NoCaller /\ pc[guard] = "dead"

\* A lock whose recorded owner died on a host that still runs a process.
Reclaimable ==
  /\ lockFile.written
  /\ \E p \in Process : alive[p] /\ HostOf[p] = HostOf[ProcOf[lockFile.by]]
  /\ ~alive[ProcOf[lockFile.by]]

(***************************************************************************)
(* A recorded owner's death does not block the path for ever: while the    *)
(* host still runs a process that calls, the lock is reclaimed, unless a   *)
(* reclaimer itself died holding the .reclaim guard (then it never is).    *)
(***************************************************************************)
DeadOwnerReclaimed == Reclaimable ~> (~Reclaimable \/ GuardOrphaned)

Holder == IF \E c \in Caller : pc[c] = "crit"
          THEN CHOOSE c \in Caller : pc[c] = "crit"
          ELSE NoCaller

Abstract == INSTANCE Mutex WITH holder <- Holder

(***************************************************************************)
(* The file lock implements Mutex: sections are entered one at a time and  *)
(* handed over only through a state in which nobody is inside.             *)
(***************************************************************************)
ImplementsMutex == Abstract!Spec
=============================================================================
