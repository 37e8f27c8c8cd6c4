------------------------------- MODULE MCLive -------------------------------
(***************************************************************************)
(* TLC instance for what must happen in the end.  part says which of two   *)
(* components runs: the file lock, on host h1 with the processes p1, whose *)
(* two callers queue behind one another, and p2, and on host h2 with p3;   *)
(* or the supervisor of the process stack.  The part that runs is fair as  *)
(* its own module says (BusySpec, StackFairSpec); the other one stands.    *)
(***************************************************************************)
EXTENDS MCFileLock, ProcessStack

VARIABLE part
Part == {"lock", "stack"}

LiveInit == part \in Part /\ Init /\ StackInit
LiveNext == /\ UNCHANGED part
            /\ IF part = "lock" THEN QuietNext ELSE UNCHANGED vars
            /\ IF part = "stack" THEN StackNext ELSE UNCHANGED stackVars

Locking == part = "lock"
Stacking == part = "stack"

LiveSpec ==
  /\ LiveInit /\ [][LiveNext]_<<part, vars, stackVars>>
  /\ \A c \in Caller : /\ WF_vars(Locking /\ Step(c)) /\ WF_vars(Locking /\ Expire(c))
                       /\ WF_vars(Locking /\ Call(c))
  /\ WF_stackVars(Stacking /\ Kill) /\ WF_stackVars(Stacking /\ StopChildren)
  /\ WF_stackVars(Stacking /\ Stopped) /\ WF_stackVars(Stacking /\ Tick)
  /\ WF_stackVars(Stacking /\ \E ok \in BOOLEAN : Probed(ok))
  /\ WF_stackVars(Stacking /\ TimerFires) /\ WF_stackVars(Stacking /\ Recovering)
  /\ WF_stackVars(Stacking /\ \E free \in BOOLEAN : Ports(free))
  /\ WF_stackVars(Stacking /\ Spawn) /\ WF_stackVars(Stacking /\ (Ready \/ NotReady))
  /\ WF_stackVars(Stacking /\ Undone) /\ WF_stackVars(Stacking /\ Retry)
  /\ WF_stackVars(Stacking /\ Exit)
=============================================================================
