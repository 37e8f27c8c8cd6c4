------------------------------- MODULE Mutex -------------------------------
(***************************************************************************)
(* What withFileMutationLock promises its callers: the critical sections   *)
(* of one target path never overlap.  A holder gives the section up by     *)
(* returning, by throwing or by dying with its process.                    *)
(***************************************************************************)
CONSTANTS Caller, NoCaller

VARIABLE holder

Init == holder = NoCaller

Acquire(c) == holder = NoCaller /\ holder' = c

GiveUp == holder # NoCaller /\ holder' = NoCaller

Next == GiveUp \/ \E c \in Caller : Acquire(c)

Spec == Init /\ [][Next]_holder
=============================================================================
