------------------------- MODULE MCDistillationJobs -------------------------
(***************************************************************************)
(* TLC instance: two sessions of one harness, which share its name as the  *)
(* lease owner, and one evidence ref.                                      *)
(***************************************************************************)
EXTENDS DistillationJobs

CONSTANTS w1, w2, codex, m1, p1, r1

MCHarnessOf == [w \in Worker |-> codex]
MCLeaseTime == {2}
=============================================================================
