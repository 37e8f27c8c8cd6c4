------------------------ MODULE MCDistillationSubmit ------------------------
(***************************************************************************)
(* TLC instance: two pending L2 jobs of one project.                       *)
(***************************************************************************)
EXTENDS DistillationSubmit, TLC
CONSTANTS p1, r1, r2

MCTarget == {"l2"}
MCJob0 == <<NewJob("l2", p1, {r1}), NewJob("l2", p1, {r2})>>
MCSymmetry == Permutations(Memory)
=============================================================================
