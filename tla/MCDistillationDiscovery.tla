---------------------- MODULE MCDistillationDiscovery ----------------------
(***************************************************************************)
(* TLC instance: the turns of one project, which may be merged.            *)
(***************************************************************************)
EXTENDS DistillationDiscovery
CONSTANTS p1, p2
MCHintOf == [t \in Turn |-> p1]
=============================================================================
