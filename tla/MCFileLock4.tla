----------------------------- MODULE MCFileLock4 -----------------------------
(***************************************************************************)
(* TLC instance for reclaiming: four processes of one host, one caller     *)
(* each, interchangeable.                                                  *)
(***************************************************************************)
EXTENDS FileLock, TLC

CONSTANT h1

Itself == [c \in Caller |-> c]
OneHost == [p \in Process |-> h1]
Interchangeable == Permutations(Caller)
=============================================================================
