----------------------------- MODULE MCFileLock -----------------------------
(***************************************************************************)
(* TLC instance for queues and hosts: host h1 runs p1, with two callers    *)
(* that queue behind one another, and p2; host h2 runs p3.                 *)
(***************************************************************************)
EXTENDS FileLock

CONSTANTS c1, c2, c3, c4, p1, p2, p3, h1, h2

MCProcOf == [c \in Caller |-> CASE c \in {c1, c2} -> p1 [] c = c3 -> p2 [] OTHER -> p3]
MCHostOf == [p \in Process |-> IF p = p3 THEN h2 ELSE h1]
=============================================================================
