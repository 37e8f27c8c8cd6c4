-------------------------------- MODULE Sums --------------------------------
(***************************************************************************)
(* The sum of a sequence of numbers, such as a size kept while a list is   *)
(* gone through.                                                           *)
(***************************************************************************)
EXTENDS Naturals, Sequences

Summed(size) ==
  LET upTo[n \in 0..Len(size)] == IF n = 0 THEN 0 ELSE upTo[n - 1] + size[n]
  IN upTo[Len(size)]
=============================================================================
