-------------------------------- MODULE Lists --------------------------------
(***************************************************************************)
(* What the code does with lists, where more than one module needs it.     *)
(***************************************************************************)
EXTENDS Naturals, Sequences

\* The elements of a list that are in S, in their order (Array.filter).
Filter(list, S) ==
  LET some[n \in 0 .. Len(list)] ==
        IF n = 0 THEN <<>>
        ELSE IF list[n] \in S THEN Append(some[n - 1], list[n]) ELSE some[n - 1]
  IN some[Len(list)]
=============================================================================
