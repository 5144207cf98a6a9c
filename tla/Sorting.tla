------------------------------ MODULE Sorting ------------------------------
(***************************************************************************)
(* What a sort returns, for a total order on the members of a finite set:   *)
(* each member stands behind as many as come before it.  (The community     *)
(* modules' SetToSortSeq is the same sequence, but rests on TLC's SortSeq,  *)
(* of which nothing can be proved.)                                         *)
(***************************************************************************)
EXTENDS Integers, FiniteSets

InOrder(S, Before(_, _)) ==
    [i \in 1 .. Cardinality(S) |->
        CHOOSE x \in S : Cardinality({y \in S : Before(y, x)}) = i - 1]

Ascending(S) == InOrder(S, LAMBDA a, b : a < b)
=============================================================================
