------------------------------ MODULE Ordering ------------------------------
(***************************************************************************)
(* A set put in order, as sort.Slice does it when no two elements tie: the *)
(* i-th element is the one with i - 1 before it.  (SetToSortSeq of the     *)
(* community modules says the same, but rests on SortSeq, of which nothing *)
(* can be proved.)                                                         *)
(***************************************************************************)
EXTENDS FiniteSets, Integers

Ordered(S, before(_, _)) ==
  [i \in 1 .. Cardinality(S) |->
     CHOOSE x \in S : Cardinality({y \in S : before(y, x)}) = i - 1]
=============================================================================
