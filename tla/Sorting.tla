------------------------------- MODULE Sorting -------------------------------
(***************************************************************************)
(* The elements of a finite set in an order.  It stands for sort, sort_by  *)
(* and sort_unstable of Rust's and Python's libraries where no two         *)
(* elements are equal.                                                     *)
(***************************************************************************)
EXTENDS Integers, FiniteSets

\* The element that comes n-th when Before is a strict total order: n - 1 of
\* the others are before it.
SortedBy(S, Before(_, _)) ==
  [n \in 1..Cardinality(S) |->
     CHOOSE x \in S : Cardinality({y \in S : Before(y, x)}) = n - 1]
==============================================================================
