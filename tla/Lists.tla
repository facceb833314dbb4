------------------------------- MODULE Lists -------------------------------
(***************************************************************************)
(* Sorting and filtering, said in a way that can be proved about.          *)
(* SetToSortSeq and SelectSeq do the same, but they rest on SortSeq and on *)
(* recursion inside the standard modules, of which the proof system knows  *)
(* nothing.                                                                *)
(***************************************************************************)
EXTENDS Integers, SequencesExt

(* The elements of a finite set in the order op, a strict total order.     *)
Listing(S, op(_, _)) ==
    CHOOSE f \in Bijection(1 .. Cardinality(S), S) : IsSorted(f, op)

Increasing(S) == Listing(S, <)

(* What is left of s when a filter keeps the positions P.                  *)
Picked(s, P) == [k \in 1 .. Cardinality(P) |-> s[Increasing(P)[k]]]
=============================================================================
