------------------------------- MODULE Ordering -------------------------------
(***************************************************************************)
(* What sorted() and ORDER BY return: the members of a finite set, each    *)
(* once, in the order of a strict total order.  SetToSortSeq of the        *)
(* community modules is the same sequence, but provers cannot expand the   *)
(* operators it is built on.                                               *)
(***************************************************************************)
EXTENDS Naturals, FiniteSets

InOrder(S, precedes(_, _)) ==
  CHOOSE s \in [1..Cardinality(S) -> S] : \A i, j \in DOMAIN s : i < j => precedes(s[i], s[j])

\* A set of numbers, from the least to the greatest.
Ascending(S) == InOrder(S, <)
=============================================================================
