------------------------------- MODULE Places -------------------------------
(***************************************************************************)
(* Lists filtered by the places that stay: what array.filter and a WHERE   *)
(* leave of a list, in a form that can be reasoned about.                  *)
(***************************************************************************)
EXTENDS Integers, FiniteSets

\* The n-th of some places.
Nth(places, n) == CHOOSE i \in places : Cardinality({j \in places : j <= i}) = n

\* The elements of a list at some of its places, in their order.
ElementsAt(list, places) ==
    [n \in 1 .. Cardinality(places) |-> list[Nth(places, n)]]

=============================================================================
