-------------------------------- MODULE Orders --------------------------------
(***************************************************************************)
(* Listings: elements in an order, and those of a list that are picked.    *)
(***************************************************************************)
EXTENDS Integers, FiniteSets

\* Those of S that fewer than n others precede.
First(S, n, Before(_, _)) == {x \in S : Cardinality({y \in S : Before(y, x)}) < n}

\* The elements of S one after the other; Before is a strict total order of them.
Sorted(S, Before(_, _)) ==
  [n \in 1..Cardinality(S) |-> CHOOSE x \in S : Cardinality({y \in S : Before(y, x)}) = n - 1]

\* Places of a list from the first to the last, and the elements there.
InTurn(places) == Sorted(places, LAMBDA i, j : i < j)
Picked(list, places) == [n \in DOMAIN InTurn(places) |-> list[InTurn(places)[n]]]
=============================================================================
