----------------------------- MODULE Selection -----------------------------
(***************************************************************************)
(* What the watchers' filters do to a list: a loop appends the elements at *)
(* some of its places to a new list, in order.                             *)
(***************************************************************************)
EXTENDS Integers, Sequences, FiniteSets

\* The k-th of a set of places, and all of them from the first to the last.
Nth(places, k) == CHOOSE i \in places : Cardinality({j \in places : j <= i}) = k
InOrder(places) == [k \in 1..Cardinality(places) |-> Nth(places, k)]

\* The elements of a sequence at these places.
Picked(seq, places) == [k \in 1..Cardinality(places) |-> seq[InOrder(places)[k]]]
=============================================================================
