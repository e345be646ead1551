------------------------------ MODULE Positions ------------------------------
(***************************************************************************)
(* A list is filtered by the places that stay in it: what is kept keeps    *)
(* its order.  (The filters of the code are iterators over a list.)        *)
(***************************************************************************)
EXTENDS Naturals, FiniteSets

NthOf(places, n) == CHOOSE i \in places : Cardinality({j \in places : j <= i}) = n

Picked(s, places) == [n \in 1..Cardinality(places) |-> s[NthOf(places, n)]]
=============================================================================
