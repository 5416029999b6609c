------------------------------ MODULE Selection ------------------------------
(***************************************************************************)
(* Selections that keep the order of what they select from: the list       *)
(* comprehensions and the sorts of the source, said by what they return.   *)
(***************************************************************************)
EXTENDS Naturals, FiniteSets, Sequences

\* The member of a finite set of numbers that has k - 1 smaller ones in it.
Nth(S, k) == CHOOSE n \in S : Cardinality({m \in S : m < n}) = k - 1

\* Its members in increasing order.
InOrder(S) == [k \in 1 .. Cardinality(S) |-> Nth(S, k)]

\* The elements of a list at some of its positions.
At(list, positions) == [k \in 1 .. Cardinality(positions) |-> list[Nth(positions, k)]]

\* The elements of a list that pass a test.
Selected(list, Test(_)) == At(list, {i \in 1 .. Len(list) : Test(list[i])})
=============================================================================
