------------------------------ MODULE Ascending -----------------------------
(***************************************************************************)
(* The members of a finite set of numbers, smallest first.                 *)
(***************************************************************************)
EXTENDS Naturals, FiniteSets

\* How many members are smaller.
Rank(i, S) == Cardinality({j \in S : j < i})

InOrder(S) == [n \in 1..Cardinality(S) |-> CHOOSE i \in S : Rank(i, S) = n - 1]
=============================================================================
