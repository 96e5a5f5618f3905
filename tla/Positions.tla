----------------------------- MODULE Positions -----------------------------
(***************************************************************************)
(* Positions of a sequence picked by what stands at them, and numbers in   *)
(* their order: what a comprehension over a list, or sorted(), leaves.     *)
(***************************************************************************)
EXTENDS Integers, FiniteSets, Sequences

\* Where i comes among the numbers J, and which of them comes k-th.
PlaceOf(J, i) == Cardinality({j \in J : j <= i})
Nth(J, k)  == CHOOSE i \in J : PlaceOf(J, i) = k

\* What s holds at the positions I, in the order it stands in s.
At(s, I) == [k \in 1..Cardinality(I) |-> s[Nth(I, k)]]

\* The numbers of J in their order.
Ascending(J) == [k \in 1..Cardinality(J) |-> Nth(J, k)]
=============================================================================
