------------------------------- MODULE Ordered -------------------------------
(***************************************************************************)
(* A finite set of numbers in its order, the elements of a sequence at     *)
(* some of its positions, and a set in the order of its members' weights.  *)
(***************************************************************************)
EXTENDS Naturals, FiniteSets

\* The member of S that has k members up to it
Nth(S, k) == CHOOSE n \in S : Cardinality({m \in S : m <= n}) = k

InOrder(S) == [k \in 1..Cardinality(S) |-> Nth(S, k)]

\* The elements of seq at the given positions
At(seq, positions) == [k \in 1..Cardinality(positions) |-> seq[Nth(positions, k)]]

\* The domain of weight, the heaviest first; the order of equals is not said
Descending(weight) ==
    LET n == Cardinality(DOMAIN weight)
    IN  CHOOSE seq \in [1..n -> DOMAIN weight] :
            \A i, j \in 1..n : i < j => seq[i] # seq[j] /\ weight[seq[i]] >= weight[seq[j]]
=============================================================================
