-------------------------------- MODULE Parts --------------------------------
(***************************************************************************)
(* Parts of a sequence, by the ranks of the places they are at: what a     *)
(* filter keeps, without recursion.                                        *)
(***************************************************************************)
EXTENDS Integers, Sequences, FiniteSets

\* The part of sequence s that is at the places in S, in their order.
Rank(S, k)   == Cardinality({j \in S : j <= k})
Place(S, n)  == CHOOSE k \in {j \in S : Rank(S, j) = n} : TRUE
PartOf(s, S) == [n \in 1..Cardinality(S) |-> s[Place(S, n)]]

=============================================================================
