------------------------------ MODULE Listing ------------------------------
(* The members of a finite set of numbers, from the least. *)
EXTENDS Naturals, FiniteSets

Rank(S, n) == Cardinality({m \in S : m <= n})

Listed(S) == [k \in 1 .. Cardinality(S) |-> CHOOSE n \in S : Rank(S, n) = k]
=============================================================================
