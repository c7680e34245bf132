---------------------------- MODULE Subsequence ----------------------------
(***************************************************************************)
(* What a loop of the server leaves that copies some entries of an array   *)
(* into another one, in their order: SelectSeq with the set of positions   *)
(* for the test, and without recursion, so that it can be proved about.    *)
(***************************************************************************)
EXTENDS Naturals, Sequences, FiniteSets

\* The k-th of the numbers in at.
Nth(at, k) == CHOOSE i \in at : Cardinality({j \in at : j < i}) = k - 1

\* The entries of s at the positions in at.
Entries(s, at) == [k \in 1..Cardinality(at) |-> s[Nth(at, k)]]
=============================================================================
