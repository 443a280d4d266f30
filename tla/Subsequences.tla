---------------------------- MODULE Subsequences ----------------------------
(***************************************************************************)
(* JavaScript's `filter` without recursion, so that proofs can speak about *)
(* what it leaves.                                                         *)
(***************************************************************************)
EXTENDS Naturals, Sequences, FiniteSets

\* The entries of s at the indices I, in order, as the only member of a set.
Filtered(s, I) ==
    {[j \in 1..Cardinality(I) |-> s[f[j]]] :
        f \in {g \in [1..Cardinality(I) -> I] :
                 \A a, b \in 1..Cardinality(I) : a < b => g[a] < g[b]}}
=============================================================================
