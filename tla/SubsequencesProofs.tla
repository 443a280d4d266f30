------------------------- MODULE SubsequencesProofs -------------------------
(***************************************************************************)
(* Lemmas about Subsequences.                                              *)
(***************************************************************************)
EXTENDS Subsequences, TLAPS, FiniteSetTheorems, SequenceTheorems

\* What is left of s is a sequence of entries of s in their order.
LEMMA FilteredEmbeds ==
    ASSUME NEW S, NEW s \in Seq(S), NEW I \in SUBSET DOMAIN s,
           NEW r \in Filtered(s, I)
    PROVE  /\ Cardinality(I) \in Nat
           /\ r \in Seq(S)
           /\ Len(r) = Cardinality(I)
           /\ \E g \in [1..Len(r) -> I] :
                /\ \A a, b \in 1..Len(r) : a < b => g[a] < g[b]
                /\ \A j \in 1..Len(r) : r[j] = s[g[j]]
<1>1. IsFiniteSet(I)
  <2>1. IsFiniteSet(1..Len(s))
    BY FS_Interval
  <2>2. DOMAIN s = 1..Len(s)
    OBVIOUS
  <2>3. QED
    BY <2>1, <2>2, FS_Subset
<1>2. Cardinality(I) \in Nat
  BY <1>1, FS_CardinalityType
<1> DEFINE n == Cardinality(I)
<1>3. PICK f \in [1..n -> I] :
        /\ \A a, b \in 1..n : a < b => f[a] < f[b]
        /\ r = [j \in 1..n |-> s[f[j]]]
  BY DEF Filtered
<1>4. r \in Seq(S) /\ Len(r) = n
  BY <1>2, <1>3
<1>5. QED
  BY <1>2, <1>3, <1>4
\* The entries left are those at the indices kept, all of them.
LEMMA FilteredEntries ==
    ASSUME NEW S, NEW q \in Seq(S), NEW I \in SUBSET DOMAIN q,
           NEW r \in Filtered(q, I)
    PROVE  /\ \A i \in DOMAIN r : \E k \in I : r[i] = q[k]
           /\ \A k \in I : \E i \in DOMAIN r : r[i] = q[k]
<1>1. /\ Cardinality(I) \in Nat /\ Len(r) = Cardinality(I)
      /\ r \in Seq(S) /\ DOMAIN r = 1..Len(r)
  BY FilteredEmbeds
<1>2. PICK g \in [1..Len(r) -> I] :
        /\ \A a, b \in 1..Len(r) : a < b => g[a] < g[b]
        /\ \A j \in 1..Len(r) : r[j] = q[g[j]]
  BY FilteredEmbeds
<1>3. \A i \in DOMAIN r : \E k \in I : r[i] = q[k]
  BY <1>1, <1>2
<1>4. IsFiniteSet(I) /\ I \in SUBSET Nat
  <2>1. IsFiniteSet(1..Len(q))
    BY FS_Interval
  <2>2. DOMAIN q = 1..Len(q)
    OBVIOUS
  <2>3. QED
    BY <2>1, <2>2, FS_Subset
<1>5. g \in Surjection(1..Len(r), I)
  <2>1. \A a, b \in 1..Len(r) : g[a] = g[b] => a = b
    <3>1. SUFFICES ASSUME NEW a \in 1..Len(r), NEW b \in 1..Len(r), a # b
                   PROVE  g[a] # g[b]
      OBVIOUS
    <3>2. g[a] \in Nat /\ g[b] \in Nat /\ (a < b \/ b < a)
      BY <1>1, <1>2, <1>4, <3>1
    <3>3. QED
      BY <1>2, <3>2
  <2>2. g \in Injection(1..Len(r), I)
    BY <1>2, <2>1 DEF Injection, IsInjective
  <2>3. IsFiniteSet(1..Len(r)) /\ Cardinality(1..Len(r)) = Len(r)
    BY <1>1, FS_Interval
  <2>4. QED
    BY <1>1, <1>4, <2>2, <2>3, FS_Injection
<1>6. \A k \in I : \E i \in DOMAIN r : r[i] = q[k]
  BY <1>1, <1>2, <1>5 DEF Surjection
<1>7. QED
  BY <1>3, <1>6
=============================================================================
