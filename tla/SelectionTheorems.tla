-------------------------- MODULE SelectionTheorems --------------------------
(***************************************************************************)
(* What Filtered leaves of a sequence: the chosen elements, all of them,   *)
(* in the order they had.                                                  *)
(***************************************************************************)
EXTENDS Selections, FiniteSetTheorems, TLAPS

\* The rank numbers the positions in their order.
LEMMA RankIs ==
    ASSUME NEW J, J \subseteq Nat, IsFiniteSet(J)
    PROVE  /\ \A i \in J : Rank(J, i) \in 1 .. Cardinality(J)
           /\ \A i, k \in J : i < k => Rank(J, i) < Rank(J, k)
           /\ \A j \in 1 .. Cardinality(J) : \E i \in J : Rank(J, i) = j
<1> DEFINE U(i) == {k \in J : k <= i}
<1>1. ASSUME NEW i \in J PROVE Rank(J, i) \in 1 .. Cardinality(J)
  <2>1. IsFiniteSet(U(i)) /\ Cardinality(U(i)) <= Cardinality(J)
    BY FS_Subset
  <2>2. U(i) # {}
    <3>1. i \in U(i)
      OBVIOUS
    <3> QED BY <3>1
  <2>3. Cardinality(U(i)) \in Nat /\ Cardinality(J) \in Nat /\ Cardinality(U(i)) # 0
    BY <2>1, <2>2, FS_CardinalityType, FS_EmptySet
  <2> QED BY <2>1, <2>3 DEF Rank
<1>2. ASSUME NEW i \in J, NEW k \in J, i < k PROVE Rank(J, i) < Rank(J, k)
  <2>1. IsFiniteSet(U(k)) /\ IsFiniteSet(U(i))
    BY FS_Subset
  <2>2. U(i) \in SUBSET U(k) /\ k \in U(k) /\ k \notin U(i)
    <3>1. \A x \in J : x <= i => x <= k
      BY <1>2
    <3>2. k <= k /\ ~(k <= i)
      BY <1>2
    <3> QED BY <3>1, <3>2
  <2>3. Cardinality(U(i)) <= Cardinality(U(k)) /\ Cardinality(U(k)) # Cardinality(U(i))
    BY <2>1, <2>2, FS_Subset
  <2>4. Cardinality(U(i)) \in Nat /\ Cardinality(U(k)) \in Nat
    BY <2>1, FS_CardinalityType
  <2> QED BY <2>3, <2>4 DEF Rank
<1>3. ASSUME NEW j \in 1 .. Cardinality(J) PROVE \E i \in J : Rank(J, i) = j
  <2> DEFINE T == 1 .. Cardinality(J)
             f == [i \in J |-> Rank(J, i)]
  <2>1. Cardinality(J) \in Nat
    BY FS_CardinalityType
  <2>2. IsFiniteSet(T) /\ Cardinality(T) = Cardinality(J)
    BY <2>1, FS_Interval
  <2>3. f \in Injection(J, T)
    <3>1. f \in [J -> T]
      BY <1>1
    <3>2. ASSUME NEW a \in J, NEW b \in J, f[a] = f[b] PROVE a = b
      <4>1. Rank(J, a) = Rank(J, b) /\ Rank(J, a) \in Nat /\ Rank(J, b) \in Nat
        BY <1>1, <3>2, <2>1
      <4>2. ~(a < b) /\ ~(b < a)
        BY <1>2, <4>1
      <4> QED BY <4>2
    <3> QED BY <3>1, <3>2 DEF Injection, IsInjective
  <2>4. f \in Surjection(J, T)
    <3> HIDE DEF f, T
    <3> QED BY <2>2, <2>3, FS_Injection
  <2>5. PICK i \in J : f[i] = j
    BY <2>4 DEF Surjection
  <2> QED BY <2>5
<1> QED BY <1>1, <1>2, <1>3

\* What is kept stands at increasing places of the old sequence, and nothing chosen is left out.
LEMMA FilteredIs ==
    ASSUME NEW S, NEW s \in Seq(S), NEW J \in SUBSET DOMAIN s
    PROVE  /\ Filtered(s, J) \in Seq(S) /\ Len(Filtered(s, J)) = Cardinality(J)
           /\ Cardinality(J) \in Nat /\ Cardinality(J) <= Len(s)
           /\ \E p \in [1 .. Cardinality(J) -> J] :
                /\ \A j \in 1 .. Cardinality(J) : Filtered(s, J)[j] = s[p[j]]
                /\ \A i \in J : \E j \in 1 .. Cardinality(J) : p[j] = i
                /\ \A i, j \in 1 .. Cardinality(J) : i < j => p[i] < p[j]
<1> DEFINE n == Cardinality(J)
           p == [j \in 1 .. n |-> CHOOSE i \in J : Rank(J, i) = j]
           t == Filtered(s, J)
<1>1. DOMAIN s = 1 .. Len(s) /\ Len(s) \in Nat
  OBVIOUS
<1>2. J \subseteq Nat /\ IsFiniteSet(J) /\ n <= Len(s)
  <2>1. IsFiniteSet(1 .. Len(s)) /\ Cardinality(1 .. Len(s)) = Len(s)
    <3>1. \A m \in Nat : IsFiniteSet(1 .. m) /\ Cardinality(1 .. m) = m
      BY FS_Interval
    <3> QED BY <1>1, <3>1
  <2> QED BY <1>1, <2>1, FS_Subset
<1>3. n \in Nat
  BY <1>2, FS_CardinalityType
<1>4. /\ \A i \in J : Rank(J, i) \in 1 .. n
      /\ \A i, k \in J : i < k => Rank(J, i) < Rank(J, k)
      /\ \A j \in 1 .. n : \E i \in J : Rank(J, i) = j
  BY <1>2, RankIs
<1>5. \A j \in 1 .. n : p[j] \in J /\ Rank(J, p[j]) = j
  BY <1>4
<1>6. p \in [1 .. n -> J]
  BY <1>5
<1>7. ASSUME NEW i \in J, NEW k \in J, Rank(J, i) = Rank(J, k) PROVE i = k
  <2>1. i \in Nat /\ k \in Nat /\ Rank(J, i) \in Nat
    BY <1>2, <1>3, <1>4
  <2>2. ~(i < k) /\ ~(k < i)
    BY <1>4, <1>7, <2>1
  <2> QED BY <2>1, <2>2
<1>8. t = [j \in 1 .. n |-> s[p[j]]]
  BY DEF Filtered
<1> HIDE DEF p, t
<1>9. \A j \in 1 .. n : s[p[j]] \in S
  BY <1>1, <1>5
<1>10. t \in Seq(S) /\ Len(t) = n
  BY <1>3, <1>8, <1>9
<1>11. \A i \in J : Rank(J, i) \in 1 .. n /\ p[Rank(J, i)] = i
  BY <1>4, <1>5, <1>7
<1>12. ASSUME NEW i \in 1 .. n, NEW j \in 1 .. n, i < j PROVE p[i] < p[j]
  <2>1. p[i] \in J /\ p[j] \in J /\ p[i] \in Nat /\ p[j] \in Nat /\ Rank(J, p[i]) = i /\ Rank(J, p[j]) = j
    BY <1>2, <1>5
  <2>2. p[i] # p[j] /\ ~(p[j] < p[i])
    BY <1>3, <1>4, <1>12, <2>1
  <2> QED BY <2>1, <2>2
<1>13. \A j \in 1 .. n : t[j] = s[p[j]]
  BY <1>8
<1>14. \A i \in J : \E j \in 1 .. n : p[j] = i
  BY <1>11
<1> QED BY <1>2, <1>3, <1>6, <1>10, <1>12, <1>13, <1>14 DEF t

Ascending(q) == \A i, j \in DOMAIN q : i < j => q[i] < q[j]
InSeq(e, q) == \E i \in DOMAIN q : q[i] = e

\* What is kept of an ascending sequence of numbers ascends.
LEMMA ChosenIs ==
    ASSUME NEW S, S \subseteq Nat, NEW p \in Seq(S), Ascending(p), NEW J \in SUBSET DOMAIN p
    PROVE  /\ Filtered(p, J) \in Seq(S) /\ Ascending(Filtered(p, J))
           /\ \A j \in DOMAIN Filtered(p, J) : \E i \in J : Filtered(p, J)[j] = p[i]
           /\ \A i \in J : InSeq(p[i], Filtered(p, J))
<1> DEFINE t == Filtered(p, J)  n == Cardinality(J)
<1>1. t \in Seq(S) /\ Len(t) = n /\ n \in Nat /\
      \E g \in [1 .. n -> J] : /\ \A j \in 1 .. n : t[j] = p[g[j]]
                               /\ \A i \in J : \E j \in 1 .. n : g[j] = i
                               /\ \A i, j \in 1 .. n : i < j => g[i] < g[j]
  BY FilteredIs
<1>2. PICK g \in [1 .. n -> J] : /\ \A j \in 1 .. n : t[j] = p[g[j]]
                                 /\ \A i \in J : \E j \in 1 .. n : g[j] = i
                                 /\ \A i, j \in 1 .. n : i < j => g[i] < g[j]
  BY <1>1
<1> HIDE DEF t, n
<1>3. DOMAIN t = 1 .. n
  BY <1>1
<1>4. \A j \in 1 .. n : g[j] \in J /\ g[j] \in DOMAIN p
  BY <1>2
<1>5. Ascending(t)
  BY <1>2, <1>3, <1>4 DEF Ascending
<1>6. \A i \in J : InSeq(p[i], t)
  BY <1>2, <1>3, <1>4 DEF InSeq
<1> QED BY <1>1, <1>2, <1>3, <1>4, <1>5, <1>6 DEF t
=============================================================================
