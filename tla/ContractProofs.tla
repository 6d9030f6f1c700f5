---------------------------- MODULE ContractProofs ----------------------------
(***************************************************************************)
(* Proofs about the governance and the bridge contract.                    *)
(*                                                                         *)
(* Governance: for every set of accounts, weight table, word size, voting  *)
(* period and timelock, an address is counted once per proposal, the       *)
(* tallies that execute_proposal divides by are not zero, nothing is       *)
(* executed before its timelock, and a closed vote stays as it was         *)
(* counted.                                                                *)
(*                                                                         *)
(* Bridge: whatever roots the oracle publishes and lets expire, a document *)
(* is served only under an unexpired root that contains it; and whatever   *)
(* window length and quota are configured, a resolver is served at most    *)
(* its quota in the open window and twice that in any stretch of one       *)
(* window length.                                                          *)
(***************************************************************************)
EXTENDS Governance, DidBridge, Functions, FiniteSetsExt, FiniteSetTheorems,
        WellFoundedInduction, TLAPS

-----------------------------------------------------------------------------
(* Finite sums: what the fold operators compute when they add up the       *)
(* values of a function over a finite set of its arguments.  Folds defines *)
(* them by recursion on an arbitrary choice of the next argument; the      *)
(* lemmas say that the recursion has a solution and that the order does    *)
(* not matter.  Induction is by a least counterexample: the finite subsets *)
(* of a set are well founded under strict inclusion.                       *)

Sum(f, S) == SumFunctionOnSet(f, S)

\* The argument the folds add next
Pick(s) == CHOOSE x \in s : TRUE

\* g solves the recursion that defines the sums of f over the subsets of S.
Solves(g, f, S) ==
    g = [s \in SUBSET S |-> IF s = {} THEN 0 ELSE f[Pick(s)] + g[s \ {Pick(s)}]]

\* A nonempty collection of subsets of a finite set has a minimal member.
LEMMA MinimalSubset ==
    ASSUME NEW S, IsFiniteSet(S), NEW C \in SUBSET SUBSET S, C # {}
    PROVE  \E m \in C : \A s \in C : s \subseteq m => s = m
<1> DEFINE R == StrictSubsetOrdering(S)
<1>1. IsWellFoundedOn(R, FiniteSubsetsOf(S))
  BY FS_StrictSubsetOrderingWellFounded
<1>2. C \subseteq FiniteSubsetsOf(S)
  BY FS_Subset DEF FiniteSubsetsOf
<1> HIDE DEF R
<1>3. PICK m \in C : \A s \in C : ~ (<<s, m>> \in R)
  BY <1>1, <1>2, WFMin
<1> USE DEF R
<1>4. ASSUME NEW s \in C, s \subseteq m PROVE s = m
  BY <1>3, <1>4 DEF StrictSubsetOrdering
<1> QED BY <1>3, <1>4

\* What the folds compute.
LEMMA SumIsFold ==
    ASSUME NEW f, NEW S
    PROVE  Sum(f, S) = (CHOOSE g : Solves(g, f, S))[S]
  BY DEF Sum, SumFunctionOnSet, FoldFunctionOnSet, MapThenFoldSet, Solves, Pick

LEMMA PickIn == ASSUME NEW s, s # {} PROVE Pick(s) \in s
  BY DEF Pick

\* Solutions over two sets agree on the subsets of both.
LEMMA SolutionsAgree ==
    ASSUME NEW S, IsFiniteSet(S), NEW T \in SUBSET S, NEW f, NEW g, NEW h,
           Solves(g, f, S), Solves(h, f, T)
    PROVE  \A s \in SUBSET T : g[s] = h[s]
<1> DEFINE C == {s \in SUBSET T : g[s] # h[s]}
<1> SUFFICES ASSUME C # {} PROVE FALSE
  OBVIOUS
<1>1. IsFiniteSet(T) /\ C \in SUBSET SUBSET T
  BY FS_Subset
<1>2. PICK m \in C : \A s \in C : s \subseteq m => s = m
  <2> HIDE DEF C
  <2> QED BY <1>1, MinimalSubset
<1>3. m # {}
  BY <1>2 DEF Solves
<1>4. Pick(m) \in m
  BY <1>3, PickIn
<1>5. m \ {Pick(m)} \in SUBSET T /\ m \ {Pick(m)} \notin C
  BY <1>2, <1>4
<1> QED
  BY <1>2, <1>3, <1>5 DEF Solves

\* The recursion has a solution over a finite set.
LEMMA SolutionExists ==
    ASSUME NEW S, IsFiniteSet(S), NEW f, \A x \in S : f[x] \in Int
    PROVE  \E g \in [SUBSET S -> Int] : Solves(g, f, S)
<1> DEFINE C == {T \in SUBSET S : ~ \E g \in [SUBSET T -> Int] : Solves(g, f, T)}
<1> SUFFICES ASSUME C # {} PROVE FALSE
  OBVIOUS
<1>1. PICK m \in C : \A s \in C : s \subseteq m => s = m
  <2>1. C \in SUBSET SUBSET S
    OBVIOUS
  <2> HIDE DEF C
  <2> QED BY <2>1, MinimalSubset
<1> DEFINE Sol(T) == CHOOSE g \in [SUBSET T -> Int] : Solves(g, f, T)
<1>2. ASSUME NEW T \in SUBSET m, T # m
      PROVE  Sol(T) \in [SUBSET T -> Int] /\ Solves(Sol(T), f, T)
  BY <1>1, <1>2
<1> HIDE DEF Sol
<1> DEFINE Val(s) == IF s = {} THEN 0
                     ELSE f[Pick(s)] + Sol(s \ {Pick(s)})[s \ {Pick(s)}]
           g == [s \in SUBSET m |-> Val(s)]
<1>3. ASSUME NEW s \in SUBSET m PROVE Val(s) \in Int
  <2>1. CASE s = {}
    BY <2>1
  <2>2. CASE s # {}
    <3>1. Pick(s) \in s
      BY <2>2, PickIn
    <3>2. s \ {Pick(s)} \in SUBSET m /\ s \ {Pick(s)} # m
      BY <3>1
    <3>3. Sol(s \ {Pick(s)})[s \ {Pick(s)}] \in Int
      <4>1. Sol(s \ {Pick(s)}) \in [SUBSET (s \ {Pick(s)}) -> Int]
        BY <3>2, <1>2
      <4> QED BY <4>1
    <3>4. f[Pick(s)] \in Int
      BY <3>1, <1>1
    <3> QED BY <2>2, <3>3, <3>4
  <2> QED BY <2>1, <2>2
<1>4. ASSUME NEW s \in SUBSET m, s # {}
      PROVE  g[s \ {Pick(s)}] = Sol(s \ {Pick(s)})[s \ {Pick(s)}]
  <2> DEFINE t == s \ {Pick(s)}
  <2>1. Pick(s) \in s
    BY <1>4, PickIn
  <2>2. t \in SUBSET m /\ t # m
    BY <2>1
  <2>3. Solves(Sol(t), f, t)
    BY <2>2, <1>2
  <2>4. CASE t = {}
    BY <2>3, <2>4 DEF Solves
  <2>5. CASE t # {}
    <3> DEFINE u == t \ {Pick(t)}
    <3>1. Pick(t) \in t
      BY <2>5, PickIn
    <3>2. u \in SUBSET m /\ u # m /\ u \in SUBSET t
      BY <3>1, <2>2
    <3>3. Solves(Sol(u), f, u)
      BY <3>2, <1>2
    <3>4. Sol(t)[u] = Sol(u)[u]
      <4> HIDE DEF t, u
      <4>1. IsFiniteSet(m)
        BY FS_Subset
      <4>2. IsFiniteSet(t)
        BY <4>1, <2>2, FS_Subset
      <4> QED
        BY <4>2, <2>3, <3>2, <3>3, SolutionsAgree
    <3>5. Sol(t)[t] = f[Pick(t)] + Sol(t)[u]
      BY <2>3, <2>5 DEF Solves
    <3>6. g[t] = f[Pick(t)] + Sol(u)[u]
      BY <2>2, <2>5
    <3> QED BY <3>4, <3>5, <3>6
  <2> QED BY <2>4, <2>5
<1>5. Solves(g, f, m)
  <2>1. ASSUME NEW s \in SUBSET m
        PROVE  Val(s) = IF s = {} THEN 0 ELSE f[Pick(s)] + g[s \ {Pick(s)}]
    BY <1>4
  <2> HIDE DEF Val
  <2>2. g = [s \in SUBSET m |-> IF s = {} THEN 0 ELSE f[Pick(s)] + g[s \ {Pick(s)}]]
    BY <2>1
  <2> HIDE DEF g
  <2> QED BY <2>2 DEF Solves
<1>6. g \in [SUBSET m -> Int]
  BY <1>3
<1> QED BY <1>1, <1>5, <1>6

\* The fold over a subset is read off any solution over the whole set.
LEMMA SumSolution ==
    ASSUME NEW S, IsFiniteSet(S), NEW f, \A x \in S : f[x] \in Int, NEW g,
           Solves(g, f, S), NEW T \in SUBSET S
    PROVE  Sum(f, T) = g[T]
<1> DEFINE h == CHOOSE k : Solves(k, f, T)
<1>1. IsFiniteSet(T)
  BY FS_Subset
<1>2. \E k \in [SUBSET T -> Int] : Solves(k, f, T)
  BY <1>1, SolutionExists
<1>3. Solves(h, f, T)
  BY <1>2
<1>4. Sum(f, T) = h[T]
  BY SumIsFold
<1> HIDE DEF h
<1>5. \A s \in SUBSET T : g[s] = h[s]
  BY <1>3, SolutionsAgree
<1> QED BY <1>4, <1>5

\* The sum over no arguments is 0.
LEMMA SumEmpty == ASSUME NEW f PROVE Sum(f, {}) = 0
<1>1. IsFiniteSet({})
  BY FS_EmptySet
<1>2. PICK g : Solves(g, f, {})
  BY <1>1, SolutionExists
<1>3. Sum(f, {}) = g[{}]
  BY <1>1, <1>2, SumSolution
<1> QED BY <1>2, <1>3 DEF Solves

LEMMA SumStep ==
    ASSUME NEW S, IsFiniteSet(S), NEW f, \A x \in S : f[x] \in Int, S # {}
    PROVE  Sum(f, S) = f[Pick(S)] + Sum(f, S \ {Pick(S)})
<1>1. PICK g : Solves(g, f, S)
  BY SolutionExists
<1>2. Sum(f, S) = g[S]
  BY <1>1, SumSolution
<1>3. S \ {Pick(S)} \in SUBSET S
  OBVIOUS
<1>4. Sum(f, S \ {Pick(S)}) = g[S \ {Pick(S)}]
  BY <1>1, <1>3, SumSolution
<1> QED BY <1>1, <1>2, <1>4 DEF Solves

LEMMA SumInt ==
    ASSUME NEW S, IsFiniteSet(S), NEW f, \A x \in S : f[x] \in Int
    PROVE  Sum(f, S) \in Int
<1>1. PICK g \in [SUBSET S -> Int] : Solves(g, f, S)
  BY SolutionExists
<1>2. Sum(f, S) = g[S]
  BY <1>1, SumSolution
<1> QED BY <1>1, <1>2

\* The order of the arguments does not matter: any of them may be added last.
LEMMA SumRemove ==
    ASSUME NEW S, IsFiniteSet(S), NEW f, \A x \in S : f[x] \in Int, NEW x \in S
    PROVE  Sum(f, S) = f[x] + Sum(f, S \ {x})
<1> DEFINE Bad(s) == \E y \in s : Sum(f, s) # f[y] + Sum(f, s \ {y})
           C == {s \in SUBSET S : Bad(s)}
<1> SUFFICES ASSUME C # {} PROVE FALSE
  OBVIOUS
<1>1. PICK m \in C : \A s \in C : s \subseteq m => s = m
  <2>1. C \in SUBSET SUBSET S
    OBVIOUS
  <2> HIDE DEF C
  <2> QED BY <2>1, MinimalSubset
<1>2. PICK y \in m : Sum(f, m) # f[y] + Sum(f, m \ {y})
  BY <1>1
<1> DEFINE p == Pick(m)
<1>3. IsFiniteSet(m) /\ m # {} /\ m \in SUBSET S
  BY <1>1, <1>2, FS_Subset
<1>4. p \in m
  BY <1>3, PickIn
<1>5. Sum(f, m) = f[p] + Sum(f, m \ {p})
  BY <1>3, SumStep
<1>6. p # y
  BY <1>2, <1>5
<1> HIDE DEF p
<1>7. m \ {p} \in SUBSET S /\ m \ {y} \in SUBSET S /\ m \ {p} \notin C /\ m \ {y} \notin C
  BY <1>1, <1>3, <1>4
<1>8. Sum(f, m \ {p}) = f[y] + Sum(f, (m \ {p}) \ {y})
  BY <1>6, <1>7
<1>9. Sum(f, m \ {y}) = f[p] + Sum(f, (m \ {y}) \ {p})
  BY <1>4, <1>6, <1>7
<1>10. (m \ {p}) \ {y} = (m \ {y}) \ {p} /\ (m \ {p}) \ {y} \in SUBSET S
  BY <1>3
<1>11. Sum(f, (m \ {p}) \ {y}) \in Int
  <2> DEFINE t == (m \ {p}) \ {y}
  <2>1. IsFiniteSet(t) /\ \A z \in t : f[z] \in Int
    BY <1>10, FS_Subset
  <2> HIDE DEF t
  <2>2. Sum(f, t) \in Int
    BY <2>1, SumInt
  <2> QED BY <2>2 DEF t
<1>12. f[p] \in Int /\ f[y] \in Int
  BY <1>3, <1>4
<1>13. Sum(f, (m \ {p}) \ {y}) = Sum(f, (m \ {y}) \ {p})
  BY <1>10
<1> QED
  <2> DEFINE sm == Sum(f, m)
             a == Sum(f, m \ {p})
             b == Sum(f, m \ {y})
             c == Sum(f, (m \ {p}) \ {y})
  <2>1. sm # f[y] + b /\ sm = f[p] + a /\ a = f[y] + c /\ b = f[p] + c /\ c \in Int
    BY <1>2, <1>5, <1>8, <1>9, <1>11, <1>13
  <2> HIDE DEF sm, a, b, c
  <2> QED BY <2>1, <1>12

\* Adding an argument adds its value.
LEMMA SumAdd ==
    ASSUME NEW S, IsFiniteSet(S), NEW f, NEW x, x \notin S,
           \A y \in S \cup {x} : f[y] \in Int
    PROVE  Sum(f, S \cup {x}) = f[x] + Sum(f, S)
<1>1. IsFiniteSet(S \cup {x})
  BY FS_AddElement
<1>2. Sum(f, S \cup {x}) = f[x] + Sum(f, (S \cup {x}) \ {x})
  BY <1>1, SumRemove
<1>3. (S \cup {x}) \ {x} = S
  OBVIOUS
<1> QED BY <1>2, <1>3

\* Only the values on the set matter.
LEMMA SumSame ==
    ASSUME NEW S, IsFiniteSet(S), NEW f, NEW g, \A x \in S : f[x] \in Int /\ g[x] = f[x]
    PROVE  Sum(g, S) = Sum(f, S)
<1> DEFINE C == {s \in SUBSET S : Sum(g, s) # Sum(f, s)}
<1> SUFFICES ASSUME C # {} PROVE FALSE
  OBVIOUS
<1>1. PICK m \in C : \A s \in C : s \subseteq m => s = m
  <2>1. C \in SUBSET SUBSET S
    OBVIOUS
  <2> HIDE DEF C
  <2> QED BY <2>1, MinimalSubset
<1>2. m \in SUBSET S /\ IsFiniteSet(m) /\ Sum(g, m) # Sum(f, m)
  BY <1>1, FS_Subset
<1>3. m # {}
  BY <1>2, SumEmpty
<1>4. Pick(m) \in m
  BY <1>3, PickIn
<1>5. Sum(f, m) = f[Pick(m)] + Sum(f, m \ {Pick(m)})
  BY <1>2, <1>3, SumStep
<1>6. Sum(g, m) = g[Pick(m)] + Sum(g, m \ {Pick(m)})
  BY <1>2, <1>3, SumStep
<1>7. Sum(g, m \ {Pick(m)}) = Sum(f, m \ {Pick(m)})
  BY <1>1, <1>4
<1> QED BY <1>2, <1>4, <1>5, <1>6, <1>7

\* Sums of naturals are naturals.
LEMMA SumNat ==
    ASSUME NEW S, IsFiniteSet(S), NEW f, \A x \in S : f[x] \in Nat
    PROVE  Sum(f, S) \in Nat
<1> DEFINE C == {s \in SUBSET S : Sum(f, s) \notin Nat}
<1> SUFFICES ASSUME C # {} PROVE FALSE
  OBVIOUS
<1>1. PICK m \in C : \A s \in C : s \subseteq m => s = m
  <2>1. C \in SUBSET SUBSET S
    OBVIOUS
  <2> HIDE DEF C
  <2> QED BY <2>1, MinimalSubset
<1>2. m \in SUBSET S /\ IsFiniteSet(m) /\ Sum(f, m) \notin Nat
  BY <1>1, FS_Subset
<1>3. m # {}
  BY <1>2, SumEmpty
<1>4. Pick(m) \in m
  BY <1>3, PickIn
<1>5. Sum(f, m) = f[Pick(m)] + Sum(f, m \ {Pick(m)})
  BY <1>2, <1>3, SumStep
<1>6. Sum(f, m \ {Pick(m)}) \in Nat
  BY <1>1, <1>4
<1>7. f[Pick(m)] \in Nat
  BY <1>2, <1>4
<1> QED BY <1>2, <1>5, <1>6, <1>7

\* The sum over two disjoint sets is the sum of the sums.
LEMMA SumDisjoint ==
    ASSUME NEW S, IsFiniteSet(S), NEW T, IsFiniteSet(T), S \cap T = {},
           NEW f, \A x \in S \cup T : f[x] \in Int
    PROVE  Sum(f, S \cup T) = Sum(f, S) + Sum(f, T)
<1> DEFINE C == {s \in SUBSET S : Sum(f, s \cup T) # Sum(f, s) + Sum(f, T)}
<1> SUFFICES ASSUME C # {} PROVE FALSE
  OBVIOUS
<1>1. PICK m \in C : \A s \in C : s \subseteq m => s = m
  <2>1. C \in SUBSET SUBSET S
    OBVIOUS
  <2> HIDE DEF C
  <2> QED BY <2>1, MinimalSubset
<1>2. m \in SUBSET S /\ IsFiniteSet(m) /\ Sum(f, m \cup T) # Sum(f, m) + Sum(f, T)
  BY <1>1, FS_Subset
<1>3. Sum(f, T) \in Int
  BY SumInt
<1>4. m # {}
  <2> SUFFICES ASSUME m = {} PROVE FALSE
    OBVIOUS
  <2>1. Sum(f, m) = 0 /\ m \cup T = T
    BY SumEmpty
  <2> QED BY <1>2, <1>3, <2>1
<1> DEFINE p == Pick(m)
           n == m \ {p}
<1>5. p \in m
  BY <1>4, PickIn
<1>6. Sum(f, m) = f[p] + Sum(f, n)
  BY <1>2, <1>4, SumStep
<1> HIDE DEF p
<1>7. n \in SUBSET S /\ Sum(f, n \cup T) = Sum(f, n) + Sum(f, T)
  BY <1>1, <1>5
<1>8. m \cup T = (n \cup T) \cup {p} /\ p \notin n \cup T
  BY <1>2, <1>5
<1>9. IsFiniteSet(n) /\ IsFiniteSet(n \cup T)
  BY <1>7, FS_Subset, FS_Union
<1>10. \A y \in (n \cup T) \cup {p} : f[y] \in Int
  BY <1>2, <1>5
<1> HIDE DEF n
<1>11. Sum(f, m \cup T) = f[p] + Sum(f, n \cup T)
  <2> DEFINE u == n \cup T
  <2>1. IsFiniteSet(u) /\ p \notin u /\ \A y \in u \cup {p} : f[y] \in Int
    BY <1>8, <1>9, <1>10
  <2> HIDE DEF u
  <2>2. Sum(f, u \cup {p}) = f[p] + Sum(f, u)
    BY <2>1, SumAdd
  <2> QED BY <2>2, <1>8 DEF u
<1>12. f[p] \in Int /\ Sum(f, n) \in Int
  BY <1>7, <1>9, <1>10, SumInt
<1> QED BY <1>2, <1>3, <1>6, <1>7, <1>11, <1>12

\* A sum of naturals over fewer arguments is no larger.
LEMMA SumMonotone ==
    ASSUME NEW S, IsFiniteSet(S), NEW T \in SUBSET S, NEW f, \A x \in S : f[x] \in Nat
    PROVE  Sum(f, T) <= Sum(f, S)
<1>1. IsFiniteSet(T) /\ IsFiniteSet(S \ T)
  BY FS_Subset, FS_Difference
<1>2. T \cap (S \ T) = {} /\ T \cup (S \ T) = S
  OBVIOUS
<1>3. Sum(f, T \cup (S \ T)) = Sum(f, T) + Sum(f, S \ T)
  <2> DEFINE U == S \ T
  <2>1. IsFiniteSet(U) /\ T \cap U = {} /\ \A x \in T \cup U : f[x] \in Int
    BY <1>1
  <2> HIDE DEF U
  <2>2. Sum(f, T \cup U) = Sum(f, T) + Sum(f, U)
    BY <1>1, <2>1, SumDisjoint
  <2> QED BY <2>2 DEF U
<1>4. Sum(f, T) \in Nat /\ Sum(f, S \ T) \in Nat
  BY <1>1, SumNat
<1>5. Sum(f, T \cup (S \ T)) = Sum(f, S)
  BY <1>2
<1> QED BY <1>3, <1>4, <1>5

\* Zeros add nothing.
LEMMA SumZero ==
    ASSUME NEW S, IsFiniteSet(S), NEW f, \A x \in S : f[x] = 0
    PROVE  Sum(f, S) = 0
<1> DEFINE C == {s \in SUBSET S : Sum(f, s) # 0}
<1> SUFFICES ASSUME C # {} PROVE FALSE
  OBVIOUS
<1>1. PICK m \in C : \A s \in C : s \subseteq m => s = m
  <2>1. C \in SUBSET SUBSET S
    OBVIOUS
  <2> HIDE DEF C
  <2> QED BY <2>1, MinimalSubset
<1>2. m \in SUBSET S /\ IsFiniteSet(m) /\ Sum(f, m) # 0 /\ \A x \in m : f[x] \in Int
  BY <1>1, FS_Subset
<1>3. m # {}
  BY <1>2, SumEmpty
<1>4. Pick(m) \in m
  BY <1>3, PickIn
<1>5. Sum(f, m) = f[Pick(m)] + Sum(f, m \ {Pick(m)})
  BY <1>2, <1>3, SumStep
<1>6. Sum(f, m \ {Pick(m)}) = 0
  BY <1>1, <1>4
<1>7. f[Pick(m)] = 0
  BY <1>2, <1>4
<1> QED BY <1>2, <1>5, <1>6, <1>7

\* One more in one place is one more in the sum.
LEMMA SumIncrement ==
    ASSUME NEW S, IsFiniteSet(S), NEW f, NEW g, NEW x \in S, g[x] = f[x] + 1,
           \A y \in S : f[y] \in Int /\ (y # x => g[y] = f[y])
    PROVE  Sum(g, S) = Sum(f, S) + 1
<1> DEFINE U == S \ {x}
<1>1. IsFiniteSet(U) /\ \A y \in U : f[y] \in Int /\ g[y] = f[y]
  BY FS_RemoveElement
<1>2. Sum(f, S) = f[x] + Sum(f, U) /\ Sum(g, S) = g[x] + Sum(g, U)
  BY SumRemove
<1> HIDE DEF U
<1>3. Sum(g, U) = Sum(f, U) /\ Sum(f, U) \in Int
  BY <1>1, SumSame, SumInt
<1> QED BY <1>2, <1>3

-----------------------------------------------------------------------------
(* The tallies. *)

LEMMA WrapType == ASSUME NEW n \in Int PROVE Wrap(n) \in 0..(U64 - 1) /\ Wrap(n) \in Nat
  BY ConstantsAssumption DEF Wrap

LEMMA WeightsFinite ==
    ASSUME GovTypeOK
    PROVE  /\ IsFiniteSet(DOMAIN weights)
           /\ \A a \in DOMAIN weights : weights[a] \in Nat
<1>1. CASE weights \in WeightTables
  BY <1>1, ConstantsAssumption DEF Range
<1>2. CASE weights = [a \in {} |-> 0]
  <2>1. DOMAIN weights = {}
    BY <1>2
  <2> QED BY <2>1, FS_EmptySet
<1> QED BY <1>1, <1>2 DEF GovTypeOK

LEMMA PowerType == ASSUME GovTypeOK, NEW v PROVE voting_power(v) \in Nat
  BY WeightsFinite DEF voting_power

\* The divisor of the quorum check is positive, whatever the weights add up to.
LEMMA TotalPowerPositive == ASSUME GovTypeOK PROVE total_voting_power \in Nat \ {0}
<1>1. SumFunction(weights) = Sum(weights, DOMAIN weights)
  BY DEF Sum, SumFunction
<1>2. SumFunction(weights) \in Nat
  BY <1>1, WeightsFinite, SumNat
<1>3. Wrap(SumFunction(weights)) \in Nat
  BY <1>2, WrapType
<1> QED BY <1>3 DEF total_voting_power

-----------------------------------------------------------------------------
(* Types. *)

\* What vote stores: the ballot is added to one of the tallies, the voter to the list.
LEMMA VoteWrites ==
    ASSUME GovTypeOK, NEW v \in Voter, NEW id \in ProposalId, NEW yes \in BOOLEAN, Vote(v, id, yes)
    PROVE  \E q \in Proposal : /\ proposals' = [proposals EXCEPT ![id] = q]
                               /\ q.voters = Append(proposals[id].voters, v)
                               /\ q.executed = proposals[id].executed
<1> DEFINE p == proposals[id]
           y == IF yes THEN Wrap(p.yes_votes + voting_power(v)) ELSE p.yes_votes
           n == IF yes THEN p.no_votes ELSE Wrap(p.no_votes + voting_power(v))
           q == [p EXCEPT !.yes_votes = y, !.no_votes = n, !.voters = Append(@, v)]
<1>1. p \in Proposal
  BY DEF Vote, GovTypeOK
<1>2. p.yes_votes \in Nat /\ p.no_votes \in Nat /\ p.voters \in Seq(Voter)
  BY <1>1 DEF Proposal
<1>3. y \in Nat /\ n \in Nat
  <2>1. voting_power(v) \in Nat
    BY PowerType
  <2>2. p.yes_votes + voting_power(v) \in Int /\ p.no_votes + voting_power(v) \in Int
    BY <1>2, <2>1
  <2>3. Wrap(p.yes_votes + voting_power(v)) \in Nat /\ Wrap(p.no_votes + voting_power(v)) \in Nat
    BY <2>2, WrapType
  <2> QED BY <1>2, <2>3
<1>4. Append(p.voters, v) \in Seq(Voter)
  BY <1>2
<1>5. proposals' = [proposals EXCEPT ![id] = q]
  BY DEF Vote
<1>6. q \in Proposal /\ q.voters = Append(p.voters, v) /\ q.executed = p.executed
  <2> HIDE DEF p, y, n
  <2> QED BY <1>1, <1>3, <1>4 DEF Proposal
<1> HIDE DEF q
<1> QED BY <1>5, <1>6

LEMMA InitTypeOK == GovInit => GovTypeOK
  BY ConstantsAssumption DEF GovInit, GovTypeOK, DEFAULT_QUORUM, DEFAULT_THRESHOLD

LEMMA TypeStep == GovTypeOK /\ [GovNext]_govVars => GovTypeOK'
<1> SUFFICES ASSUME GovTypeOK, [GovNext]_govVars PROVE GovTypeOK'
  OBVIOUS
<1> USE ConstantsAssumption
<1>1. ASSUME NEW a \in Voter, NEW q \in PctInput, NEW t \in PctInput, InitializeGovernance(a, q, t)
      PROVE  GovTypeOK'
  BY <1>1 DEF GovTypeOK, InitializeGovernance, ValidPct
<1>2. ASSUME NEW a \in Voter, NEW table \in WeightTables, SetVotingWeights(a, table)
      PROVE  GovTypeOK'
  BY <1>2 DEF GovTypeOK, SetVotingWeights
<1>3. ASSUME NEW emergency \in BOOLEAN, Propose(emergency)
      PROVE  GovTypeOK'
  <2> DEFINE p == [emergency |-> emergency, voting_ends_at |-> gov_now + VOTING_PERIOD,
                   timelock_seconds |-> DEFAULT_TIMELOCK_SECONDS,
                   yes_votes |-> 0, no_votes |-> 0, executed |-> FALSE, voters |-> <<>>]
  <2>1. p \in Proposal
    BY DEF GovTypeOK, Proposal
  <2> HIDE DEF p
  <2>2. proposals' = [proposals EXCEPT ![proposal_seq + 1] = p]
    BY <1>3 DEF Propose, p
  <2> QED
    BY <1>3, <2>1, <2>2 DEF GovTypeOK, Propose, gov_config, ProposalId
<1>4. ASSUME NEW v \in Voter, NEW id \in ProposalId, NEW yes \in BOOLEAN, Vote(v, id, yes)
      PROVE  GovTypeOK'
  <2>1. PICK q \in Proposal : proposals' = [proposals EXCEPT ![id] = q]
    BY <1>4, VoteWrites
  <2>2. UNCHANGED <<gov_admin, quorum_pct, threshold_pct, weights, delegations, proposal_seq, gov_now>>
    BY <1>4 DEF Vote, gov_config
  <2> QED
    BY <2>1, <2>2 DEF GovTypeOK
<1>5. ASSUME NEW v \in Voter, NEW d \in Voter,
             DelegateVote(v, d) \/ RevokeVoteDelegation(v)
      PROVE  GovTypeOK'
  <2>1. PICK x \in Voter \cup {Unset} : delegations' = [delegations EXCEPT ![v] = x]
    BY <1>5 DEF DelegateVote, RevokeVoteDelegation
  <2>2. UNCHANGED <<gov_admin, quorum_pct, threshold_pct, weights, proposal_seq, proposals, gov_now>>
    BY <1>5 DEF DelegateVote, RevokeVoteDelegation, gov_config
  <2>3. delegations' \in [Voter -> Voter \cup {Unset}]
    BY <2>1 DEF GovTypeOK
  <2> QED BY <2>2, <2>3 DEF GovTypeOK
<1>6. ASSUME NEW id \in ProposalId, ExecuteProposal(id)
      PROVE  GovTypeOK'
  <2>1. proposals[id] \in Proposal
    BY <1>6 DEF ExecuteProposal, GovTypeOK
  <2>2. [proposals[id] EXCEPT !.executed = TRUE] \in Proposal
    BY <2>1 DEF Proposal
  <2> QED
    BY <1>6, <2>2 DEF GovTypeOK, ExecuteProposal, gov_config
<1>7. CASE GovTick
  BY <1>7 DEF GovTypeOK, GovTick, gov_config
<1>8. CASE UNCHANGED govVars
  BY <1>8 DEF GovTypeOK, govVars, gov_config
<1> QED
  BY <1>1, <1>2, <1>3, <1>4, <1>5, <1>6, <1>7, <1>8 DEF GovNext

\* Storage keeps its types: what is stored under a proposal id is a proposal, the
\* percentages are between 1 and 100.
THEOREM TypeCorrect == GovSpec => []GovTypeOK
  BY InitTypeOK, TypeStep, PTL DEF GovSpec

-----------------------------------------------------------------------------
(* Voting and execution. *)

\* A tally of zero is under every quorum: the percentage is 0, and no configured
\* percentage is.
LEMMA DivisionSafe == GovTypeOK => ThresholdDivisionSafe
<1> SUFFICES ASSUME GovTypeOK, NEW id \in ProposalId, proposals[id] # Unset,
                    TotalVotes(proposals[id]) = 0
             PROVE  ~ MeetsQuorum(proposals[id], QuorumRequired(proposals[id]))
  BY DEF ThresholdDivisionSafe
<1>1. QuorumRequired(proposals[id]) \in 1..100
  BY DEF QuorumRequired, GovTypeOK, DEFAULT_EMERGENCY_QUORUM
<1>2. Wrap(TotalVotes(proposals[id]) * 100) = 0
  BY ConstantsAssumption DEF Wrap
<1>3. 0 \div total_voting_power = 0
  BY TotalPowerPositive
<1> QED BY <1>1, <1>2, <1>3 DEF MeetsQuorum

\* The ids handed out by propose since the counter was last reset are stored.
CountedExist == \A id \in 1..proposal_seq : proposals[id] # Unset

GovernanceInv == CountedExist /\ OneVotePerAddress /\ ExecutedAfterTimelock

LEMMA InitInv == GovInit => GovernanceInv
  BY DEF GovInit, GovernanceInv, CountedExist, OneVotePerAddress, ExecutedAfterTimelock

\* Appending a newcomer to a list without repetition repeats nobody.
LEMMA AppendNew ==
    ASSUME NEW S, NEW s \in Seq(S), NEW x \in S, IsInjective(s), x \notin Range(s)
    PROVE  IsInjective(Append(s, x))
  BY DEF IsInjective, Range

LEMMA InvStep == GovTypeOK /\ GovernanceInv /\ [GovNext]_govVars => GovernanceInv'
<1> SUFFICES ASSUME GovTypeOK, GovernanceInv, [GovNext]_govVars PROVE GovernanceInv'
  OBVIOUS
<1> USE ConstantsAssumption
<1>1. ASSUME UNCHANGED <<proposals, gov_now>>, proposal_seq' \in {0, proposal_seq}
      PROVE  GovernanceInv'
  BY <1>1 DEF GovTypeOK, GovernanceInv, CountedExist, OneVotePerAddress, ExecutedAfterTimelock
<1>2. ASSUME NEW a \in Voter, NEW q \in PctInput, NEW t \in PctInput, InitializeGovernance(a, q, t)
      PROVE  GovernanceInv'
  BY <1>1, <1>2 DEF InitializeGovernance
<1>3. ASSUME NEW a \in Voter, NEW table \in WeightTables, SetVotingWeights(a, table)
      PROVE  GovernanceInv'
  BY <1>1, <1>3 DEF SetVotingWeights
<1>4. ASSUME NEW emergency \in BOOLEAN, Propose(emergency)
      PROVE  GovernanceInv'
  <2> DEFINE p == [emergency |-> emergency, voting_ends_at |-> gov_now + VOTING_PERIOD,
                   timelock_seconds |-> DEFAULT_TIMELOCK_SECONDS,
                   yes_votes |-> 0, no_votes |-> 0, executed |-> FALSE, voters |-> <<>>]
             id == proposal_seq + 1
  <2>1. p \in Proposal /\ ~p.executed /\ IsInjective(p.voters)
    BY DEF GovTypeOK, Proposal, IsInjective
  <2> HIDE DEF p
  <2>2. /\ proposals' = [proposals EXCEPT ![id] = p] /\ id \in ProposalId
        /\ proposal_seq' = id /\ gov_now' = gov_now
    BY <1>4 DEF Propose, p
  <2>3. CountedExist'
    BY <2>1, <2>2 DEF GovTypeOK, GovernanceInv, CountedExist, ProposalId
  <2>4. OneVotePerAddress'
    BY <2>1, <2>2 DEF GovTypeOK, GovernanceInv, OneVotePerAddress
  <2>5. ExecutedAfterTimelock'
    BY <2>1, <2>2 DEF GovTypeOK, GovernanceInv, ExecutedAfterTimelock
  <2> QED BY <2>3, <2>4, <2>5 DEF GovernanceInv
<1>5. ASSUME NEW v \in Voter, NEW id \in ProposalId, NEW yes \in BOOLEAN, Vote(v, id, yes)
      PROVE  GovernanceInv'
  <2> DEFINE p == proposals[id]
  <2>1. p \in Proposal /\ ~p.executed /\ v \notin Range(p.voters)
    BY <1>5 DEF Vote, VotingOpen, HasVoted, GovTypeOK
  <2>2. p.voters \in Seq(Voter) /\ IsInjective(p.voters)
    BY <1>5, <2>1 DEF Proposal, GovernanceInv, OneVotePerAddress, Vote
  <2>3. IsInjective(Append(p.voters, v))
    BY <2>1, <2>2, AppendNew
  <2>4. PICK q \in Proposal : /\ proposals' = [proposals EXCEPT ![id] = q]
                              /\ q.voters = Append(p.voters, v)
                              /\ q.executed = p.executed
    BY <1>5, VoteWrites
  <2>5. CountedExist'
    BY <1>5, <2>4 DEF GovTypeOK, GovernanceInv, CountedExist, ProposalId, Vote
  <2>6. OneVotePerAddress'
    BY <2>3, <2>4 DEF GovTypeOK, GovernanceInv, OneVotePerAddress
  <2>7. ExecutedAfterTimelock'
    BY <1>5, <2>1, <2>4 DEF GovTypeOK, GovernanceInv, ExecutedAfterTimelock, Vote
  <2> QED BY <2>5, <2>6, <2>7 DEF GovernanceInv
<1>6. ASSUME NEW v \in Voter, NEW d \in Voter,
             DelegateVote(v, d) \/ RevokeVoteDelegation(v)
      PROVE  GovernanceInv'
  BY <1>1, <1>6 DEF DelegateVote, RevokeVoteDelegation
<1>7. ASSUME NEW id \in ProposalId, ExecuteProposal(id)
      PROVE  GovernanceInv'
  <2> DEFINE p == proposals[id]
             q == [p EXCEPT !.executed = TRUE]
  <2>1. p \in Proposal /\ gov_now >= p.voting_ends_at + p.timelock_seconds
    BY <1>7 DEF ExecuteProposal, TimelockOver, GovTypeOK
  <2>2. /\ q \in Proposal /\ q.voters = p.voters /\ q.voting_ends_at = p.voting_ends_at
        /\ q.timelock_seconds = p.timelock_seconds
    BY <2>1 DEF Proposal
  <2>3. /\ proposals' = [proposals EXCEPT ![id] = q]
        /\ gov_now' = gov_now /\ proposal_seq' = proposal_seq /\ p # Unset
    BY <1>7 DEF ExecuteProposal
  <2> HIDE DEF q
  <2>4. CountedExist'
    BY <2>2, <2>3 DEF GovTypeOK, GovernanceInv, CountedExist, ProposalId
  <2>5. OneVotePerAddress'
    BY <2>2, <2>3 DEF GovTypeOK, GovernanceInv, OneVotePerAddress
  <2>6. ExecutedAfterTimelock'
    BY <2>1, <2>2, <2>3 DEF GovTypeOK, GovernanceInv, ExecutedAfterTimelock
  <2> QED BY <2>4, <2>5, <2>6 DEF GovernanceInv
<1>8. CASE GovTick
  <2>1. /\ proposals' = proposals /\ proposal_seq' = proposal_seq
        /\ gov_now \in Nat /\ gov_now' = gov_now + 1
    BY <1>8 DEF GovTick, GovTypeOK
  <2>2. ExecutedAfterTimelock'
    <3> SUFFICES ASSUME NEW id \in ProposalId, proposals[id] # Unset, proposals[id].executed
                 PROVE  gov_now' >= proposals[id].voting_ends_at + proposals[id].timelock_seconds
      BY <2>1 DEF ExecutedAfterTimelock
    <3>1. proposals[id] \in Proposal
      BY DEF GovTypeOK
    <3>2. gov_now >= proposals[id].voting_ends_at + proposals[id].timelock_seconds
      BY DEF GovernanceInv, ExecutedAfterTimelock
    <3> QED BY <2>1, <3>1, <3>2 DEF Proposal
  <2> QED BY <2>1, <2>2 DEF GovernanceInv, CountedExist, OneVotePerAddress
<1>9. CASE UNCHANGED govVars
  BY <1>1, <1>9 DEF govVars
<1> QED
  BY <1>2, <1>3, <1>4, <1>5, <1>6, <1>7, <1>8, <1>9 DEF GovNext

\* vote, execute_proposal and set_voting_weights: whoever votes, delegates, changes
\* the weights or executes, and in whatever order, each address is counted once per
\* proposal, no tally that reaches a division is zero even when it wrapped, and what
\* is executed has outlived its voting window and its timelock.
THEOREM GovernanceIsSound == GovSpec => []GovernanceSound
<1>1. GovInit => GovTypeOK /\ GovernanceInv
  BY InitTypeOK, InitInv
<1>2. GovTypeOK /\ GovernanceInv /\ [GovNext]_govVars => (GovTypeOK /\ GovernanceInv)'
  BY TypeStep, InvStep
<1>3. GovTypeOK /\ GovernanceInv => GovernanceSound
  BY DivisionSafe DEF GovernanceInv, GovernanceSound
<1> QED BY <1>1, <1>2, <1>3, PTL DEF GovSpec

\* Voting is closed for good: a step leaves the tallies of a proposal whose window
\* has ended as they are, and does not undo an execution.
LEMMA ClosedStep ==
    ASSUME GovTypeOK, GovernanceInv, [GovNext]_govVars, NEW id \in 1..proposal_seq,
           gov_now > proposals[id].voting_ends_at
    PROVE  /\ proposals'[id].yes_votes = proposals[id].yes_votes
           /\ proposals'[id].no_votes = proposals[id].no_votes
           /\ proposals[id].executed => proposals'[id].executed
<1> USE ConstantsAssumption
<1>0. id \in ProposalId /\ proposals[id] \in Proposal
  BY DEF GovTypeOK, GovernanceInv, CountedExist, ProposalId
<1>1. CASE proposals' = proposals
  BY <1>1
<1>2. ASSUME NEW emergency \in BOOLEAN, Propose(emergency)
      PROVE  proposals'[id] = proposals[id]
  BY <1>0, <1>2 DEF Propose, GovTypeOK
<1>3. ASSUME NEW v \in Voter, NEW i \in ProposalId, NEW yes \in BOOLEAN, Vote(v, i, yes)
      PROVE  proposals'[id] = proposals[id]
  <2>1. i # id
    BY <1>0, <1>3 DEF Vote, VotingOpen, GovTypeOK, Proposal
  <2>2. PICK q \in Proposal : proposals' = [proposals EXCEPT ![i] = q]
    BY <1>3, VoteWrites
  <2> QED BY <1>0, <2>1, <2>2 DEF GovTypeOK
<1>4. ASSUME NEW i \in ProposalId, ExecuteProposal(i)
      PROVE  proposals'[id] \in {proposals[id], [proposals[id] EXCEPT !.executed = TRUE]}
  BY <1>0, <1>4 DEF ExecuteProposal, GovTypeOK
<1>5. ASSUME [GovNext]_govVars, ~ \E emergency \in BOOLEAN : Propose(emergency),
             ~ \E v \in Voter, i \in ProposalId, yes \in BOOLEAN : Vote(v, i, yes),
             ~ \E i \in ProposalId : ExecuteProposal(i)
      PROVE  proposals' = proposals
  BY <1>5 DEF GovNext, govVars, gov_config, InitializeGovernance, SetVotingWeights, DelegateVote,
              RevokeVoteDelegation, GovTick
<1>6. proposals'[id] \in {proposals[id], [proposals[id] EXCEPT !.executed = TRUE]}
  BY <1>1, <1>2, <1>3, <1>4, <1>5
<1> QED BY <1>0, <1>6 DEF Proposal

\* execute_proposal acts on the outcome that was voted: for every id the counter
\* covers, a closed tally never changes again and an execution is never undone.
THEOREM ClosedVotesStand == GovSpec => DecidedIsFinal
<1> DEFINE Final == \A id \in 1..proposal_seq :
                       gov_now > proposals[id].voting_ends_at =>
                          /\ proposals'[id].yes_votes = proposals[id].yes_votes
                          /\ proposals'[id].no_votes = proposals[id].no_votes
                          /\ proposals[id].executed => proposals'[id].executed
<1>1. GovInit => GovTypeOK /\ GovernanceInv
  BY InitTypeOK, InitInv
<1>2. GovTypeOK /\ GovernanceInv /\ [GovNext]_govVars => (GovTypeOK /\ GovernanceInv)'
  BY TypeStep, InvStep
<1>3. GovTypeOK /\ GovernanceInv /\ [GovNext]_govVars => [Final]_govVars
  BY ClosedStep
<1> HIDE DEF Final
<1>4. GovSpec => [][Final]_govVars
  BY <1>1, <1>2, <1>3, PTL DEF GovSpec
<1> QED BY <1>4 DEF DecidedIsFinal, Final

-----------------------------------------------------------------------------
(* The bridge *)

\* Seconds 0..MaxTimestamp, the ones from t on for one window length
Second == 0..MaxTimestamp
Window(t) == {u \in t..(t + RATE_WINDOW_SECS - 1) : u <= MaxTimestamp}

-----------------------------------------------------------------------------
(* Types. *)

InTime == timestamp \in Second

LEMMA BridgeInitTypes == BridgeConstants /\ BridgeInit => BridgeTypeOK /\ InTime
  BY DEF BridgeConstants, BridgeInit, BridgeTypeOK, InTime, Second

LEMMA WindowType ==
    ASSUME BridgeConstants, BridgeTypeOK, NEW r \in Account
    PROVE  /\ CurrentWindow(r) \in RateWindow
           /\ check_rate(r) => rate' \in [Account -> RateWindow \cup {Absent}]
<1>1. CurrentWindow(r) \in RateWindow
  BY DEF CurrentWindow, BridgeTypeOK, RateWindow
<1>2. [CurrentWindow(r) EXCEPT !.calls = @ + 1] \in RateWindow
  BY <1>1 DEF RateWindow
<1> QED BY <1>1, <1>2 DEF check_rate, BridgeTypeOK

LEMMA Bump ==
    ASSUME NEW S, NEW f \in [S -> Nat], NEW n \in S
    PROVE  [f EXCEPT ![n] = @ + 1] \in [S -> Nat]
  OBVIOUS

LEMMA ServedType ==
    ASSUME BridgeTypeOK, InTime, NEW r \in Account,
           served' = [served EXCEPT ![r][timestamp] = @ + 1]
    PROVE  served' \in [Account -> [0..MaxTimestamp -> Nat]]
<1>1. served[r] \in [0..MaxTimestamp -> Nat] /\ timestamp \in 0..MaxTimestamp
  BY DEF BridgeTypeOK, InTime, Second
<1>2. [served[r] EXCEPT ![timestamp] = @ + 1] \in [0..MaxTimestamp -> Nat]
  BY <1>1, Bump
<1> QED BY <1>2 DEF BridgeTypeOK

LEMMA CachedUntilBounds ==
    ASSUME BridgeConstants, BridgeTypeOK, NEW root \in StateRoot
    PROVE  CachedUntil(root) \in Nat /\ CachedUntil(root) <= root.valid_until
<1> DEFINE a == timestamp + MAX_CACHE_TTL
           b == root.valid_until
           Least(x) == x \in {a, b} /\ \A y \in {a, b} : x <= y
<1>1. a \in Nat /\ b \in Nat
  BY DEF BridgeConstants, BridgeTypeOK, StateRoot
<1>2. \E x : Least(x)
  <2>1. CASE a <= b
    BY <1>1, <2>1
  <2>2. CASE b <= a
    BY <1>1, <2>2
  <2> QED BY <1>1, <2>1, <2>2
<1>3. Least(CachedUntil(root))
  BY <1>2 DEF CachedUntil, Min
<1> QED BY <1>1, <1>3

LEMMA BridgeTypeStep ==
    BridgeConstants /\ BridgeTypeOK /\ InTime /\ [BridgeNext]_bridgeVars
      => (BridgeTypeOK /\ InTime)'
<1> SUFFICES ASSUME BridgeConstants, BridgeTypeOK, InTime, [BridgeNext]_bridgeVars
             PROVE  (BridgeTypeOK /\ InTime)'
  OBVIOUS
<1>1. ASSUME NEW a \in Account, NEW o \in Account, InitializeBridge(a, o)
      PROVE  (BridgeTypeOK /\ InTime)'
  BY <1>1 DEF BridgeTypeOK, InTime, InitializeBridge
<1>2. ASSUME NEW a \in Account, NEW ch \in Chain, NEW active \in BOOLEAN,
             SetChain(a, ch, active)
      PROVE  (BridgeTypeOK /\ InTime)'
  BY <1>2 DEF BridgeTypeOK, InTime, SetChain
<1>3. ASSUME NEW a \in Account, NEW ch \in Chain, NEW root \in Roots, NEW t \in 0..MaxTimestamp,
             PublishStateRoot(a, ch, root, t)
      PROVE  (BridgeTypeOK /\ InTime)'
  <2> DEFINE r == [root |-> root, valid_until |-> t]
  <2>1. r \in StateRoot
    BY DEF BridgeConstants, StateRoot
  <2> HIDE DEF r
  <2>2. /\ roots' = [roots EXCEPT ![ch] = r]
        /\ published' = [published EXCEPT ![ch] = @ \cup {r}]
    BY <1>3 DEF PublishStateRoot, r
  <2> QED
    BY <1>3, <2>1, <2>2 DEF BridgeTypeOK, InTime, PublishStateRoot
<1>4. ASSUME NEW r \in Account, NEW ch \in Chain, NEW d \in Did, ResolveFromCache(r, ch, d)
      PROVE  (BridgeTypeOK /\ InTime)'
  <2>1. rate' \in [Account -> RateWindow \cup {Absent}]
    BY <1>4, WindowType DEF ResolveFromCache
  <2>2. served' \in [Account -> [0..MaxTimestamp -> Nat]]
    BY <1>4, ServedType DEF ResolveFromCache
  <2> QED
    BY <1>4, <2>1, <2>2 DEF BridgeTypeOK, InTime, ResolveFromCache
<1>5. ASSUME NEW r \in Account, NEW ch \in Chain, NEW d \in Did, NEW doc \in Document,
             ResolveByProof(r, ch, d, doc)
      PROVE  (BridgeTypeOK /\ InTime)'
  <2>1. rate' \in [Account -> RateWindow \cup {Absent}]
    BY <1>5, WindowType DEF ResolveByProof
  <2>2. served' \in [Account -> [0..MaxTimestamp -> Nat]]
    BY <1>5, ServedType DEF ResolveByProof
  <2>3. CachedUntil(roots[ch]) \in Nat
    BY <1>5, CachedUntilBounds DEF ResolveByProof, BridgeTypeOK
  <2>4. cache' \in [Chain \X Did -> CachedDid \cup {Absent}]
    BY <1>5, <2>3 DEF ResolveByProof, BridgeTypeOK, CachedDid
  <2> QED
    BY <1>5, <2>1, <2>2, <2>4 DEF BridgeTypeOK, InTime, ResolveByProof
<1>6. CASE BridgeTick
  BY <1>6 DEF BridgeTypeOK, InTime, Second, BridgeTick, BridgeConstants
<1>7. CASE UNCHANGED bridgeVars
  BY <1>7 DEF BridgeTypeOK, InTime, bridgeVars
<1> QED
  BY <1>1, <1>2, <1>3, <1>4, <1>5, <1>6, <1>7 DEF BridgeNext

-----------------------------------------------------------------------------
(* Documents. *)

\* Every cached document, expired or not, was proved against a published root that
\* lasts at least as long as the cache entry; the current root is a published one.
RootsPublished == \A ch \in Chain : roots[ch] # Absent => roots[ch] \in published[ch]

CacheProved ==
    \A ch \in Chain, d \in Did :
        cache[<<ch, d>>] # Absent =>
            \E r \in published[ch] :
                /\ <<d, cache[<<ch, d>>].document>> \in r.root
                /\ cache[<<ch, d>>].cached_until <= r.valid_until

CacheInv == RootsPublished /\ CacheProved

LEMMA InitCache == BridgeInit => CacheInv
  BY DEF BridgeInit, CacheInv, RootsPublished, CacheProved

LEMMA CacheStep ==
    BridgeConstants /\ BridgeTypeOK /\ CacheInv /\ [BridgeNext]_bridgeVars => CacheInv'
<1> SUFFICES ASSUME BridgeConstants, BridgeTypeOK, CacheInv, [BridgeNext]_bridgeVars PROVE CacheInv'
  OBVIOUS
<1>1. CASE UNCHANGED <<roots, cache, published>>
  BY <1>1 DEF CacheInv, RootsPublished, CacheProved
<1>2. ASSUME NEW a \in Account, NEW ch \in Chain, NEW root \in Roots, NEW t \in 0..MaxTimestamp,
             PublishStateRoot(a, ch, root, t)
      PROVE  CacheInv'
  <2>1. \A c \in Chain : published[c] \subseteq published'[c]
    BY <1>2 DEF PublishStateRoot, BridgeTypeOK
  <2>2. RootsPublished'
    BY <1>2, <2>1 DEF PublishStateRoot, BridgeTypeOK, CacheInv, RootsPublished
  <2>3. cache' = cache
    BY <1>2 DEF PublishStateRoot
  <2>4. CacheProved'
    BY <2>1, <2>3 DEF CacheInv, CacheProved
  <2> QED BY <2>2, <2>4 DEF CacheInv
<1>3. ASSUME NEW r \in Account, NEW ch \in Chain, NEW d \in Did, NEW doc \in Document,
             ResolveByProof(r, ch, d, doc)
      PROVE  CacheInv'
  <2> DEFINE e == [document |-> doc, cached_until |-> CachedUntil(roots[ch])]
  <2>1. /\ cache' = [cache EXCEPT ![<<ch, d>>] = e]
        /\ UNCHANGED <<roots, published>>
        /\ roots[ch] # Absent /\ <<d, doc>> \in roots[ch].root
    BY <1>3 DEF ResolveByProof
  <2>2. roots[ch] \in StateRoot /\ roots[ch] \in published[ch]
    BY <2>1 DEF BridgeTypeOK, CacheInv, RootsPublished
  <2>3. CachedUntil(roots[ch]) <= roots[ch].valid_until
    BY <2>2, CachedUntilBounds
  <2>4. /\ <<d, e.document>> \in roots[ch].root
        /\ e.cached_until <= roots[ch].valid_until
    BY <2>1, <2>3
  <2> HIDE DEF e
  <2>5. ASSUME NEW c \in Chain, NEW x \in Did, cache'[<<c, x>>] # Absent
        PROVE  \E q \in published'[c] : /\ <<x, cache'[<<c, x>>].document>> \in q.root
                                        /\ cache'[<<c, x>>].cached_until <= q.valid_until
    <3>1. CASE c = ch /\ x = d
      BY <2>1, <2>2, <2>4, <3>1 DEF BridgeTypeOK
    <3>2. CASE ~ (c = ch /\ x = d)
      <4>1. cache'[<<c, x>>] = cache[<<c, x>>]
        BY <2>1, <3>2 DEF BridgeTypeOK
      <4> QED BY <2>1, <2>5, <4>1 DEF CacheInv, CacheProved
    <3> QED BY <3>1, <3>2
  <2> QED BY <2>1, <2>5 DEF CacheInv, RootsPublished, CacheProved
<1> QED
  BY <1>1, <1>2, <1>3
     DEF BridgeNext, bridgeVars, InitializeBridge, SetChain, ResolveFromCache, BridgeTick

LEMMA CacheServes == BridgeTypeOK /\ CacheInv => ServedDocumentsAreProved
<1> SUFFICES ASSUME BridgeTypeOK, CacheInv, NEW ch \in Chain, NEW d \in Did, Fresh(cache[<<ch, d>>])
             PROVE  \E r \in published[ch] : /\ <<d, cache[<<ch, d>>].document>> \in r.root
                                             /\ timestamp < r.valid_until
  BY DEF ServedDocumentsAreProved
<1>1. cache[<<ch, d>>] \in CachedDid /\ cache[<<ch, d>>].cached_until > timestamp
  BY DEF Fresh, BridgeTypeOK
<1>2. PICK r \in published[ch] : /\ <<d, cache[<<ch, d>>].document>> \in r.root
                                 /\ cache[<<ch, d>>].cached_until <= r.valid_until
  BY <1>1 DEF CacheInv, CacheProved, Fresh
<1>3. r \in StateRoot
  BY DEF BridgeTypeOK
<1>4. timestamp < r.valid_until
  <2>0. timestamp \in Nat
    BY DEF BridgeTypeOK
  <2>1. \A c, t \in Nat : c > timestamp /\ c <= t => timestamp < t
    BY <2>0
  <2>2. cache[<<ch, d>>].cached_until \in Nat /\ r.valid_until \in Nat
    BY <1>1, <1>3 DEF CachedDid, StateRoot
  <2> QED BY <1>1, <1>2, <2>1, <2>2
<1> QED BY <1>2, <1>4

-----------------------------------------------------------------------------
(* The rate limit. *)

Quota == MAX_CALLS_PER_WINDOW

\* The counts f of calls served per second agree with an open window that started at
\* s and has counted c calls: everything served since s was counted, nothing was
\* served once the window was over, and the part of the window before it that
\* shares a stretch with this one held at most a quota.
Fits(f, s, c) ==
    /\ Sum(f, s..MaxTimestamp) = c
    /\ c <= Quota
    /\ \A u \in Second : u >= s + RATE_WINDOW_SECS => f[u] = 0
    /\ \A t \in Second : t < s /\ s < t + RATE_WINDOW_SECS => Sum(f, t..(s - 1)) <= Quota

Burst(f) == \A t \in Second : Sum(f, Window(t)) <= 2 * Quota

RateInv ==
    \A r \in Account :
        /\ rate[r] = Absent => \A u \in Second : served[r][u] = 0
        /\ rate[r] # Absent => /\ rate[r].started_at <= timestamp
                             /\ Fits(served[r], rate[r].started_at, rate[r].calls)
        /\ Burst(served[r])

\* Stretches of seconds are finite sets, and counts sum to naturals over them.
LEMMA Stretch ==
    ASSUME BridgeConstants, NEW f \in [Second -> Nat]
    PROVE  /\ \A S \in SUBSET Second : IsFiniteSet(S) /\ Sum(f, S) \in Nat
           /\ \A t \in Second : Window(t) \in SUBSET Second /\ t..MaxTimestamp \in SUBSET Second
           /\ \A t \in Second, s \in Second : t..(s - 1) \in SUBSET Second
<1>1. IsFiniteSet(Second)
  BY FS_Interval DEF Second, BridgeConstants
<1>2. ASSUME NEW S \in SUBSET Second PROVE IsFiniteSet(S) /\ Sum(f, S) \in Nat
  <2>1. IsFiniteSet(S)
    BY <1>1, FS_Subset
  <2>2. \A x \in S : f[x] \in Nat
    OBVIOUS
  <2> QED BY <2>1, <2>2, SumNat
<1>3. \A t \in Second : Window(t) \in SUBSET Second /\ t..MaxTimestamp \in SUBSET Second
  BY DEF Window, Second, BridgeConstants
<1>4. \A t \in Second, s \in Second : t..(s - 1) \in SUBSET Second
  BY DEF Second, BridgeConstants
<1> QED BY <1>2, <1>3, <1>4

\* A call counted in the window that is open keeps every stretch within two quotas.
LEMMA BurstStep ==
    ASSUME BridgeConstants, NEW f \in [Second -> Nat], NEW g \in [Second -> Nat],
           NEW n \in Second, NEW s \in Second, NEW c \in Nat,
           g = [f EXCEPT ![n] = @ + 1], s <= n, n < s + RATE_WINDOW_SECS,
           Fits(g, s, c), Burst(f)
    PROVE  Burst(g)
<1> SUFFICES ASSUME NEW t \in Second PROVE Sum(g, Window(t)) <= 2 * Quota
  BY DEF Burst
<1> DEFINE W == Window(t)
           After == s..MaxTimestamp
<1>0. /\ Quota \in Nat /\ MaxTimestamp \in Nat /\ RATE_WINDOW_SECS \in Nat
      /\ s \in Nat /\ t \in Nat /\ n \in Nat /\ n <= MaxTimestamp
  BY DEF BridgeConstants, Quota, Second
<1>1. W \in SUBSET Second /\ After \in SUBSET Second
  BY Stretch
<1>2. IsFiniteSet(W) /\ IsFiniteSet(After) /\ Sum(f, W) \in Nat /\ Sum(g, W) \in Nat
  BY <1>1, Stretch
<1>3. Sum(g, After) = c /\ c <= Quota
  BY DEF Fits
<1>4. CASE n \notin W
  <2>1. \A x \in W : f[x] \in Int /\ g[x] = f[x]
    BY <1>1, <1>4
  <2> HIDE DEF W
  <2>2. Sum(g, W) = Sum(f, W)
    BY <1>2, <2>1, SumSame
  <2>3. Sum(f, W) <= 2 * Quota
    BY DEF Burst, W
  <2> QED BY <2>2, <2>3 DEF W
<1>5. CASE t >= s
  <2>1. W \in SUBSET After
    BY <1>0, <1>5 DEF Window
  <2>2. \A x \in After : g[x] \in Nat
    BY <1>1
  <2> HIDE DEF W, After
  <2>3. Sum(g, W) <= Sum(g, After)
    BY <1>2, <2>1, <2>2, SumMonotone
  <2> QED BY <1>0, <1>2, <1>3, <2>3 DEF W
<1>6. CASE n \in W /\ t < s
  <2> DEFINE A == t..(s - 1)
             B == W \ A
  <2>1. s < t + RATE_WINDOW_SECS
    BY <1>0, <1>6 DEF Window
  <2>2. Sum(g, A) <= Quota
    BY <1>0, <1>6, <2>1 DEF Fits
  <2>3. W = A \cup B /\ A \cap B = {} /\ B \in SUBSET After /\ A \in SUBSET Second
    BY <1>0, <1>1, <1>6, <2>1 DEF Window, Second
  <2>4. IsFiniteSet(A) /\ IsFiniteSet(B) /\ Sum(g, A) \in Nat /\ Sum(g, B) \in Nat
    BY <1>1, <2>3, Stretch
  <2>5. \A x \in After : g[x] \in Nat
    BY <1>1
  <2>6. \A x \in A \cup B : g[x] \in Int
    BY <1>1, <2>3
  <2> HIDE DEF A, B, W, After
  <2>7. Sum(g, A \cup B) = Sum(g, A) + Sum(g, B)
    BY <2>3, <2>4, <2>6, SumDisjoint
  <2>8. Sum(g, B) <= Sum(g, After)
    BY <1>2, <2>3, <2>5, SumMonotone
  <2>9. Sum(g, W) = Sum(g, A \cup B)
    BY <2>3
  <2> QED BY <1>0, <1>3, <2>2, <2>4, <2>7, <2>8, <2>9 DEF W
<1> QED BY <1>0, <1>4, <1>5, <1>6

\* A call in the open window.
LEMMA SameWindow ==
    ASSUME BridgeConstants, NEW f \in [Second -> Nat], NEW g \in [Second -> Nat],
           NEW n \in Second, NEW s \in Second, NEW c \in Nat,
           g = [f EXCEPT ![n] = @ + 1], s <= n, n < s + RATE_WINDOW_SECS,
           Fits(f, s, c), c < Quota
    PROVE  Fits(g, s, c + 1)
<1> DEFINE After == s..MaxTimestamp
<1>0. /\ Quota \in Nat /\ MaxTimestamp \in Nat /\ RATE_WINDOW_SECS \in Nat
      /\ s \in Nat /\ n \in Nat /\ n <= MaxTimestamp
  BY DEF BridgeConstants, Quota, Second
<1>1. After \in SUBSET Second /\ IsFiniteSet(After) /\ n \in After
  BY <1>0, Stretch
<1>2. \A y \in After : f[y] \in Int /\ (y # n => g[y] = f[y])
  BY <1>1
<1>3. g[n] = f[n] + 1
  OBVIOUS
<1>4. Sum(g, After) = c + 1
  <2>1. Sum(f, After) = c
    BY DEF Fits
  <2> HIDE DEF After
  <2>2. Sum(g, After) = Sum(f, After) + 1
    BY <1>1, <1>2, <1>3, SumIncrement
  <2> QED BY <2>1, <2>2
<1>5. \A u \in Second : u >= s + RATE_WINDOW_SECS => g[u] = 0
  BY <1>0 DEF Fits, Second
<1>6. ASSUME NEW t \in Second, t < s, s < t + RATE_WINDOW_SECS
      PROVE  Sum(g, t..(s - 1)) <= Quota
  <2> DEFINE A == t..(s - 1)
  <2>1. A \in SUBSET Second /\ IsFiniteSet(A)
    BY Stretch
  <2>2. \A x \in A : f[x] \in Int /\ g[x] = f[x]
    BY <1>0, <2>1
  <2>3. Sum(f, A) <= Quota
    BY <1>6 DEF Fits
  <2> HIDE DEF A
  <2>4. Sum(g, A) = Sum(f, A)
    BY <2>1, <2>2, SumSame
  <2> QED BY <2>3, <2>4 DEF A
<1>7. c + 1 <= Quota
  BY <1>0
<1> QED BY <1>4, <1>5, <1>6, <1>7 DEF Fits

\* The first call, and the first one after a window is over: nothing has been served
\* from this second on, and at most a quota in the window length before this second.
LEMMA NewWindow ==
    ASSUME BridgeConstants, NEW f \in [Second -> Nat], NEW g \in [Second -> Nat],
           NEW n \in Second, g = [f EXCEPT ![n] = @ + 1], 0 < Quota,
           \A u \in Second : u >= n => f[u] = 0,
           \A t \in Second : t < n /\ n < t + RATE_WINDOW_SECS => Sum(f, t..(n - 1)) <= Quota
    PROVE  Fits(g, n, 1)
<1> DEFINE After == n..MaxTimestamp
<1>0. /\ Quota \in Nat /\ MaxTimestamp \in Nat /\ RATE_WINDOW_SECS \in Nat
      /\ RATE_WINDOW_SECS > 0 /\ n \in Nat /\ n <= MaxTimestamp
  BY DEF BridgeConstants, Quota, Second
<1>1. After \in SUBSET Second /\ IsFiniteSet(After) /\ n \in After
  BY <1>0, Stretch
<1>2. \A y \in After : f[y] = 0 /\ f[y] \in Int /\ (y # n => g[y] = f[y])
  BY <1>0, <1>1
<1>3. g[n] = f[n] + 1
  OBVIOUS
<1>4. Sum(g, After) = 1
  <2> HIDE DEF After
  <2>1. Sum(f, After) = 0
    BY <1>1, <1>2, SumZero
  <2>2. Sum(g, After) = Sum(f, After) + 1
    BY <1>1, <1>2, <1>3, SumIncrement
  <2> QED BY <2>1, <2>2
<1>5. \A u \in Second : u >= n + RATE_WINDOW_SECS => g[u] = 0
  BY <1>0 DEF Second
<1>6. ASSUME NEW t \in Second, t < n, n < t + RATE_WINDOW_SECS
      PROVE  Sum(g, t..(n - 1)) <= Quota
  <2> DEFINE A == t..(n - 1)
  <2>1. A \in SUBSET Second /\ IsFiniteSet(A)
    BY Stretch
  <2>2. \A x \in A : f[x] \in Int /\ g[x] = f[x]
    BY <1>0, <2>1
  <2>3. Sum(f, A) <= Quota
    BY <1>6
  <2> HIDE DEF A
  <2>4. Sum(g, A) = Sum(f, A)
    BY <2>1, <2>2, SumSame
  <2> QED BY <2>3, <2>4 DEF A
<1>7. 1 <= Quota
  BY <1>0
<1> QED BY <1>4, <1>5, <1>6, <1>7 DEF Fits

\* A served call keeps the limit.
LEMMA ServeStep ==
    ASSUME BridgeConstants, BridgeTypeOK, InTime, RateInv, NEW r \in Account, check_rate(r),
           served' = [served EXCEPT ![r][timestamp] = @ + 1], timestamp' = timestamp
    PROVE  RateInv'
<1> DEFINE f == served[r]
           g == [f EXCEPT ![timestamp] = @ + 1]
           w == CurrentWindow(r)
           v == [w EXCEPT !.calls = @ + 1]
<1>1. f \in [Second -> Nat] /\ timestamp \in Second
  BY DEF BridgeTypeOK, InTime, Second
<1>2. g \in [Second -> Nat]
  BY <1>1, Bump
<1>3. w \in RateWindow /\ w.calls < Quota /\ w.calls \in Nat /\ w.started_at \in Nat
  BY WindowType DEF check_rate, Quota, RateWindow
<1>4. v \in RateWindow /\ v.calls = w.calls + 1 /\ v.started_at = w.started_at
  BY <1>3 DEF RateWindow
<1>5. rate' = [rate EXCEPT ![r] = v] /\ served' = [served EXCEPT ![r] = g]
  BY DEF check_rate
<1>6. Burst(f)
  BY DEF RateInv
<1>7. Fits(g, v.started_at, v.calls) /\ v.started_at <= timestamp
      /\ timestamp < v.started_at + RATE_WINDOW_SECS /\ v.started_at \in Second
  <2>1. CASE rate[r] # Absent /\ ~ (timestamp - rate[r].started_at >= RATE_WINDOW_SECS)
    <3>1. w = rate[r]
      BY <2>1 DEF CurrentWindow
    <3>2. w.started_at <= timestamp /\ Fits(f, w.started_at, w.calls)
      BY <2>1, <3>1 DEF RateInv
    <3>3. timestamp < w.started_at + RATE_WINDOW_SECS /\ w.started_at \in Second
      BY <1>1, <1>3, <2>1, <3>1, <3>2 DEF Second, BridgeConstants
    <3> HIDE DEF f, g, w, v
    <3>4. g = [f EXCEPT ![timestamp] = @ + 1]
      BY DEF g
    <3>5. Fits(g, w.started_at, w.calls + 1)
      BY <1>1, <1>2, <1>3, <3>2, <3>3, <3>4, SameWindow
    <3> QED BY <1>4, <3>2, <3>3, <3>5
  <2>2. CASE rate[r] = Absent \/ timestamp - rate[r].started_at >= RATE_WINDOW_SECS
    <3>1. w.started_at = timestamp /\ w.calls = 0
      BY <2>2 DEF CurrentWindow
    <3>2. /\ \A u \in Second : u >= timestamp => f[u] = 0
          /\ \A t \in Second : t < timestamp /\ timestamp < t + RATE_WINDOW_SECS
                                  => Sum(f, t..(timestamp - 1)) <= Quota
      <4>1. CASE rate[r] = Absent
        <5>1. \A u \in Second : f[u] = 0
          BY <4>1 DEF RateInv
        <5>2. ASSUME NEW t \in Second PROVE Sum(f, t..(timestamp - 1)) <= Quota
          <6>1. t..(timestamp - 1) \in SUBSET Second /\ IsFiniteSet(t..(timestamp - 1))
            BY <1>1, Stretch
          <6>2. Sum(f, t..(timestamp - 1)) = 0
            BY <5>1, <6>1, SumZero
          <6> QED BY <6>2 DEF BridgeConstants, Quota
        <5> QED BY <5>1, <5>2
      <4>2. CASE rate[r] # Absent
        <5> DEFINE s == rate[r].started_at
        <5>1. s \in Nat /\ rate[r].calls \in Nat
          BY <4>2 DEF BridgeTypeOK, RateWindow
        <5>2. Fits(f, s, rate[r].calls) /\ timestamp >= s + RATE_WINDOW_SECS
          BY <1>1, <2>2, <4>2, <5>1 DEF RateInv, BridgeConstants, Second
        <5>3. s \in Second
          BY <1>1, <5>1, <5>2 DEF BridgeConstants, Second
        <5> HIDE DEF s, f
        <5>4. \A u \in Second : u >= timestamp => f[u] = 0
          BY <1>1, <5>1, <5>2 DEF Fits, Second, BridgeConstants
        <5>5. ASSUME NEW t \in Second, t < timestamp, timestamp < t + RATE_WINDOW_SECS
              PROVE  Sum(f, t..(timestamp - 1)) <= Quota
          <6> DEFINE A == t..(timestamp - 1)
                     After == s..MaxTimestamp
          <6>1. After \in SUBSET Second /\ IsFiniteSet(After) /\ A \in SUBSET Second
                /\ Sum(f, A) \in Nat
            BY <1>1, <5>3, Stretch
          <6>2. A \in SUBSET After
            BY <1>1, <5>1, <5>2, <5>5 DEF Second, BridgeConstants
          <6>3. \A x \in After : f[x] \in Nat
            BY <1>1, <6>1
          <6>4. Sum(f, After) <= Quota /\ Sum(f, After) \in Nat
            BY <1>1, <5>2, <6>1, Stretch DEF Fits
          <6> HIDE DEF A, After
          <6>5. Sum(f, A) <= Sum(f, After)
            BY <6>1, <6>2, <6>3, SumMonotone
          <6>6. Sum(f, A) <= Quota
            BY <6>1, <6>4, <6>5 DEF BridgeConstants, Quota
          <6> QED BY <6>6 DEF A
        <5> QED BY <5>4, <5>5
      <4> QED BY <4>1, <4>2
    <3> HIDE DEF f, g, w, v
    <3>3. g = [f EXCEPT ![timestamp] = @ + 1]
      BY DEF g
    <3>4. 0 < Quota
      BY <1>3, <3>1
    <3>5. Fits(g, timestamp, 1)
      BY <1>1, <1>2, <3>2, <3>3, <3>4, NewWindow
    <3>6. v.started_at = timestamp /\ v.calls = 1
      BY <1>4, <3>1
    <3> QED BY <1>1, <3>5, <3>6 DEF Second, BridgeConstants
  <2> QED BY <2>1, <2>2
<1>8. Burst(g)
  <2> HIDE DEF f, g, w, v
  <2>1. g = [f EXCEPT ![timestamp] = @ + 1]
    BY DEF g
  <2>2. v.calls \in Nat
    BY <1>4 DEF RateWindow
  <2> QED BY <1>1, <1>2, <1>6, <1>7, <2>1, <2>2, BurstStep
<1>9. ASSUME NEW q \in Account
      PROVE  /\ rate'[q] = Absent => \A u \in Second : served'[q][u] = 0
             /\ rate'[q] # Absent => /\ rate'[q].started_at <= timestamp'
                                   /\ Fits(served'[q], rate'[q].started_at, rate'[q].calls)
             /\ Burst(served'[q])
  <2> HIDE DEF f, g, w, v
  <2>1. CASE q = r
    <3>1. rate'[q] = v /\ served'[q] = g
      BY <1>5, <2>1 DEF BridgeTypeOK
    <3>2. v # Absent
      BY <1>4 DEF BridgeConstants
    <3> QED BY <1>7, <1>8, <3>1, <3>2
  <2>2. CASE q # r
    <3>1. rate'[q] = rate[q] /\ served'[q] = served[q]
      BY <1>5, <2>2 DEF BridgeTypeOK
    <3> QED BY <3>1 DEF RateInv
  <2> QED BY <2>1, <2>2
<1> QED
  <2>1. RateInv' = \A q \in Account :
             /\ rate'[q] = Absent => \A u \in Second : served'[q][u] = 0
             /\ rate'[q] # Absent => /\ rate'[q].started_at <= timestamp'
                                   /\ Fits(served'[q], rate'[q].started_at, rate'[q].calls)
             /\ Burst(served'[q])
    BY DEF RateInv, Fits, Burst
  <2> QED BY <1>9, <2>1

LEMMA InitRate == BridgeConstants /\ BridgeInit => RateInv
<1> SUFFICES ASSUME BridgeConstants, BridgeInit, NEW r \in Account
             PROVE  rate[r] = Absent /\ (\A u \in Second : served[r][u] = 0) /\ Burst(served[r])
  BY DEF RateInv
<1>1. rate[r] = Absent /\ \A u \in Second : served[r][u] = 0
  BY DEF BridgeInit, Second
<1>2. served[r] \in [Second -> Nat]
  BY DEF BridgeInit, Second
<1>3. ASSUME NEW t \in Second PROVE Sum(served[r], Window(t)) <= 2 * Quota
  <2>1. Window(t) \in SUBSET Second /\ IsFiniteSet(Window(t))
    BY <1>2, Stretch
  <2>2. \A x \in Window(t) : served[r][x] = 0
    BY <1>1, <2>1
  <2>3. Sum(served[r], Window(t)) = 0
    BY <2>1, <2>2, SumZero
  <2> QED BY <2>3 DEF BridgeConstants, Quota
<1> QED BY <1>1, <1>3 DEF Burst

LEMMA RateStep ==
    BridgeConstants /\ BridgeTypeOK /\ InTime /\ RateInv /\ [BridgeNext]_bridgeVars => RateInv'
<1> SUFFICES ASSUME BridgeConstants, BridgeTypeOK, InTime, RateInv, [BridgeNext]_bridgeVars PROVE RateInv'
  OBVIOUS
<1>1. ASSUME UNCHANGED <<rate, served>>, timestamp' \in {timestamp, timestamp + 1}
      PROVE  RateInv'
  <2>1. \A r \in Account : rate[r] # Absent => rate[r].started_at <= timestamp'
    BY <1>1 DEF RateInv, BridgeTypeOK, RateWindow
  <2> QED BY <1>1, <2>1 DEF RateInv, Fits, Burst
<1>2. ASSUME NEW r \in Account, NEW ch \in Chain, NEW d \in Did, ResolveFromCache(r, ch, d)
      PROVE  RateInv'
  BY <1>2, ServeStep DEF ResolveFromCache
<1>3. ASSUME NEW r \in Account, NEW ch \in Chain, NEW d \in Did, NEW doc \in Document,
             ResolveByProof(r, ch, d, doc)
      PROVE  RateInv'
  BY <1>3, ServeStep DEF ResolveByProof
<1> QED
  BY <1>1, <1>2, <1>3
     DEF BridgeNext, bridgeVars, InitializeBridge, SetChain, PublishStateRoot, BridgeTick

\* What the open window has counted is what was served within one window length of
\* its start.
LEMMA RateLimit == BridgeConstants /\ BridgeTypeOK /\ InTime /\ RateInv => RateLimitHolds
<1> SUFFICES ASSUME BridgeConstants, BridgeTypeOK, InTime, RateInv, NEW r \in Account
             PROVE  /\ rate[r] # Absent =>
                          /\ rate[r].calls <= MAX_CALLS_PER_WINDOW
                          /\ ServedFrom(r, rate[r].started_at) = rate[r].calls
                    /\ \A t \in 0..MaxTimestamp : ServedFrom(r, t) <= 2 * MAX_CALLS_PER_WINDOW
  BY DEF RateLimitHolds
<1>1. \A t : ServedFrom(r, t) = Sum(served[r], Window(t))
  BY DEF ServedFrom, Sum, Window
<1>2. \A t \in 0..MaxTimestamp : ServedFrom(r, t) <= 2 * MAX_CALLS_PER_WINDOW
  BY <1>1 DEF RateInv, Burst, Second, Quota
<1>3. ASSUME rate[r] # Absent
      PROVE  /\ rate[r].calls <= MAX_CALLS_PER_WINDOW
             /\ ServedFrom(r, rate[r].started_at) = rate[r].calls
  <2> DEFINE f == served[r]
             s == rate[r].started_at
             W == Window(s)
             Rest == (s..MaxTimestamp) \ W
  <2>1. Fits(f, s, rate[r].calls) /\ s <= timestamp
    BY <1>3 DEF RateInv
  <2>2. s \in Nat /\ f \in [Second -> Nat]
    BY <1>3 DEF BridgeTypeOK, RateWindow, Second
  <2>3. s \in Second
    BY <2>1, <2>2 DEF InTime, Second, BridgeConstants
  <2>4. W \in SUBSET Second /\ s..MaxTimestamp \in SUBSET Second
    BY <2>2, <2>3, Stretch
  <2>5. Rest \in SUBSET Second /\ W \cup Rest = s..MaxTimestamp /\ W \cap Rest = {}
    BY <2>3, <2>4 DEF Window, Second, BridgeConstants
  <2>6. IsFiniteSet(W) /\ IsFiniteSet(Rest) /\ Sum(f, W) \in Nat
    BY <2>2, <2>4, <2>5, Stretch
  <2>7. \A x \in Rest : f[x] = 0
    <3>1. \A x \in Rest : x \in Second /\ x >= s + RATE_WINDOW_SECS
      BY <2>3, <2>5 DEF Window, Second, BridgeConstants
    <3> QED BY <2>1, <3>1 DEF Fits
  <2>8. \A x \in W \cup Rest : f[x] \in Int
    BY <2>2, <2>4, <2>5
  <2>9. Sum(f, s..MaxTimestamp) = rate[r].calls /\ rate[r].calls <= Quota
    BY <2>1 DEF Fits
  <2> HIDE DEF f, s, W, Rest
  <2>10. Sum(f, Rest) = 0
    BY <2>6, <2>7, SumZero
  <2>11. Sum(f, W \cup Rest) = Sum(f, W) + Sum(f, Rest)
    BY <2>5, <2>6, <2>8, SumDisjoint
  <2>12. Sum(f, W \cup Rest) = Sum(f, s..MaxTimestamp)
    BY <2>5
  <2>13. Sum(f, W) = rate[r].calls
    BY <2>6, <2>9, <2>10, <2>11, <2>12
  <2> QED BY <1>1, <2>9, <2>13 DEF Quota, f, s, W
<1> QED BY <1>2, <1>3

-----------------------------------------------------------------------------
\* resolve_external_did and get_cached_did, for every set of chains, resolvers and
\* documents and every lifetime, window and quota: what is served is covered by an
\* unexpired published root, and no resolver gets more than its quota out of the open
\* window, or more than twice that out of any stretch of one window length.
THEOREM BridgeIsSound == BridgeConstants => (BridgeSpec => []BridgeServesProved)
<1> SUFFICES ASSUME BridgeConstants PROVE BridgeSpec => []BridgeServesProved
  OBVIOUS
<1> DEFINE BridgeInv == BridgeTypeOK /\ InTime /\ CacheInv /\ RateInv
<1>1. BridgeInit => BridgeInv
  BY BridgeInitTypes, InitCache, InitRate
<1>2. BridgeInv /\ [BridgeNext]_bridgeVars => BridgeInv'
  BY BridgeTypeStep, CacheStep, RateStep
<1>3. BridgeInv => BridgeServesProved
  BY CacheServes, RateLimit DEF BridgeServesProved
<1> QED BY <1>1, <1>2, <1>3, PTL DEF BridgeSpec
==============================================================================
