----------------------------- MODULE SumLemmas -----------------------------
(***************************************************************************)
(* What MapThenSumSet computes over a finite set: the lemmas the balances  *)
(* of DurableBilling need.  The sum is a fold over a recursive function on *)
(* the subsets of the set, which exists and is unique because strict       *)
(* inclusion of finite sets is well founded; every induction below picks a *)
(* smallest counterexample (Minimal).                                      *)
(***************************************************************************)
EXTENDS FiniteSetsExt, FiniteSetTheorems, TLAPS

\* The sum of f over S.
Total(f, S) == MapThenSumSet(LAMBDA x : f[x], S)

\* The order in which the fold takes the elements.
SomeOf(s) == CHOOSE x \in s : TRUE

\* g is the function of the fold over S.
Sums(f, S, g) ==
    g = [s \in SUBSET S |-> IF s = {} THEN 0 ELSE f[SomeOf(s)] + g[s \ {SomeOf(s)}]]
FoldOf(f, S) == CHOOSE g : Sums(f, S, g)

LEMMA TotalIsFold == ASSUME NEW f, NEW S PROVE Total(f, S) = FoldOf(f, S)[S]
  BY DEF Total, MapThenSumSet, MapThenFoldSet, Sums, FoldOf, SomeOf

\* A non-empty family of subsets of a finite set has a smallest member.
LEMMA Minimal ==
  ASSUME NEW S, IsFiniteSet(S), NEW B \in SUBSET SUBSET S, B # {}
  PROVE  \E U \in B : \A V \in B : ~(V \subseteq U /\ V # U)
<1>1. IsWellFoundedOn(StrictSubsetOrdering(S), SUBSET S)
  BY FS_StrictSubsetOrderingWellFounded, FS_FiniteSubsetsOfFinite
<1>2. \E U \in B : \A V \in B : ~(<<V, U>> \in StrictSubsetOrdering(S))
  BY <1>1, WFMin
<1> QED
  BY <1>2 DEF StrictSubsetOrdering

LEMMA SomeOfFacts ==
  ASSUME NEW s, s # {}
  PROVE  SomeOf(s) \in s /\ s \ {SomeOf(s)} \subseteq s /\ s \ {SomeOf(s)} # s
<1>1. SomeOf(s) \in s
  BY DEF SomeOf
<1> QED BY <1>1

\* Two such functions agree where both are defined.
LEMMA SumsAgree ==
  ASSUME NEW f, NEW U, NEW V, IsFiniteSet(U), NEW g, NEW h, Sums(f, U, g), Sums(f, V, h),
         NEW s \in SUBSET U, s \in SUBSET V
  PROVE  g[s] = h[s]
<1> DEFINE B == {t \in SUBSET U : t \subseteq V /\ g[t] # h[t]}
<1>1. SUFFICES ASSUME B # {} PROVE FALSE
  OBVIOUS
<1>0. B \in SUBSET SUBSET U
  OBVIOUS
<1> HIDE DEF B
<1>2. PICK t \in B : \A v \in B : ~(v \subseteq t /\ v # t)
  BY <1>0, <1>1, Minimal
<1> USE DEF B
<1>3. CASE t = {}
  BY <1>2, <1>3 DEF Sums
<1>4. CASE t # {}
  <2>1. t \ {SomeOf(t)} \in SUBSET U /\ t \ {SomeOf(t)} \subseteq V /\ t \ {SomeOf(t)} \notin B
    BY <1>2, <1>4, SomeOfFacts
  <2>2. g[t \ {SomeOf(t)}] = h[t \ {SomeOf(t)}]
    BY <2>1
  <2>3. g[t] = f[SomeOf(t)] + g[t \ {SomeOf(t)}] /\ h[t] = f[SomeOf(t)] + h[t \ {SomeOf(t)}]
    BY <1>2, <1>4 DEF Sums
  <2> QED BY <1>2, <2>2, <2>3
<1> QED BY <1>3, <1>4

\* The recursive function of the fold exists.
LEMMA SumsExists ==
  ASSUME NEW f, NEW S, IsFiniteSet(S)
  PROVE  Sums(f, S, FoldOf(f, S))
<1> DEFINE B == {U \in SUBSET S : ~ Sums(f, U, FoldOf(f, U))}
<1>1. SUFFICES ASSUME B # {} PROVE FALSE
  OBVIOUS
<1>0. B \in SUBSET SUBSET S
  OBVIOUS
<1> HIDE DEF B
<1>2. PICK U \in B : \A V \in B : ~(V \subseteq U /\ V # U)
  BY <1>0, <1>1, Minimal
<1> USE DEF B
<1>3. ASSUME NEW V, V \subseteq U, V # U PROVE Sums(f, V, FoldOf(f, V)) /\ IsFiniteSet(V)
  BY <1>2, <1>3, FS_Subset
<1> DEFINE h == [s \in SUBSET U |->
                   IF s = {} THEN 0
                   ELSE f[SomeOf(s)] + FoldOf(f, s \ {SomeOf(s)})[s \ {SomeOf(s)}]]
<1>4. ASSUME NEW W, W \subseteq U, W # U PROVE h[W] = FoldOf(f, W)[W]
  <2>1. Sums(f, W, FoldOf(f, W))
    BY <1>3, <1>4
  <2>2. CASE W = {}
    BY <1>4, <2>1, <2>2 DEF Sums
  <2>3. CASE W # {}
    <3> DEFINE X == W \ {SomeOf(W)}
    <3>1. X \subseteq W /\ X # W
      BY <2>3, SomeOfFacts
    <3>2. X \subseteq U /\ X # U
      BY <3>1, <1>4
    <3>3. Sums(f, X, FoldOf(f, X)) /\ IsFiniteSet(X)
      BY <3>2, <1>3
    <3>4. FoldOf(f, X)[X] = FoldOf(f, W)[X]
      BY <3>1, <3>3, <2>1, SumsAgree
    <3>5. FoldOf(f, W)[W] = f[SomeOf(W)] + FoldOf(f, W)[X]
      BY <2>1, <2>3 DEF Sums
    <3>6. h[W] = f[SomeOf(W)] + FoldOf(f, X)[X]
      BY <1>4, <2>3
    <3> QED BY <3>4, <3>5, <3>6
  <2> QED BY <2>2, <2>3
<1>5. \A s \in SUBSET U : s # {} => h[s \ {SomeOf(s)}] = FoldOf(f, s \ {SomeOf(s)})[s \ {SomeOf(s)}]
  <2> TAKE s \in SUBSET U
  <2> HAVE s # {}
  <2>1. s \ {SomeOf(s)} \subseteq U /\ s \ {SomeOf(s)} # U
    BY SomeOfFacts
  <2> QED BY <2>1, <1>4
<1>6. h = [s \in SUBSET U |-> IF s = {} THEN 0 ELSE f[SomeOf(s)] + h[s \ {SomeOf(s)}]]
  BY <1>5
<1>7. Sums(f, U, h)
  <2> HIDE DEF h
  <2> QED BY <1>6 DEF Sums
<1>8. Sums(f, U, FoldOf(f, U))
  <2> HIDE DEF h
  <2> QED BY <1>7 DEF FoldOf
<1> QED BY <1>2, <1>8

\* The recursion equation of the sum.
LEMMA TotalStep ==
  ASSUME NEW f, NEW S, IsFiniteSet(S)
  PROVE  Total(f, S) = IF S = {} THEN 0 ELSE f[SomeOf(S)] + Total(f, S \ {SomeOf(S)})
<1>1. Sums(f, S, FoldOf(f, S))
  BY SumsExists
<1>2. CASE S = {}
  BY <1>1, <1>2, TotalIsFold DEF Sums
<1>3. CASE S # {}
  <2> DEFINE X == S \ {SomeOf(S)}
  <2>1. X \subseteq S /\ IsFiniteSet(X)
    BY <1>3, FS_Subset
  <2>2. Sums(f, X, FoldOf(f, X))
    BY <2>1, SumsExists
  <2>3. FoldOf(f, X)[X] = FoldOf(f, S)[X]
    BY <1>1, <2>1, <2>2, SumsAgree
  <2>4. FoldOf(f, S)[S] = f[SomeOf(S)] + FoldOf(f, S)[X]
    BY <1>1, <1>3 DEF Sums
  <2> QED BY <1>3, <2>3, <2>4, TotalIsFold
<1> QED BY <1>2, <1>3

\* A sum of integers is an integer.
LEMMA TotalInt ==
  ASSUME NEW f, NEW S, IsFiniteSet(S), \A x \in S : f[x] \in Int
  PROVE  Total(f, S) \in Int
<1> DEFINE B == {U \in SUBSET S : Total(f, U) \notin Int}
<1>1. SUFFICES ASSUME B # {} PROVE FALSE
  OBVIOUS
<1>0. B \in SUBSET SUBSET S
  OBVIOUS
<1> HIDE DEF B
<1>2. PICK U \in B : \A V \in B : ~(V \subseteq U /\ V # U)
  BY <1>0, <1>1, Minimal
<1> USE DEF B
<1>3. U \subseteq S /\ IsFiniteSet(U)
  BY <1>2, FS_Subset
<1>4. CASE U = {}
  <2>1. Total(f, U) = 0
    BY <1>3, <1>4, TotalStep
  <2>2. Total(f, U) \notin Int
    BY <1>2
  <2> QED BY <2>1, <2>2
<1>5. CASE U # {}
  <2>1. U \ {SomeOf(U)} \in SUBSET S /\ Total(f, U \ {SomeOf(U)}) \in Int /\ f[SomeOf(U)] \in Int
    BY <1>2, <1>5, SomeOfFacts
  <2>2. Total(f, U) = f[SomeOf(U)] + Total(f, U \ {SomeOf(U)})
    BY <1>3, <1>5, TotalStep
  <2> QED BY <1>2, <2>1, <2>2
<1> QED BY <1>4, <1>5

\* Any element may be taken first.
LEMMA TotalRemove ==
  ASSUME NEW f, NEW S, IsFiniteSet(S), \A x \in S : f[x] \in Int, NEW y \in S
  PROVE  Total(f, S) = f[y] + Total(f, S \ {y})
<1> DEFINE Good(U) == \A x \in U : Total(f, U) = f[x] + Total(f, U \ {x})
           B == {U \in SUBSET S : ~ Good(U)}
<1>1. SUFFICES ASSUME B # {} PROVE FALSE
  OBVIOUS
<1>0. B \in SUBSET SUBSET S
  OBVIOUS
<1> HIDE DEF B
<1>2. PICK U \in B : \A V \in B : ~(V \subseteq U /\ V # U)
  BY <1>0, <1>1, Minimal
<1> USE DEF B
<1>3. PICK x \in U : Total(f, U) # f[x] + Total(f, U \ {x})
  BY <1>2
<1> DEFINE c == SomeOf(U)
<1>4. c \in U
  BY <1>3, SomeOfFacts
<1>5. IsFiniteSet(U) /\ IsFiniteSet(U \ {c}) /\ IsFiniteSet((U \ {c}) \ {x})
  BY FS_Subset
<1>6. Total(f, U) = f[c] + Total(f, U \ {c})
  BY <1>4, <1>5, TotalStep
<1>7. c # x
  BY <1>3, <1>6
<1>8. Good(U \ {c}) /\ Good(U \ {x})
  BY <1>2, <1>3, <1>4
<1>9. Total(f, U \ {c}) = f[x] + Total(f, (U \ {c}) \ {x})
  BY <1>3, <1>7, <1>8
<1>10. Total(f, U \ {x}) = f[c] + Total(f, (U \ {x}) \ {c})
  BY <1>4, <1>7, <1>8
<1>11. (U \ {x}) \ {c} = (U \ {c}) \ {x}
  OBVIOUS
<1>12. f[c] \in Int /\ f[x] \in Int /\ Total(f, (U \ {c}) \ {x}) \in Int
  BY <1>3, <1>4, <1>5, TotalInt
<1>13. Total(f, U) = f[c] + (f[x] + Total(f, (U \ {c}) \ {x}))
  BY <1>6, <1>9
<1>14. Total(f, U \ {x}) = f[c] + Total(f, (U \ {c}) \ {x})
  BY <1>10, <1>11
<1>15. \A p, q, r \in Int : p + (q + r) = q + (p + r)
  OBVIOUS
<1>16. Total(f, U) = f[x] + (f[c] + Total(f, (U \ {c}) \ {x}))
  BY <1>12, <1>13, <1>15, Zenon
<1> QED BY <1>3, <1>14, <1>16, Zenon

\* The sum depends on the values in the set only.
LEMMA TotalSame ==
  ASSUME NEW f, NEW g, NEW S, IsFiniteSet(S), \A x \in S : f[x] = g[x]
  PROVE  Total(f, S) = Total(g, S)
<1> DEFINE B == {U \in SUBSET S : Total(f, U) # Total(g, U)}
<1>1. SUFFICES ASSUME B # {} PROVE FALSE
  OBVIOUS
<1>0. B \in SUBSET SUBSET S
  OBVIOUS
<1> HIDE DEF B
<1>2. PICK U \in B : \A V \in B : ~(V \subseteq U /\ V # U)
  BY <1>0, <1>1, Minimal
<1> USE DEF B
<1>3. U \subseteq S /\ IsFiniteSet(U)
  BY <1>2, FS_Subset
<1>4. CASE U = {}
  BY <1>2, <1>3, <1>4, TotalStep
<1>5. CASE U # {}
  <2>1. /\ U \ {SomeOf(U)} \in SUBSET S
        /\ Total(f, U \ {SomeOf(U)}) = Total(g, U \ {SomeOf(U)})
        /\ f[SomeOf(U)] = g[SomeOf(U)]
    BY <1>2, <1>5, SomeOfFacts
  <2>2. /\ Total(f, U) = f[SomeOf(U)] + Total(f, U \ {SomeOf(U)})
        /\ Total(g, U) = g[SomeOf(U)] + Total(g, U \ {SomeOf(U)})
    BY <1>3, <1>5, TotalStep
  <2> QED BY <1>2, <2>1, <2>2
<1> QED BY <1>4, <1>5

\* One value moves, and the sum moves with it.
LEMMA TotalMoved ==
  ASSUME NEW S, IsFiniteSet(S), NEW f, NEW g, \A x \in S : f[x] \in Int /\ g[x] \in Int,
         NEW y \in S, \A x \in S \ {y} : g[x] = f[x]
  PROVE  Total(g, S) = Total(f, S) + (g[y] - f[y])
<1>1. IsFiniteSet(S \ {y})
  BY FS_Subset
<1>2. Total(f, S) = f[y] + Total(f, S \ {y})
  BY TotalRemove
<1>3. Total(g, S) = g[y] + Total(g, S \ {y})
  BY TotalRemove
<1>4. Total(g, S \ {y}) = Total(f, S \ {y})
  BY <1>1, TotalSame
<1>5. Total(f, S \ {y}) \in Int /\ f[y] \in Int /\ g[y] \in Int
  BY <1>1, TotalInt
<1> QED BY <1>2, <1>3, <1>4, <1>5

\* A sum of zeros.
LEMMA TotalZero ==
  ASSUME NEW f, NEW S, IsFiniteSet(S), \A x \in S : f[x] = 0
  PROVE  Total(f, S) = 0
<1> DEFINE B == {U \in SUBSET S : Total(f, U) # 0}
<1>1. SUFFICES ASSUME B # {} PROVE FALSE
  OBVIOUS
<1>0. B \in SUBSET SUBSET S
  OBVIOUS
<1> HIDE DEF B
<1>2. PICK U \in B : \A V \in B : ~(V \subseteq U /\ V # U)
  BY <1>0, <1>1, Minimal
<1> USE DEF B
<1>3. U \subseteq S /\ IsFiniteSet(U)
  BY <1>2, FS_Subset
<1>4. U # {}
  BY <1>2, <1>3, TotalStep
<1>5. U \ {SomeOf(U)} \in SUBSET S /\ Total(f, U \ {SomeOf(U)}) = 0 /\ f[SomeOf(U)] = 0
  BY <1>2, <1>3, <1>4, SomeOfFacts
<1>6. Total(f, U) = f[SomeOf(U)] + Total(f, U \ {SomeOf(U)})
  BY <1>3, <1>4, TotalStep
<1> QED BY <1>2, <1>5, <1>6

\* A sum of naturals.
LEMMA TotalNonNeg ==
  ASSUME NEW f, NEW S, IsFiniteSet(S), \A x \in S : f[x] \in Nat
  PROVE  Total(f, S) \in Nat
<1> DEFINE B == {U \in SUBSET S : Total(f, U) \notin Nat}
<1>1. SUFFICES ASSUME B # {} PROVE FALSE
  OBVIOUS
<1>0. B \in SUBSET SUBSET S
  OBVIOUS
<1> HIDE DEF B
<1>2. PICK U \in B : \A V \in B : ~(V \subseteq U /\ V # U)
  BY <1>0, <1>1, Minimal
<1> USE DEF B
<1>3. U \subseteq S /\ IsFiniteSet(U)
  BY <1>2, FS_Subset
<1>4. U # {}
  <2>1. U = {} => Total(f, U) = 0
    BY <1>3, TotalStep
  <2>2. Total(f, U) \notin Nat
    BY <1>2
  <2> QED BY <2>1, <2>2
<1>5. U \ {SomeOf(U)} \in SUBSET S /\ Total(f, U \ {SomeOf(U)}) \in Nat /\ f[SomeOf(U)] \in Nat
  BY <1>2, <1>3, <1>4, SomeOfFacts
<1>6. Total(f, U) = f[SomeOf(U)] + Total(f, U \ {SomeOf(U)})
  BY <1>3, <1>4, TotalStep
<1> QED BY <1>2, <1>5, <1>6
=============================================================================
