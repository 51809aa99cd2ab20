----------------------------- MODULE FoldTheorems ----------------------------
(***************************************************************************)
(* What the proofs need to know of sums over finite sets and of selections *)
(* from sequences.                                                         *)
(*                                                                         *)
(* A fold is a recursive function on the subsets of its set.  That there   *)
(* is one, and that its value does not depend on the order in which it     *)
(* takes the members, is proved by least counterexample: every nonempty    *)
(* set of subsets of a finite set has a member that includes no other.     *)
(***************************************************************************)
EXTENDS FiniteSums, Selections, FiniteSetTheorems, FunctionTheorems, SequenceTheorems, TLAPS

\* The member that a fold takes out of s first.
Pick(s) == CHOOSE x \in s : TRUE

\* Function g carries out the fold on the subsets of B.
Folds(g, f, B) ==
    g = [s \in SUBSET B |-> IF s = {} THEN 0 ELSE f[Pick(s)] + g[s \ {Pick(s)}]]

\* The sum is the fold of module Folds.
LEMMA SumIsAFold ==
    ASSUME NEW f, NEW S
    PROVE  SumOver(f, S) = (CHOOSE g : Folds(g, f, S))[S]
BY DEF SumOver, FoldFunctionOnSet, MapThenFoldSet, Folds, Pick

\* Every nonempty set of subsets of a finite set has a least member.
LEMMA LeastSubset ==
    ASSUME NEW B, IsFiniteSet(B), NEW T, T \subseteq SUBSET B, T # {}
    PROVE  \E x \in T : \A y \in T : y \subseteq x => y = x
<1>1. FiniteSubsetsOf(B) = SUBSET B
  BY FS_FiniteSubsetsOfFinite
<1>2. IsWellFoundedOn(StrictSubsetOrdering(B), SUBSET B)
  BY <1>1, FS_StrictSubsetOrderingWellFounded
<1>3. PICK x \in T : \A y \in T : ~ (<<y, x>> \in StrictSubsetOrdering(B))
  BY <1>2, WFMin
<1>4. \A y \in T : y \subseteq x /\ y # x => <<y, x>> \in StrictSubsetOrdering(B)
  BY DEF StrictSubsetOrdering
<1>5. \A y \in T : y \subseteq x => y = x
  BY <1>3, <1>4
<1>6. QED
  BY <1>5

\* A fold takes a member of the set.
LEMMA PickIsIn == ASSUME NEW s, s # {} PROVE Pick(s) \in s
BY DEF Pick

\* A fold unfolds at every subset.
LEMMA FoldsAt ==
    ASSUME NEW g, NEW f, NEW B, Folds(g, f, B), NEW s \in SUBSET B
    PROVE  g[s] = IF s = {} THEN 0 ELSE f[Pick(s)] + g[s \ {Pick(s)}]
<1>1. DEFINE h == [t \in SUBSET B |-> IF t = {} THEN 0 ELSE f[Pick(t)] + g[t \ {Pick(t)}]]
<1>2. g = h
  BY DEF Folds
<1>3. h[s] = IF s = {} THEN 0 ELSE f[Pick(s)] + g[s \ {Pick(s)}]
  OBVIOUS
<1>4. QED
  BY <1>2, <1>3

\* Two folds agree where both are defined.
LEMMA FoldsAgree ==
    ASSUME NEW g, NEW h, NEW f, NEW B, NEW C, Folds(g, f, B), Folds(h, f, C),
           NEW S, IsFiniteSet(S), S \subseteq B, S \subseteq C
    PROVE  g[S] = h[S]
<1> DEFINE T == {s \in SUBSET S : g[s] # h[s]}
<1>1. SUFFICES ASSUME T # {} PROVE FALSE
  OBVIOUS
<1>2. PICK x \in T : \A y \in T : y \subseteq x => y = x
  <2>1. T \subseteq SUBSET S
    OBVIOUS
  <2> HIDE DEF T
  <2>2. QED
    BY <1>1, <2>1, LeastSubset
<1>3. x \in SUBSET B /\ x \in SUBSET C /\ g[x] # h[x]
  OBVIOUS
<1>4. g[x] = IF x = {} THEN 0 ELSE f[Pick(x)] + g[x \ {Pick(x)}]
  BY <1>3, FoldsAt
<1>5. h[x] = IF x = {} THEN 0 ELSE f[Pick(x)] + h[x \ {Pick(x)}]
  BY <1>3, FoldsAt
<1>6. x # {}
  BY <1>3, <1>4, <1>5
<1>7. Pick(x) \in x
  BY <1>6, PickIsIn
<1>8. x \ {Pick(x)} \notin T
  BY <1>2, <1>7
<1>9. g[x \ {Pick(x)}] = h[x \ {Pick(x)}]
  BY <1>8
<1>10. QED
  BY <1>3, <1>4, <1>5, <1>6, <1>9

\* The fold over B.
FoldOn(f, B) == CHOOSE g : Folds(g, f, B)

\* There is a fold over every finite set.
LEMMA FoldExists ==
    ASSUME NEW f, NEW B, IsFiniteSet(B)
    PROVE  \E g : Folds(g, f, B)
<1> DEFINE T == {s \in SUBSET B : ~ \E g : Folds(g, f, s)}
<1>1. SUFFICES ASSUME T # {} PROVE FALSE
  OBVIOUS
<1>2. PICK x \in T : \A y \in T : y \subseteq x => y = x
  <2>1. T \subseteq SUBSET B
    OBVIOUS
  <2> HIDE DEF T
  <2>2. QED
    BY <1>1, <2>1, LeastSubset
<1>3. x \subseteq B /\ ~ \E g : Folds(g, f, x)
  OBVIOUS
<1>4. \A y : y \subseteq x /\ y # x => Folds(FoldOn(f, y), f, y)
  <2>1. SUFFICES ASSUME NEW y, y \subseteq x, y # x PROVE \E g : Folds(g, f, y)
    BY DEF FoldOn
  <2>2. y \notin T
    BY <1>2, <2>1
  <2>3. QED
    BY <1>3, <2>1, <2>2
<1> DEFINE
    Rest(s) == s \ {Pick(s)}
    h == [s \in SUBSET x |-> IF s = {} THEN 0 ELSE f[Pick(s)] + FoldOn(f, Rest(s))[Rest(s)]]
<1>5. \A s \in SUBSET x : s # {} => h[Rest(s)] = FoldOn(f, Rest(s))[Rest(s)]
  <2>1. SUFFICES ASSUME NEW s \in SUBSET x, s # {}
                 PROVE  h[Rest(s)] = FoldOn(f, Rest(s))[Rest(s)]
    OBVIOUS
  <2> DEFINE t == Rest(s)
  <2>2. Pick(s) \in s
    BY <2>1, PickIsIn
  <2>3. t \subseteq x /\ t # x
    BY <2>2
  <2>4. Folds(FoldOn(f, t), f, t)
    BY <1>4, <2>3
  <2>5. FoldOn(f, t)[t] = IF t = {} THEN 0 ELSE f[Pick(t)] + FoldOn(f, t)[Rest(t)]
    <3>1. t \in SUBSET t
      OBVIOUS
    <3> HIDE DEF t, h
    <3>2. QED
      BY <2>4, <3>1, FoldsAt
  <2>6. h[t] = IF t = {} THEN 0 ELSE f[Pick(t)] + FoldOn(f, Rest(t))[Rest(t)]
    BY <2>3
  <2>7. CASE t = {}
    BY <2>5, <2>6, <2>7
  <2>8. CASE t # {}
    <3>1. Rest(t) \subseteq x /\ Rest(t) # x /\ Rest(t) \subseteq t
      BY <2>3
    <3>2. Folds(FoldOn(f, Rest(t)), f, Rest(t))
      BY <1>4, <3>1
    <3>3. IsFiniteSet(Rest(t))
      BY <1>3, <3>1, FS_Subset
    <3>4. FoldOn(f, t)[Rest(t)] = FoldOn(f, Rest(t))[Rest(t)]
      BY <2>4, <3>1, <3>2, <3>3, FoldsAgree
    <3>5. QED
      BY <2>5, <2>6, <2>8, <3>4
  <2>9. QED
    BY <2>7, <2>8
<1>6. h = [s \in SUBSET x |-> IF s = {} THEN 0 ELSE f[Pick(s)] + h[Rest(s)]]
  BY <1>5
<1>7. Folds(h, f, x)
  BY <1>6 DEF Folds
<1>8. QED
  BY <1>3, <1>7

\* The sum over a set is what it picks first and the sum over the rest.
LEMMA SumUnfolds ==
    ASSUME NEW f, NEW S, IsFiniteSet(S)
    PROVE  SumOver(f, S) = IF S = {} THEN 0 ELSE f[Pick(S)] + SumOver(f, S \ {Pick(S)})
<1> DEFINE R == S \ {Pick(S)}
<1>1. IsFiniteSet(R)
  BY FS_Subset
<1>2. Folds(FoldOn(f, S), f, S) /\ Folds(FoldOn(f, R), f, R)
  BY <1>1, FoldExists DEF FoldOn
<1>3. SumOver(f, S) = FoldOn(f, S)[S] /\ SumOver(f, R) = FoldOn(f, R)[R]
  BY SumIsAFold DEF FoldOn
<1>4. FoldOn(f, S)[S] = IF S = {} THEN 0 ELSE f[Pick(S)] + FoldOn(f, S)[R]
  BY <1>2, FoldsAt
<1>5. FoldOn(f, S)[R] = FoldOn(f, R)[R]
  BY <1>1, <1>2, FoldsAgree
<1>6. QED
  BY <1>3, <1>4, <1>5

\* The sum of nothing.
LEMMA SumOfNone == ASSUME NEW f PROVE SumOver(f, {}) = 0
BY SumUnfolds, FS_EmptySet

\* A sum of integers is one.
LEMMA SumIsInt ==
    ASSUME NEW f, NEW S, IsFiniteSet(S), \A x \in S : f[x] \in Int
    PROVE  SumOver(f, S) \in Int
<1> DEFINE T == {s \in SUBSET S : SumOver(f, s) \notin Int}
<1>1. SUFFICES ASSUME T # {} PROVE FALSE
  OBVIOUS
<1>2. PICK x \in T : \A y \in T : y \subseteq x => y = x
  <2>1. T \subseteq SUBSET S
    OBVIOUS
  <2> HIDE DEF T
  <2>2. QED
    BY <1>1, <2>1, LeastSubset
<1>3. x \in SUBSET S /\ SumOver(f, x) \notin Int /\ IsFiniteSet(x)
  BY FS_Subset
<1>4. SumOver(f, x) = IF x = {} THEN 0 ELSE f[Pick(x)] + SumOver(f, x \ {Pick(x)})
  BY <1>3, SumUnfolds
<1>5. x # {}
  BY <1>3, <1>4
<1>6. Pick(x) \in x
  BY <1>5, PickIsIn
<1>7. SumOver(f, x \ {Pick(x)}) \in Int
  BY <1>2, <1>6
<1>8. QED
  BY <1>3, <1>4, <1>5, <1>6, <1>7

\* The order of the summands does not matter.
LEMMA SumTakes ==
    ASSUME NEW f, NEW S, IsFiniteSet(S), \A x \in S : f[x] \in Int, NEW a \in S
    PROVE  SumOver(f, S) = f[a] + SumOver(f, S \ {a})
<1> DEFINE
    T == {s \in SUBSET S : ~ \A b \in s : SumOver(f, s) = f[b] + SumOver(f, s \ {b})}
<1>1. SUFFICES ASSUME T # {} PROVE FALSE
  OBVIOUS
<1>2. PICK x \in T : \A y \in T : y \subseteq x => y = x
  <2>1. T \subseteq SUBSET S
    OBVIOUS
  <2> HIDE DEF T
  <2>2. QED
    BY <1>1, <2>1, LeastSubset
<1>3. x \in SUBSET S /\ IsFiniteSet(x)
  BY FS_Subset
<1>4. PICK b \in x : SumOver(f, x) # f[b] + SumOver(f, x \ {b})
  OBVIOUS
<1> DEFINE p == Pick(x)
<1>5. p \in x
  BY <1>4, PickIsIn
<1>6. SumOver(f, x) = f[p] + SumOver(f, x \ {p})
  BY <1>3, <1>4, SumUnfolds
<1>7. p # b
  BY <1>4, <1>6
<1>8. x \ {p} \notin T /\ x \ {b} \notin T
  BY <1>2, <1>4, <1>5
<1>9. SumOver(f, x \ {p}) = f[b] + SumOver(f, (x \ {p}) \ {b})
  BY <1>3, <1>4, <1>7, <1>8
<1>10. SumOver(f, x \ {b}) = f[p] + SumOver(f, (x \ {b}) \ {p})
  BY <1>3, <1>5, <1>7, <1>8
<1>11. (x \ {p}) \ {b} = (x \ {b}) \ {p}
  OBVIOUS
<1>12. SumOver(f, (x \ {p}) \ {b}) \in Int
  <2>1. IsFiniteSet((x \ {p}) \ {b}) /\ \A y \in (x \ {p}) \ {b} : f[y] \in Int
    BY <1>3, FS_Subset
  <2>2. QED
    BY <2>1, SumIsInt
<1>13. f[p] \in Int /\ f[b] \in Int
  BY <1>3, <1>4, <1>5
<1>14. \A i, j, k \in Int : i + (j + k) = j + (i + k)
  OBVIOUS
<1>15. f[p] + (f[b] + SumOver(f, (x \ {p}) \ {b}))
         = f[b] + (f[p] + SumOver(f, (x \ {p}) \ {b}))
  BY <1>12, <1>13, <1>14
<1>16. QED
  BY <1>4, <1>6, <1>9, <1>10, <1>11, <1>15

\* A further summand is added.
LEMMA SumAdds ==
    ASSUME NEW f, NEW S, IsFiniteSet(S), NEW a, a \notin S,
           \A x \in S \cup {a} : f[x] \in Int
    PROVE  SumOver(f, S \cup {a}) = f[a] + SumOver(f, S)
<1>1. IsFiniteSet(S \cup {a}) /\ (S \cup {a}) \ {a} = S
  BY FS_AddElement
<1>2. QED
  BY <1>1, SumTakes

\* A sum depends on the summands alone.
LEMMA SumAgrees ==
    ASSUME NEW f, NEW g, NEW S, IsFiniteSet(S), \A x \in S : f[x] = g[x]
    PROVE  SumOver(f, S) = SumOver(g, S)
<1> DEFINE T == {s \in SUBSET S : SumOver(f, s) # SumOver(g, s)}
<1>1. SUFFICES ASSUME T # {} PROVE FALSE
  OBVIOUS
<1>2. PICK x \in T : \A y \in T : y \subseteq x => y = x
  <2>1. T \subseteq SUBSET S
    OBVIOUS
  <2> HIDE DEF T
  <2>2. QED
    BY <1>1, <2>1, LeastSubset
<1>3. x \in SUBSET S /\ SumOver(f, x) # SumOver(g, x) /\ IsFiniteSet(x)
  BY FS_Subset
<1>4. /\ SumOver(f, x) = IF x = {} THEN 0 ELSE f[Pick(x)] + SumOver(f, x \ {Pick(x)})
      /\ SumOver(g, x) = IF x = {} THEN 0 ELSE g[Pick(x)] + SumOver(g, x \ {Pick(x)})
  BY <1>3, SumUnfolds
<1>5. x # {}
  BY <1>3, <1>4
<1>6. Pick(x) \in x
  BY <1>5, PickIsIn
<1>7. SumOver(f, x \ {Pick(x)}) = SumOver(g, x \ {Pick(x)})
  BY <1>2, <1>6
<1>8. QED
  BY <1>3, <1>4, <1>5, <1>6, <1>7

\* The sum over a set is that over a subset and that over the rest.
LEMMA SumSplits ==
    ASSUME NEW f, NEW S, IsFiniteSet(S), \A x \in S : f[x] \in Int, NEW R, R \subseteq S
    PROVE  SumOver(f, S) = SumOver(f, R) + SumOver(f, S \ R)
<1> DEFINE T == {s \in SUBSET R : SumOver(f, S) # SumOver(f, s) + SumOver(f, S \ s)}
<1>0. IsFiniteSet(R)
  BY FS_Subset
<1>1. SUFFICES ASSUME T # {} PROVE FALSE
  OBVIOUS
<1>2. PICK x \in T : \A y \in T : y \subseteq x => y = x
  <2>1. T \subseteq SUBSET R
    OBVIOUS
  <2> HIDE DEF T
  <2>2. QED
    BY <1>0, <1>1, <2>1, LeastSubset
<1>3. /\ x \in SUBSET S
      /\ SumOver(f, S) # SumOver(f, x) + SumOver(f, S \ x)
      /\ IsFiniteSet(x)
  BY FS_Subset
<1>4. x # {}
  <2>1. S \ {} = S /\ SumOver(f, {}) = 0 /\ SumOver(f, S) \in Int
    BY SumIsInt, SumOfNone
  <2>2. 0 + SumOver(f, S) = SumOver(f, S)
    BY <2>1
  <2>3. x = {} => SumOver(f, x) + SumOver(f, S \ x) = 0 + SumOver(f, S)
    BY <2>1
  <2>4. QED
    BY <1>3, <2>2, <2>3
<1>5. PICK a \in x : TRUE
  BY <1>4
<1> DEFINE y == x \ {a}
<1>6. SumOver(f, S) = SumOver(f, y) + SumOver(f, S \ y)
  BY <1>2, <1>5
<1>7. SumOver(f, x) = f[a] + SumOver(f, y)
  BY <1>3, <1>5, SumTakes
<1>8. SumOver(f, S \ y) = f[a] + SumOver(f, S \ x)
  <2>1. IsFiniteSet(S \ y) /\ a \in S \ y /\ (S \ y) \ {a} = S \ x
    BY <1>3, <1>5, FS_Subset
  <2>2. QED
    BY <2>1, SumTakes
<1>9. SumOver(f, y) \in Int /\ SumOver(f, S \ x) \in Int /\ f[a] \in Int
  <2>1. IsFiniteSet(y) /\ IsFiniteSet(S \ x)
    BY <1>3, FS_Subset
  <2>2. QED
    BY <1>3, <1>5, <2>1, SumIsInt
<1> HIDE DEF y, T
<1>10. QED
  BY <1>3, <1>6, <1>7, <1>8, <1>9

\* Larger summands make a larger sum.
LEMMA SumGrows ==
    ASSUME NEW f, NEW g, NEW S, IsFiniteSet(S),
           \A x \in S : f[x] \in Int /\ g[x] \in Int /\ f[x] <= g[x]
    PROVE  SumOver(f, S) <= SumOver(g, S)
<1> DEFINE T == {s \in SUBSET S : ~ (SumOver(f, s) <= SumOver(g, s))}
<1>1. SUFFICES ASSUME T # {} PROVE FALSE
  OBVIOUS
<1>2. PICK x \in T : \A y \in T : y \subseteq x => y = x
  <2>1. T \subseteq SUBSET S
    OBVIOUS
  <2> HIDE DEF T
  <2>2. QED
    BY <1>1, <2>1, LeastSubset
<1>3. x \in SUBSET S /\ ~ (SumOver(f, x) <= SumOver(g, x)) /\ IsFiniteSet(x)
  BY FS_Subset
<1>4. /\ SumOver(f, x) = IF x = {} THEN 0 ELSE f[Pick(x)] + SumOver(f, x \ {Pick(x)})
      /\ SumOver(g, x) = IF x = {} THEN 0 ELSE g[Pick(x)] + SumOver(g, x \ {Pick(x)})
  BY <1>3, SumUnfolds
<1>5. x # {}
  <2>1. 0 <= 0
    OBVIOUS
  <2>2. x = {} => SumOver(f, x) = 0 /\ SumOver(g, x) = 0
    BY SumOfNone
  <2>3. QED
    BY <1>3, <2>1, <2>2
<1>6. Pick(x) \in x
  BY <1>5, PickIsIn
<1> DEFINE y == x \ {Pick(x)}
<1>7. SumOver(f, y) <= SumOver(g, y)
  BY <1>2, <1>6
<1>8. SumOver(f, y) \in Int /\ SumOver(g, y) \in Int
  <2>1. IsFiniteSet(y) /\ \A z \in y : f[z] \in Int /\ g[z] \in Int
    BY <1>3, FS_Subset
  <2>2. QED
    BY <2>1, SumIsInt
<1>9. f[Pick(x)] \in Int /\ g[Pick(x)] \in Int /\ f[Pick(x)] <= g[Pick(x)]
  BY <1>3, <1>6
<1> HIDE DEF y, T
<1>10. QED
  BY <1>3, <1>4, <1>5, <1>7, <1>8, <1>9 DEF y

\* A sum of zeros is zero.
LEMMA SumOfZeros ==
    ASSUME NEW f, NEW S, IsFiniteSet(S), \A x \in S : f[x] = 0
    PROVE  SumOver(f, S) = 0
<1> DEFINE T == {s \in SUBSET S : SumOver(f, s) # 0}
<1>1. SUFFICES ASSUME T # {} PROVE FALSE
  OBVIOUS
<1>2. PICK x \in T : \A y \in T : y \subseteq x => y = x
  <2>1. T \subseteq SUBSET S
    OBVIOUS
  <2> HIDE DEF T
  <2>2. QED
    BY <1>1, <2>1, LeastSubset
<1>3. x \in SUBSET S /\ SumOver(f, x) # 0 /\ IsFiniteSet(x)
  BY FS_Subset
<1>4. x # {}
  BY <1>3, SumOfNone
<1>5. Pick(x) \in x
  BY <1>4, PickIsIn
<1>6. SumOver(f, x \ {Pick(x)}) = 0
  BY <1>2, <1>5
<1>7. SumOver(f, x) = f[Pick(x)] + SumOver(f, x \ {Pick(x)})
  BY <1>3, <1>4, SumUnfolds
<1>8. f[Pick(x)] = 0
  BY <1>3, <1>5
<1>9. QED
  BY <1>3, <1>6, <1>7, <1>8

\* A sum in which the terms of the members of M are greater by one.
LEMMA SumMarked ==
    ASSUME NEW f, NEW g, NEW S, IsFiniteSet(S), NEW M, M \subseteq S,
           \A x \in S : f[x] \in Int,
           \A x \in S : g[x] = IF x \in M THEN f[x] + 1 ELSE f[x]
    PROVE  SumOver(g, S) = SumOver(f, S) + Cardinality(M)
<1> DEFINE T == {s \in SUBSET S : SumOver(g, s) # SumOver(f, s) + Cardinality(s \cap M)}
<1>1. SUFFICES ASSUME T # {} PROVE FALSE
  <2>1. S \notin T /\ S \cap M = M
    BY <1>1
  <2>2. QED
    BY <2>1
<1>2. PICK x \in T : \A y \in T : y \subseteq x => y = x
  <2>1. T \subseteq SUBSET S
    OBVIOUS
  <2> HIDE DEF T
  <2>2. QED
    BY <1>1, <2>1, LeastSubset
<1> DEFINE a == Pick(x)
           y == x \ {a}
<1>3. /\ x \in SUBSET S /\ SumOver(g, x) # SumOver(f, x) + Cardinality(x \cap M)
      /\ IsFiniteSet(x)
  BY FS_Subset
<1>4. x # {}
  <2>1. SUFFICES ASSUME x = {} PROVE FALSE
    OBVIOUS
  <2>2. {} \cap M = {} /\ Cardinality({}) = 0
    BY FS_EmptySet
  <2>3. SumOver(g, {}) = 0 /\ SumOver(f, {}) = 0
    BY SumOfNone
  <2> HIDE DEF T
  <2>4. SumOver(g, {}) # SumOver(f, {}) + Cardinality({} \cap M)
    BY <1>3, <2>1
  <2>5. QED
    BY <2>2, <2>3, <2>4
<1>5. a \in x
  BY <1>4, PickIsIn
<1>6. y \in SUBSET S /\ y # x /\ y \subseteq x /\ IsFiniteSet(y) /\ IsFiniteSet(y \cap M)
  BY <1>3, <1>5, FS_Subset
<1>7. SumOver(g, y) = SumOver(f, y) + Cardinality(y \cap M)
  BY <1>2, <1>6
<1>8. SumOver(g, x) = g[a] + SumOver(g, y) /\ SumOver(f, x) = f[a] + SumOver(f, y)
  BY <1>3, <1>4, SumUnfolds
<1>9. f[a] \in Int /\ SumOver(f, y) \in Int
  BY <1>3, <1>5, <1>6, SumIsInt
<1>10. /\ a \in M => (x \cap M) = (y \cap M) \cup {a} /\ a \notin y \cap M
       /\ a \notin M => (x \cap M) = (y \cap M)
  BY <1>5
<1>11. Cardinality(y \cap M) \in Nat
  BY <1>6, FS_CardinalityType
<1>12. a \in M => Cardinality(x \cap M) = Cardinality(y \cap M) + 1
  BY <1>6, <1>10, FS_AddElement
<1>13. g[a] = IF a \in M THEN f[a] + 1 ELSE f[a]
  BY <1>3, <1>5
<1>14. SumOver(g, x) # SumOver(f, x) + Cardinality(x \cap M)
  BY <1>3
<1> HIDE DEF T, y, a
<1>15. CASE a \in M
  <2>1. g[a] = f[a] + 1 /\ Cardinality(x \cap M) = Cardinality(y \cap M) + 1
    BY <1>12, <1>13, <1>15
  <2>2. QED
    BY <1>7, <1>8, <1>9, <1>11, <1>14, <2>1
<1>16. CASE a \notin M
  <2>1. g[a] = f[a] /\ Cardinality(x \cap M) = Cardinality(y \cap M)
    BY <1>10, <1>13, <1>16
  <2>2. QED
    BY <1>7, <1>8, <1>9, <1>11, <1>14, <2>1
<1>17. QED
  BY <1>15, <1>16

\* A sum in which one term changes.
LEMMA SumChanges ==
    ASSUME NEW f, NEW g, NEW S, IsFiniteSet(S), NEW a \in S,
           \A x \in S : f[x] \in Int /\ g[x] \in Int, \A x \in S \ {a} : f[x] = g[x]
    PROVE  SumOver(g, S) = SumOver(f, S) + (g[a] - f[a])
<1>1. SumOver(f, S) = f[a] + SumOver(f, S \ {a})
  BY SumTakes
<1>2. SumOver(g, S) = g[a] + SumOver(g, S \ {a})
  BY SumTakes
<1>3. IsFiniteSet(S \ {a})
  BY FS_RemoveElement
<1>4. SumOver(f, S \ {a}) = SumOver(g, S \ {a})
  BY <1>3, SumAgrees
<1>5. SumOver(f, S \ {a}) \in Int /\ f[a] \in Int /\ g[a] \in Int
  BY <1>3, SumIsInt
<1>6. QED
  BY <1>1, <1>2, <1>4, <1>5

\* A sum of naturals is one.
LEMMA SumIsNat ==
    ASSUME NEW f, NEW S, IsFiniteSet(S), \A x \in S : f[x] \in Nat
    PROVE  SumOver(f, S) \in Nat
<1> DEFINE zero == [x \in S |-> 0]
<1>1. \A x \in S : zero[x] = 0 /\ zero[x] \in Int /\ f[x] \in Int /\ zero[x] <= f[x]
  OBVIOUS
<1> HIDE DEF zero
<1>2. SumOver(zero, S) = 0
  BY <1>1, SumOfZeros
<1>3. SumOver(zero, S) <= SumOver(f, S) /\ SumOver(f, S) \in Int
  BY <1>1, SumGrows, SumIsInt
<1>4. QED
  BY <1>2, <1>3

\* A nonempty finite set of numbers has a greatest one.
LEMMA FiniteMax ==
    ASSUME NEW S, IsFiniteSet(S)
    PROVE  S \subseteq Nat /\ S # {} => \E x \in S : \A y \in S : x >= y
<1> DEFINE T == {s \in SUBSET S : s # {} /\ ~ \E x \in s : \A y \in s : x >= y}
<1>1. T # {} => \E x \in T : \A y \in T : y \subseteq x => y = x
  <2>1. T \subseteq SUBSET S
    OBVIOUS
  <2> HIDE DEF T
  <2>2. QED
    BY <2>1, LeastSubset
<1>2. SUFFICES ASSUME S \subseteq Nat, T # {} PROVE FALSE
  OBVIOUS
<1>3. PICK s \in T : \A y \in T : y \subseteq s => y = s
  BY <1>1, <1>2
<1>4. PICK e \in s : e \in Nat
  BY <1>2
<1>5. s \ {e} \notin T /\ s \ {e} \in SUBSET S
  BY <1>3, <1>4
<1>6. CASE s \ {e} = {}
  <2>1. \A y \in s : e >= y
    BY <1>4, <1>6
  <2>2. QED
    BY <1>4, <2>1
<1>7. CASE s \ {e} # {}
  <2>1. PICK m \in s \ {e} : \A y \in s \ {e} : m >= y
    BY <1>5, <1>7
  <2>2. m \in Nat /\ \A y \in s : y = e \/ m >= y
    BY <1>2, <1>3, <2>1
  <2>3. (\A y \in s : m >= y) \/ (\A y \in s : e >= y)
    BY <1>4, <2>2
  <2>4. QED
    BY <1>4, <2>1, <2>3
<1>8. QED
  BY <1>6, <1>7

-----------------------------------------------------------------------------
(* Selections *)

\* Every nonempty set of natural numbers has a least one.
LEMMA LeastNatural ==
    ASSUME NEW T, T \subseteq Nat, T # {}
    PROVE  \E n \in T : \A m \in T : n <= m
<1>1. PICK n \in T : \A m \in T : ~ (<<m, n>> \in OpToRel(<, Nat))
  BY NatLessThanWellFounded, WFMin
<1>2. \A m \in T : ~ (m < n)
  BY <1>1 DEF OpToRel
<1>3. QED
  BY <1>2

\* Function g carries out the selection from the first n places.
Selects(g, s, I, n) ==
    g = [k \in 0 .. n |-> IF k = 0 THEN << >>
                          ELSE IF k \in I THEN Append(g[k - 1], s[k]) ELSE g[k - 1]]

LEMMA SelectIsAFold ==
    ASSUME NEW s, NEW I
    PROVE  SelectAt(s, I) = (CHOOSE g : Selects(g, s, I, Len(s)))[Len(s)]
BY DEF SelectAt, Selects

LEMMA SelectsAt ==
    ASSUME NEW g, NEW s, NEW I, NEW n, Selects(g, s, I, n), NEW k \in 0 .. n
    PROVE  g[k] = IF k = 0 THEN << >>
                  ELSE IF k \in I THEN Append(g[k - 1], s[k]) ELSE g[k - 1]
<1> DEFINE h == [j \in 0 .. n |-> IF j = 0 THEN << >>
                          ELSE IF j \in I THEN Append(g[j - 1], s[j]) ELSE g[j - 1]]
<1>1. g = h
  BY DEF Selects
<1>2. h[k] = IF k = 0 THEN << >>
             ELSE IF k \in I THEN Append(g[k - 1], s[k]) ELSE g[k - 1]
  OBVIOUS
<1>3. QED
  BY <1>1, <1>2

\* There is a selection from the first n places.
LEMMA SelectsExists ==
    ASSUME NEW s, NEW I, NEW n \in Nat
    PROVE  \E g : Selects(g, s, I, n)
<1> DEFINE T == {m \in Nat : ~ \E g : Selects(g, s, I, m)}
<1>1. SUFFICES ASSUME T # {} PROVE FALSE
  OBVIOUS
<1>2. PICK m \in T : \A j \in T : m <= j
  <2>1. T \subseteq Nat
    OBVIOUS
  <2> HIDE DEF T
  <2>2. QED
    BY <1>1, <2>1, LeastNatural
<1>3. m \in Nat /\ ~ \E g : Selects(g, s, I, m)
  OBVIOUS
<1>4. m # 0
  <2>1. Selects([k \in 0 .. 0 |-> << >>], s, I, 0)
    BY DEF Selects
  <2>2. QED
    BY <1>3, <2>1
<1>5. PICK g : Selects(g, s, I, m - 1)
  <2>1. m - 1 \in Nat /\ m - 1 \notin T
    BY <1>2, <1>3, <1>4
  <2>2. QED
    BY <2>1
<1> DEFINE h == [k \in 0 .. m |-> IF k < m THEN g[k]
                     ELSE IF m \in I THEN Append(g[m - 1], s[m]) ELSE g[m - 1]]
<1> HIDE DEF T
<1>6. \A k \in 0 .. m :
        h[k] = IF k = 0 THEN << >>
               ELSE IF k \in I THEN Append(h[k - 1], s[k]) ELSE h[k - 1]
  <2>1. TAKE k \in 0 .. m
  <2>2. CASE k = m
    <3>1. h[k - 1] = g[m - 1]
      BY <1>3, <1>4, <2>2
    <3>2. h[k] = IF m \in I THEN Append(g[m - 1], s[m]) ELSE g[m - 1]
      BY <1>3, <2>2
    <3> HIDE DEF h
    <3>3. QED
      BY <1>4, <2>2, <3>1, <3>2
  <2>3. CASE k < m
    <3>1. k \in 0 .. m - 1
      BY <1>3, <2>3
    <3>2. g[k] = IF k = 0 THEN << >>
                 ELSE IF k \in I THEN Append(g[k - 1], s[k]) ELSE g[k - 1]
      BY <1>5, <3>1, SelectsAt
    <3>3. h[k] = g[k] /\ (k # 0 => h[k - 1] = g[k - 1])
      BY <1>3, <2>3
    <3> HIDE DEF h
    <3>4. QED
      BY <3>2, <3>3
  <2>4. QED
    BY <1>3, <2>2, <2>3
<1>7. Selects(h, s, I, m)
  <2>1. h = [k \in 0 .. m |-> h[k]]
    OBVIOUS
  <2> HIDE DEF h
  <2>2. QED
    BY <1>6, <2>1 DEF Selects
<1>8. QED
  BY <1>3, <1>7

\* Numbers of places, in their order.
Ascending(g) == \A j, k \in DOMAIN g : j < k => g[j] < g[k]

\* Sequence t has exactly the members of s at the places in I up to n, in their order: p
\* tells where each of them is.
SelectedBy(t, s, I, n, p) ==
    /\ p \in [DOMAIN t -> I \cap 1 .. n]
    /\ Ascending(p)
    /\ \A i \in I \cap 1 .. n : \E k \in DOMAIN t : p[k] = i
    /\ \A k \in DOMAIN t : t[k] = s[p[k]]

\* A selection has exactly the members it selects, in their order.
LEMMA SelectedPlaces ==
    ASSUME NEW S, NEW s \in Seq(S), NEW I
    PROVE  /\ SelectAt(s, I) \in Seq(S)
           /\ \E p : SelectedBy(SelectAt(s, I), s, I, Len(s), p)
<1>1. PICK f : f = (CHOOSE g : Selects(g, s, I, Len(s))) /\ Selects(f, s, I, Len(s))
  BY SelectsExists, LenProperties
<1> DEFINE Right(n) == f[n] \in Seq(S) /\ \E p : SelectedBy(f[n], s, I, n, p)
           T == {n \in 0 .. Len(s) : ~ Right(n)}
<1>2. SUFFICES ASSUME T # {} PROVE FALSE
  <2>1. Len(s) \in 0 .. Len(s)
    BY LenProperties
  <2>2. SelectAt(s, I) = f[Len(s)]
    BY <1>1, SelectIsAFold
  <2>3. QED
    BY <2>1, <2>2
<1>3. PICK n \in T : \A j \in T : n <= j
  <2>1. T \subseteq Nat
    BY LenProperties
  <2> HIDE DEF T
  <2>2. QED
    BY <1>2, <2>1, LeastNatural
<1>4. n \in 0 .. Len(s) /\ n \in Nat /\ Len(s) \in Nat /\ ~ Right(n)
  BY LenProperties
<1>5. f[n] = IF n = 0 THEN << >> ELSE IF n \in I THEN Append(f[n - 1], s[n]) ELSE f[n - 1]
  BY <1>1, <1>4, SelectsAt
<1>6. CASE n = 0
  <2>1. f[n] = << >> /\ << >> \in Seq(S) /\ DOMAIN << >> = {}
    BY <1>5, <1>6
  <2>2. SelectedBy(<< >>, s, I, 0, << >>)
    BY DEF SelectedBy, Ascending
  <2>3. QED
    BY <1>4, <1>6, <2>1, <2>2
<1>7. CASE n # 0
  <2>1. Right(n - 1)
    BY <1>3, <1>4, <1>7
  <2> HIDE DEF T
  <2>2. PICK p : SelectedBy(f[n - 1], s, I, n - 1, p)
    BY <2>1
  <2>3. CASE n \notin I
    <3>1. I \cap 1 .. n = I \cap 1 .. n - 1
      BY <1>4, <1>7, <2>3
    <3>2. f[n] = f[n - 1]
      BY <1>5, <1>7, <2>3
    <3>3. SelectedBy(f[n], s, I, n, p)
      BY <2>2, <3>1, <3>2 DEF SelectedBy
    <3>4. QED
      BY <1>4, <2>1, <3>2, <3>3
  <2>4. CASE n \in I
    <3> DEFINE t == f[n - 1]
               u == f[n]
               q == [k \in 1 .. Len(t) + 1 |-> IF k <= Len(t) THEN p[k] ELSE n]
    <3>1. s[n] \in S
      BY <1>4, <1>7, ElementOfSeq
    <3>2. u = Append(t, s[n]) /\ t \in Seq(S)
      BY <1>5, <1>7, <2>1, <2>4
    <3>3. /\ u \in Seq(S) /\ Len(u) = Len(t) + 1 /\ Len(t) \in Nat
          /\ DOMAIN t = 1 .. Len(t) /\ DOMAIN u = 1 .. Len(t) + 1
          /\ \A k \in 1 .. Len(t) : u[k] = t[k]
          /\ u[Len(t) + 1] = s[n]
      BY <3>1, <3>2, AppendProperties, LenProperties
    <3> HIDE DEF t, u
    <3>4. /\ p \in [1 .. Len(t) -> I \cap 1 .. n - 1]
          /\ \A j, k \in 1 .. Len(t) : j < k => p[j] < p[k]
          /\ \A i \in I \cap 1 .. n - 1 : \E k \in 1 .. Len(t) : p[k] = i
          /\ \A k \in 1 .. Len(t) : t[k] = s[p[k]]
      BY <2>2, <3>3 DEF SelectedBy, Ascending, t
    <3>5. q \in [1 .. Len(t) + 1 -> I \cap 1 .. n]
      BY <1>4, <1>7, <2>4, <3>3, <3>4
    <3>6. \A j, k \in 1 .. Len(t) + 1 : j < k => q[j] < q[k]
      BY <1>4, <1>7, <3>3, <3>4
    <3>7. \A i \in I \cap 1 .. n : \E k \in 1 .. Len(t) + 1 : q[k] = i
      <4>1. TAKE i \in I \cap 1 .. n
      <4>2. CASE i = n
        <5>1. Len(t) + 1 \in 1 .. Len(t) + 1 /\ q[Len(t) + 1] = n
          BY <3>3
        <5>2. QED
          BY <4>2, <5>1
      <4>3. CASE i # n
        <5>1. i \in I \cap 1 .. n - 1
          BY <1>4, <4>3
        <5>2. PICK k \in 1 .. Len(t) : p[k] = i
          BY <3>4, <5>1
        <5>3. q[k] = i /\ k \in 1 .. Len(t) + 1
          BY <3>3, <5>2
        <5>4. QED
          BY <5>3
      <4>4. QED
        BY <4>2, <4>3
    <3>8. \A k \in 1 .. Len(t) + 1 : u[k] = s[q[k]]
      BY <3>3, <3>4
    <3>9. SelectedBy(u, s, I, n, q)
      <4>1. DOMAIN q = 1 .. Len(t) + 1
        OBVIOUS
      <4> HIDE DEF q
      <4>2. QED
        BY <3>3, <3>5, <3>6, <3>7, <3>8, <4>1 DEF SelectedBy, Ascending
    <3>10. QED
      BY <1>4, <3>3, <3>9 DEF u
  <2>5. QED
    BY <2>3, <2>4
<1>8. QED
  BY <1>6, <1>7

\* The members a selection has, and that it has all of them.
LEMMA SelectedMembers ==
    ASSUME NEW S, NEW s \in Seq(S), NEW I
    PROVE  /\ SelectAt(s, I) \in Seq(S)
           /\ \A k \in DOMAIN SelectAt(s, I) :
                 \E i \in I \cap DOMAIN s : SelectAt(s, I)[k] = s[i]
           /\ \A i \in I \cap DOMAIN s :
                 \E k \in DOMAIN SelectAt(s, I) : SelectAt(s, I)[k] = s[i]
<1>1. PICK p : SelectedBy(SelectAt(s, I), s, I, Len(s), p)
  BY SelectedPlaces
<1>2. SelectAt(s, I) \in Seq(S) /\ DOMAIN s = 1 .. Len(s)
  BY SelectedPlaces, LenProperties
<1>3. QED
  BY <1>1, <1>2 DEF SelectedBy

\* A selection of something is not empty.
LEMMA SelectedIsSome ==
    ASSUME NEW S, NEW s \in Seq(S), NEW I, NEW i \in DOMAIN s, i \in I
    PROVE  Len(SelectAt(s, I)) \in Nat /\ Len(SelectAt(s, I)) > 0
<1> DEFINE t == SelectAt(s, I)
<1>1. t \in Seq(S) /\ \E p : SelectedBy(t, s, I, Len(s), p)
  BY SelectedPlaces
<1> HIDE DEF t
<1>2. PICK p : SelectedBy(t, s, I, Len(s), p)
  BY <1>1
<1>3. i \in I \cap 1 .. Len(s)
  BY LenProperties
<1>4. PICK k \in DOMAIN t : p[k] = i
  BY <1>2, <1>3 DEF SelectedBy
<1>5. Len(t) \in Nat /\ DOMAIN t = 1 .. Len(t)
  BY <1>1, LenProperties
<1>6. Len(t) \in Nat /\ Len(t) > 0
  BY <1>4, <1>5
<1>7. QED
  BY <1>6 DEF t

\* A selection is no longer than what it is from.
LEMMA SelectedIsNoLonger ==
    ASSUME NEW S, NEW s \in Seq(S), NEW I
    PROVE  Len(SelectAt(s, I)) \in Nat /\ Len(SelectAt(s, I)) <= Len(s)
<1> DEFINE t == SelectAt(s, I)
<1>1. t \in Seq(S) /\ \E p : SelectedBy(t, s, I, Len(s), p)
  BY SelectedPlaces
<1> HIDE DEF t
<1>2. PICK p : SelectedBy(t, s, I, Len(s), p)
  BY <1>1
<1>3. /\ DOMAIN t = 1 .. Len(t) /\ Len(t) \in Nat /\ Len(s) \in Nat
  BY <1>1, LenProperties
<1>4. p \in [1 .. Len(t) -> 1 .. Len(s)]
  BY <1>2, <1>3 DEF SelectedBy
<1>5. \A j, k \in 1 .. Len(t) : p[j] = p[k] => j = k
  <2>1. TAKE j, k \in 1 .. Len(t)
  <2>2. p[j] \in Nat /\ p[k] \in Nat
    BY <1>4
  <2>3. (j < k => p[j] < p[k]) /\ (k < j => p[k] < p[j])
    BY <1>2, <1>3 DEF SelectedBy, Ascending
  <2>4. QED
    BY <2>2, <2>3
<1>6. p \in Injection(1 .. Len(t), 1 .. Len(s))
  BY <1>4, <1>5, Fun_IsInj
<1>7. Cardinality(1 .. Len(t)) <= Cardinality(1 .. Len(s))
  BY <1>3, <1>6, FS_Injection, FS_Interval
<1>8. ASSUME NEW n \in Nat
      PROVE  Cardinality(1 .. n) = n
  BY FS_Interval
<1>9. QED
  <2>1. Cardinality(1 .. Len(t)) = Len(t) /\ Cardinality(1 .. Len(s)) = Len(s)
    BY <1>3, <1>8
  <2>2. QED
    BY <1>3, <1>7, <2>1 DEF t
=============================================================================
