----------------------------- MODULE DataLemmas -----------------------------
(***************************************************************************)
(* Induction over data, and what it shows of the operators of the library  *)
(* the models are written with: sums over sets, folds, flattened sequences *)
(* and places.  tlapm cannot use the library's own theorems about          *)
(* induction, which have an operator for a parameter; here a property is   *)
(* the set of the numbers that have it.                                    *)
(***************************************************************************)
EXTENDS Integers, Sequences, FiniteSets, FiniteSetsExt, SequencesExt,
        FiniteSetTheorems, FunctionTheorems, SequenceTheorems, TLAPS

\* A set of natural numbers that is not empty has a least element.
LEMMA LeastElement ==
    ASSUME NEW T, T \subseteq Nat, T # {}
    PROVE  \E x \in T : \A y \in T : x <= y
  <1> DEFINE R == OpToRel(<, Nat)
  <1>1. \A x, y \in Nat : <<y, x>> \in R <=> y < x
    BY DEF OpToRel
  <1>2. IsWellFoundedOn(R, Nat)
    BY NatLessThanWellFounded
  <1> HIDE DEF R
  <1>3. PICK x \in T : \A y \in T : ~(<<y, x>> \in R)
    BY <1>2, WFMin
  <1>4. \A y \in T : ~(y < x)
    BY <1>1, <1>3
  <1> QED
    BY <1>4

\* Induction: a set with 0 and the successor of each of its elements has
\* every natural number.
LEMMA SetInduction ==
    ASSUME NEW S, 0 \in S, \A n \in Nat : n \in S => n + 1 \in S
    PROVE  Nat \subseteq S
  <1> SUFFICES ASSUME Nat \ S # {}
               PROVE  FALSE
    OBVIOUS
  <1>1. PICK x \in Nat \ S : \A y \in Nat \ S : x <= y
    BY LeastElement
  <1>2. x - 1 \in Nat /\ ~(x <= x - 1) /\ (x - 1) + 1 = x
    BY <1>1
  <1> QED
    BY <1>1, <1>2

\* Definition by recursion along a rank: the value at d is made from d and
\* from the value at prev[d], which has a lower rank.
isRecursive(F, D, rank, prev, base, step) ==
    \A d \in D : F[d] = IF rank[d] = 0 THEN base[d] ELSE step[<<d, F[prev[d]]>>]

\* There is a function of that kind, if the ranks are bounded.
LEMMA Recursion ==
    ASSUME NEW D, NEW V, NEW rank \in [D -> Nat], NEW prev \in [D -> D],
           NEW base \in [D -> V], NEW step \in [D \X V -> V],
           \A d \in D : rank[d] # 0 => rank[prev[d]] < rank[d],
           NEW N \in Nat, \A d \in D : rank[d] <= N
    PROVE  \E F \in [D -> V] : isRecursive(F, D, rank, prev, base, step)
  <1> DEFINE Below(n) == {d \in D : rank[d] <= n}
             Good(F, n) == \A d \in Below(n) : F[d] = IF rank[d] = 0 THEN base[d] ELSE step[<<d, F[prev[d]]>>]
             Reached == {n \in Nat : \E F \in [D -> V] : Good(F, n)}
  <1>1. 0 \in Reached
    <2>1. Good(base, 0)
      OBVIOUS
    <2> QED
      BY <2>1
  <1>2. ASSUME NEW n \in Nat, n \in Reached
        PROVE  n + 1 \in Reached
    <2>1. PICK F \in [D -> V] : Good(F, n)
      BY <1>2
    <2> DEFINE G == [d \in D |-> IF rank[d] = 0 THEN base[d] ELSE step[<<d, F[prev[d]]>>]]
    <2>2. G \in [D -> V]
      OBVIOUS
    <2>3. \A d \in Below(n) : G[d] = F[d]
      BY <2>1
    <2>4. \A d \in Below(n + 1) : rank[d] # 0 => prev[d] \in Below(n)
      OBVIOUS
    <2>5. \A d \in D : G[d] = IF rank[d] = 0 THEN base[d] ELSE step[<<d, F[prev[d]]>>]
      OBVIOUS
    <2> HIDE DEF G
    <2>6. Good(G, n + 1)
      BY <2>3, <2>4, <2>5
    <2> QED
      BY <2>2, <2>6
  <1>3. Nat \subseteq Reached
    <2> HIDE DEF Reached
    <2> QED
      BY <1>1, <1>2, SetInduction
  <1>4. PICK F \in [D -> V] : Good(F, N)
    BY <1>3
  <1>5. \A d \in D : F[d] = IF rank[d] = 0 THEN base[d] ELSE step[<<d, F[prev[d]]>>]
    BY <1>4
  <1> QED
    BY <1>5 DEF isRecursive

-----------------------------------------------------------------------------
(* Sums over finite sets.                                                  *)

anyOf(T) == CHOOSE x \in T : TRUE
SumOf(f, S) == MapThenSumSet(LAMBDA x : f[x], S)

\* F has the sum of f over every subset of S.
isSum(F, f, S) ==
    /\ IsFiniteSet(S) /\ \A x \in S : f[x] \in Int
    /\ F \in [SUBSET S -> Int]
    /\ F[{}] = 0
    /\ \A T \in SUBSET S : \A x \in T : F[T] = f[x] + F[T \ {x}]

\* The library defines a sum by recursion over the subsets of S.
sumsDefined(F, f, S) ==
    F = [s \in SUBSET S |-> IF s = {} THEN 0 ELSE f[anyOf(s)] + F[s \ {anyOf(s)}]]

\* The library's definition of a sum defines something.
LEMMA SumExists ==
    ASSUME NEW S, IsFiniteSet(S), NEW f, \A x \in S : f[x] \in Int
    PROVE  \E F : sumsDefined(F, f, S)
  <1> DEFINE D == SUBSET S
             rank == [T \in D |-> Cardinality(T)]
             prev == [T \in D |-> T \ {anyOf(T)}]
             base == [T \in D |-> 0]
             step == [p \in D \X Int |-> IF p[1] = {} THEN 0 ELSE f[anyOf(p[1])] + p[2]]
  <1>1. \A T \in D : IsFiniteSet(T) /\ Cardinality(T) \in Nat /\ Cardinality(T) <= Cardinality(S)
    BY FS_Subset, FS_CardinalityType
  <1>2. \A T \in D : Cardinality(T) = 0 <=> T = {}
    BY <1>1, FS_EmptySet
  <1>3. \A T \in D : T # {} => anyOf(T) \in T
    BY DEF anyOf
  <1>4. \A T \in D : T # {} => Cardinality(T \ {anyOf(T)}) = Cardinality(T) - 1
    BY <1>1, <1>3, FS_RemoveElement
  <1>5. rank \in [D -> Nat] /\ prev \in [D -> D] /\ base \in [D -> Int]
    BY <1>1
  <1>6. step \in [D \X Int -> Int]
    <2> SUFFICES ASSUME NEW p \in D \X Int
                 PROVE  (IF p[1] = {} THEN 0 ELSE f[anyOf(p[1])] + p[2]) \in Int
      OBVIOUS
    <2>1. p[1] # {} => anyOf(p[1]) \in S
      BY <1>3
    <2>2. p[1] # {} => f[anyOf(p[1])] \in Int
      BY <2>1
    <2> QED
      BY <2>2
  <1>7. \A T \in D : rank[T] # 0 => rank[prev[T]] < rank[T]
    BY <1>1, <1>2, <1>4
  <1>8. Cardinality(S) \in Nat /\ \A T \in D : rank[T] <= Cardinality(S)
    BY <1>1, FS_CardinalityType
  <1>9. \A T \in D, v \in Int : T # {} => step[<<T, v>>] = f[anyOf(T)] + v
    OBVIOUS
  <1>10. \A T \in D : /\ rank[T] = Cardinality(T) /\ base[T] = 0
                      /\ prev[T] = T \ {anyOf(T)}
    OBVIOUS
  <1> HIDE DEF rank, prev, base, step
  <1>11. PICK F \in [D -> Int] : isRecursive(F, D, rank, prev, base, step)
    BY <1>5, <1>6, <1>7, <1>8, Recursion
  <1>12. \A T \in D : F[T] = IF T = {} THEN 0 ELSE f[anyOf(T)] + F[T \ {anyOf(T)}]
    <2> SUFFICES ASSUME NEW T \in D
                 PROVE  F[T] = IF T = {} THEN 0 ELSE f[anyOf(T)] + F[T \ {anyOf(T)}]
      OBVIOUS
    <2>1. CASE T = {}
      BY <2>1, <1>2, <1>10, <1>11 DEF isRecursive
    <2>2. CASE T # {}
      <3>1. F[T \ {anyOf(T)}] \in Int
        OBVIOUS
      <3>2. rank[T] # 0
        BY <2>2, <1>2, <1>10
      <3>3. F[T] = step[<<T, F[prev[T]]>>]
        BY <3>2, <1>11 DEF isRecursive
      <3> QED
        BY <2>2, <3>1, <3>3, <1>9, <1>10
    <2> QED
      BY <2>1, <2>2
  <1> QED
    BY <1>12 DEF sumsDefined

\* What it defines is a number for every subset.
LEMMA DefinedSumsInt ==
    ASSUME NEW S, IsFiniteSet(S), NEW f, \A x \in S : f[x] \in Int,
           NEW F, sumsDefined(F, f, S)
    PROVE  F \in [SUBSET S -> Int]
  <1> DEFINE Typed == {n \in Nat : \A T \in SUBSET S : Cardinality(T) = n => F[T] \in Int}
  <1>1. \A T \in SUBSET S : F[T] = IF T = {} THEN 0 ELSE f[anyOf(T)] + F[T \ {anyOf(T)}]
    BY DEF sumsDefined
  <1>2. \A T \in SUBSET S : IsFiniteSet(T) /\ Cardinality(T) \in Nat
    BY FS_Subset, FS_CardinalityType
  <1>3. \A T \in SUBSET S : T # {} => /\ anyOf(T) \in T
                                      /\ Cardinality(T \ {anyOf(T)}) = Cardinality(T) - 1
    BY <1>2, FS_RemoveElement DEF anyOf
  <1>4. 0 \in Typed
    <2>1. \A T \in SUBSET S : Cardinality(T) = 0 => T = {}
      BY <1>2, FS_EmptySet
    <2>2. F[{}] = 0
      BY <1>1
    <2> QED
      BY <2>1, <2>2
  <1>5. ASSUME NEW n \in Nat, n \in Typed
        PROVE  n + 1 \in Typed
    <2> SUFFICES ASSUME NEW T \in SUBSET S, Cardinality(T) = n + 1
                 PROVE  F[T] \in Int
      OBVIOUS
    <2>1. T # {}
      BY FS_EmptySet
    <2>2. anyOf(T) \in T /\ Cardinality(T \ {anyOf(T)}) = n
      BY <1>3, <2>1
    <2>3. F[T \ {anyOf(T)}] \in Int
      BY <1>5, <2>2
    <2> QED
      BY <1>1, <2>1, <2>2, <2>3
  <1>6. Nat \subseteq Typed
    <2> HIDE DEF Typed
    <2> QED
      BY <1>4, <1>5, SetInduction
  <1>7. \A T \in SUBSET S : F[T] \in Int
    BY <1>2, <1>6
  <1> QED
    BY <1>7 DEF sumsDefined

\* Any element may be taken out of a sum first.
LEMMA DefinedSums ==
    ASSUME NEW S, IsFiniteSet(S), NEW f, \A x \in S : f[x] \in Int,
           NEW F, sumsDefined(F, f, S)
    PROVE  isSum(F, f, S)
  <1> DEFINE Good == {n \in Nat : \A T \in SUBSET S : Cardinality(T) = n => \A x \in T : F[T] = f[x] + F[T \ {x}]}
  <1>1. F \in [SUBSET S -> Int]
    BY DefinedSumsInt
  <1>2. \A T \in SUBSET S : IsFiniteSet(T) /\ Cardinality(T) \in Nat
    BY FS_Subset, FS_CardinalityType
  <1>3. \A T \in SUBSET S : \A x \in T : Cardinality(T \ {x}) = Cardinality(T) - 1
    BY <1>2, FS_RemoveElement
  <1>4. 0 \in Good
    BY <1>2, FS_EmptySet
  <1>5. ASSUME NEW n \in Nat, n \in Good
        PROVE  n + 1 \in Good
    <2> SUFFICES ASSUME NEW T \in SUBSET S, Cardinality(T) = n + 1, NEW x \in T
                 PROVE  F[T] = f[x] + F[T \ {x}]
      OBVIOUS
    <2> DEFINE c == anyOf(T)
    <2>1. c \in T /\ F[T] = f[c] + F[T \ {c}]
      BY DEF sumsDefined, anyOf
    <2>2. CASE c = x
      BY <2>1, <2>2
    <2>3. CASE c # x
      <3>1. Cardinality(T \ {c}) = n /\ Cardinality(T \ {x}) = n
        BY <1>3, <2>1
      <3>2. F[T \ {c}] = f[x] + F[(T \ {c}) \ {x}]
        BY <1>5, <2>1, <2>3, <3>1
      <3>3. F[T \ {x}] = f[c] + F[(T \ {x}) \ {c}]
        BY <1>5, <2>1, <2>3, <3>1
      <3>4. (T \ {c}) \ {x} = (T \ {x}) \ {c}
        OBVIOUS
      <3>5. F[(T \ {c}) \ {x}] \in Int /\ f[c] \in Int /\ f[x] \in Int
        BY <1>1, <2>1
      <3> DEFINE rest == F[(T \ {c}) \ {x}]
      <3>6. F[T \ {x}] = f[c] + rest /\ F[T \ {c}] = f[x] + rest /\ rest \in Int
        BY <3>2, <3>3, <3>4, <3>5
      <3> HIDE DEF c, rest
      <3> QED
        BY <2>1, <3>5, <3>6
    <2> QED
      BY <2>2, <2>3
  <1>6. Nat \subseteq Good
    <2> HIDE DEF Good
    <2> QED
      BY <1>4, <1>5, SetInduction
  <1>7. \A T \in SUBSET S : \A x \in T : F[T] = f[x] + F[T \ {x}]
    BY <1>2, <1>6
  <1>8. F[{}] = 0
    BY DEF sumsDefined
  <1> QED
    BY <1>1, <1>7, <1>8 DEF isSum

\* The library's sum over a set comes from a function with the sums over
\* all of its subsets.
LEMMA SumIsSum ==
    ASSUME NEW S, IsFiniteSet(S), NEW f, \A x \in S : f[x] \in Int
    PROVE  \E F : isSum(F, f, S) /\ SumOf(f, S) = F[S]
  <1> DEFINE F0 == CHOOSE F : sumsDefined(F, f, S)
  <1>1. \E F : sumsDefined(F, f, S)
    BY SumExists
  <1>2. sumsDefined(F0, f, S)
    BY <1>1
  <1>3. SumOf(f, S) = F0[S]
    BY DEF SumOf, MapThenSumSet, MapThenFoldSet, anyOf, sumsDefined
  <1> QED
    BY <1>2, <1>3, DefinedSums

\* Sums of functions that agree on a set agree.
LEMMA SumsAgree ==
    ASSUME NEW S, NEW f, NEW F, isSum(F, f, S),
           NEW R, NEW g, NEW G, isSum(G, g, R)
    PROVE  \A T \in SUBSET (S \cap R) : (\A x \in T : f[x] = g[x]) => F[T] = G[T]
  <1> DEFINE Good == {n \in Nat : \A T \in SUBSET (S \cap R) :
                        Cardinality(T) = n /\ (\A x \in T : f[x] = g[x]) => F[T] = G[T]}
  <1>1. \A T \in SUBSET S : IsFiniteSet(T) /\ Cardinality(T) \in Nat
    BY FS_Subset, FS_CardinalityType DEF isSum
  <1>2. \A T \in SUBSET S : \A x \in T : Cardinality(T \ {x}) = Cardinality(T) - 1
    BY <1>1, FS_RemoveElement
  <1>3. \A T \in SUBSET S : \A x \in T : F[T] = f[x] + F[T \ {x}]
    BY DEF isSum
  <1>4. \A T \in SUBSET R : \A x \in T : G[T] = g[x] + G[T \ {x}]
    BY DEF isSum
  <1>5. 0 \in Good
    BY <1>1, FS_EmptySet DEF isSum
  <1>6. ASSUME NEW n \in Nat, n \in Good
        PROVE  n + 1 \in Good
    <2> SUFFICES ASSUME NEW T \in SUBSET (S \cap R), Cardinality(T) = n + 1,
                        \A x \in T : f[x] = g[x]
                 PROVE  F[T] = G[T]
      OBVIOUS
    <2>1. PICK x \in T : TRUE
      <3>1. T # {}
        BY n + 1 # 0, FS_EmptySet, Zenon
      <3> QED
        BY <3>1
    <2>2. Cardinality(T \ {x}) = n
      BY <1>2
    <2>3. F[T \ {x}] = G[T \ {x}]
      BY <1>6, <2>2
    <2> QED
      BY <1>3, <1>4, <2>3
  <1>7. Nat \subseteq Good
    <2> HIDE DEF Good
    <2> QED
      BY <1>5, <1>6, SetInduction
  <1> QED
    BY <1>1, <1>7

\* The sum over no element.
LEMMA SumOfNothing == ASSUME NEW f PROVE SumOf(f, {}) = 0
  <1>1. PICK F : isSum(F, f, {}) /\ SumOf(f, {}) = F[{}]
    BY SumIsSum, FS_EmptySet
  <1> QED
    BY <1>1 DEF isSum

\* One element is taken out of a sum.
LEMMA SumOfRest ==
    ASSUME NEW S, IsFiniteSet(S), NEW f, \A x \in S : f[x] \in Int, NEW x \in S
    PROVE  SumOf(f, S) = f[x] + SumOf(f, S \ {x})
  <1>1. PICK F : isSum(F, f, S) /\ SumOf(f, S) = F[S]
    BY SumIsSum
  <1>2. IsFiniteSet(S \ {x})
    BY FS_RemoveElement
  <1>3. PICK G : isSum(G, f, S \ {x}) /\ SumOf(f, S \ {x}) = G[S \ {x}]
    BY <1>2, SumIsSum
  <1>4. F[S \ {x}] = G[S \ {x}]
    BY <1>1, <1>2, <1>3, SumsAgree
  <1> QED
    BY <1>1, <1>3, <1>4 DEF isSum

\* Sums of functions that agree on the set are equal.
LEMMA SumOfSame ==
    ASSUME NEW S, IsFiniteSet(S), NEW f, \A x \in S : f[x] \in Int,
           NEW g, \A x \in S : g[x] = f[x]
    PROVE  SumOf(g, S) = SumOf(f, S)
  <1>1. PICK F : isSum(F, f, S) /\ SumOf(f, S) = F[S]
    BY SumIsSum
  <1>2. PICK G : isSum(G, g, S) /\ SumOf(g, S) = G[S]
    BY SumIsSum
  <1> QED
    BY <1>1, <1>2, SumsAgree

\* A sum of zeros is zero.
LEMMA SumOfZeros ==
    ASSUME NEW S, IsFiniteSet(S), NEW f, \A x \in S : f[x] = 0
    PROVE  SumOf(f, S) = 0
  <1>1. PICK F : isSum(F, f, S) /\ SumOf(f, S) = F[S]
    BY SumIsSum
  <1> DEFINE Zero == {n \in Nat : \A T \in SUBSET S : Cardinality(T) = n => F[T] = 0}
  <1>2. \A T \in SUBSET S : IsFiniteSet(T) /\ Cardinality(T) \in Nat
    BY FS_Subset, FS_CardinalityType
  <1>3. 0 \in Zero
    <2>1. \A T \in SUBSET S : Cardinality(T) = 0 => T = {}
      BY <1>2, FS_EmptySet
    <2> QED
      BY <1>1, <2>1 DEF isSum
  <1>4. ASSUME NEW n \in Nat, n \in Zero
        PROVE  n + 1 \in Zero
    <2> SUFFICES ASSUME NEW T \in SUBSET S, Cardinality(T) = n + 1
                 PROVE  F[T] = 0
      OBVIOUS
    <2>1. PICK x \in T : TRUE
      <3>1. T # {}
        BY n + 1 # 0, FS_EmptySet, Zenon
      <3> QED
        BY <3>1
    <2>2. Cardinality(T \ {x}) = n
      <3>1. IsFiniteSet(T)
        BY <1>2
      <3>2. Cardinality(T \ {x}) = Cardinality(T) - 1
        BY <3>1, FS_RemoveElement
      <3> QED
        BY <3>2
    <2>3. F[T \ {x}] = 0
      BY <1>4, <2>2
    <2>4. F[T] = f[x] + F[T \ {x}]
      BY <1>1 DEF isSum
    <2> QED
      BY <2>3, <2>4
  <1>5. Nat \subseteq Zero
    <2> HIDE DEF Zero
    <2> QED
      BY <1>3, <1>4, SetInduction
  <1> QED
    BY <1>1, <1>2, <1>5

\* A sum of integers is one.
LEMMA SumOfInt ==
    ASSUME NEW S, IsFiniteSet(S), NEW f, \A x \in S : f[x] \in Int
    PROVE  SumOf(f, S) \in Int
  <1>1. PICK F : isSum(F, f, S) /\ SumOf(f, S) = F[S]
    BY SumIsSum
  <1> QED
    BY <1>1 DEF isSum

\* One value of the function changes.
LEMMA SumOfChange ==
    ASSUME NEW S, IsFiniteSet(S), NEW f, \A x \in S : f[x] \in Int,
           NEW x \in S, NEW g, g[x] \in Int, \A y \in S \ {x} : g[y] = f[y]
    PROVE  SumOf(g, S) = SumOf(f, S) - f[x] + g[x]
  <1>1. IsFiniteSet(S \ {x}) /\ \A y \in S : g[y] \in Int
    BY FS_RemoveElement
  <1>2. SumOf(g, S \ {x}) = SumOf(f, S \ {x}) /\ SumOf(f, S \ {x}) \in Int
    BY <1>1, SumOfSame, SumOfInt
  <1>3. SumOf(f, S) = f[x] + SumOf(f, S \ {x})
    BY SumOfRest
  <1>4. SumOf(g, S) = g[x] + SumOf(g, S \ {x})
    BY <1>1, SumOfRest
  <1> QED
    BY <1>2, <1>3, <1>4

\* A sum of natural numbers is one.
LEMMA SumOfNat ==
    ASSUME NEW S, IsFiniteSet(S), NEW f, \A x \in S : f[x] \in Nat
    PROVE  SumOf(f, S) \in Nat
  <1>1. PICK F : isSum(F, f, S) /\ SumOf(f, S) = F[S]
    BY SumIsSum
  <1> DEFINE Natural == {n \in Nat : \A T \in SUBSET S : Cardinality(T) = n => F[T] \in Nat}
  <1>2. \A T \in SUBSET S : IsFiniteSet(T) /\ Cardinality(T) \in Nat
    BY FS_Subset, FS_CardinalityType
  <1>3. 0 \in Natural
    <2>1. \A T \in SUBSET S : Cardinality(T) = 0 => T = {}
      BY <1>2, FS_EmptySet
    <2>2. F[{}] = 0
      BY <1>1 DEF isSum
    <2> QED
      BY <2>1, <2>2
  <1>4. ASSUME NEW n \in Nat, n \in Natural
        PROVE  n + 1 \in Natural
    <2> SUFFICES ASSUME NEW T \in SUBSET S, Cardinality(T) = n + 1
                 PROVE  F[T] \in Nat
      OBVIOUS
    <2>1. PICK x \in T : TRUE
      <3>1. T # {}
        BY n + 1 # 0, FS_EmptySet, Zenon
      <3> QED
        BY <3>1
    <2>2. IsFiniteSet(T)
      BY <1>2
    <2>3. Cardinality(T \ {x}) = n
      <3>1. Cardinality(T \ {x}) = Cardinality(T) - 1
        BY <2>2, FS_RemoveElement
      <3> QED
        BY <3>1
    <2>4. F[T \ {x}] \in Nat /\ f[x] \in Nat
      BY <1>4, <2>3
    <2>5. F[T] = f[x] + F[T \ {x}]
      BY <1>1 DEF isSum
    <2> QED
      BY <2>4, <2>5
  <1>5. Nat \subseteq Natural
    <2> HIDE DEF Natural
    <2> QED
      BY <1>3, <1>4, SetInduction
  <1> QED
    BY <1>1, <1>2, <1>5

\* Elements that add nothing can be left out of a sum.
LEMMA SumOfSubset ==
    ASSUME NEW S, IsFiniteSet(S), NEW f, \A x \in S : f[x] \in Int,
           NEW R \in SUBSET S, \A x \in S \ R : f[x] = 0
    PROVE  SumOf(f, S) = SumOf(f, R)
  <1>1. PICK F : isSum(F, f, S) /\ SumOf(f, S) = F[S]
    BY SumIsSum
  <1> DEFINE Good == {n \in Nat : \A T \in SUBSET S : Cardinality(T) = n => F[T] = F[T \cap R]}
  <1>2. \A T \in SUBSET S : IsFiniteSet(T) /\ Cardinality(T) \in Nat
    BY FS_Subset, FS_CardinalityType
  <1>3. \A T \in SUBSET S : \A x \in T : F[T] = f[x] + F[T \ {x}]
    BY <1>1 DEF isSum
  <1>4. 0 \in Good
    <2>1. \A T \in SUBSET S : Cardinality(T) = 0 => T = {}
      BY <1>2, FS_EmptySet
    <2> QED
      BY <2>1
  <1>5. ASSUME NEW n \in Nat, n \in Good
        PROVE  n + 1 \in Good
    <2> SUFFICES ASSUME NEW T \in SUBSET S, Cardinality(T) = n + 1
                 PROVE  F[T] = F[T \cap R]
      OBVIOUS
    <2>1. PICK x \in T : TRUE
      <3>1. T # {}
        BY n + 1 # 0, FS_EmptySet, Zenon
      <3> QED
        BY <3>1
    <2>2. IsFiniteSet(T)
      BY <1>2
    <2>3. Cardinality(T \ {x}) = n
      <3>1. Cardinality(T \ {x}) = Cardinality(T) - 1
        BY <2>2, FS_RemoveElement
      <3> QED
        BY <3>1
    <2>4. F[T \ {x}] = F[(T \ {x}) \cap R]
      BY <1>5, <2>3
    <2>5. F[T] = f[x] + F[T \ {x}]
      BY <1>3
    <2>6. CASE x \in R
      <3>1. F[T \cap R] = f[x] + F[(T \cap R) \ {x}]
        BY <1>3, <2>6
      <3>2. (T \cap R) \ {x} = (T \ {x}) \cap R
        OBVIOUS
      <3> QED
        BY <2>4, <2>5, <3>1, <3>2
    <2>7. CASE x \notin R
      <3>1. T \cap R = (T \ {x}) \cap R /\ f[x] = 0
        BY <2>7
      <3>2. F[T \ {x}] \in Int
        BY <1>1 DEF isSum
      <3>3. F[T] = F[T \ {x}]
        BY <2>5, <3>1, <3>2
      <3> QED
        BY <2>4, <3>1, <3>3, Zenon
    <2> QED
      BY <2>6, <2>7
  <1>6. Nat \subseteq Good
    <2> HIDE DEF Good
    <2> QED
      BY <1>4, <1>5, SetInduction
  <1>7. F[S] = F[R]
    <2>1. S \cap R = R
      OBVIOUS
    <2> QED
      BY <1>2, <1>6, <2>1
  <1>8. IsFiniteSet(R)
    BY <1>2
  <1>9. PICK G : isSum(G, f, R) /\ SumOf(f, R) = G[R]
    BY <1>8, SumIsSum
  <1>10. F[R] = G[R]
    BY <1>1, <1>9, SumsAgree
  <1> QED
    BY <1>1, <1>7, <1>9, <1>10

-----------------------------------------------------------------------------
(* How often the elements of a set are in a sequence.                      *)

countIn(s, P) == Cardinality({n \in DOMAIN s : s[n] \in P})

\* The first n positive numbers are n.
LEMMA IntervalSize ==
    ASSUME NEW n \in Nat
    PROVE  IsFiniteSet(1 .. n) /\ Cardinality(1 .. n) = n
  <1>1. n \in Int /\ 1 \in Int
    OBVIOUS
  <1>2. IsFiniteSet(1 .. n) /\ Cardinality(1 .. n) = IF 1 > n THEN 0 ELSE n - 1 + 1
    BY <1>1, FS_Interval
  <1> QED
    BY <1>2

\* A sequence counts as many elements as it is long.
LEMMA CountOfAll ==
    ASSUME NEW L, NEW s \in Seq(L)
    PROVE  countIn(s, L) = Len(s)
  <1>1. {n \in DOMAIN s : s[n] \in L} = 1 .. Len(s) /\ Len(s) \in Nat
    OBVIOUS
  <1>2. Cardinality(1 .. Len(s)) = Len(s)
    BY <1>1, IntervalSize
  <1> QED
    BY <1>1, <1>2 DEF countIn

\* The places that are counted are finitely many.
LEMMA CountType ==
    ASSUME NEW L, NEW s \in Seq(L), NEW P
    PROVE  /\ IsFiniteSet({n \in DOMAIN s : s[n] \in P})
           /\ countIn(s, P) \in Nat
  <1>1. IsFiniteSet(1 .. Len(s)) /\ DOMAIN s = 1 .. Len(s)
    BY FS_Interval
  <1>2. {n \in DOMAIN s : s[n] \in P} \in SUBSET (1 .. Len(s))
    BY <1>1
  <1>3. IsFiniteSet({n \in DOMAIN s : s[n] \in P})
    BY <1>1, <1>2, FS_Subset
  <1> QED
    BY <1>3, FS_CardinalityType DEF countIn

\* Counts of a concatenation add up.
LEMMA CountOfConcat ==
    ASSUME NEW L, NEW s \in Seq(L), NEW t \in Seq(L), NEW P
    PROVE  countIn(s \o t, P) = countIn(s, P) + countIn(t, P)
  <1> DEFINE A == {n \in DOMAIN s : s[n] \in P}
             B == {n \in DOMAIN t : t[n] \in P}
             C == {n \in DOMAIN (s \o t) : (s \o t)[n] \in P}
             D == C \ A
             shift == [n \in B |-> n + Len(s)]
  <1>1. IsFiniteSet(A) /\ IsFiniteSet(B)
    BY CountType
  <1>2. A \subseteq C /\ C = A \cup D /\ A \cap D = {}
    OBVIOUS
  <1>3. \A n \in D : n - Len(s) \in B
    OBVIOUS
  <1>4. \A n \in B : n \in Nat /\ n + Len(s) \in D
    OBVIOUS
  <1>5. \A n \in D : n \in Nat /\ shift[n - Len(s)] = n
    BY <1>3
  <1>6. shift \in Bijection(B, D)
    <2>1. shift \in [B -> D]
      BY <1>4
    <2>2. \A m, n \in B : shift[m] = shift[n] => m = n
      BY <1>4
    <2>3. \A n \in D : \E m \in B : shift[m] = n
      BY <1>3, <1>5
    <2> HIDE DEF shift, B, D
    <2> QED
      BY <2>1, <2>2, <2>3, Fun_IsBij
  <1>7. IsFiniteSet(D) /\ Cardinality(D) = Cardinality(B)
    <2>1. ExistsBijection(B, D)
      BY <1>6 DEF ExistsBijection
    <2> HIDE DEF B, D
    <2> QED
      BY <1>1, <2>1, FS_Bijection
  <1>8. Cardinality(A \cup D) = Cardinality(A) + Cardinality(D)
    <2> HIDE DEF A, D
    <2>1. Cardinality(A \cup D) = Cardinality(A) + Cardinality(D) - Cardinality({})
      BY <1>1, <1>2, <1>7, FS_Union
    <2>2. Cardinality(A) \in Nat /\ Cardinality(D) \in Nat
      BY <1>1, <1>7, FS_CardinalityType
    <2> QED
      BY <2>1, <2>2, FS_EmptySet
  <1>9. countIn(s \o t, P) = Cardinality(C) /\ countIn(s, P) = Cardinality(A) /\ countIn(t, P) = Cardinality(B)
    BY DEF countIn
  <1> HIDE DEF A, B, C, D
  <1> QED
    BY <1>2, <1>7, <1>8, <1>9

\* A sequence of m copies counts all of them or none.
LEMMA CountOfCopies ==
    ASSUME NEW m \in Nat, NEW x, NEW P, NEW s, s = [j \in 1 .. m |-> x]
    PROVE  countIn(s, P) = IF x \in P THEN m ELSE 0
  <1>1. DOMAIN s = 1 .. m /\ \A n \in 1 .. m : s[n] = x
    OBVIOUS
  <1>2. Cardinality(1 .. m) = m
    BY IntervalSize
  <1>3. {n \in DOMAIN s : s[n] \in P} = IF x \in P THEN 1 .. m ELSE {}
    BY <1>1
  <1> QED
    BY <1>2, <1>3, FS_EmptySet DEF countIn

-----------------------------------------------------------------------------
(* Flattened sequences.                                                    *)

\* F has the concatenation of the first i sequences for every i.
isFlattened(F, seqs) ==
    F = [i \in 1 .. Len(seqs) |-> IF i = 1 THEN seqs[i] ELSE F[i - 1] \o seqs[i]]

\* The library's definition of the concatenation defines something.
LEMMA FlattenedExists ==
    ASSUME NEW L, NEW seqs \in Seq(Seq(L))
    PROVE  \E F : isFlattened(F, seqs)
  <1> DEFINE D == 1 .. Len(seqs)
             V == Seq(L)
             rank == [i \in D |-> i - 1]
             prev == [i \in D |-> IF i = 1 THEN 1 ELSE i - 1]
             base == [i \in D |-> seqs[i]]
             step == [p \in D \X V |-> p[2] \o seqs[p[1]]]
  <1>1. rank \in [D -> Nat] /\ prev \in [D -> D] /\ base \in [D -> V] /\ Len(seqs) \in Nat
    OBVIOUS
  <1>2. step \in [D \X V -> V]
    <2>1. \A p \in D \X V : p[2] \in Seq(L) /\ seqs[p[1]] \in Seq(L)
      OBVIOUS
    <2>2. \A p \in D \X V : p[2] \o seqs[p[1]] \in V
      BY <2>1, ConcatProperties
    <2> QED
      BY <2>2
  <1>3. \A d \in D : rank[d] # 0 => rank[prev[d]] < rank[d]
    OBVIOUS
  <1>4. \A d \in D : rank[d] <= Len(seqs)
    OBVIOUS
  <1>5. \A d \in D : /\ rank[d] = 0 <=> d = 1
                     /\ base[d] = seqs[d]
                     /\ d # 1 => prev[d] = d - 1
    OBVIOUS
  <1>6. \A d \in D, v \in V : step[<<d, v>>] = v \o seqs[d]
    OBVIOUS
  <1> HIDE DEF rank, prev, base, step
  <1>7. PICK F \in [D -> V] : isRecursive(F, D, rank, prev, base, step)
    BY <1>1, <1>2, <1>3, <1>4, Recursion
  <1>8. \A d \in D : F[d] = IF d = 1 THEN seqs[d] ELSE F[d - 1] \o seqs[d]
    <2> SUFFICES ASSUME NEW d \in D
                 PROVE  F[d] = IF d = 1 THEN seqs[d] ELSE F[d - 1] \o seqs[d]
      OBVIOUS
    <2>1. CASE d = 1
      BY <2>1, <1>5, <1>7 DEF isRecursive
    <2>2. CASE d # 1
      <3>1. d - 1 \in D
        BY <1>1, <2>2
      <3>2. F[d] = step[<<d, F[d - 1]>>]
        BY <2>2, <1>5, <1>7 DEF isRecursive
      <3> QED
        <4>1. F[d - 1] \in V
          BY <3>1
        <4> QED
          BY <2>2, <3>2, <4>1, <1>6
    <2> QED
      BY <2>1, <2>2
  <1>9. F = [i \in D |-> IF i = 1 THEN seqs[i] ELSE F[i - 1] \o seqs[i]]
    BY <1>8
  <1> QED
    BY <1>9 DEF isFlattened

\* What is flattened has the elements of all the sequences, as often as
\* they have them together.
LEMMA CountOfFlatten ==
    ASSUME NEW L, NEW seqs \in Seq(Seq(L))
    PROVE  /\ FlattenSeq(seqs) \in Seq(L)
           /\ \A P : countIn(FlattenSeq(seqs), P)
                        = SumOf([i \in DOMAIN seqs |-> countIn(seqs[i], P)], DOMAIN seqs)
  <1> DEFINE N == Len(seqs)
             c(P) == [i \in DOMAIN seqs |-> countIn(seqs[i], P)]
  <1>1. N \in Nat /\ DOMAIN seqs = 1 .. N /\ \A i \in 1 .. N : seqs[i] \in Seq(L)
    OBVIOUS
  <1>2. CASE N = 0
    <2>1. seqs = <<>> /\ FlattenSeq(seqs) = <<>> /\ DOMAIN seqs = {}
      BY <1>2 DEF FlattenSeq
    <2>2. \A P : countIn(<<>>, P) = 0
      BY FS_EmptySet DEF countIn
    <2>3. \A P : SumOf(c(P), {}) = 0
      BY SumOfNothing
    <2> HIDE DEF c
    <2>4. \A P : countIn(FlattenSeq(seqs), P) = SumOf(c(P), DOMAIN seqs)
      BY <2>1, <2>2, <2>3, Zenon
    <2>5. FlattenSeq(seqs) \in Seq(L)
      BY <2>1, EmptySeq, Zenon
    <2> QED
      BY <2>4, <2>5 DEF c
  <1>3. CASE N # 0
    <2> DEFINE F0 == CHOOSE F : isFlattened(F, seqs)
    <2>1. isFlattened(F0, seqs)
      BY FlattenedExists
    <2>2. FlattenSeq(seqs) = F0[N]
      BY <1>3 DEF FlattenSeq, isFlattened
    <2> HIDE DEF F0, N
    <2>3. \A i \in 1 .. N : F0[i] = IF i = 1 THEN seqs[i] ELSE F0[i - 1] \o seqs[i]
      BY <2>1 DEF isFlattened, N
    <2> DEFINE Good == {n \in Nat : n \in 1 .. N =>
                          F0[n] \in Seq(L) /\ \A P : countIn(F0[n], P) = SumOf(c(P), 1 .. n)}
    <2>4. \A P : \A i \in 1 .. N : c(P)[i] = countIn(seqs[i], P) /\ c(P)[i] \in Nat
      BY <1>1, CountType
    <2>5. 0 \in Good
      OBVIOUS
    <2>6. ASSUME NEW n \in Nat, n \in Good
          PROVE  n + 1 \in Good
      <3> SUFFICES ASSUME n + 1 \in 1 .. N
                   PROVE  F0[n + 1] \in Seq(L) /\ \A P : countIn(F0[n + 1], P) = SumOf(c(P), 1 .. n + 1)
        OBVIOUS
      <3>1. \A P : SumOf(c(P), 1 .. n + 1) = c(P)[n + 1] + SumOf(c(P), 1 .. n)
        <4> SUFFICES ASSUME NEW P
                     PROVE  SumOf(c(P), 1 .. n + 1) = c(P)[n + 1] + SumOf(c(P), 1 .. n)
          OBVIOUS
        <4>1. IsFiniteSet(1 .. n + 1) /\ n + 1 \in 1 .. n + 1 /\ (1 .. n + 1) \ {n + 1} = 1 .. n
          BY IntervalSize
        <4>2. \A i \in 1 .. n + 1 : c(P)[i] \in Int
          BY <1>1, <2>4
        <4> HIDE DEF c
        <4>3. SumOf(c(P), 1 .. n + 1) = c(P)[n + 1] + SumOf(c(P), (1 .. n + 1) \ {n + 1})
          BY <4>1, <4>2, SumOfRest
        <4> QED
          BY <4>1, <4>3
      <3>2. CASE n = 0
        <4>1. F0[n + 1] = seqs[n + 1] /\ seqs[n + 1] \in Seq(L) /\ 1 .. n = {}
          BY <1>1, <2>3, <3>2
        <4>2. \A P : SumOf(c(P), 1 .. n) = 0
          BY <4>1, SumOfNothing
        <4>3. \A P : c(P)[n + 1] = countIn(seqs[n + 1], P) /\ c(P)[n + 1] \in Nat
          BY <2>4
        <4> HIDE DEF c
        <4> QED
          BY <3>1, <4>1, <4>2, <4>3
      <3>3. CASE n # 0
        <4>1. F0[n + 1] = F0[n] \o seqs[n + 1] /\ seqs[n + 1] \in Seq(L)
          <5>1. n + 1 # 1 /\ (n + 1) - 1 = n
            BY <3>3
          <5> QED
            BY <1>1, <2>3, <5>1
        <4>2. F0[n] \in Seq(L) /\ \A P : countIn(F0[n], P) = SumOf(c(P), 1 .. n)
          BY <1>1, <2>6, <3>3
        <4>3. F0[n + 1] \in Seq(L)
          BY <4>1, <4>2, ConcatProperties
        <4>4. \A P : countIn(F0[n + 1], P) = countIn(F0[n], P) + countIn(seqs[n + 1], P)
          BY <4>1, <4>2, CountOfConcat
        <4>5. \A P : countIn(F0[n], P) \in Nat /\ countIn(seqs[n + 1], P) \in Nat
          BY <4>1, <4>2, CountType
        <4>6. \A P : c(P)[n + 1] = countIn(seqs[n + 1], P)
          BY <2>4
        <4> HIDE DEF c
        <4> QED
          BY <3>1, <4>2, <4>3, <4>4, <4>5, <4>6
      <3> QED
        BY <3>2, <3>3
    <2>7. Nat \subseteq Good
      <3> HIDE DEF Good
      <3> QED
        BY <2>5, <2>6, SetInduction
    <2>8. N \in 1 .. N
      BY <1>1, <1>3
    <2> QED
      BY <1>1, <2>2, <2>7, <2>8
  <1> QED
    BY <1>2, <1>3

\* Each element of a sequence, as often as its amount says.
LEMMA CountOfEachItem ==
    ASSUME NEW L, NEW lines \in Seq(L), NEW amount \in [DOMAIN lines -> Nat],
           NEW all, all = FlattenSeq([i \in DOMAIN lines |-> [j \in 1 .. amount[i] |-> lines[i]]])
    PROVE  /\ all \in Seq(L)
           /\ \A P : countIn(all, P) = SumOf(amount, {i \in DOMAIN lines : lines[i] \in P})
           /\ Len(all) = SumOf(amount, DOMAIN lines)
  <1> DEFINE seqs == [i \in DOMAIN lines |-> [j \in 1 .. amount[i] |-> lines[i]]]
             c(P) == [i \in DOMAIN seqs |-> countIn(seqs[i], P)]
  <1>1. DOMAIN lines = 1 .. Len(lines) /\ Len(lines) \in Nat /\ IsFiniteSet(DOMAIN lines)
    BY FS_Interval
  <1>2. \A i \in DOMAIN lines : amount[i] \in Nat /\ lines[i] \in L /\ seqs[i] = [j \in 1 .. amount[i] |-> lines[i]]
    OBVIOUS
  <1>3. \A i \in DOMAIN lines : seqs[i] \in Seq(L)
    BY <1>2
  <1>4. seqs \in Seq(Seq(L)) /\ DOMAIN seqs = DOMAIN lines
    BY <1>1, <1>3
  <1>5. \A P : \A i \in DOMAIN lines : countIn(seqs[i], P) = IF lines[i] \in P THEN amount[i] ELSE 0
    <2> SUFFICES ASSUME NEW P, NEW i \in DOMAIN lines
                 PROVE  countIn(seqs[i], P) = IF lines[i] \in P THEN amount[i] ELSE 0
      OBVIOUS
    <2>1. amount[i] \in Nat /\ seqs[i] = [j \in 1 .. amount[i] |-> lines[i]]
      BY <1>2
    <2> HIDE DEF seqs
    <2> QED
      BY <2>1, CountOfCopies
  <1> HIDE DEF seqs
  <1>6. all \in Seq(L) /\ \A P : countIn(all, P) = SumOf(c(P), DOMAIN lines)
    BY <1>4, CountOfFlatten DEF seqs
  <1>7. \A P : SumOf(c(P), DOMAIN lines) = SumOf(amount, {i \in DOMAIN lines : lines[i] \in P})
    <2> SUFFICES ASSUME NEW P
                 PROVE  SumOf(c(P), DOMAIN lines) = SumOf(amount, {i \in DOMAIN lines : lines[i] \in P})
      OBVIOUS
    <2> DEFINE R == {i \in DOMAIN lines : lines[i] \in P}
    <2>1. \A i \in DOMAIN lines : c(P)[i] = IF lines[i] \in P THEN amount[i] ELSE 0
      BY <1>4, <1>5
    <2>2. /\ \A i \in DOMAIN lines : c(P)[i] \in Int
          /\ \A i \in DOMAIN lines \ R : c(P)[i] = 0
          /\ \A i \in R : c(P)[i] = amount[i] /\ amount[i] \in Int
      <3>1. \A i \in DOMAIN lines : amount[i] \in Int
        BY <1>2
      <3>2. \A i \in DOMAIN lines : i \in R <=> lines[i] \in P
        OBVIOUS
      <3>3. R \subseteq DOMAIN lines
        OBVIOUS
      <3> HIDE DEF c, R
      <3> QED
        BY <2>1, <3>1, <3>2, <3>3
    <2>3. R \in SUBSET DOMAIN lines /\ IsFiniteSet(R)
      <3>1. R \in SUBSET DOMAIN lines
        OBVIOUS
      <3> QED
        BY <1>1, <3>1, FS_Subset
    <2> HIDE DEF R, c
    <2>4. SumOf(c(P), DOMAIN lines) = SumOf(c(P), R)
      BY <1>1, <2>2, <2>3, SumOfSubset
    <2>5. SumOf(c(P), R) = SumOf(amount, R)
      BY <2>2, <2>3, SumOfSame
    <2> QED
      BY <2>4, <2>5 DEF R
  <1> HIDE DEF c
  <1>8. Len(all) = SumOf(amount, DOMAIN lines)
    <2>1. {i \in DOMAIN lines : lines[i] \in L} = DOMAIN lines
      BY <1>2
    <2>2. Len(all) = countIn(all, L)
      BY <1>6, CountOfAll
    <2> QED
      BY <1>6, <1>7, <2>1, <2>2
  <1> QED
    BY <1>6, <1>7, <1>8

-----------------------------------------------------------------------------
(* Folds from the left.                                                    *)

\* A set of the first n positive numbers has a greatest element.
LEMMA MaxElement ==
    ASSUME NEW N \in Nat, NEW T \in SUBSET (1 .. N), T # {}
    PROVE  Max(T) \in T /\ \A y \in T : y <= Max(T)
  <1> DEFINE R == {N - x : x \in T}
  <1>1. R \subseteq Nat /\ R # {}
    OBVIOUS
  <1>2. PICK r \in R : \A q \in R : r <= q
    BY <1>1, LeastElement
  <1>3. PICK x \in T : r = N - x
    BY <1>2
  <1>4. \A y \in T : N - y \in R
    OBVIOUS
  <1>5. \A y \in T : x >= y
    BY <1>2, <1>3, <1>4
  <1> QED
    BY <1>5 DEF Max

\* The greatest of the first n positive numbers is n.
LEMMA MaxOfInterval ==
    ASSUME NEW N \in Nat, NEW n \in 1 .. N
    PROVE  /\ Max(1 .. n) = n
           /\ (1 .. n) \ {n} = 1 .. n - 1
  <1>1. 1 .. n \in SUBSET (1 .. N) /\ n \in 1 .. n
    OBVIOUS
  <1>2. Max(1 .. n) \in 1 .. n /\ n <= Max(1 .. n)
    BY <1>1, MaxElement
  <1>3. (1 .. n) \ {n} = 1 .. n - 1
    OBVIOUS
  <1> QED
    BY <1>2, <1>3

\* The library folds by recursion over sets of indices, the greatest first.
isFold(F, N, base, step) ==
    F = [s \in SUBSET (1 .. N) |-> IF s = {} THEN base ELSE step[<<Max(s), F[s \ {Max(s)}]>>]]

\* The library's definition of a fold defines something.
LEMMA FoldExists ==
    ASSUME NEW N \in Nat, NEW V, NEW base \in V, NEW step \in [(1 .. N) \X V -> V]
    PROVE  \E F \in [SUBSET (1 .. N) -> V] : isFold(F, N, base, step)
  <1> DEFINE D == SUBSET (1 .. N)
             rank == [s \in D |-> Cardinality(s)]
             prev == [s \in D |-> IF s = {} THEN {} ELSE s \ {Max(s)}]
             first == [s \in D |-> base]
             next == [p \in D \X V |-> IF p[1] = {} THEN base ELSE step[<<Max(p[1]), p[2]>>]]
  <1>1. \A s \in D : s # {} => Max(s) \in s
    BY MaxElement
  <1>2. \A s \in D : IsFiniteSet(s) /\ Cardinality(s) \in Nat /\ Cardinality(s) <= N
    <2>1. IsFiniteSet(1 .. N) /\ Cardinality(1 .. N) = N
      BY IntervalSize
    <2>2. \A s \in D : IsFiniteSet(s) /\ Cardinality(s) <= Cardinality(1 .. N)
      BY <2>1, FS_Subset
    <2> QED
      BY <2>1, <2>2, FS_CardinalityType
  <1>3. \A s \in D : Cardinality(s) = 0 <=> s = {}
    BY <1>2, FS_EmptySet
  <1>4. \A s \in D : s # {} => Cardinality(s \ {Max(s)}) = Cardinality(s) - 1
    BY <1>1, <1>2, FS_RemoveElement
  <1>5. rank \in [D -> Nat] /\ prev \in [D -> D] /\ first \in [D -> V]
    BY <1>2
  <1>6. next \in [D \X V -> V]
    <2> SUFFICES ASSUME NEW p \in D \X V
                 PROVE  (IF p[1] = {} THEN base ELSE step[<<Max(p[1]), p[2]>>]) \in V
      OBVIOUS
    <2>1. p[1] # {} => Max(p[1]) \in 1 .. N
      BY <1>1
    <2> QED
      BY <2>1
  <1>7. \A s \in D : rank[s] # 0 => rank[prev[s]] < rank[s]
    <2> SUFFICES ASSUME NEW s \in D, s # {}
                 PROVE  rank[s \ {Max(s)}] < rank[s]
      BY <1>3
    <2>1. s \ {Max(s)} \in D
      OBVIOUS
    <2>2. rank[s] = Cardinality(s) /\ rank[s \ {Max(s)}] = Cardinality(s \ {Max(s)})
      BY <2>1
    <2> HIDE DEF rank
    <2> QED
      BY <2>2, <1>2, <1>4
  <1>8. \A s \in D : rank[s] <= N
    BY <1>2
  <1>9. \A s \in D : /\ rank[s] = 0 <=> s = {}
                     /\ first[s] = base
                     /\ s # {} => prev[s] = s \ {Max(s)}
    BY <1>3
  <1>10. \A s \in D, v \in V : s # {} => next[<<s, v>>] = step[<<Max(s), v>>]
    OBVIOUS
  <1> HIDE DEF rank, prev, first, next
  <1>11. PICK F \in [D -> V] : isRecursive(F, D, rank, prev, first, next)
    BY <1>5, <1>6, <1>7, <1>8, Recursion
  <1>12. \A s \in D : F[s] = IF s = {} THEN base ELSE step[<<Max(s), F[s \ {Max(s)}]>>]
    <2> SUFFICES ASSUME NEW s \in D
                 PROVE  F[s] = IF s = {} THEN base ELSE step[<<Max(s), F[s \ {Max(s)}]>>]
      OBVIOUS
    <2>1. CASE s = {}
      BY <2>1, <1>9, <1>11 DEF isRecursive
    <2>2. CASE s # {}
      <3>1. F[s \ {Max(s)}] \in V
        OBVIOUS
      <3>2. F[s] = next[<<s, F[prev[s]]>>]
        BY <2>2, <1>9, <1>11 DEF isRecursive
      <3>3. prev[s] = s \ {Max(s)}
        BY <2>2, <1>9
      <3>4. F[s] = next[<<s, F[s \ {Max(s)}]>>]
        BY <3>2, <3>3
      <3> QED
        BY <2>2, <3>1, <3>4, <1>10
    <2> QED
      BY <2>1, <2>2
  <1>13. isFold(F, N, base, step)
    BY <1>12 DEF isFold
  <1> QED
    BY <1>13

\* A function that folds the way the library does, as long as values are in V.
foldsBySets(F, N, V, base, step) ==
    /\ F[{}] = base
    /\ \A s \in SUBSET (1 .. N) :
            s # {} /\ F[s \ {Max(s)}] \in V => F[s] = step[<<Max(s), F[s \ {Max(s)}]>>]

\* Index by index: what the first i elements are folded to.
foldsByIndex(G, F, N, V, base, step) ==
    /\ G \in [0 .. N -> V]
    /\ G[0] = base
    /\ \A i \in 1 .. N : G[i] = step[<<i, G[i - 1]>>]
    /\ G[N] = F[1 .. N]

\* What is folded over sets of indices is folded index by index.
LEMMA FoldSteps ==
    ASSUME NEW N \in Nat, NEW V, NEW base \in V, NEW step \in [(1 .. N) \X V -> V],
           NEW F, foldsBySets(F, N, V, base, step)
    PROVE  \E G : foldsByIndex(G, F, N, V, base, step)
  <1> DEFINE Good == {n \in Nat : n <= N => F[1 .. n] \in V}
             G == [i \in 0 .. N |-> F[1 .. i]]
  <1>1. 1 .. 0 = {} /\ F[{}] = base
    BY DEF foldsBySets
  <1>2. \A i \in 1 .. N : F[1 .. i - 1] \in V => F[1 .. i] = step[<<i, F[1 .. i - 1]>>]
    <2> SUFFICES ASSUME NEW i \in 1 .. N, F[1 .. i - 1] \in V
                 PROVE  F[1 .. i] = step[<<i, F[1 .. i - 1]>>]
      OBVIOUS
    <2>1. Max(1 .. i) = i /\ (1 .. i) \ {i} = 1 .. i - 1
      BY MaxOfInterval
    <2>2. 1 .. i \in SUBSET (1 .. N) /\ i \in 1 .. i
      OBVIOUS
    <2> QED
      BY <2>1, <2>2 DEF foldsBySets
  <1>3. 0 \in Good
    BY <1>1
  <1>4. ASSUME NEW n \in Nat, n \in Good
        PROVE  n + 1 \in Good
    <2> SUFFICES ASSUME n + 1 <= N
                 PROVE  F[1 .. n + 1] \in V
      OBVIOUS
    <2>1. n + 1 \in 1 .. N /\ (n + 1) - 1 = n /\ F[1 .. n] \in V
      BY <1>4
    <2> HIDE DEF Good
    <2>2. F[1 .. n + 1] = step[<<n + 1, F[1 .. n]>>]
      BY <1>2, <2>1
    <2> QED
      BY <2>1, <2>2
  <1>5. Nat \subseteq Good
    <2> HIDE DEF Good
    <2> QED
      BY <1>3, <1>4, SetInduction
  <1>6. \A i \in 0 .. N : F[1 .. i] \in V
    BY <1>5
  <1>7. foldsByIndex(G, F, N, V, base, step)
    <2>1. G \in [0 .. N -> V]
      BY <1>6
    <2>2. G[0] = base
      BY <1>1
    <2>3. \A i \in 1 .. N : G[i] = step[<<i, G[i - 1]>>]
      BY <1>2, <1>6
    <2>4. G[N] = F[1 .. N]
      OBVIOUS
    <2> HIDE DEF G
    <2> QED
      BY <2>1, <2>2, <2>3, <2>4 DEF foldsByIndex
  <1> QED
    BY <1>7

-----------------------------------------------------------------------------
(* The least of some numbers, and the places of all of them.               *)

\* Min is what is not greater than any of them.
LEMMA MinElement ==
    ASSUME NEW T \in SUBSET Nat, NEW m \in T, \A y \in T : m <= y
    PROVE  Min(T) = m
  <1>1. \A x \in T : (\A y \in T : x <= y) => x = m
    BY SMT
  <1> QED
    BY <1>1 DEF Min

\* A set of indices of a table of four entries has a least element.
LEMMA LeastIndex ==
    ASSUME NEW S \in SUBSET (1 .. 4), S # {}
    PROVE  /\ Min(S) \in S
           /\ \A i \in S : Min(S) <= i
  <1>1. \E m \in S : \A i \in S : m <= i
    <2>1. CASE 1 \in S
      BY <2>1
    <2>2. CASE 1 \notin S /\ 2 \in S
      BY <2>2
    <2>3. CASE 1 \notin S /\ 2 \notin S /\ 3 \in S
      BY <2>3
    <2>4. CASE 1 \notin S /\ 2 \notin S /\ 3 \notin S
      <3>1. \A i \in S : i = 1 \/ i = 2 \/ i = 3 \/ i = 4
        OBVIOUS
      <3>2. \A i \in S : i = 4
        BY <2>4, <3>1, Zenon
      <3>3. PICK m : m \in S
        BY Zenon
      <3> QED
        BY <3>2, <3>3
    <2> QED
      BY <2>1, <2>2, <2>3, <2>4
  <1> QED
    BY <1>1 DEF Min

\* The place of an element among some numbers.
upTo(S, p) == {q \in S : q <= p}
placeIn(S, p) == Cardinality(upTo(S, p))

\* Places are numbers, up to the number of elements.
LEMMA Places ==
    ASSUME NEW N \in Nat, NEW S \in SUBSET (1 .. N)
    PROVE  /\ IsFiniteSet(S) /\ \A p : IsFiniteSet(upTo(S, p)) /\ upTo(S, p) \subseteq S
           /\ \A p \in S : placeIn(S, p) \in Nat /\ placeIn(S, p) <= Cardinality(S)
           /\ Cardinality(S) \in Nat
  <1>1. IsFiniteSet(S)
    BY IntervalSize, FS_Subset
  <1>2. \A p : IsFiniteSet(upTo(S, p)) /\ upTo(S, p) \subseteq S
    BY <1>1, FS_Subset DEF upTo
  <1>3. Cardinality(S) \in Nat /\ \A p : placeIn(S, p) \in Nat
    BY <1>1, <1>2, FS_CardinalityType DEF placeIn
  <1>4. \A p : placeIn(S, p) <= Cardinality(S)
    BY <1>1, <1>2, FS_Subset DEF placeIn
  <1> QED
    BY <1>1, <1>2, <1>3, <1>4

\* The next element has the next place.
LEMMA NextPlace ==
    ASSUME NEW N \in Nat, NEW S \in SUBSET (1 .. N), NEW q \in S,
           NEW p \in 0 .. q - 1, \A r \in p + 1 .. q - 1 : r \notin S
    PROVE  placeIn(S, q) = placeIn(S, p) + 1
  <1>1. q \in Nat /\ p \in Nat /\ p < q /\ \A r \in S : r \in Nat
    OBVIOUS
  <1>2. \A r \in S : r <= q <=> r <= p \/ r = q
    <2> SUFFICES ASSUME NEW r \in S, r <= q, ~(r <= p), r # q
                 PROVE  FALSE
      BY <1>1
    <2>1. r \in p + 1 .. q - 1
      BY <1>1
    <2> QED
      BY <2>1
  <1>3. upTo(S, q) = upTo(S, p) \cup {q} /\ q \notin upTo(S, p)
    <2>1. \A r \in S : r \in upTo(S, p) <=> r <= p
      BY DEF upTo
    <2>2. \A r \in S : r \in upTo(S, q) <=> r <= q
      BY DEF upTo
    <2>3. upTo(S, p) \subseteq S /\ upTo(S, q) \subseteq S
      BY DEF upTo
    <2>4. ~(q <= p)
      BY <1>1
    <2> QED
      BY <1>2, <2>1, <2>2, <2>3, <2>4, Zenon
  <1>4. IsFiniteSet(upTo(S, p))
    BY Places
  <1> QED
    BY <1>3, <1>4, FS_AddElement DEF placeIn

\* No element has the place of another.
LEMMA PlacesDiffer ==
    ASSUME NEW N \in Nat, NEW S \in SUBSET (1 .. N), NEW p \in S, NEW q \in S, p < q
    PROVE  placeIn(S, p) < placeIn(S, q)
  <1>1. p \in Nat /\ q \in Nat /\ \A r \in S : r \in Nat
    OBVIOUS
  <1>2. upTo(S, p) \subseteq upTo(S, q) /\ q \in upTo(S, q) /\ q \notin upTo(S, p)
    <2>1. \A r \in S : r <= p => r <= q
      BY <1>1
    <2>2. q <= q /\ ~(q <= p)
      BY <1>1
    <2> QED
      BY <2>1, <2>2, Zenon DEF upTo
  <1>3. IsFiniteSet(upTo(S, p)) /\ IsFiniteSet(upTo(S, q))
    BY Places
  <1>4. Cardinality(upTo(S, p)) <= Cardinality(upTo(S, q)) /\ Cardinality(upTo(S, p)) # Cardinality(upTo(S, q))
    BY <1>2, <1>3, FS_Subset
  <1>5. Cardinality(upTo(S, p)) \in Nat /\ Cardinality(upTo(S, q)) \in Nat
    BY <1>3, FS_CardinalityType
  <1> QED
    BY <1>4, <1>5 DEF placeIn

\* CHOOSE finds the element at a place.
LEMMA ElementAt ==
    ASSUME NEW N \in Nat, NEW S \in SUBSET (1 .. N), NEW p \in S, NEW k, placeIn(S, p) = k
    PROVE  (CHOOSE q \in S : Cardinality({r \in S : r <= q}) = k) = p
  <1>1. \A q \in S : placeIn(S, q) = k => q = p
    <2> SUFFICES ASSUME NEW q \in S, placeIn(S, q) = k, q # p
                 PROVE  FALSE
      OBVIOUS
    <2>1. placeIn(S, p) \in Nat
      BY Places
    <2>2. p < q \/ q < p
      OBVIOUS
    <2>3. ~(p < q)
      <3> SUFFICES ASSUME p < q PROVE FALSE
        OBVIOUS
      <3>1. placeIn(S, p) < placeIn(S, q)
        BY PlacesDiffer
      <3> QED
        BY <2>1, <3>1
    <2>4. ~(q < p)
      <3> SUFFICES ASSUME q < p PROVE FALSE
        OBVIOUS
      <3>1. placeIn(S, q) < placeIn(S, p)
        BY PlacesDiffer
      <3> QED
        BY <2>1, <3>1
    <2> QED
      BY <2>2, <2>3, <2>4
  <1>2. (CHOOSE q \in S : placeIn(S, q) = k) = p
    BY <1>1
  <1> QED
    BY <1>2 DEF placeIn, upTo

\* The last place is the number of elements.
LEMMA LastPlace ==
    ASSUME NEW N \in Nat, NEW S \in SUBSET (1 .. N), NEW p, \A q \in S : q <= p
    PROVE  Cardinality(S) = placeIn(S, p)
  <1>1. upTo(S, p) = S
    BY DEF upTo
  <1> QED
    BY <1>1 DEF placeIn
=============================================================================
