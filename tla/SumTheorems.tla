----------------------------- MODULE SumTheorems -----------------------------
(***************************************************************************)
(* Lemmas about SumFunctionOnSet, the sum over a finite set of what a      *)
(* function gives on it, for functions into Nat. The operator is a fold    *)
(* that takes its elements in an order of its own choice. Nothing here     *)
(* depends on that order: the sum is how many units all of them count, each*)
(* one f[x] of its own, and units are counted by Cardinality. That the fold*)
(* is that count is shown with a smallest subset for which it would not be,*)
(* since the induction theorems of the libraries take an operator.         *)
(***************************************************************************)
EXTENDS Integers, Functions, FiniteSetTheorems, TLAPS

\* The units that the elements of S count under f.
Units(f, S) == UNION {{x} \X (1..f[x]) : x \in S}

\* The equation that defines the fold, h[T] the sum over T.
Pick(S) == CHOOSE x \in S : TRUE

IsRunningSum(h, f, S) ==
    h = [T \in SUBSET S |-> IF T = {} THEN 0 ELSE f[Pick(T)] + h[T \ {Pick(T)}]]

\* The sum is what a solution of that equation gives for the whole set.
LEMMA SumUnfold ==
    ASSUME NEW f, NEW S
    PROVE  SumFunctionOnSet(f, S) = (CHOOSE h : IsRunningSum(h, f, S))[S]
  BY DEF SumFunctionOnSet, FoldFunctionOnSet, MapThenFoldSet, IsRunningSum, Pick

\* Finitely many elements count finitely many units.
LEMMA UnitsFinite ==
    ASSUME NEW S, IsFiniteSet(S), NEW f, \A x \in S : f[x] \in Nat
    PROVE  IsFiniteSet(Units(f, S)) /\ Cardinality(Units(f, S)) \in Nat
<1>. DEFINE Of(x) == {x} \X (1..f[x])
<1>1. ASSUME NEW x \in S PROVE IsFiniteSet(Of(x))
  <2>1. IsFiniteSet({x})
    BY FS_Singleton
  <2>2. IsFiniteSet(1..f[x])
    BY FS_Interval
  <2>. QED
    BY <2>1, <2>2, FS_Product
<1>2. IsFiniteSet({Of(x) : x \in S})
  <2>. DEFINE of == [x \in S |-> Of(x)]
              image == {Of(x) : x \in S}
  <2>1. of \in Surjection(S, image)
    BY DEF Surjection
  <2>. HIDE DEF of, image
  <2>2. IsFiniteSet(image)
    BY <2>1, FS_Surjection
  <2>. QED
    BY <2>2 DEF image
<1>3. IsFiniteSet(UNION {Of(x) : x \in S})
  <2>1. \A T \in {Of(x) : x \in S} : IsFiniteSet(T)
    BY <1>1
  <2>. HIDE DEF Of
  <2>. QED
  BY <1>2, <2>1, FS_UNION
<1>. QED
  BY <1>3, FS_CardinalityType DEF Units

\* One element more brings as many units as it counts.
LEMMA UnitsAdd ==
    ASSUME NEW S, IsFiniteSet(S), NEW f, \A y \in S : f[y] \in Nat,
           NEW x \in S
    PROVE  Cardinality(Units(f, S)) = f[x] + Cardinality(Units(f, S \ {x}))
<1>. DEFINE A == Units(f, S \ {x})
            B == {x} \X (1..f[x])
<1>1. Units(f, S) = A \union B
  BY DEF Units
<1>2. A \cap B = {}
  BY DEF Units
<1>3. IsFiniteSet(B) /\ Cardinality(B) = f[x]
  <2>1. IsFiniteSet({x}) /\ Cardinality({x}) = 1
    BY FS_Singleton
  <2>2. IsFiniteSet(1..f[x]) /\ Cardinality(1..f[x]) = f[x]
    BY FS_Interval
  <2>3. IsFiniteSet(B) /\ Cardinality(B) = 1 * f[x]
    BY <2>1, <2>2, FS_Product
  <2>. QED
    BY <2>3
<1>4. IsFiniteSet(A) /\ Cardinality(A) \in Nat
  <2>1. IsFiniteSet(S \ {x})
    BY FS_RemoveElement
  <2>. QED
    BY <2>1, UnitsFinite
<1>5. Cardinality(A \cap B) = 0
  BY <1>2, FS_EmptySet
<1>6. Cardinality(A \union B) = Cardinality(A) + Cardinality(B) - Cardinality(A \cap B)
  BY <1>3, <1>4, FS_Union
<1>. QED
  BY <1>1, <1>3, <1>4, <1>5, <1>6

\* No element counts no unit.
LEMMA UnitsEmpty == ASSUME NEW f PROVE Cardinality(Units(f, {})) = 0
<1>1. Units(f, {}) = {}
  BY DEF Units
<1>. QED
  BY <1>1, FS_EmptySet

\* The count of the units solves the equation.
LEMMA UnitsSum ==
    ASSUME NEW S, IsFiniteSet(S), NEW f, \A x \in S : f[x] \in Nat
    PROVE  IsRunningSum([T \in SUBSET S |-> Cardinality(Units(f, T))], f, S)
<1>. DEFINE g == [T \in SUBSET S |-> Cardinality(Units(f, T))]
<1>1. ASSUME NEW T \in SUBSET S
      PROVE  g[T] = IF T = {} THEN 0 ELSE f[Pick(T)] + g[T \ {Pick(T)}]
  <2>1. CASE T = {}
    BY <2>1, UnitsEmpty
  <2>2. CASE T # {}
    <3>1. Pick(T) \in T
      BY <2>2 DEF Pick
    <3>2. IsFiniteSet(T)
      BY FS_Subset
    <3>. QED
      BY <2>2, <3>1, <3>2, UnitsAdd
  <2>. QED
    BY <2>1, <2>2
<1>. QED
  BY <1>1 DEF IsRunningSum

\* Two solutions agree: a smallest set on which they differ would be nonempty,
\* and they agree on it without the element picked.
LEMMA RunningSumUnique ==
    ASSUME NEW S, IsFiniteSet(S), NEW f, NEW g, NEW h,
           IsRunningSum(g, f, S), IsRunningSum(h, f, S)
    PROVE  g[S] = h[S]
<1>. DEFINE Bad == {T \in SUBSET S : g[T] # h[T]}
<1>. SUFFICES ASSUME Bad # {} PROVE FALSE
  OBVIOUS
<1>1. IsWellFoundedOn(StrictSubsetOrdering(S), SUBSET S)
  BY FS_StrictSubsetOrderingWellFounded, FS_FiniteSubsetsOfFinite
<1>2. PICK T \in Bad : \A U \in Bad : <<U, T>> \notin StrictSubsetOrdering(S)
  BY <1>1, WFMin
<1>3. T # {}
  BY DEF IsRunningSum
<1>. DEFINE U == T \ {Pick(T)}
<1>4. Pick(T) \in T
  BY <1>3 DEF Pick
<1>5. g[U] = h[U]
  <2>1. /\ T \in SUBSET S /\ U \in SUBSET S
        /\ U \subseteq T /\ U # T
    BY <1>4
  <2>2. <<U, T>> \in StrictSubsetOrdering(S)
    BY <2>1 DEF StrictSubsetOrdering
  <2>. QED
    BY <1>2, <2>1, <2>2
<1>6. g[T] = f[Pick(T)] + g[U] /\ h[T] = f[Pick(T)] + h[U]
  BY <1>3 DEF IsRunningSum
<1>. QED
  BY <1>5, <1>6

\* The sum is the number of units.
LEMMA SumIsCount ==
    ASSUME NEW S, IsFiniteSet(S), NEW f, \A x \in S : f[x] \in Nat
    PROVE  SumFunctionOnSet(f, S) = Cardinality(Units(f, S))
<1>. DEFINE g == [T \in SUBSET S |-> Cardinality(Units(f, T))]
            h == CHOOSE u : IsRunningSum(u, f, S)
<1>1. IsRunningSum(g, f, S)
  BY UnitsSum
<1>2. IsRunningSum(h, f, S)
  <2>. HIDE DEF g
  <2>. QED
  BY <1>1
<1>3. g[S] = h[S]
  <2>. HIDE DEF g, h
  <2>. QED
  BY <1>1, <1>2, RunningSumUnique
<1>. QED
  BY <1>3, SumUnfold

-----------------------------------------------------------------------------
\* A sum of natural numbers is one.
LEMMA SumNat ==
    ASSUME NEW S, IsFiniteSet(S), NEW f, \A x \in S : f[x] \in Nat
    PROVE  SumFunctionOnSet(f, S) \in Nat
  BY SumIsCount, UnitsFinite

\* The sum over no element is 0.
LEMMA SumEmpty == ASSUME NEW f PROVE SumFunctionOnSet(f, {}) = 0
<1>1. IsFiniteSet({}) /\ \A x \in {} : f[x] \in Nat
  BY FS_EmptySet
<1>. QED
  BY <1>1, SumIsCount, UnitsEmpty

\* A new element adds what f gives for it.
LEMMA SumAdd ==
    ASSUME NEW S, IsFiniteSet(S), NEW f, NEW x, x \notin S,
           \A y \in S \union {x} : f[y] \in Nat
    PROVE  SumFunctionOnSet(f, S \union {x}) = f[x] + SumFunctionOnSet(f, S)
<1>. DEFINE T == S \union {x}
<1>1. IsFiniteSet(T)
  BY FS_AddElement
<1>2. T \ {x} = S
  OBVIOUS
<1>3. Cardinality(Units(f, T)) = f[x] + Cardinality(Units(f, T \ {x}))
  BY <1>1, UnitsAdd
<1>4. /\ SumFunctionOnSet(f, T) = Cardinality(Units(f, T))
      /\ SumFunctionOnSet(f, S) = Cardinality(Units(f, S))
  BY <1>1, SumIsCount
<1>. QED
  BY <1>2, <1>3, <1>4

\* What f gives outside the set does not matter.
LEMMA SumSame ==
    ASSUME NEW S, IsFiniteSet(S), NEW f, NEW g,
           \A x \in S : f[x] \in Nat /\ g[x] = f[x]
    PROVE  SumFunctionOnSet(g, S) = SumFunctionOnSet(f, S)
<1>1. Units(g, S) = Units(f, S)
  BY DEF Units
<1>. QED
  BY <1>1, SumIsCount

\* Two sets with no common element: their sums add up.
LEMMA SumUnion ==
    ASSUME NEW S, IsFiniteSet(S), NEW T, IsFiniteSet(T), S \cap T = {},
           NEW f, \A x \in S \union T : f[x] \in Nat
    PROVE  SumFunctionOnSet(f, S \union T)
               = SumFunctionOnSet(f, S) + SumFunctionOnSet(f, T)
<1>. DEFINE A == Units(f, S)
            B == Units(f, T)
<1>1. Units(f, S \union T) = A \union B /\ A \cap B = {}
  BY DEF Units
<1>2. IsFiniteSet(A) /\ IsFiniteSet(B)
      /\ Cardinality(A) \in Nat /\ Cardinality(B) \in Nat
  BY UnitsFinite
<1>3. Cardinality(A \cap B) = 0
  BY <1>1, FS_EmptySet
<1>4. Cardinality(A \union B) = Cardinality(A) + Cardinality(B) - Cardinality(A \cap B)
  BY <1>2, FS_Union
<1>5. IsFiniteSet(S \union T)
  BY FS_Union
<1>6. /\ SumFunctionOnSet(f, S) = Cardinality(A)
      /\ SumFunctionOnSet(f, T) = Cardinality(B)
  BY SumIsCount
<1>7. SumFunctionOnSet(f, S \union T) = Cardinality(A \union B)
  BY <1>1, <1>5, SumIsCount
<1>. HIDE DEF A, B
<1>. QED
  BY <1>2, <1>3, <1>4, <1>6, <1>7

\* The sums of finitely many parts, no two of which meet, sum up to the sum of
\* all: a smallest collection of parts for which they would not is not empty,
\* and without any one part they do.
LEMMA SumOfParts ==
    ASSUME NEW B, IsFiniteSet(B), NEW P,
           \A b \in B : IsFiniteSet(P[b]),
           \A b, c \in B : b # c => P[b] \cap P[c] = {},
           NEW f, \A b \in B : \A x \in P[b] : f[x] \in Nat
    PROVE  SumFunctionOnSet([b \in B |-> SumFunctionOnSet(f, P[b])], B)
               = SumFunctionOnSet(f, UNION {P[b] : b \in B})
<1>. DEFINE g == [b \in B |-> SumFunctionOnSet(f, P[b])]
            All(T) == UNION {P[b] : b \in T}
            Bad == {T \in SUBSET B : SumFunctionOnSet(g, T) # SumFunctionOnSet(f, All(T))}
<1>. SUFFICES ASSUME Bad # {} PROVE FALSE
  OBVIOUS
<1>1. IsWellFoundedOn(StrictSubsetOrdering(B), SUBSET B)
  BY FS_StrictSubsetOrderingWellFounded, FS_FiniteSubsetsOfFinite
<1>2. PICK T \in Bad : \A U \in Bad : <<U, T>> \notin StrictSubsetOrdering(B)
  <2>1. Bad \subseteq SUBSET B
    OBVIOUS
  <2>. HIDE DEF Bad
  <2>. QED
    BY <1>1, <2>1, WFMin
<1>3. T \subseteq B /\ SumFunctionOnSet(g, T) # SumFunctionOnSet(f, All(T))
  OBVIOUS
<1>4. T # {}
  <2>1. All({}) = {}
    OBVIOUS
  <2>2. SumFunctionOnSet(g, {}) = SumFunctionOnSet(f, All({}))
    <3>. HIDE DEF g, All
    <3>. QED
      BY <2>1, SumEmpty
  <2>. QED
    BY <1>3, <2>2
<1>5. PICK b \in T : TRUE
  BY <1>4
<1>. DEFINE U == T \ {b}
<1>6. U \subseteq B /\ IsFiniteSet(U)
  <2>1. U \subseteq B
    BY <1>3
  <2>. QED
    BY <2>1, FS_Subset
<1>7. \A c \in B : g[c] \in Nat
  BY SumNat
<1>8. SumFunctionOnSet(g, U) = SumFunctionOnSet(f, All(U))
  <2>1. <<U, T>> \in StrictSubsetOrdering(B)
    BY <1>3, <1>5 DEF StrictSubsetOrdering
  <2>2. U \notin Bad
    BY <1>2, <2>1
  <2>. QED
    BY <1>6, <2>2
<1>9. SumFunctionOnSet(g, T) = g[b] + SumFunctionOnSet(g, U)
  <2>1. T = U \union {b} /\ b \notin U /\ \A c \in U \union {b} : g[c] \in Nat
    BY <1>3, <1>5, <1>7
  <2>. HIDE DEF g, U
  <2>. QED
    BY <1>6, <2>1, SumAdd
<1>10. SumFunctionOnSet(f, All(T))
           = SumFunctionOnSet(f, P[b]) + SumFunctionOnSet(f, All(U))
  <2>1. All(T) = P[b] \union All(U) /\ P[b] \cap All(U) = {}
    BY <1>3, <1>5
  <2>2. IsFiniteSet(All(U))
    <3>. DEFINE of == [c \in U |-> P[c]]
                image == {P[c] : c \in U}
    <3>1. of \in Surjection(U, image)
      BY DEF Surjection
    <3>2. \A X \in image : IsFiniteSet(X)
      BY <1>6
    <3>. HIDE DEF of, image, U
    <3>3. IsFiniteSet(image)
      BY <1>6, <3>1, FS_Surjection
    <3>4. IsFiniteSet(UNION image)
      BY <3>2, <3>3, FS_UNION
    <3>. QED
      BY <3>4 DEF image
  <2>3. IsFiniteSet(P[b]) /\ \A x \in P[b] \union All(U) : f[x] \in Nat
    BY <1>3, <1>5, <1>6
  <2>. HIDE DEF All, U
  <2>. QED
    BY <2>1, <2>2, <2>3, SumUnion
<1>. QED
  BY <1>3, <1>5, <1>8, <1>9, <1>10

=============================================================================
