------------------------------ MODULE SumProofs ------------------------------
(***************************************************************************)
(* Sums over finite sets, as SumFunctionOnSet of the community modules     *)
(* computes them.  It is defined by a choice of a function that satisfies  *)
(* a recursion, and the library has no fact about it.  The facts here are  *)
(* by induction over a set, in the form the provers have it: a property is *)
(* the set of those that have it, and a set of those that have not has, if *)
(* there are any, a least one (WFMin).                                     *)
(***************************************************************************)
EXTENDS Integers, FiniteSets, Functions, Folds, FiniteSetTheorems, WellFoundedInduction,
        TLAPS

\* The element that a fold takes next.
Choice(s) == CHOOSE x \in s : TRUE

\* It is one of the set's.
LEMMA ChoiceIn == ASSUME NEW T, T # {} PROVE Choice(T) \in T
<1>1. PICK x : x \in T
  OBVIOUS
<1> QED
  BY <1>1 DEF Choice

\* The order of the naturals, as a set of pairs.
Less == {p \in Nat \X Nat : p[1] < p[2]}

\* Induction over the naturals, with the property as the set of those that have it.
LEMMA NaturalInduction ==
  ASSUME NEW Good, 0 \in Good, \A n \in Nat : n \in Good => n + 1 \in Good
  PROVE  Nat \subseteq Good
<1>1. SUFFICES ASSUME ~(Nat \subseteq Good) PROVE FALSE
  OBVIOUS
<1> DEFINE Bad == {n \in Nat : n \notin Good}
<1>2. Bad # {} /\ Bad \subseteq Nat
  BY <1>1
<1>3. IsWellFoundedOn(Less, Nat)
  BY NatLessThanWellFounded DEF OpToRel, Less
<1>4. PICK n \in Bad : \A m \in Bad : <<m, n>> \notin Less
  <2> HIDE DEF Bad
  <2> QED BY <1>2, <1>3, WFMin
<1>5. n \in Nat /\ n # 0
  BY <1>4
<1>6. n - 1 \in Nat /\ <<n - 1, n>> \in Less
  BY <1>5 DEF Less
<1> QED
  BY <1>4, <1>5, <1>6

\* Induction over the subsets of a finite set.
LEMMA SubsetInduction ==
  ASSUME NEW S, IsFiniteSet(S), NEW Good,
         \A T \in SUBSET S : (\A U \in SUBSET T : U # T => U \in Good) => T \in Good
  PROVE  SUBSET S \subseteq Good
<1>1. SUFFICES ASSUME ~(SUBSET S \subseteq Good) PROVE FALSE
  OBVIOUS
<1> DEFINE Bad == {T \in SUBSET S : T \notin Good}
<1>2. Bad # {} /\ Bad \subseteq SUBSET S
  BY <1>1
<1>3. IsWellFoundedOn(StrictSubsetOrdering(S), SUBSET S)
  BY FS_StrictSubsetOrderingWellFounded, FS_FiniteSubsetsOfFinite
<1>4. PICK T \in Bad : \A U \in Bad : <<U, T>> \notin StrictSubsetOrdering(S)
  <2> HIDE DEF Bad
  <2> QED BY <1>2, <1>3, WFMin
<1>5. ASSUME NEW U \in SUBSET T, U # T PROVE U \in Good
  <2>1. <<U, T>> \in StrictSubsetOrdering(S)
    BY <1>4, <1>5 DEF StrictSubsetOrdering
  <2> QED BY <2>1, <1>4
<1> QED
  BY <1>4, <1>5

\* A set without the element that is chosen of it.
LEMMA Smaller ==
  ASSUME NEW S, IsFiniteSet(S), NEW s \in SUBSET S
  PROVE  /\ IsFiniteSet(s) /\ Cardinality(s) \in Nat /\ Cardinality(s) <= Cardinality(S)
         /\ s # {} => /\ Cardinality(s) > 0 /\ Choice(s) \in s
                      /\ s \ {Choice(s)} \in SUBSET S /\ s \ {Choice(s)} # s
                      /\ Cardinality(s \ {Choice(s)}) = Cardinality(s) - 1
<1>1. IsFiniteSet(s) /\ Cardinality(s) \in Nat /\ Cardinality(s) <= Cardinality(S)
  BY FS_Subset, FS_CardinalityType
<1>2. CASE s # {}
  <2>1. Cardinality(s) # 0
    BY <1>1, <1>2, FS_EmptySet
  <2>2. Choice(s) \in s
    BY <1>2, ChoiceIn
  <2>3. Cardinality(s \ {Choice(s)}) = Cardinality(s) - 1
    BY <1>1, <2>2, FS_RemoveElement
  <2> QED BY <1>1, <2>1, <2>2, <2>3
<1> QED
  BY <1>1, <1>2

\* The values of a function are no more than what it is of.
LEMMA ImageIsFinite ==
  ASSUME NEW S, IsFiniteSet(S), NEW f
  PROVE  /\ IsFiniteSet({f[x] : x \in S})
         /\ Cardinality({f[x] : x \in S}) <= Cardinality(S)
<1> DEFINE T == {f[x] : x \in S}
           g == [x \in S |-> f[x]]
<1>1. g \in Surjection(S, T)
  BY DEF Surjection
<1> HIDE DEF g, T
<1>2. IsFiniteSet(T) /\ Cardinality(T) <= Cardinality(S)
  BY <1>1, FS_Surjection
<1> QED
  BY <1>2 DEF T

\* A function that computes the sums over the subsets of S.
IsSum(w, S, g) ==
  g = [s \in SUBSET S |-> IF s = {} THEN 0 ELSE w[Choice(s)] + g[s \ {Choice(s)}]]

\* A sum is what such a function has for the whole set.
LEMMA SumIs ==
  ASSUME NEW w, NEW S
  PROVE  SumFunctionOnSet(w, S) = (CHOOSE g : IsSum(w, S, g))[S]
  BY DEF SumFunctionOnSet, FoldFunctionOnSet, MapThenFoldSet, IsSum, Choice

\* One that does for the subsets of up to n elements.
SumsTo(w, S, n, g) ==
  g = [s \in SUBSET S |-> IF s = {} \/ Cardinality(s) > n THEN 0
                          ELSE w[Choice(s)] + g[s \ {Choice(s)}]]

\* For every n there is one: one for n + 1 elements extends one for n.
LEMMA SumsToExist ==
  ASSUME NEW S, IsFiniteSet(S), NEW w
  PROVE  \A n \in Nat : \E g : SumsTo(w, S, n, g)
<1> DEFINE Good == {n \in Nat : \E g : SumsTo(w, S, n, g)}
<1>1. 0 \in Good
  <2> DEFINE g == [s \in SUBSET S |-> 0]
  <2>1. ASSUME NEW s \in SUBSET S
        PROVE  g[s] = IF s = {} \/ Cardinality(s) > 0 THEN 0
                      ELSE w[Choice(s)] + g[s \ {Choice(s)}]
    <3>1. s = {} \/ Cardinality(s) > 0
      BY Smaller
    <3> QED BY <3>1
  <2>2. SumsTo(w, S, 0, g)
    BY <2>1 DEF SumsTo
  <2> QED BY <2>2
<1>2. ASSUME NEW n \in Nat, n \in Good PROVE n + 1 \in Good
  <2>1. PICK g : SumsTo(w, S, n, g)
    BY <1>2
  <2> DEFINE Added(s) == w[Choice(s)] + g[s \ {Choice(s)}]
             h == [s \in SUBSET S |-> IF s = {} \/ Cardinality(s) > n + 1 THEN 0 ELSE Added(s)]
  <2>2. ASSUME NEW s \in SUBSET S, Cardinality(s) <= n
        PROVE  h[s] = g[s]
    <3>1. g[s] = IF s = {} \/ Cardinality(s) > n THEN 0 ELSE Added(s)
      BY <2>1 DEF SumsTo
    <3>2. h[s] = IF s = {} \/ Cardinality(s) > n + 1 THEN 0 ELSE Added(s)
      OBVIOUS
    <3>3. ~(Cardinality(s) > n) /\ ~(Cardinality(s) > n + 1)
      <4>1. Cardinality(s) \in Nat
        BY Smaller
      <4> QED BY <4>1, <2>2
    <3> QED BY <3>1, <3>2, <3>3
  <2>3. ASSUME NEW s \in SUBSET S, s # {}, ~(Cardinality(s) > n + 1)
        PROVE  h[s \ {Choice(s)}] = g[s \ {Choice(s)}]
    <3>1. s \ {Choice(s)} \in SUBSET S /\ Cardinality(s \ {Choice(s)}) <= n
      <4>1. /\ Cardinality(s) \in Nat /\ s \ {Choice(s)} \in SUBSET S
            /\ Cardinality(s \ {Choice(s)}) = Cardinality(s) - 1
        BY Smaller, <2>3
      <4> QED BY <4>1, <2>3
    <3> HIDE DEF h
    <3> QED BY <3>1, <2>2
  <2>4. ASSUME NEW s \in SUBSET S
        PROVE  (IF s = {} \/ Cardinality(s) > n + 1 THEN 0 ELSE Added(s)) =
               (IF s = {} \/ Cardinality(s) > n + 1 THEN 0 ELSE w[Choice(s)] + h[s \ {Choice(s)}])
    <3> HIDE DEF h
    <3> QED BY <2>3
  <2>5. h = [s \in SUBSET S |-> IF s = {} \/ Cardinality(s) > n + 1 THEN 0
                                ELSE w[Choice(s)] + h[s \ {Choice(s)}]]
    BY <2>4
  <2>6. SumsTo(w, S, n + 1, h)
    BY <2>5 DEF SumsTo
  <2> QED BY <2>6
<1> HIDE DEF Good
<1>3. Nat \subseteq Good
  BY <1>1, <1>2, NaturalInduction
<1> QED
  BY <1>3 DEF Good

\* So there is one for all the subsets of S.
LEMMA SumExists ==
  ASSUME NEW S, IsFiniteSet(S), NEW w
  PROVE  \E g : IsSum(w, S, g)
<1> DEFINE n == Cardinality(S)
<1>1. n \in Nat
  BY FS_CardinalityType
<1>2. PICK g : SumsTo(w, S, n, g)
  BY <1>1, SumsToExist
<1>3. ASSUME NEW s \in SUBSET S PROVE ~(Cardinality(s) > n)
  <2>1. Cardinality(s) \in Nat /\ Cardinality(s) <= n
    BY Smaller
  <2> QED BY <1>1, <2>1
<1>4. IsSum(w, S, g)
  <2> HIDE DEF n
  <2> QED BY <1>2, <1>3 DEF SumsTo, IsSum
<1> QED
  BY <1>4

\* Two of them agree, on whatever subsets both know.
LEMMA SumUnique ==
  ASSUME NEW S, IsFiniteSet(S), NEW w, NEW g, IsSum(w, S, g),
         NEW T \in SUBSET S, NEW h, IsSum(w, T, h)
  PROVE  \A s \in SUBSET T : g[s] = h[s]
<1> DEFINE Good == {s \in SUBSET T : g[s] = h[s]}
<1>1. IsFiniteSet(T)
  BY FS_Subset
<1>2. ASSUME NEW s \in SUBSET T, \A u \in SUBSET s : u # s => u \in Good
      PROVE  s \in Good
  <2>1. /\ g[s] = IF s = {} THEN 0 ELSE w[Choice(s)] + g[s \ {Choice(s)}]
        /\ h[s] = IF s = {} THEN 0 ELSE w[Choice(s)] + h[s \ {Choice(s)}]
    BY DEF IsSum
  <2>2. CASE s = {}
    BY <2>1, <2>2
  <2>3. CASE s # {}
    <3>1. s \ {Choice(s)} \in SUBSET s /\ s \ {Choice(s)} # s
      BY <1>1, <2>3, Smaller
    <3>2. g[s \ {Choice(s)}] = h[s \ {Choice(s)}]
      BY <3>1, <1>2
    <3> QED BY <2>1, <2>3, <3>2
  <2> QED BY <2>2, <2>3
<1>3. SUBSET T \subseteq Good
  <2> HIDE DEF Good
  <2> QED BY <1>1, <1>2, SubsetInduction
<1> QED
  BY <1>3

\* The recursion that the definition stands for.
LEMMA SumUnfold ==
  ASSUME NEW S, IsFiniteSet(S), NEW w
  PROVE  SumFunctionOnSet(w, S) =
           IF S = {} THEN 0
           ELSE w[Choice(S)] + SumFunctionOnSet(w, S \ {Choice(S)})
<1> DEFINE g == CHOOSE f : IsSum(w, S, f)
           T == S \ {Choice(S)}
           h == CHOOSE f : IsSum(w, T, f)
<1>1. IsFiniteSet(T) /\ T \in SUBSET S
  BY FS_Subset
<1>2. IsSum(w, S, g) /\ IsSum(w, T, h)
  BY <1>1, SumExists
<1>3. SumFunctionOnSet(w, S) = g[S] /\ SumFunctionOnSet(w, T) = h[T]
  BY SumIs
<1> HIDE DEF g, h
<1>4. g[T] = h[T]
  BY <1>1, <1>2, SumUnique
<1>5. g[S] = IF S = {} THEN 0 ELSE w[Choice(S)] + g[T]
  BY <1>2 DEF IsSum
<1> QED
  BY <1>3, <1>4, <1>5

\* Nothing adds up to nothing.
LEMMA SumEmpty == ASSUME NEW w PROVE SumFunctionOnSet(w, {}) = 0
  BY SumUnfold, FS_EmptySet

\* A sum of integers is one.
LEMMA SumInt ==
  ASSUME NEW S, IsFiniteSet(S), NEW w, \A x \in S : w[x] \in Int
  PROVE  \A T \in SUBSET S : SumFunctionOnSet(w, T) \in Int
<1> DEFINE Good == {T \in SUBSET S : SumFunctionOnSet(w, T) \in Int}
<1>1. ASSUME NEW T \in SUBSET S, \A U \in SUBSET T : U # T => U \in Good
      PROVE  T \in Good
  <2>1. IsFiniteSet(T)
    BY FS_Subset
  <2>2. CASE T = {}
    BY <2>2, SumEmpty
  <2>3. CASE T # {}
    <3>1. Choice(T) \in T /\ T \ {Choice(T)} \in SUBSET T /\ T \ {Choice(T)} # T
      BY <2>1, <2>3, Smaller
    <3>2. SumFunctionOnSet(w, T \ {Choice(T)}) \in Int
      BY <3>1, <1>1
    <3>3. w[Choice(T)] \in Int
      BY <3>1
    <3> QED BY <2>1, <2>3, <3>2, <3>3, SumUnfold
  <2> QED BY <2>2, <2>3
<1>2. SUBSET S \subseteq Good
  <2> HIDE DEF Good
  <2> QED BY <1>1, SubsetInduction
<1> QED
  BY <1>2

\* Any summand can be taken first.
LEMMA SumRemove ==
  ASSUME NEW S, IsFiniteSet(S), NEW w, \A x \in S : w[x] \in Int
  PROVE  \A T \in SUBSET S : \A x \in T :
           SumFunctionOnSet(w, T) = w[x] + SumFunctionOnSet(w, T \ {x})
<1> DEFINE Taken(T) == \A x \in T :
                         SumFunctionOnSet(w, T) = w[x] + SumFunctionOnSet(w, T \ {x})
           Good == {T \in SUBSET S : Taken(T)}
<1>1. ASSUME NEW T \in SUBSET S, \A U \in SUBSET T : U # T => U \in Good, NEW x \in T
      PROVE  SumFunctionOnSet(w, T) = w[x] + SumFunctionOnSet(w, T \ {x})
  <2> DEFINE y == Choice(T)
             A == T \ {x}
             B == T \ {y}
             C == (T \ {x}) \ {y}
  <2>1. IsFiniteSet(T) /\ IsFiniteSet(A) /\ y \in T
    BY FS_Subset, ChoiceIn
  <2>2. SumFunctionOnSet(w, T) = w[y] + SumFunctionOnSet(w, B)
    BY <2>1, SumUnfold
  <2>3. CASE x = y
    BY <2>2, <2>3
  <2>4. CASE x # y
    <3>1. A \in SUBSET T /\ A # T /\ B \in SUBSET T /\ B # T /\ y \in A /\ x \in B
      BY <2>1, <2>4
    <3>2. Taken(A) /\ Taken(B)
      BY <3>1, <1>1
    <3>3. SumFunctionOnSet(w, A) = w[y] + SumFunctionOnSet(w, C)
      BY <3>1, <3>2
    <3>4. B \ {x} = C
      OBVIOUS
    <3>5. SumFunctionOnSet(w, B) = w[x] + SumFunctionOnSet(w, C)
      BY <3>1, <3>2, <3>4
    <3>6. SumFunctionOnSet(w, C) \in Int
      BY SumInt
    <3>7. w[x] \in Int /\ w[y] \in Int
      BY <2>1
    <3> HIDE DEF A, B, C, y
    <3> QED BY <2>2, <3>3, <3>5, <3>6, <3>7 DEF A
  <2> QED BY <2>3, <2>4
<1>2. SUBSET S \subseteq Good
  <2>1. ASSUME NEW T \in SUBSET S, \A U \in SUBSET T : U # T => U \in Good
        PROVE  T \in Good
    BY <1>1, <2>1
  <2> HIDE DEF Good
  <2> QED BY <2>1, SubsetInduction
<1> QED
  BY <1>2

\* A sum is linear in what it adds up.
LEMMA SumAdds ==
  ASSUME NEW S, IsFiniteSet(S), NEW v, NEW w, NEW u,
         \A x \in S : v[x] \in Int /\ w[x] \in Int /\ u[x] = v[x] + w[x]
  PROVE  SumFunctionOnSet(u, S) = SumFunctionOnSet(v, S) + SumFunctionOnSet(w, S)
<1> DEFINE Added(T) == SumFunctionOnSet(u, T) = SumFunctionOnSet(v, T) + SumFunctionOnSet(w, T)
           Good == {T \in SUBSET S : Added(T)}
<1>1. ASSUME NEW T \in SUBSET S, \A U \in SUBSET T : U # T => U \in Good
      PROVE  Added(T)
  <2>1. IsFiniteSet(T)
    BY FS_Subset
  <2>2. CASE T = {}
    BY <2>2, SumEmpty
  <2>3. CASE T # {}
    <3> DEFINE y == Choice(T)
               U == T \ {y}
    <3>1. y \in S /\ U \in SUBSET T /\ U # T
      BY <2>1, <2>3, Smaller
    <3>2. Added(U)
      BY <3>1, <1>1
    <3>3. /\ SumFunctionOnSet(u, T) = u[y] + SumFunctionOnSet(u, U)
          /\ SumFunctionOnSet(v, T) = v[y] + SumFunctionOnSet(v, U)
          /\ SumFunctionOnSet(w, T) = w[y] + SumFunctionOnSet(w, U)
      BY <2>1, <2>3, SumUnfold
    <3>4. SumFunctionOnSet(v, U) \in Int /\ SumFunctionOnSet(w, U) \in Int
      BY SumInt
    <3>5. v[y] \in Int /\ w[y] \in Int /\ u[y] = v[y] + w[y]
      BY <3>1
    <3> HIDE DEF y, U
    <3> QED BY <3>2, <3>3, <3>4, <3>5
  <2> QED BY <2>2, <2>3
<1>2. SUBSET S \subseteq Good
  <2>1. ASSUME NEW T \in SUBSET S, \A U \in SUBSET T : U # T => U \in Good
        PROVE  T \in Good
    BY <1>1, <2>1
  <2> HIDE DEF Good
  <2> QED BY <2>1, SubsetInduction
<1> QED
  BY <1>2

\* A sum grows with its summands.
LEMMA SumMonotonic ==
  ASSUME NEW S, IsFiniteSet(S), NEW v, NEW w,
         \A x \in S : v[x] \in Int /\ w[x] \in Int /\ v[x] <= w[x]
  PROVE  SumFunctionOnSet(v, S) <= SumFunctionOnSet(w, S)
<1> DEFINE Bounded(T) == SumFunctionOnSet(v, T) <= SumFunctionOnSet(w, T)
           Good == {T \in SUBSET S : Bounded(T)}
<1>1. ASSUME NEW T \in SUBSET S, \A U \in SUBSET T : U # T => U \in Good
      PROVE  Bounded(T)
  <2>1. IsFiniteSet(T)
    BY FS_Subset
  <2>2. CASE T = {}
    BY <2>2, SumEmpty
  <2>3. CASE T # {}
    <3> DEFINE y == Choice(T)
               U == T \ {y}
    <3>1. y \in S /\ U \in SUBSET T /\ U # T
      BY <2>1, <2>3, Smaller
    <3>2. Bounded(U)
      BY <3>1, <1>1
    <3>3. /\ SumFunctionOnSet(v, T) = v[y] + SumFunctionOnSet(v, U)
          /\ SumFunctionOnSet(w, T) = w[y] + SumFunctionOnSet(w, U)
      BY <2>1, <2>3, SumUnfold
    <3>4. SumFunctionOnSet(v, U) \in Int /\ SumFunctionOnSet(w, U) \in Int
      BY SumInt
    <3>5. v[y] \in Int /\ w[y] \in Int /\ v[y] <= w[y]
      BY <3>1
    <3> HIDE DEF y, U
    <3> QED BY <3>2, <3>3, <3>4, <3>5
  <2> QED BY <2>2, <2>3
<1>2. SUBSET S \subseteq Good
  <2>1. ASSUME NEW T \in SUBSET S, \A U \in SUBSET T : U # T => U \in Good
        PROVE  T \in Good
    BY <1>1, <2>1
  <2> HIDE DEF Good
  <2> QED BY <2>1, SubsetInduction
<1> QED
  BY <1>2

\* Equal summands count their set.
LEMMA SumOfEqual ==
  ASSUME NEW S, IsFiniteSet(S), NEW k \in Int, NEW w, \A x \in S : w[x] = k
  PROVE  SumFunctionOnSet(w, S) = k * Cardinality(S)
<1> DEFINE Counted(T) == SumFunctionOnSet(w, T) = k * Cardinality(T)
           Good == {T \in SUBSET S : Counted(T)}
<1>1. ASSUME NEW T \in SUBSET S, \A U \in SUBSET T : U # T => U \in Good
      PROVE  Counted(T)
  <2>1. IsFiniteSet(T)
    BY FS_Subset
  <2>2. CASE T = {}
    <3>1. k * 0 = 0
      OBVIOUS
    <3> QED BY <2>2, <3>1, SumEmpty, FS_EmptySet
  <2>3. CASE T # {}
    <3> DEFINE y == Choice(T)
               U == T \ {y}
    <3>1. y \in S /\ U \in SUBSET T /\ U # T
      BY <2>1, <2>3, Smaller
    <3>2. Counted(U)
      BY <3>1, <1>1
    <3>3. SumFunctionOnSet(w, T) = w[y] + SumFunctionOnSet(w, U)
      BY <2>1, <2>3, SumUnfold
    <3>4. Cardinality(T) \in Nat /\ Cardinality(U) = Cardinality(T) - 1
      BY <2>1, <2>3, Smaller
    <3>5. w[y] = k
      BY <3>1
    <3> HIDE DEF y, U
    <3>6. \A n \in Nat : k + k * (n - 1) = k * n
      OBVIOUS
    <3> QED BY <3>2, <3>3, <3>4, <3>5, <3>6
  <2> QED BY <2>2, <2>3
<1>2. SUBSET S \subseteq Good
  <2>1. ASSUME NEW T \in SUBSET S, \A U \in SUBSET T : U # T => U \in Good
        PROVE  T \in Good
    BY <1>1, <2>1
  <2> HIDE DEF Good
  <2> QED BY <2>1, SubsetInduction
<1> QED
  BY <1>2

\* Leaving out summands that are not negative leaves no more.
LEMMA SumOfFewer ==
  ASSUME NEW S, IsFiniteSet(S), NEW w, \A x \in S : w[x] \in Nat
  PROVE  \A T \in SUBSET S : SumFunctionOnSet(w, T) <= SumFunctionOnSet(w, S)
<1> DEFINE Most(U) == \A T \in SUBSET U : SumFunctionOnSet(w, T) <= SumFunctionOnSet(w, U)
           Good == {U \in SUBSET S : Most(U)}
<1>0. \A T \in SUBSET S : SumFunctionOnSet(w, T) \in Int
  BY SumInt
<1>1. ASSUME NEW U \in SUBSET S, \A T \in SUBSET U : T # U => T \in Good,
             NEW T \in SUBSET U
      PROVE  SumFunctionOnSet(w, T) <= SumFunctionOnSet(w, U)
  <2>1. CASE T = U
    BY <1>0, <2>1
  <2>2. CASE T # U
    <3>1. PICK x \in U : x \notin T
      BY <2>2
    <3> DEFINE V == U \ {x}
    <3>2. V \in SUBSET U /\ V # U /\ T \in SUBSET V
      BY <3>1
    <3>3. SumFunctionOnSet(w, T) <= SumFunctionOnSet(w, V)
      BY <3>2, <1>1
    <3>4. SumFunctionOnSet(w, U) = w[x] + SumFunctionOnSet(w, V)
      BY SumRemove
    <3>5. /\ SumFunctionOnSet(w, T) \in Int /\ SumFunctionOnSet(w, V) \in Int
          /\ w[x] \in Nat
      BY <1>0
    <3> HIDE DEF V
    <3> QED BY <3>3, <3>4, <3>5
  <2> QED BY <2>1, <2>2
<1>2. SUBSET S \subseteq Good
  <2>1. ASSUME NEW U \in SUBSET S, \A T \in SUBSET U : T # U => T \in Good
        PROVE  U \in Good
    BY <1>1, <2>1
  <2> HIDE DEF Good
  <2> QED BY <2>1, SubsetInduction
<1> QED
  BY <1>2

\* Sums of the same summands are the same.
LEMMA SumAgree ==
  ASSUME NEW S, IsFiniteSet(S), NEW v, NEW w, \A x \in S : v[x] \in Int /\ v[x] = w[x]
  PROVE  SumFunctionOnSet(v, S) = SumFunctionOnSet(w, S)
<1>1. /\ SumFunctionOnSet(v, S) <= SumFunctionOnSet(w, S)
      /\ SumFunctionOnSet(w, S) <= SumFunctionOnSet(v, S)
  <2>1. /\ \A x \in S : v[x] \in Int /\ w[x] \in Int /\ v[x] <= w[x]
        /\ \A x \in S : w[x] \in Int /\ v[x] \in Int /\ w[x] <= v[x]
    OBVIOUS
  <2> QED BY <2>1, SumMonotonic
<1>2. SumFunctionOnSet(v, S) \in Int /\ SumFunctionOnSet(w, S) \in Int
  <2>1. \A x \in S : v[x] \in Int /\ w[x] \in Int
    OBVIOUS
  <2>2. S \in SUBSET S
    OBVIOUS
  <2> QED BY <2>1, <2>2, SumInt
<1> QED
  BY <1>1, <1>2

\* A sum of natural numbers is one.
LEMMA SumNat ==
  ASSUME NEW S, IsFiniteSet(S), NEW w, \A x \in S : w[x] \in Nat
  PROVE  SumFunctionOnSet(w, S) \in Nat
<1>1. {} \in SUBSET S /\ S \in SUBSET S /\ \A x \in S : w[x] \in Int
  OBVIOUS
<1>2. SumFunctionOnSet(w, {}) <= SumFunctionOnSet(w, S)
  BY <1>1, SumOfFewer
<1>3. SumFunctionOnSet(w, S) \in Int
  BY <1>1, SumInt
<1> QED
  BY <1>2, <1>3, SumEmpty

\* Changing one summand changes the sum by the difference.
LEMMA SumUpdate ==
  ASSUME NEW S, IsFiniteSet(S), NEW w \in [S -> Int], NEW x \in S, NEW n \in Int
  PROVE  SumFunction([w EXCEPT ![x] = n]) = SumFunction(w) - w[x] + n
<1> DEFINE v == [w EXCEPT ![x] = n]
           T == S \ {x}
<1>1. /\ \A y \in S : w[y] \in Int /\ v[y] \in Int
      /\ \A y \in T : w[y] \in Int /\ w[y] = v[y]
      /\ v[x] = n /\ w[x] \in Int /\ DOMAIN w = S /\ DOMAIN v = S
  OBVIOUS
<1>2. IsFiniteSet(T) /\ T \in SUBSET S /\ S \in SUBSET S
  BY FS_Subset
<1> HIDE DEF v
<1>3. /\ SumFunctionOnSet(w, S) = w[x] + SumFunctionOnSet(w, T)
      /\ SumFunctionOnSet(v, S) = v[x] + SumFunctionOnSet(v, T)
  BY <1>1, <1>2, SumRemove
<1>4. SumFunctionOnSet(w, T) \in Int
  BY <1>1, <1>2, SumInt
<1>5. SumFunctionOnSet(w, T) = SumFunctionOnSet(v, T)
  <2> HIDE DEF T
  <2> QED BY <1>1, <1>2, SumAgree
<1>6. SumFunction(w) = SumFunctionOnSet(w, S) /\ SumFunction(v) = SumFunctionOnSet(v, S)
  BY <1>1 DEF SumFunction
<1>7. SumFunction(v) = SumFunction(w) - w[x] + n
  <2> HIDE DEF T
  <2> QED BY <1>1, <1>3, <1>4, <1>5, <1>6
<1> QED
  BY <1>7 DEF v

\* A set in groups of a bounded number each: k of each member are bounded by n in
\* every group, hence by n for every group in all.
LEMMA GroupsBound ==
  ASSUME NEW S, IsFiniteSet(S), NEW T, IsFiniteSet(T), NEW f, NEW k \in Nat, NEW n \in Nat,
         \A t \in T : k * Cardinality({x \in S : f[x] = t}) <= n
  PROVE  k * Cardinality({x \in S : f[x] \in T}) <= n * Cardinality(T)
<1> DEFINE In(U) == {x \in S : f[x] \in U}
           Group(t) == {x \in S : f[x] = t}
           Bounded(U) == k * Cardinality(In(U)) <= n * Cardinality(U)
           Good == {U \in SUBSET T : Bounded(U)}
<1>1. ASSUME NEW U \in SUBSET T, \A V \in SUBSET U : V # U => V \in Good
      PROVE  Bounded(U)
  <2>1. IsFiniteSet(U)
    BY FS_Subset
  <2>2. CASE U = {}
    <3>1. In(U) = {} /\ Cardinality({}) = 0
      BY <2>2, FS_EmptySet
    <3>2. k * 0 = 0 /\ n * 0 = 0
      OBVIOUS
    <3> QED BY <2>2, <3>1, <3>2
  <2>3. CASE U # {}
    <3> DEFINE y == Choice(U)
               V == U \ {y}
    <3>1. y \in T /\ y \in U /\ V \in SUBSET U /\ V # U
      BY <2>1, <2>3, Smaller
    <3>2. Bounded(V)
      BY <3>1, <1>1
    <3>3. Cardinality(U) \in Nat /\ Cardinality(V) \in Nat /\ Cardinality(V) = Cardinality(U) - 1
      <4>1. IsFiniteSet(V)
        BY <2>1, FS_Subset
      <4> QED BY <2>1, <2>3, <4>1, Smaller, FS_CardinalityType
    <3>4. In(U) = In(V) \cup Group(y) /\ In(V) \cap Group(y) = {}
      BY <3>1
    <3>5. /\ IsFiniteSet(In(V)) /\ Cardinality(In(V)) \in Nat
          /\ IsFiniteSet(Group(y)) /\ Cardinality(Group(y)) \in Nat
      BY FS_Subset, FS_CardinalityType
    <3>6. Cardinality(In(U)) = Cardinality(In(V)) + Cardinality(Group(y)) - Cardinality({})
      <4> HIDE DEF In, Group, y, V
      <4> QED BY <3>4, <3>5, FS_Union
    <3>7. k * Cardinality(Group(y)) <= n
      BY <3>1
    <3> HIDE DEF In, Group, y, V
    <3>8. \A a, b \in Nat : k * (a + b) = k * a + k * b
      OBVIOUS
    <3>9. \A a \in Nat : n * (a - 1) = n * a - n
      OBVIOUS
    <3>10. \A a \in Nat : k * a \in Int /\ n * a \in Int
      OBVIOUS
    <3>11. Cardinality(In(U)) = Cardinality(In(V)) + Cardinality(Group(y))
      BY <3>5, <3>6, FS_EmptySet
    <3>12. k * Cardinality(In(U)) = k * Cardinality(In(V)) + k * Cardinality(Group(y))
      BY <3>5, <3>8, <3>11
    <3>13. n * Cardinality(V) = n * Cardinality(U) - n
      BY <3>3, <3>9
    <3> QED BY <3>2, <3>3, <3>5, <3>7, <3>10, <3>12, <3>13
  <2> QED BY <2>2, <2>3
<1>2. SUBSET T \subseteq Good
  <2>1. ASSUME NEW U \in SUBSET T, \A V \in SUBSET U : V # U => V \in Good
        PROVE  U \in Good
    BY <1>1, <2>1
  <2> HIDE DEF Good
  <2> QED BY <2>1, SubsetInduction
<1> QED
  BY <1>2
=============================================================================
