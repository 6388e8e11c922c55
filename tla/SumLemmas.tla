------------------------------ MODULE SumLemmas ------------------------------
(***************************************************************************)
(* Facts about sums over finite sets, for the counts of RmqRetry.  The     *)
(* induction they need is stated about sets: a set of naturals that has 0  *)
(* and with each number the next one, and a family of finite sets, which   *)
(* has a smallest member.                                                  *)
(***************************************************************************)
EXTENDS Integers, FiniteSetsExt, FiniteSetTheorems, WellFoundedInduction, TLAPS

(***************************************************************************)
(* Induction                                                               *)
(***************************************************************************)

\* A set of natural numbers that has 0 and with each number the next one has
\* them all.
LEMMA AllNaturals ==
  ASSUME NEW A \in SUBSET Nat, 0 \in A, \A n \in A : n + 1 \in A
  PROVE  A = Nat
<1> DEFINE R == OpToRel(<, Nat)
<1> DEFINE T == Nat \ A
<1> SUFFICES ASSUME T # {} PROVE FALSE
  OBVIOUS
<1>1. IsWellFoundedOn(R, Nat)
  BY NatLessThanWellFounded
<1>2. T \subseteq Nat /\ T # {}
  OBVIOUS
<1>3. \E x \in T : \A y \in T : ~ (<<y, x>> \in R)
  <2> HIDE DEF R, T
  <2> QED BY <1>1, <1>2, WFMin
<1>4. PICK x \in Nat \ A : \A y \in Nat \ A : ~ (y < x)
  BY <1>3 DEF OpToRel
<1>5. x # 0 /\ x - 1 \in Nat /\ x - 1 \in A
  BY <1>4
<1> QED BY <1>4, <1>5

\* Among the subsets of a finite set that have a property one is smallest.
LEMMA SmallestSubset ==
  ASSUME NEW S, IsFiniteSet(S), NEW D \in SUBSET (SUBSET S), D # {}
  PROVE  \E T \in D : \A U \in D : U \subseteq T => U = T
<1> DEFINE R == StrictSubsetOrdering(S)
<1>1. IsWellFoundedOn(R, SUBSET S)
  BY FS_StrictSubsetOrderingWellFounded, FS_FiniteSubsetsOfFinite
<1>2. D \subseteq SUBSET S
  OBVIOUS
<1>3. \E T \in D : \A U \in D : ~ (<<U, T>> \in R)
  <2> HIDE DEF R
  <2> QED BY <1>1, <1>2, WFMin
<1>4. PICK T \in D : \A U \in D : ~ (<<U, T>> \in R)
  BY <1>3
<1>5. ASSUME NEW U \in D, U \subseteq T, U # T PROVE FALSE
  <2>1. <<U, T>> \in (SUBSET S) \X (SUBSET S)
    BY <1>2
  <2>2. <<U, T>> \in R
    BY <1>5, <2>1 DEF StrictSubsetOrdering
  <2> QED BY <1>4, <2>2
<1> QED BY <1>4, <1>5

(***************************************************************************)
(* Sums                                                                    *)
(***************************************************************************)

Sum(f, S) == MapThenSumSet(LAMBDA x : f[x], S)

AnElement(s) == CHOOSE x \in s : TRUE

\* g is the function by which the sum over S is defined.
Adds(f, S, g) ==
  g = [s \in SUBSET S |->
         IF s = {} THEN 0 ELSE f[AnElement(s)] + g[s \ {AnElement(s)}]]

Numbers(f, S) == \A x \in S : f[x] \in Int

LEMMA AnElementIsOne == ASSUME NEW s, s # {} PROVE AnElement(s) \in s
BY DEF AnElement

\* There is such a function: one that is right for all sets of up to n elements
\* can be made right for those of n + 1.
LEMMA AddsExists ==
  ASSUME NEW S, IsFiniteSet(S), NEW f, Numbers(f, S)
  PROVE  \E g \in [SUBSET S -> Int] : Adds(f, S, g)
<1> DEFINE Right(g, s) == g[s] = IF s = {} THEN 0
                                 ELSE f[AnElement(s)] + g[s \ {AnElement(s)}]
<1> DEFINE RightUpTo(g, n) == \A s \in SUBSET S : Cardinality(s) <= n => Right(g, s)
<1> DEFINE A == {n \in Nat : \E g \in [SUBSET S -> Int] : RightUpTo(g, n)}
<1>1. \A s \in SUBSET S : IsFiniteSet(s) /\ Cardinality(s) \in Nat
  BY FS_Subset, FS_CardinalityType
<1>2. 0 \in A
  <2> DEFINE g == [s \in SUBSET S |-> 0]
  <2>1. \A s \in SUBSET S : Cardinality(s) <= 0 => s = {}
    BY <1>1, FS_EmptySet
  <2>2. RightUpTo(g, 0) /\ g \in [SUBSET S -> Int]
    BY <2>1
  <2> QED BY <2>2
<1>3. ASSUME NEW n \in A PROVE n + 1 \in A
  <2>1. PICK g \in [SUBSET S -> Int] : RightUpTo(g, n)
    BY <1>3
  <2> DEFINE h == [s \in SUBSET S |-> IF s = {} THEN 0
                                      ELSE f[AnElement(s)] + g[s \ {AnElement(s)}]]
  <2>2. h \in [SUBSET S -> Int]
    BY AnElementIsOne DEF Numbers
  <2>3. ASSUME NEW s \in SUBSET S, Cardinality(s) <= n + 1, s # {}
        PROVE  h[s] = f[AnElement(s)] + h[s \ {AnElement(s)}]
    <3> DEFINE r == s \ {AnElement(s)}
    <3>1. r \in SUBSET S /\ Cardinality(r) = Cardinality(s) - 1
      BY <1>1, <2>3, AnElementIsOne, FS_RemoveElement
    <3>2. Cardinality(r) <= n
      BY <1>1, <2>3, <3>1
    <3>3. g[r] = h[r]
      BY <2>1, <3>1, <3>2
    <3> QED BY <2>3, <3>3
  <2>4. RightUpTo(h, n + 1)
    BY <2>3
  <2>5. \E k \in [SUBSET S -> Int] : RightUpTo(k, n + 1)
    <3> HIDE DEF h
    <3> QED BY <2>2, <2>4
  <2>6. n + 1 \in Nat
    OBVIOUS
  <2> HIDE DEF h, RightUpTo
  <2> QED BY <2>5, <2>6
<1>4. Cardinality(S) \in A
  <2>1. A = Nat
    <3>1. A \in SUBSET Nat
      OBVIOUS
    <3> HIDE DEF A
    <3> QED BY <1>2, <1>3, <3>1, AllNaturals
  <2> QED BY <1>1, <2>1
<1>5. PICK g \in [SUBSET S -> Int] : RightUpTo(g, Cardinality(S))
  BY <1>4
<1>6. \A s \in SUBSET S : Cardinality(s) <= Cardinality(S)
  BY FS_Subset
<1>7. \A s \in SUBSET S : Right(g, s)
  BY <1>5, <1>6
<1>8. g = [s \in SUBSET S |->
             IF s = {} THEN 0 ELSE f[AnElement(s)] + g[s \ {AnElement(s)}]]
  BY <1>7
<1> QED BY <1>8 DEF Adds

\* And it is the only one, also on the subsets of S.
LEMMA AddsUnique ==
  ASSUME NEW S, IsFiniteSet(S), NEW f, NEW T \in SUBSET S, NEW g, NEW h,
         Adds(f, S, g), Adds(f, T, h)
  PROVE  g[T] = h[T]
<1> DEFINE D == {s \in SUBSET T : g[s] # h[s]}
<1> SUFFICES ASSUME D # {} PROVE FALSE
  OBVIOUS
<1>1. IsFiniteSet(T) /\ D \in SUBSET (SUBSET T)
  BY FS_Subset
<1>2. \E s \in D : \A u \in D : u \subseteq s => u = s
  <2> HIDE DEF D
  <2> QED BY <1>1, SmallestSubset
<1>3. PICK s \in D : \A u \in D : u \subseteq s => u = s
  BY <1>2
<1>4. \A u \in SUBSET T :
        /\ g[u] = IF u = {} THEN 0 ELSE f[AnElement(u)] + g[u \ {AnElement(u)}]
        /\ h[u] = IF u = {} THEN 0 ELSE f[AnElement(u)] + h[u \ {AnElement(u)}]
  BY DEF Adds
<1>5. s # {}
  BY <1>3, <1>4
<1> DEFINE r == s \ {AnElement(s)}
<1>6. r \in SUBSET T /\ r \subseteq s /\ r # s
  BY <1>3, <1>5, AnElementIsOne
<1>7. g[r] = h[r]
  BY <1>3, <1>6
<1> QED BY <1>3, <1>4, <1>5, <1>7

\* A sum is the value of that function.
LEMMA SumIs ==
  ASSUME NEW S, IsFiniteSet(S), NEW f, Numbers(f, S)
  PROVE  \E g : /\ Adds(f, S, g)
                /\ \A T \in SUBSET S : Sum(f, T) = g[T] /\ g[T] \in Int
<1>1. PICK g \in [SUBSET S -> Int] : Adds(f, S, g)
  BY AddsExists
<1>2. ASSUME NEW T \in SUBSET S PROVE Sum(f, T) = g[T]
  <2>1. Sum(f, T) = (CHOOSE h : Adds(f, T, h))[T]
    BY DEF Sum, MapThenSumSet, MapThenFoldSet, Adds, AnElement
  <2>2. IsFiniteSet(T) /\ Numbers(f, T)
    BY FS_Subset DEF Numbers
  <2>3. \E h : Adds(f, T, h)
    BY <2>2, AddsExists
  <2>4. Adds(f, T, CHOOSE h : Adds(f, T, h))
    BY <2>3, Zenon
  <2> QED BY <1>1, <2>1, <2>4, AddsUnique
<1> QED BY <1>1, <1>2

\* The sum over the empty set, the type of a sum, and the element that the
\* definition chooses.
LEMMA SumFirst ==
  ASSUME NEW S, IsFiniteSet(S), NEW f, Numbers(f, S)
  PROVE  /\ Sum(f, S) \in Int
         /\ S = {} => Sum(f, S) = 0
         /\ S # {} => /\ AnElement(S) \in S
                      /\ Sum(f, S) = f[AnElement(S)] + Sum(f, S \ {AnElement(S)})
<1>1. PICK g : /\ Adds(f, S, g)
               /\ \A T \in SUBSET S : Sum(f, T) = g[T] /\ g[T] \in Int
  BY SumIs
<1>2. g[S] = IF S = {} THEN 0 ELSE f[AnElement(S)] + g[S \ {AnElement(S)}]
  BY <1>1 DEF Adds
<1> QED BY <1>1, <1>2, AnElementIsOne

\* Any element can be added last.
LEMMA SumSplit ==
  ASSUME NEW S, IsFiniteSet(S), NEW f, Numbers(f, S), NEW e \in S
  PROVE  Sum(f, S) = f[e] + Sum(f, S \ {e})
<1> DEFINE D == {T \in SUBSET S : \E x \in T : Sum(f, T) # f[x] + Sum(f, T \ {x})}
<1> SUFFICES ASSUME D # {} PROVE FALSE
  OBVIOUS
<1>1. \E T \in D : \A U \in D : U \subseteq T => U = T
  <2>1. D \in SUBSET (SUBSET S)
    OBVIOUS
  <2> HIDE DEF D
  <2> QED BY <2>1, SmallestSubset
<1>2. PICK T \in D : \A U \in D : U \subseteq T => U = T
  BY <1>1
<1>3. PICK x \in T : Sum(f, T) # f[x] + Sum(f, T \ {x})
  BY <1>2
<1>4. \A U \in SUBSET S : IsFiniteSet(U) /\ Numbers(f, U) /\ Sum(f, U) \in Int
  BY FS_Subset, SumFirst DEF Numbers
<1> DEFINE y == AnElement(T)
<1>5. y \in T /\ Sum(f, T) = f[y] + Sum(f, T \ {y})
  BY <1>3, <1>4, SumFirst
<1>6. x # y
  BY <1>3, <1>5
<1>7. T \ {x} \notin D /\ T \ {y} \notin D
  BY <1>2, <1>3, <1>5
<1>8. Sum(f, T \ {y}) = f[x] + Sum(f, (T \ {y}) \ {x})
  BY <1>2, <1>3, <1>6, <1>7
<1>9. Sum(f, T \ {x}) = f[y] + Sum(f, (T \ {x}) \ {y})
  BY <1>2, <1>5, <1>6, <1>7
<1>10. (T \ {y}) \ {x} = (T \ {x}) \ {y}
  OBVIOUS
<1>11. f[x] \in Int /\ f[y] \in Int /\ Sum(f, (T \ {x}) \ {y}) \in Int
  BY <1>2, <1>3, <1>4, <1>5 DEF Numbers
<1> DEFINE rest == Sum(f, (T \ {x}) \ {y})
<1>12. Sum(f, T) = f[y] + (f[x] + rest)
  BY <1>5, <1>8, <1>10
<1>13. f[x] + Sum(f, T \ {x}) = f[x] + (f[y] + rest)
  BY <1>9
<1> HIDE DEF rest, y
<1>14. rest \in Int /\ f[x] \in Int /\ f[y] \in Int
  BY <1>11 DEF rest
<1>15. f[y] + (f[x] + rest) = f[x] + (f[y] + rest)
  BY <1>14
<1> QED BY <1>3, <1>12, <1>13, <1>15

\* Two functions whose values add up to something non-negative everywhere have
\* sums that do.
LEMMA SumsBalance ==
  ASSUME NEW S, IsFiniteSet(S), NEW f, Numbers(f, S), NEW g, Numbers(g, S),
         \A x \in S : f[x] + g[x] >= 0
  PROVE  Sum(f, S) + Sum(g, S) >= 0
<1> DEFINE D == {T \in SUBSET S : ~ (Sum(f, T) + Sum(g, T) >= 0)}
<1> SUFFICES ASSUME D # {} PROVE FALSE
  OBVIOUS
<1>1. \E T \in D : \A U \in D : U \subseteq T => U = T
  <2>1. D \in SUBSET (SUBSET S)
    OBVIOUS
  <2> HIDE DEF D
  <2> QED BY <2>1, SmallestSubset
<1>2. PICK T \in D : \A U \in D : U \subseteq T => U = T
  BY <1>1
<1>3. \A U \in SUBSET S : /\ IsFiniteSet(U) /\ Numbers(f, U) /\ Numbers(g, U)
                          /\ Sum(f, U) \in Int /\ Sum(g, U) \in Int
  BY FS_Subset, SumFirst DEF Numbers
<1>4. T # {}
  <2> SUFFICES ASSUME T = {} PROVE Sum(f, T) + Sum(g, T) >= 0
    BY <1>2
  <2>1. Sum(f, T) = 0 /\ Sum(g, T) = 0
    BY <1>2, <1>3, SumFirst
  <2> QED BY <2>1
<1>5. PICK x \in T : TRUE
  BY <1>4
<1>6. /\ Sum(f, T) = f[x] + Sum(f, T \ {x})
      /\ Sum(g, T) = g[x] + Sum(g, T \ {x})
  BY <1>2, <1>3, <1>5, SumSplit
<1>7. Sum(f, T \ {x}) + Sum(g, T \ {x}) >= 0
  BY <1>2, <1>5
<1>8. /\ Sum(f, T \ {x}) \in Int /\ Sum(g, T \ {x}) \in Int
      /\ f[x] \in Int /\ g[x] \in Int /\ f[x] + g[x] >= 0
  BY <1>2, <1>3, <1>5 DEF Numbers
<1>9. Sum(f, T) + Sum(g, T) >= 0
  BY <1>6, <1>7, <1>8
<1> QED BY <1>2, <1>9

\* A sum of no larger values is no larger.
LEMMA SumMonotonic ==
  ASSUME NEW S, IsFiniteSet(S), NEW f, Numbers(f, S), NEW g, Numbers(g, S),
         \A x \in S : f[x] <= g[x]
  PROVE  Sum(f, S) <= Sum(g, S)
<1> DEFINE D == {T \in SUBSET S : ~ (Sum(f, T) <= Sum(g, T))}
<1> SUFFICES ASSUME D # {} PROVE FALSE
  OBVIOUS
<1>1. \E T \in D : \A U \in D : U \subseteq T => U = T
  <2>1. D \in SUBSET (SUBSET S)
    OBVIOUS
  <2> HIDE DEF D
  <2> QED BY <2>1, SmallestSubset
<1>2. PICK T \in D : \A U \in D : U \subseteq T => U = T
  BY <1>1
<1>3. \A U \in SUBSET S : /\ IsFiniteSet(U) /\ Numbers(f, U) /\ Numbers(g, U)
                          /\ Sum(f, U) \in Int /\ Sum(g, U) \in Int
  BY FS_Subset, SumFirst DEF Numbers
<1>4. T # {}
  <2> SUFFICES ASSUME T = {} PROVE Sum(f, T) <= Sum(g, T)
    BY <1>2
  <2>1. Sum(f, T) = 0 /\ Sum(g, T) = 0
    BY <1>2, <1>3, SumFirst
  <2> QED BY <2>1
<1>5. PICK x \in T : TRUE
  BY <1>4
<1>6. /\ Sum(f, T) = f[x] + Sum(f, T \ {x})
      /\ Sum(g, T) = g[x] + Sum(g, T \ {x})
  BY <1>2, <1>3, <1>5, SumSplit
<1>7. Sum(f, T \ {x}) <= Sum(g, T \ {x})
  BY <1>2, <1>5
<1>8. /\ Sum(f, T \ {x}) \in Int /\ Sum(g, T \ {x}) \in Int
      /\ f[x] \in Int /\ g[x] \in Int /\ f[x] <= g[x]
  BY <1>2, <1>3, <1>5 DEF Numbers
<1>9. Sum(f, T) <= Sum(g, T)
  BY <1>6, <1>7, <1>8
<1> QED BY <1>2, <1>9

\* A sum in which one value changes changes by as much, or by no more if the
\* other values do not grow.
LEMMA SumChanged ==
  ASSUME NEW S, IsFiniteSet(S), NEW f, Numbers(f, S), NEW g, Numbers(g, S),
         NEW e \in S, \A x \in S \ {e} : g[x] <= f[x]
  PROVE  Sum(g, S) <= Sum(f, S) - f[e] + g[e]
<1>1. /\ IsFiniteSet(S \ {e}) /\ Numbers(f, S \ {e}) /\ Numbers(g, S \ {e})
      /\ f[e] \in Int /\ g[e] \in Int
  BY FS_Subset DEF Numbers
<1>2. Sum(g, S \ {e}) <= Sum(f, S \ {e})
  BY <1>1, SumMonotonic
<1>3. Sum(f, S \ {e}) \in Int /\ Sum(g, S \ {e}) \in Int
  BY <1>1, SumFirst
<1>4. Sum(f, S) = f[e] + Sum(f, S \ {e}) /\ Sum(g, S) = g[e] + Sum(g, S \ {e})
  BY SumSplit
<1> QED BY <1>1, <1>2, <1>3, <1>4

\* A sum of zeros is zero.
LEMMA SumOfZeros ==
  ASSUME NEW S, IsFiniteSet(S), NEW f, \A x \in S : f[x] = 0
  PROVE  Sum(f, S) = 0
<1> DEFINE D == {T \in SUBSET S : Sum(f, T) # 0}
<1> SUFFICES ASSUME D # {} PROVE FALSE
  OBVIOUS
<1>1. \E T \in D : \A U \in D : U \subseteq T => U = T
  <2>1. D \in SUBSET (SUBSET S)
    OBVIOUS
  <2> HIDE DEF D
  <2> QED BY <2>1, SmallestSubset
<1>2. PICK T \in D : \A U \in D : U \subseteq T => U = T
  BY <1>1
<1>3. IsFiniteSet(T) /\ Numbers(f, T)
  BY <1>2, FS_Subset DEF Numbers
<1>4. /\ AnElement(T) \in T
      /\ Sum(f, T) = f[AnElement(T)] + Sum(f, T \ {AnElement(T)})
  BY <1>2, <1>3, SumFirst
<1>5. Sum(f, T \ {AnElement(T)}) = 0
  BY <1>2, <1>4
<1> QED BY <1>2, <1>4, <1>5
=============================================================================
