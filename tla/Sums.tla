---------------------------------- MODULE Sums ----------------------------------
(***************************************************************************)
(* Sums over finite sets: what MapThenSumSet returns.  The library defines *)
(* it by a function that is recursive on subsets; that such a function     *)
(* exists, and that it does not depend on the order in which elements are  *)
(* chosen, is shown by taking a smallest set for which it would fail       *)
(* (WFMin over the strict subsets of a finite set).                        *)
(***************************************************************************)
EXTENDS Integers, FiniteSets, FiniteSetsExt, FiniteSetTheorems, WellFoundedInduction, TLAPS

(* The sum of g[x] for all x in S.                                         *)
Total(g, S) == MapThenSumSet(LAMBDA x : g[x], S)

(* The partial sums it[s], for s a subset of S, from which it is taken.    *)
First(s) == CHOOSE x \in s : TRUE
Partials(g, it, S) ==
    it = [s \in SUBSET S |-> IF s = {} THEN 0 ELSE g[First(s)] + it[s \ {First(s)}]]
-----------------------------------------------------------------------------
(* What holds of a set whenever it holds of all its strict subsets holds   *)
(* of all subsets of a finite set.                                         *)
LEMMA Smallest ==
    ASSUME NEW S, IsFiniteSet(S), NEW Bad \in SUBSET SUBSET S, Bad # {}
    PROVE  \E T \in Bad : \A U \in SUBSET T : U # T => U \notin Bad
<1>1. IsWellFoundedOn(StrictSubsetOrdering(S), SUBSET S)
  BY FS_StrictSubsetOrderingWellFounded, FS_FiniteSubsetsOfFinite
<1>2. PICK T \in Bad : \A U \in Bad : <<U, T>> \notin StrictSubsetOrdering(S)
  <2> HIDE DEF StrictSubsetOrdering
  <2> QED BY <1>1, WFMin, Zenon
<1>3. ASSUME NEW U \in SUBSET T, U # T, U \in Bad
      PROVE  FALSE
  <2>1. <<U, T>> \in StrictSubsetOrdering(S)
    BY <1>3 DEF StrictSubsetOrdering
  <2> QED
    BY <1>2, <1>3, <2>1
<1> QED
  BY <1>2, <1>3

(* Every nonempty set of naturals has a least element.                     *)
LEMMA LeastOf ==
    ASSUME NEW S, S \subseteq Nat, S # {}
    PROVE  \E m \in S : \A k \in S : m <= k
<1>1. PICK R : R = OpToRel(<, Nat)
  OBVIOUS
<1>2. \A x, y \in Nat : <<x, y>> \in R <=> x < y
  BY <1>1, Zenon DEF OpToRel
<1>3. IsWellFoundedOn(R, Nat)
  BY Zenon, <1>1, NatLessThanWellFounded
<1>4. PICK m \in S : \A k \in S : ~(<<k, m>> \in R)
  BY <1>3, WFMin
<1>5. \A k \in S : ~(k < m)
  BY <1>2, <1>4, Zenon
<1> QED
  BY <1>5

LEMMA Least ==
    ASSUME NEW S, S \subseteq Nat, S # {}
    PROVE  Min(S) \in S
BY LeastOf, Zenon DEF Min

LEMMA FirstIn == ASSUME NEW s, s # {} PROVE First(s) \in s
BY DEF First

(* Partial sums of one function agree wherever both are defined.           *)
LEMMA PartialsAgree ==
    ASSUME NEW S, IsFiniteSet(S), NEW g, NEW i, NEW j, NEW U \in SUBSET S,
           Partials(g, i, S), Partials(g, j, U)
    PROVE  \A s \in SUBSET U : i[s] = j[s]
<1> DEFINE Bad == {s \in SUBSET U : i[s] # j[s]}
<1>1. SUFFICES ASSUME Bad # {} PROVE FALSE
  OBVIOUS
<1>2. IsFiniteSet(U)
  BY FS_Subset
<1>3. PICK T \in Bad : \A V \in SUBSET T : V # T => V \notin Bad
  <2> HIDE DEF Bad
  <2>1. Bad \in SUBSET SUBSET U
    BY DEF Bad
  <2> QED BY <1>1, <1>2, <2>1, Smallest
<1>4. CASE T = {}
  BY <1>3, <1>4 DEF Partials
<1>5. CASE T # {}
  <2>1. First(T) \in T
    BY <1>5, FirstIn
  <2>2. i[T \ {First(T)}] = j[T \ {First(T)}]
    BY <1>3, <2>1
  <2>3. i[T] = g[First(T)] + i[T \ {First(T)}]
    BY <1>3, <1>5 DEF Partials
  <2>4. j[T] = g[First(T)] + j[T \ {First(T)}]
    BY <1>3, <1>5 DEF Partials
  <2> QED
    BY <1>3, <2>2, <2>3, <2>4
<1> QED
  BY <1>4, <1>5

(* There are partial sums of every function over every finite set.         *)
LEMMA PartialsExist ==
    ASSUME NEW S, IsFiniteSet(S), NEW g
    PROVE  \E it : Partials(g, it, S)
<1> DEFINE Bad == {s \in SUBSET S : ~ \E it : Partials(g, it, s)}
<1>1. SUFFICES ASSUME Bad # {} PROVE FALSE
  OBVIOUS
<1>2. PICK T \in Bad : \A V \in SUBSET T : V # T => V \notin Bad
  <2> HIDE DEF Bad
  <2>1. Bad \in SUBSET SUBSET S
    BY DEF Bad
  <2> QED BY <1>1, <2>1, Smallest
<1>3. IsFiniteSet(T)
  BY <1>2, FS_Subset
<1> DEFINE of(V) == CHOOSE it : Partials(g, it, V)
<1>4. \A V \in SUBSET T : V # T => Partials(g, of(V), V)
  <2> TAKE V \in SUBSET T
  <2> HAVE V # T
  <2>1. \E it : Partials(g, it, V)
    BY <1>2
  <2> QED
    BY <2>1, Zenon
<1> DEFINE rest(s) == s \ {First(s)}
           it == [s \in SUBSET T |-> IF s = {} THEN 0 ELSE g[First(s)] + of(rest(s))[rest(s)]]
<1>5. ASSUME NEW s \in SUBSET T, s # {}
      PROVE  it[rest(s)] = of(rest(s))[rest(s)]
  <2>1. First(s) \in s
    BY <1>5, FirstIn
  <2>2. rest(s) \in SUBSET T /\ rest(s) # T
    BY <2>1
  <2>3. Partials(g, of(rest(s)), rest(s))
    BY <1>4, <2>2
  <2>4. CASE rest(s) = {}
    <3>1. it[rest(s)] = 0
      BY <2>4
    <3>2. PICK v : v = of(rest(s))
      OBVIOUS
    <3>3. v[rest(s)] = 0
      <4> HIDE DEF rest, of, it
      <4> QED BY <2>3, <2>4, <3>2 DEF Partials
    <3> QED
      BY <3>1, <3>2, <3>3
  <2>5. CASE rest(s) # {}
    <3>1. First(rest(s)) \in rest(s)
      BY <2>5, FirstIn
    <3>2. rest(rest(s)) \in SUBSET rest(s) /\ rest(rest(s)) # T
      BY <2>2, <3>1
    <3>3. Partials(g, of(rest(rest(s))), rest(rest(s)))
      BY <1>4, <2>2, <3>2
    <3>4. IsFiniteSet(rest(s))
      BY <1>3, <2>2, FS_Subset
    <3>5. of(rest(s))[rest(rest(s))] = of(rest(rest(s)))[rest(rest(s))]
      <4> HIDE DEF rest, of, it
      <4> QED BY <2>3, <3>2, <3>3, <3>4, PartialsAgree
    <3>6. it[rest(s)] = g[First(rest(s))] + of(rest(rest(s)))[rest(rest(s))]
      BY <2>2, <2>5
    <3>7. of(rest(s))[rest(s)] = g[First(rest(s))] + of(rest(s))[rest(rest(s))]
      <4> DEFINE v == of(rest(s))
                 r == rest(s)
      <4>1. Partials(g, v, r) /\ r # {}
        BY <2>3, <2>5
      <4> HIDE DEF v, r
      <4>2. v[r] = g[First(r)] + v[r \ {First(r)}]
        BY <4>1 DEF Partials
      <4> QED
        BY <4>2 DEF v, r
    <3> QED
      BY <3>5, <3>6, <3>7
  <2> QED
    BY <2>4, <2>5
<1>6. Partials(g, it, T)
  <2>1. \A s \in SUBSET T : s # {} => g[First(s)] + of(rest(s))[rest(s)] = g[First(s)] + it[rest(s)]
    BY <1>5, Zenon
  <2> DEFINE it2 == [s \in SUBSET T |-> IF s = {} THEN 0 ELSE g[First(s)] + it[s \ {First(s)}]]
  <2>2. \A s \in SUBSET T : it[s] = it2[s]
    <3> TAKE s \in SUBSET T
    <3>1. CASE s = {}
      BY <3>1
    <3>2. CASE s # {}
      <4>1. it[s] = g[First(s)] + of(rest(s))[rest(s)]
        BY <3>2
      <4>2. it2[s] = g[First(s)] + it[rest(s)]
        <5> HIDE DEF it
        <5> QED BY <3>2
      <4> QED
        BY <2>1, <3>2, <4>1, <4>2
    <3> QED
      BY <3>1, <3>2
  <2>3. it = it2
    <3>1. it = [s \in SUBSET T |-> it[s]]
      OBVIOUS
    <3>2. it2 = [s \in SUBSET T |-> it2[s]]
      <4> HIDE DEF it
      <4> QED OBVIOUS
    <3> HIDE DEF it, it2
    <3> QED
      BY <2>2, <3>1, <3>2
  <2> HIDE DEF it
  <2> QED
    BY <2>3 DEF Partials
<1> QED
  BY <1>2, <1>6
-----------------------------------------------------------------------------
(* Any partial sums give the total.                                        *)
LEMMA TotalIs ==
    ASSUME NEW S, IsFiniteSet(S), NEW g, NEW it, Partials(g, it, S)
    PROVE  Total(g, S) = it[S]
<1> DEFINE j == CHOOSE i : Partials(g, i, S)
<1>1. Partials(g, j, S)
  BY Zenon
<1>2. Total(g, S) = j[S]
  BY DEF Total, MapThenSumSet, MapThenFoldSet, Partials, First
<1> HIDE DEF j
<1> QED
  BY <1>1, <1>2, PartialsAgree

LEMMA TotalEmpty == ASSUME NEW g PROVE Total(g, {}) = 0
<1>1. IsFiniteSet({})
  BY FS_EmptySet
<1>2. PICK it : Partials(g, it, {})
  BY <1>1, PartialsExist
<1>3. it[{}] = 0
  BY <1>2 DEF Partials
<1> QED
  BY <1>1, <1>2, <1>3, TotalIs

LEMMA TotalFirst ==
    ASSUME NEW S, IsFiniteSet(S), S # {}, NEW g
    PROVE  Total(g, S) = g[First(S)] + Total(g, S \ {First(S)})
<1> DEFINE R == S \ {First(S)}
<1>1. IsFiniteSet(R)
  BY FS_Subset
<1>2. PICK i : Partials(g, i, S)
  BY PartialsExist
<1>3. PICK j : Partials(g, j, R)
  <2> HIDE DEF R
  <2> QED BY <1>1, PartialsExist
<1>4. i[R] = j[R]
  <2>1. R \in SUBSET S
    OBVIOUS
  <2> HIDE DEF R
  <2> QED BY <1>2, <1>3, <2>1, PartialsAgree
<1>5. Total(g, S) = i[S] /\ Total(g, R) = j[R]
  <2> HIDE DEF R
  <2> QED BY <1>1, <1>2, <1>3, TotalIs
<1>6. i[S] = g[First(S)] + i[R]
  BY <1>2 DEF Partials
<1> QED
  BY <1>4, <1>5, <1>6

(* A sum of integers is one, of natural numbers too.                       *)
LEMMA TotalInt ==
    ASSUME NEW S, IsFiniteSet(S), NEW g, \A x \in S : g[x] \in Int
    PROVE  \A T \in SUBSET S : Total(g, T) \in Int
<1> DEFINE Bad == {T \in SUBSET S : Total(g, T) \notin Int}
<1>1. SUFFICES ASSUME Bad # {} PROVE FALSE
  OBVIOUS
<1>2. PICK T \in Bad : \A V \in SUBSET T : V # T => V \notin Bad
  <2>1. Bad \in SUBSET SUBSET S
    OBVIOUS
  <2> HIDE DEF Bad
  <2> QED BY <1>1, <2>1, Smallest
<1>3. T # {}
  <2>1. Total(g, {}) \in Int
    BY TotalEmpty
  <2> QED
    BY <1>2, <2>1
<1>4. PICK y : y = First(T)
  OBVIOUS
<1>5. y \in T /\ IsFiniteSet(T)
  BY <1>2, <1>3, <1>4, FirstIn, FS_Subset
<1>6. Total(g, T) = g[y] + Total(g, T \ {y})
  BY <1>3, <1>4, <1>5, TotalFirst
<1>7. Total(g, T \ {y}) \in Int /\ g[y] \in Int
  BY <1>2, <1>5
<1>8. Total(g, T) \in Int
  BY <1>6, <1>7
<1> QED
  BY <1>2, <1>8

LEMMA TotalNat ==
    ASSUME NEW S, IsFiniteSet(S), NEW g, \A x \in S : g[x] \in Nat
    PROVE  \A T \in SUBSET S : Total(g, T) \in Nat
<1> DEFINE Bad == {T \in SUBSET S : Total(g, T) \notin Nat}
<1>1. SUFFICES ASSUME Bad # {} PROVE FALSE
  OBVIOUS
<1>2. PICK T \in Bad : \A V \in SUBSET T : V # T => V \notin Bad
  <2>1. Bad \in SUBSET SUBSET S
    OBVIOUS
  <2> HIDE DEF Bad
  <2> QED BY <1>1, <2>1, Smallest
<1>3. T # {}
  <2>1. Total(g, {}) \in Nat
    BY TotalEmpty
  <2> QED
    BY <1>2, <2>1
<1>4. PICK y : y = First(T)
  OBVIOUS
<1>5. y \in T /\ IsFiniteSet(T)
  BY <1>2, <1>3, <1>4, FirstIn, FS_Subset
<1>6. Total(g, T) = g[y] + Total(g, T \ {y})
  BY <1>3, <1>4, <1>5, TotalFirst
<1>7. Total(g, T \ {y}) \in Nat /\ g[y] \in Nat
  BY <1>2, <1>5
<1>8. Total(g, T) \in Nat
  BY <1>6, <1>7
<1> QED
  BY <1>2, <1>8

(* The order does not matter: any element may be added first.              *)
LEMMA TotalAny ==
    ASSUME NEW S, IsFiniteSet(S), NEW g, \A x \in S : g[x] \in Int
    PROVE  \A T \in SUBSET S : \A x \in T : Total(g, T) = g[x] + Total(g, T \ {x})
<1> DEFINE Good(T) == \A x \in T : Total(g, T) = g[x] + Total(g, T \ {x})
           Bad == {T \in SUBSET S : ~Good(T)}
<1>1. SUFFICES ASSUME Bad # {} PROVE FALSE
  OBVIOUS
<1>2. PICK T \in Bad : \A V \in SUBSET T : V # T => V \notin Bad
  <2>1. Bad \in SUBSET SUBSET S
    OBVIOUS
  <2> HIDE DEF Bad
  <2> QED BY <1>1, <2>1, Smallest
<1>3. PICK x \in T : Total(g, T) # g[x] + Total(g, T \ {x})
  BY <1>2
<1>4. PICK y : y = First(T)
  OBVIOUS
<1>5. y \in T /\ IsFiniteSet(T)
  BY <1>2, <1>3, <1>4, FirstIn, FS_Subset
<1>6. Total(g, T) = g[y] + Total(g, T \ {y})
  BY <1>3, <1>4, <1>5, TotalFirst
<1>7. x # y
  BY <1>3, <1>6
<1>8. Good(T \ {y}) /\ Good(T \ {x})
  BY <1>2, <1>3, <1>5
<1>9. (T \ {y}) \ {x} = (T \ {x}) \ {y}
  OBVIOUS
<1>10. Total(g, T \ {y}) = g[x] + Total(g, (T \ {y}) \ {x})
  BY <1>3, <1>7, <1>8
<1>11. Total(g, T \ {x}) = g[y] + Total(g, (T \ {y}) \ {x})
  BY <1>5, <1>7, <1>8, <1>9
<1>12. g[x] \in Int /\ g[y] \in Int /\ Total(g, (T \ {y}) \ {x}) \in Int
  BY <1>2, <1>3, <1>5, TotalInt
<1> QED
  BY <1>3, <1>6, <1>10, <1>11, <1>12

LEMMA TotalAdd ==
    ASSUME NEW S, IsFiniteSet(S), NEW x, x \notin S, NEW g, \A y \in S \cup {x} : g[y] \in Int
    PROVE  Total(g, S \cup {x}) = g[x] + Total(g, S)
<1>1. IsFiniteSet(S \cup {x})
  BY FS_AddElement
<1>2. (S \cup {x}) \ {x} = S
  OBVIOUS
<1> QED
  BY <1>1, <1>2, TotalAny

(* Functions that agree on the set have the same sum.                      *)
LEMMA TotalSame ==
    ASSUME NEW S, IsFiniteSet(S), NEW f, NEW g, \A x \in S : f[x] = g[x]
    PROVE  Total(f, S) = Total(g, S)
<1>1. PICK it : Partials(f, it, S)
  BY PartialsExist
<1>2. \A s \in SUBSET S : s # {} => f[First(s)] = g[First(s)]
  BY FirstIn
<1>3. it = [s \in SUBSET S |-> IF s = {} THEN 0 ELSE f[First(s)] + it[s \ {First(s)}]]
  BY <1>1 DEF Partials
<1>4. [s \in SUBSET S |-> IF s = {} THEN 0 ELSE f[First(s)] + it[s \ {First(s)}]]
      = [s \in SUBSET S |-> IF s = {} THEN 0 ELSE g[First(s)] + it[s \ {First(s)}]]
  BY <1>2
<1>5. Partials(g, it, S)
  BY <1>3, <1>4 DEF Partials
<1> QED
  BY <1>1, <1>5, TotalIs

(* A larger set of natural numbers has no smaller sum, and numbers of m at *)
(* most sum up to m times their number at most.                            *)
LEMMA TotalMonotone ==
    ASSUME NEW S, IsFiniteSet(S), NEW g, \A x \in S : g[x] \in Nat
    PROVE  \A T \in SUBSET S : Total(g, T) <= Total(g, S)
<1> DEFINE Bad == {T \in SUBSET S : ~(Total(g, S \ T) <= Total(g, S))}
<1>1. SUFFICES ASSUME Bad # {} PROVE FALSE
  <2> SUFFICES ASSUME NEW T \in SUBSET S PROVE Total(g, T) <= Total(g, S)
    OBVIOUS
  <2>1. S \ (S \ T) = T /\ (S \ T) \in SUBSET S
    OBVIOUS
  <2>2. CASE Bad = {}
    BY <2>1, <2>2
  <2> QED
    BY <1>1, <2>2
<1>2. PICK T \in Bad : \A V \in SUBSET T : V # T => V \notin Bad
  <2>1. Bad \in SUBSET SUBSET S
    OBVIOUS
  <2> HIDE DEF Bad
  <2> QED BY <1>1, <2>1, Smallest
<1>3. \A V \in SUBSET S : Total(g, V) \in Nat
  BY TotalNat
<1>4. T # {}
  <2>1. S \ {} = S /\ S \in SUBSET S
    OBVIOUS
  <2>2. Total(g, S) <= Total(g, S)
    BY <1>3, <2>1
  <2> QED BY <1>2, <2>1, <2>2
<1>5. PICK x \in T : TRUE
  BY <1>4
<1>6. Total(g, S \ (T \ {x})) <= Total(g, S)
  BY <1>2, <1>5
<1>7. (S \ (T \ {x})) \ {x} = S \ T /\ x \in S \ (T \ {x})
  BY <1>2, <1>5
<1>8. Total(g, S \ (T \ {x})) = g[x] + Total(g, S \ T)
  <2>1. \A y \in S : g[y] \in Int
    OBVIOUS
  <2>2. (S \ (T \ {x})) \in SUBSET S
    OBVIOUS
  <2> QED BY <1>7, <2>1, <2>2, TotalAny
<1>9. g[x] \in Nat /\ Total(g, S \ T) \in Nat /\ Total(g, S) \in Nat
  BY <1>2, <1>3, <1>5
<1> QED
  BY <1>2, <1>6, <1>8, <1>9

LEMMA TotalBound ==
    ASSUME NEW S, IsFiniteSet(S), NEW m \in Nat, NEW g, \A x \in S : g[x] \in 0..m
    PROVE  \A T \in SUBSET S : Total(g, T) \in 0..m * Cardinality(T)
<1> DEFINE Bad == {T \in SUBSET S : Total(g, T) \notin 0..m * Cardinality(T)}
<1>1. SUFFICES ASSUME Bad # {} PROVE FALSE
  OBVIOUS
<1>2. PICK T \in Bad : \A V \in SUBSET T : V # T => V \notin Bad
  <2>1. Bad \in SUBSET SUBSET S
    OBVIOUS
  <2> HIDE DEF Bad
  <2> QED BY <1>1, <2>1, Smallest
<1>3. T # {}
  <2>1. Total(g, {}) \in 0..m * Cardinality({})
    BY TotalEmpty, FS_EmptySet
  <2> QED
    BY <1>2, <2>1
<1>4. PICK y : y = First(T)
  OBVIOUS
<1>5. y \in T /\ IsFiniteSet(T) /\ T \ {y} \in SUBSET T /\ T \ {y} # T
  BY <1>2, <1>3, <1>4, FirstIn, FS_Subset
<1>6. Total(g, T) = g[y] + Total(g, T \ {y})
  BY <1>3, <1>4, <1>5, TotalFirst
<1>7. Cardinality(T \ {y}) = Cardinality(T) - 1 /\ Cardinality(T) \in Nat /\ Cardinality(T \ {y}) \in Nat
  BY <1>5, FS_RemoveElement, FS_CardinalityType
<1>8. Total(g, T \ {y}) \in 0..m * Cardinality(T \ {y})
  BY <1>2, <1>5
<1>9. m * Cardinality(T) = m * Cardinality(T \ {y}) + m
  <2>1. \A c \in Nat, d \in Nat : d = c - 1 => m * c = m * d + m
    OBVIOUS
  <2> QED BY <1>7, <2>1
<1>10. m * Cardinality(T \ {y}) \in Nat /\ g[y] \in 0..m
  BY <1>2, <1>5, <1>7
<1> QED
  BY <1>2, <1>6, <1>8, <1>9, <1>10

(* Equal numbers sum up to the number times their count.                   *)
LEMMA TotalEqual ==
    ASSUME NEW S, IsFiniteSet(S), NEW m \in Int, NEW g, \A x \in S : g[x] = m
    PROVE  \A T \in SUBSET S : Total(g, T) = Cardinality(T) * m
<1> DEFINE Bad == {T \in SUBSET S : Total(g, T) # Cardinality(T) * m}
<1>1. SUFFICES ASSUME Bad # {} PROVE FALSE
  OBVIOUS
<1>2. PICK T \in Bad : \A V \in SUBSET T : V # T => V \notin Bad
  <2>1. Bad \in SUBSET SUBSET S
    OBVIOUS
  <2> HIDE DEF Bad
  <2> QED BY <1>1, <2>1, Smallest
<1>3. T # {}
  <2>1. Total(g, {}) = Cardinality({}) * m
    BY TotalEmpty, FS_EmptySet
  <2> QED
    BY <1>2, <2>1
<1>4. PICK y : y = First(T)
  OBVIOUS
<1>5. y \in T /\ IsFiniteSet(T) /\ T \ {y} \in SUBSET T /\ T \ {y} # T
  BY <1>2, <1>3, <1>4, FirstIn, FS_Subset
<1>6. Total(g, T) = m + Total(g, T \ {y})
  BY <1>2, <1>3, <1>4, <1>5, TotalFirst
<1>7. Cardinality(T \ {y}) = Cardinality(T) - 1 /\ Cardinality(T) \in Nat /\ Cardinality(T \ {y}) \in Nat
  BY <1>5, FS_RemoveElement, FS_CardinalityType
<1>8. Total(g, T \ {y}) = Cardinality(T \ {y}) * m
  BY <1>2, <1>5
<1>9. Cardinality(T) * m = m + Cardinality(T \ {y}) * m
  <2>1. \A c \in Nat, d \in Nat : d = c - 1 => c * m = m + d * m
    OBVIOUS
  <2> QED BY <1>7, <2>1
<1> QED
  BY <1>2, <1>6, <1>8, <1>9
=============================================================================
