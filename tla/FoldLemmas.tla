------------------------------ MODULE FoldLemmas ------------------------------
(***************************************************************************)
(* What the proofs of the other modules need of sums over finite sets and  *)
(* of the natural numbers.  The induction theorems of the library range    *)
(* over predicates; here they are stated of sets, so that each use is an   *)
(* ordinary instance.                                                      *)
(***************************************************************************)
EXTENDS Integers, FiniteSets, Functions, FiniteSetTheorems, WellFoundedInduction, TLAPS

-----------------------------------------------------------------------------
(* Natural numbers.                                                        *)

\* A set of natural numbers that is not empty has a least element.
LEMMA LeastNumber ==
  ASSUME NEW S \in SUBSET Nat, S # {}
  PROVE  \E n \in S : \A k \in S : n <= k
<1>1. PICK n \in S : \A k \in S : ~(<<k, n>> \in OpToRel(<, Nat))
  BY NatLessThanWellFounded, WFMin, Zenon
<1>2. \A k \in S : ~(k < n)
  BY <1>1 DEF OpToRel
<1> QED
  BY <1>2

\* A set with 0, and with the number after each of its elements up to a bound, has
\* every number up to the bound.
LEMMA CountUp ==
  ASSUME NEW N \in Nat, NEW S,
         0 \in S,
         \A n \in 0..N : (n \in S /\ n < N) => n + 1 \in S
  PROVE  \A n \in 0..N : n \in S
<1> SUFFICES ASSUME NEW m \in 0..N, m \notin S
             PROVE  FALSE
  OBVIOUS
<1> DEFINE T == { n \in 0..N : n \notin S }
<1>1. T \in SUBSET Nat /\ T # {}
  OBVIOUS
<1>2. PICK n \in T : \A k \in T : n <= k
  <2> HIDE DEF T
  <2> QED
    BY <1>1, LeastNumber
<1>3. n # 0 /\ n \in Nat /\ n - 1 \in 0..N /\ n - 1 < N /\ n - 1 \notin T
  BY <1>1, <1>2
<1>4. n - 1 \in S
  BY <1>3
<1>5. (n - 1) + 1 \in S
  BY <1>3, <1>4
<1> QED
  BY <1>2, <1>5

-----------------------------------------------------------------------------
(* The sum of a function over a finite set, SumFunctionOnSet.  It is the   *)
(* value at the set of a function on its subsets, which the definition     *)
(* chooses; that there is one comes first.                                 *)

Taken(s) == CHOOSE x \in s : TRUE
SumBody(fun, h, s) == IF s = {} THEN 0 ELSE fun[Taken(s)] + h[s \ {Taken(s)}]
Sums(fun, S, h) == h = [s \in SUBSET S |-> SumBody(fun, h, s)]
TheSums(fun, S) == CHOOSE h : Sums(fun, S, h)

LEMMA TakenIn == \A s : s # {} => Taken(s) \in s
  BY DEF Taken

\* a set without the element taken has one element less
LEMMA TakenLess ==
  ASSUME NEW s, IsFiniteSet(s), s # {}
  PROVE  /\ IsFiniteSet(s \ {Taken(s)})
         /\ Cardinality(s) \in Nat /\ Cardinality(s \ {Taken(s)}) \in Nat
         /\ Cardinality(s \ {Taken(s)}) = Cardinality(s) - 1
<1>1. Taken(s) \in s
  BY TakenIn
<1>2. /\ IsFiniteSet(s \ {Taken(s)})
      /\ Cardinality(s \ {Taken(s)}) = Cardinality(s) - 1
  BY <1>1, FS_RemoveElement
<1> QED
  BY <1>2, FS_CardinalityType

LEMMA SumsExist ==
  ASSUME NEW fun, NEW S, IsFiniteSet(S)
  PROVE  \E h : Sums(fun, S, h)
<1> DEFINE N == Cardinality(S)
           Sub(n) == { s \in SUBSET S : Cardinality(s) <= n }
           Upto(n) == \E h : h = [s \in Sub(n) |-> SumBody(fun, h, s)]
           Done == { n \in Nat : Upto(n) }
<1>1. N \in Nat
  BY FS_CardinalityType
<1>2. \A s \in SUBSET S : IsFiniteSet(s) /\ Cardinality(s) \in Nat /\ Cardinality(s) <= N
  BY FS_Subset, FS_CardinalityType
<1>3. 0 \in Done
  <2>1. \A s \in Sub(0) : s = {}
    BY <1>2, FS_EmptySet
  <2>2. [s \in Sub(0) |-> 0] = [s \in Sub(0) |-> SumBody(fun, [r \in Sub(0) |-> 0], s)]
    BY <2>1 DEF SumBody
  <2> QED
    BY <2>2
<1>4. ASSUME NEW n \in 0..N, n \in Done, n < N
      PROVE  n + 1 \in Done
  <2>1. PICK h : h = [s \in Sub(n) |-> SumBody(fun, h, s)]
    BY <1>4
  <2> DEFINE g == [s \in Sub(n + 1) |-> IF s \in Sub(n) THEN h[s] ELSE SumBody(fun, h, s)]
  <2>2. ASSUME NEW s \in Sub(n + 1)
        PROVE  g[s] = SumBody(fun, g, s)
    <3>1. g[s] = SumBody(fun, h, s)
      BY <2>1
    <3>2. CASE s = {}
      BY <3>1, <3>2 DEF SumBody
    <3>3. CASE s # {}
      <4> DEFINE r == s \ {Taken(s)}
      <4>1. r \in Sub(n)
        BY <1>2, <1>4, <3>3, TakenLess
      <4>2. r \in Sub(n + 1)
        BY <1>2, <1>4, <4>1
      <4>3. g[r] = h[r]
        BY <4>1, <4>2
      <4> HIDE DEF g
      <4> QED
        BY <3>1, <3>3, <4>3 DEF SumBody
    <3> QED
      BY <3>2, <3>3
  <2>3. g = [s \in Sub(n + 1) |-> SumBody(fun, g, s)]
    <3> DEFINE k == [s \in Sub(n + 1) |-> SumBody(fun, g, s)]
    <3>1. \A s \in Sub(n + 1) : g[s] = k[s]
      BY <2>2
    <3>2. g = [s \in Sub(n + 1) |-> g[s]] /\ k = [s \in Sub(n + 1) |-> k[s]]
      OBVIOUS
    <3> HIDE DEF g, k
    <3>3. g = k
      BY <3>1, <3>2
    <3> QED
      BY <3>3 DEF k
  <2> HIDE DEF g
  <2>4. Upto(n + 1)
    <3> WITNESS g
    <3> QED
      BY <2>3
  <2>5. n + 1 \in Nat
    OBVIOUS
  <2> QED
    BY <2>4, <2>5, Zenon
<1>5. N \in Done
  <2> HIDE DEF Done
  <2> QED
    BY <1>1, <1>3, <1>4, CountUp
<1>6. Sub(N) = SUBSET S
  BY <1>2
<1> QED
  BY <1>5, <1>6 DEF Sums

\* The sum is the value at the set of the function chosen.
LEMMA SumIsTheSums ==
  ASSUME NEW fun, NEW S
  PROVE  SumFunctionOnSet(fun, S) = TheSums(fun, S)[S]
  BY DEF SumFunctionOnSet, FoldFunctionOnSet, MapThenFoldSet, TheSums, Sums, SumBody, Taken

\* What is chosen for a set and what is chosen for a subset agree on the subset.
LEMMA SumsAgree ==
  ASSUME NEW fun, NEW gun, NEW S, IsFiniteSet(S), NEW T \in SUBSET S,
         \A x \in T : fun[x] = gun[x],
         NEW h, Sums(fun, S, h), NEW k, Sums(gun, T, k)
  PROVE  \A s \in SUBSET T : h[s] = k[s]
<1> DEFINE Differ == { s \in SUBSET T : h[s] # k[s] }
           Sizes == { Cardinality(s) : s \in Differ }
<1> SUFFICES ASSUME Differ # {}
             PROVE  FALSE
  OBVIOUS
<1>1. \A s \in SUBSET T : IsFiniteSet(s) /\ Cardinality(s) \in Nat
  BY FS_Subset, FS_CardinalityType
<1>2. PICK n \in Sizes : \A m \in Sizes : n <= m
  <2>1. Sizes \in SUBSET Nat /\ Sizes # {}
    BY <1>1
  <2> HIDE DEF Sizes
  <2> QED
    BY <2>1, LeastNumber
<1>3. PICK s \in SUBSET T : h[s] # k[s] /\ Cardinality(s) = n
  BY <1>2
<1>4. h[s] = SumBody(fun, h, s) /\ k[s] = SumBody(gun, k, s)
  BY <1>3 DEF Sums
<1>5. s # {}
  BY <1>3, <1>4 DEF SumBody
<1> DEFINE r == s \ {Taken(s)}
<1>6. Taken(s) \in s /\ r \in SUBSET T /\ Cardinality(r) < n
  BY <1>1, <1>3, <1>5, TakenIn, TakenLess
<1>7. h[r] = k[r]
  <2>1. r \in Differ => Cardinality(r) \in Sizes
    OBVIOUS
  <2>2. Cardinality(r) \in Nat /\ n \in Nat
    BY <1>1, <1>3, <1>6
  <2> QED
    BY <1>2, <1>6, <2>1, <2>2
<1> QED
  BY <1>3, <1>4, <1>5, <1>6, <1>7 DEF SumBody

\* The empty sum.
LEMMA SumOfNone ==
  ASSUME NEW fun
  PROVE  SumFunctionOnSet(fun, {}) = 0
<1>1. IsFiniteSet({})
  BY FS_EmptySet
<1>2. Sums(fun, {}, TheSums(fun, {}))
  BY <1>1, SumsExist DEF TheSums
<1> QED
  BY <1>2, SumIsTheSums DEF Sums, SumBody

\* The sum of a set that is not empty, without the element that is taken.
LEMMA SumTaken ==
  ASSUME NEW fun, NEW S, IsFiniteSet(S), S # {}
  PROVE  SumFunctionOnSet(fun, S)
            = fun[Taken(S)] + SumFunctionOnSet(fun, S \ {Taken(S)})
<1> DEFINE R == S \ {Taken(S)}
<1>1. IsFiniteSet(R) /\ R \in SUBSET S
  BY TakenLess
<1>2. Sums(fun, S, TheSums(fun, S)) /\ Sums(fun, R, TheSums(fun, R))
  BY <1>1, SumsExist DEF TheSums
<1>3. TheSums(fun, S)[S] = SumBody(fun, TheSums(fun, S), S)
  BY <1>2 DEF Sums
<1>4. TheSums(fun, S)[R] = TheSums(fun, R)[R]
  <2> HIDE DEF R
  <2>1. \A s \in SUBSET R : TheSums(fun, S)[s] = TheSums(fun, R)[s]
    <3> DEFINE h == TheSums(fun, S)
               k == TheSums(fun, R)
    <3>1. Sums(fun, S, h) /\ Sums(fun, R, k)
      BY <1>2
    <3> HIDE DEF h, k
    <3>2. \A s \in SUBSET R : h[s] = k[s]
      BY <1>1, <3>1, SumsAgree, SMTT(30)
    <3> QED
      BY <3>2 DEF h, k
  <2> QED
    BY <2>1
<1> QED
  BY <1>3, <1>4, SumIsTheSums DEF SumBody

\* Two functions that agree on a set have one sum over it.
LEMMA SumOfEquals ==
  ASSUME NEW fun, NEW gun, NEW S, IsFiniteSet(S), \A x \in S : fun[x] = gun[x]
  PROVE  SumFunctionOnSet(fun, S) = SumFunctionOnSet(gun, S)
<1>1. Sums(fun, S, TheSums(fun, S)) /\ Sums(gun, S, TheSums(gun, S))
  BY SumsExist DEF TheSums
<1>2. TheSums(fun, S)[S] = TheSums(gun, S)[S]
  BY <1>1, SumsAgree
<1> QED
  BY <1>2, SumIsTheSums

\* A sum of integers is one.
LEMMA SumIsInteger ==
  ASSUME NEW fun, NEW S, IsFiniteSet(S), \A x \in S : fun[x] \in Int
  PROVE  SumFunctionOnSet(fun, S) \in Int
<1> DEFINE N == Cardinality(S)
           Good == { n \in Nat : \A s \in SUBSET S :
                       Cardinality(s) = n => SumFunctionOnSet(fun, s) \in Int }
<1>1. \A s \in SUBSET S : IsFiniteSet(s) /\ Cardinality(s) \in Nat
  BY FS_Subset, FS_CardinalityType
<1>2. 0 \in Good
  BY <1>1, FS_EmptySet, SumOfNone
<1>3. ASSUME NEW n \in 0..N, n \in Good, n < N
      PROVE  n + 1 \in Good
  <2> SUFFICES ASSUME NEW s \in SUBSET S, Cardinality(s) = n + 1
               PROVE  SumFunctionOnSet(fun, s) \in Int
    OBVIOUS
  <2>1. s # {}
    BY <1>1, FS_EmptySet
  <2>2. Taken(s) \in s /\ s \ {Taken(s)} \in SUBSET S /\ Cardinality(s \ {Taken(s)}) = n
    BY <1>1, <2>1, TakenIn, TakenLess
  <2>3. SumFunctionOnSet(fun, s \ {Taken(s)}) \in Int
    BY <1>3, <2>2
  <2>4. SumFunctionOnSet(fun, s) = fun[Taken(s)] + SumFunctionOnSet(fun, s \ {Taken(s)})
    BY <1>1, <2>1, SumTaken
  <2> QED
    BY <2>2, <2>3, <2>4
<1>4. N \in Good
  <2> HIDE DEF Good
  <2> QED
    BY <1>1, <1>2, <1>3, CountUp
<1> QED
  BY <1>4

\* Whatever element is taken first, the sum is the same.
LEMMA SumWithout ==
  ASSUME NEW fun, NEW S, IsFiniteSet(S), \A x \in S : fun[x] \in Int, NEW e \in S
  PROVE  SumFunctionOnSet(fun, S) = fun[e] + SumFunctionOnSet(fun, S \ {e})
<1> DEFINE N == Cardinality(S)
           Sum(s) == SumFunctionOnSet(fun, s)
           Good == { n \in Nat : \A s \in SUBSET S : Cardinality(s) = n =>
                       \A x \in s : Sum(s) = fun[x] + Sum(s \ {x}) }
<1>1. \A s \in SUBSET S : IsFiniteSet(s) /\ Cardinality(s) \in Nat
  BY FS_Subset, FS_CardinalityType
<1>2. 0 \in Good
  BY <1>1, FS_EmptySet
<1>3. ASSUME NEW n \in 0..N, n \in Good, n < N
      PROVE  n + 1 \in Good
  <2> SUFFICES ASSUME NEW s \in SUBSET S, Cardinality(s) = n + 1, NEW x \in s
               PROVE  Sum(s) = fun[x] + Sum(s \ {x})
    OBVIOUS
  <2> DEFINE p == Taken(s)
  <2>1. p \in s /\ Cardinality(s \ {p}) = n
    BY <1>1, TakenIn, TakenLess
  <2>2. Sum(s) = fun[p] + Sum(s \ {p})
    BY <1>1, SumTaken
  <2>3. CASE x = p
    BY <2>2, <2>3
  <2>4. CASE x # p
    <3>1. Sum(s \ {p}) = fun[x] + Sum((s \ {p}) \ {x})
      BY <1>3, <2>1, <2>4
    <3>2. Cardinality(s \ {x}) = n
      <4>1. Cardinality(s \ {x}) = Cardinality(s) - 1
        BY <1>1, FS_RemoveElement
      <4> QED
        BY <4>1
    <3>3. Sum(s \ {x}) = fun[p] + Sum((s \ {x}) \ {p})
      BY <1>3, <2>1, <2>4, <3>2
    <3>4. (s \ {p}) \ {x} = (s \ {x}) \ {p}
      OBVIOUS
    <3> DEFINE both == Sum((s \ {x}) \ {p})
    <3>5. both \in Int
      BY <1>1, SumIsInteger
    <3>6. fun[x] \in Int /\ fun[p] \in Int
      BY <2>1
    <3>7. Sum(s) = fun[p] + (fun[x] + both) /\ Sum(s \ {x}) = fun[p] + both
      BY <2>2, <3>1, <3>3, <3>4
    <3> HIDE DEF both, Sum
    <3> QED
      BY <3>5, <3>6, <3>7
  <2> QED
    BY <2>3, <2>4
<1>4. N \in Good
  <2> HIDE DEF Good
  <2> QED
    BY <1>1, <1>2, <1>3, CountUp
<1> QED
  BY <1>4

\* One element more.
LEMMA SumWith ==
  ASSUME NEW fun, NEW S, IsFiniteSet(S), \A x \in S : fun[x] \in Int,
         NEW e, e \notin S, fun[e] \in Int
  PROVE  SumFunctionOnSet(fun, S \cup {e}) = SumFunctionOnSet(fun, S) + fun[e]
<1> DEFINE T == S \cup {e}
<1>1. IsFiniteSet(T) /\ T \ {e} = S /\ e \in T
  BY FS_AddElement
<1>2. SumFunctionOnSet(fun, T) = fun[e] + SumFunctionOnSet(fun, S)
  <2> HIDE DEF T
  <2>1. \A x \in T : fun[x] \in Int
    BY DEF T
  <2> QED
    BY <1>1, <2>1, SumWithout
<1>3. SumFunctionOnSet(fun, S) \in Int
  BY SumIsInteger
<1> QED
  BY <1>2, <1>3
=============================================================================
