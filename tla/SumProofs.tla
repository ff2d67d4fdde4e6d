----------------------------- MODULE SumProofs ------------------------------
(***************************************************************************)
(* Sums over finite sets, and induction without operator parameters: the   *)
(* induction principles of the library take a predicate P(_), which the    *)
(* provers cannot guess.  Here a predicate is the set of what satisfies    *)
(* it, and the principles follow from WFMin.                               *)
(***************************************************************************)
EXTENDS FiniteSetTheorems, TLAPS

(* Induction on the natural numbers and on the subsets of a finite set.    *)

LEMMA NatInductionSet ==
    ASSUME NEW T \in SUBSET Nat, 0 \in T, \A n \in T : n + 1 \in T
    PROVE  T = Nat
<1>1. SUFFICES ASSUME Nat \ T # {}
               PROVE  FALSE
  OBVIOUS
<1>2. PICK n \in Nat \ T : \A m \in Nat \ T : <<m, n>> \notin OpToRel(<, Nat)
  BY <1>1, NatLessThanWellFounded, WFMin
<1>3. n # 0 /\ n - 1 \in Nat /\ n - 1 < n
  OBVIOUS
<1>4. <<n - 1, n>> \in OpToRel(<, Nat)
  BY <1>3 DEF OpToRel
<1>5. n - 1 \in T
  BY <1>2, <1>3, <1>4
<1> QED
  BY <1>3, <1>5

LEMMA SubsetInduction ==
    ASSUME NEW S, IsFiniteSet(S), NEW Good,
           \A T \in SUBSET S :
              (\A U \in SUBSET T : U # T => U \in Good) => T \in Good
    PROVE  \A T \in SUBSET S : T \in Good
<1> DEFINE Bad == (SUBSET S) \ Good
<1>1. SUFFICES ASSUME Bad # {}
               PROVE  FALSE
  OBVIOUS
<1>2. IsWellFoundedOn(StrictSubsetOrdering(S), SUBSET S)
  <2>1. FiniteSubsetsOf(S) = SUBSET S
    BY FS_FiniteSubsetsOfFinite
  <2>2. IsWellFoundedOn(StrictSubsetOrdering(S), FiniteSubsetsOf(S))
    BY FS_StrictSubsetOrderingWellFounded
  <2> QED
    BY <2>1, <2>2, Zenon
<1>3. PICK T \in Bad : \A U \in Bad : <<U, T>> \notin StrictSubsetOrdering(S)
  <2>1. Bad \subseteq SUBSET S /\ Bad # {}
    BY <1>1
  <2> DEFINE R == StrictSubsetOrdering(S)
             Subsets == SUBSET S
  <2>2. IsWellFoundedOn(R, Subsets) /\ Bad \subseteq Subsets
    BY <1>2, <2>1
  <2> HIDE DEF Bad, R, Subsets
  <2>3. \E T \in Bad : \A U \in Bad : ~ (<<U, T>> \in R)
    BY <2>1, <2>2, WFMin
  <2> QED
    BY <2>3 DEF R
<1>4. ASSUME NEW U \in SUBSET T, U # T PROVE U \in Good
  <2>1. U \in SUBSET S
    BY <1>3
  <2>2. <<U, T>> \in StrictSubsetOrdering(S)
    BY <1>4, <2>1 DEF StrictSubsetOrdering
  <2> QED
    BY <1>3, <2>1, <2>2
<1> QED
  BY <1>3, <1>4

----------------------------------------------------------------------------
(* The sum of f over S: what its recursive definition computes. *)

Some(s) == CHOOSE x \in s : TRUE
SumStep(f, g, s) == IF s = {} THEN 0 ELSE f[Some(s)] + g[s \ {Some(s)}]
IsSum(g, f, S) == g = [s \in SUBSET S |-> SumStep(f, g, s)]

LEMMA SumUnfolds ==
    ASSUME NEW f, NEW S
    PROVE  SumFunctionOnSet(f, S) = (CHOOSE g : IsSum(g, f, S))[S]
BY DEF SumFunctionOnSet, FoldFunctionOnSet, MapThenFoldSet, SumStep, Some, IsSum

LEMMA SumUnique ==
    ASSUME NEW f, NEW S, IsFiniteSet(S),
           NEW g, IsSum(g, f, S), NEW h, IsSum(h, f, S)
    PROVE  g[S] = h[S]
<1> DEFINE Good == {T \in SUBSET S : g[T] = h[T]}
<1>1. ASSUME NEW T \in SUBSET S, \A U \in SUBSET T : U # T => U \in Good
      PROVE  T \in Good
  <2>1. g[T] = SumStep(f, g, T) /\ h[T] = SumStep(f, h, T)
    BY DEF IsSum
  <2>2. CASE T = {}
    BY <2>1, <2>2 DEF SumStep
  <2>3. CASE T # {}
    <3>1. Some(T) \in T
      BY <2>3 DEF Some
    <3>2. T \ {Some(T)} \in SUBSET T /\ T \ {Some(T)} # T
      BY <3>1
    <3> QED
      BY <1>1, <2>1, <2>3, <3>2 DEF SumStep
  <2> QED
    BY <2>2, <2>3
<1> HIDE DEF Good
<1>2. S \in Good
  BY <1>1, SubsetInduction
<1> QED
  BY <1>2 DEF Good

LEMMA SumIsStep ==
    ASSUME NEW f, NEW S, IsFiniteSet(S)
    PROVE  SumFunctionOnSet(f, S) =
              IF S = {} THEN 0
              ELSE f[Some(S)] + SumFunctionOnSet(f, S \ {Some(S)})
<1> DEFINE Sum(T) == SumFunctionOnSet(f, T)
           Step(T) == IF T = {} THEN 0 ELSE f[Some(T)] + Sum(T \ {Some(T)})
           Good == {T \in SUBSET S : Sum(T) = Step(T)}
<1>1. ASSUME NEW T \in SUBSET S, \A U \in SUBSET T : U # T => U \in Good
      PROVE  T \in Good
  <2> DEFINE h == [s \in SUBSET T |-> IF s = T THEN Step(T) ELSE Sum(s)]
  <2>1. ASSUME NEW s \in SUBSET T PROVE h[s] = SumStep(f, h, s)
    <3>1. h[s] = Step(s)
      BY <1>1
    <3>2. CASE s = {}
      BY <3>1, <3>2 DEF SumStep
    <3>3. CASE s # {}
      <4>1. Some(s) \in s
        BY <3>3 DEF Some
      <4>2. s \ {Some(s)} \in SUBSET T /\ s \ {Some(s)} # T
        BY <4>1
      <4>3. h[s \ {Some(s)}] = Sum(s \ {Some(s)})
        BY <4>2
      <4> QED
        BY <3>1, <3>3, <4>3 DEF SumStep
    <3> QED
      BY <3>2, <3>3
  <2>2. h = [s \in SUBSET T |-> h[s]]
    OBVIOUS
  <2> HIDE DEF h
  <2>3. IsSum(h, f, T)
    BY <2>1, <2>2 DEF IsSum
  <2>4. IsSum(CHOOSE g : IsSum(g, f, T), f, T)
    BY <2>3, Zenon
  <2>5. (CHOOSE g : IsSum(g, f, T))[T] = h[T]
    <3>1. IsFiniteSet(T)
      BY FS_Subset
    <3> QED
      BY <2>3, <2>4, <3>1, SumUnique
  <2>6. Sum(T) = h[T]
    BY <2>5, SumUnfolds
  <2> QED
    BY <2>6 DEF h
<1> HIDE DEF Good
<1>2. S \in Good
  BY <1>1, SubsetInduction
<1> QED
  BY <1>2 DEF Good

LEMMA SumEmpty ==
    ASSUME NEW f
    PROVE  SumFunctionOnSet(f, {}) = 0
BY SumIsStep, FS_EmptySet

LEMMA SumInt ==
    ASSUME NEW f, NEW S, IsFiniteSet(S), \A x \in S : f[x] \in Int
    PROVE  SumFunctionOnSet(f, S) \in Int
<1> DEFINE Good == {T \in SUBSET S : SumFunctionOnSet(f, T) \in Int}
<1>1. ASSUME NEW T \in SUBSET S, \A U \in SUBSET T : U # T => U \in Good
      PROVE  T \in Good
  <2>1. IsFiniteSet(T)
    BY FS_Subset
  <2>2. CASE T = {}
    BY <2>2, SumEmpty
  <2>3. CASE T # {}
    <3>1. Some(T) \in T
      BY <2>3 DEF Some
    <3>2. T \ {Some(T)} \in SUBSET T /\ T \ {Some(T)} # T
      BY <3>1
    <3>3. SumFunctionOnSet(f, T \ {Some(T)}) \in Int /\ f[Some(T)] \in Int
      BY <1>1, <3>1, <3>2
    <3> QED
      BY <2>1, <2>3, <3>3, SumIsStep
  <2> QED
    BY <2>2, <2>3
<1> HIDE DEF Good
<1>2. S \in Good
  BY <1>1, SubsetInduction
<1> QED
  BY <1>2 DEF Good

(* Any element may be taken out, not only the chosen one. *)
LEMMA SumOneOut ==
    ASSUME NEW f, NEW S, IsFiniteSet(S), \A x \in S : f[x] \in Int,
           NEW x \in S
    PROVE  SumFunctionOnSet(f, S) = f[x] + SumFunctionOnSet(f, S \ {x})
<1> DEFINE Sum(T) == SumFunctionOnSet(f, T)
           Good == {T \in SUBSET S : \A z \in T : Sum(T) = f[z] + Sum(T \ {z})}
<1>1. ASSUME NEW T \in SUBSET S, \A U \in SUBSET T : U # T => U \in Good,
             NEW z \in T
      PROVE  Sum(T) = f[z] + Sum(T \ {z})
  <2>1. IsFiniteSet(T)
    BY FS_Subset
  <2> DEFINE y == Some(T)
  <2>2. y \in T
    BY DEF Some
  <2>3. Sum(T) = f[y] + Sum(T \ {y})
    BY <2>1, SumIsStep
  <2> HIDE DEF y
  <2>4. CASE y = z
    BY <2>3, <2>4
  <2>5. CASE y # z
    <3>1. Sum(T \ {y}) = f[z] + Sum((T \ {y}) \ {z})
      BY <1>1, <2>2, <2>5
    <3>2. Sum(T \ {z}) = f[y] + Sum((T \ {z}) \ {y})
      BY <1>1, <2>2, <2>5
    <3>3. (T \ {z}) \ {y} = (T \ {y}) \ {z}
      OBVIOUS
    <3>4. IsFiniteSet((T \ {y}) \ {z})
      BY <2>1, FS_Subset, (T \ {y}) \ {z} \in SUBSET T
    <3>5. Sum((T \ {y}) \ {z}) \in Int
      BY <3>4, SumInt
    <3>6. f[y] \in Int /\ f[z] \in Int
      BY <2>2
    <3>7. PICK rest \in Int : rest = Sum((T \ {y}) \ {z})
      BY <3>5
    <3>8. Sum(T) = f[y] + (f[z] + rest) /\ Sum(T \ {z}) = f[y] + rest
      BY <2>3, <3>1, <3>2, <3>3, <3>7
    <3> HIDE DEF Sum
    <3> QED
      BY <3>6, <3>8
  <2> QED
    BY <2>4, <2>5
<1>2. \A T \in SUBSET S :
        (\A U \in SUBSET T : U # T => U \in Good) => T \in Good
  BY <1>1
<1> HIDE DEF Good
<1>3. S \in Good
  BY <1>2, SubsetInduction
<1> QED
  BY <1>3 DEF Good

LEMMA SumSame ==
    ASSUME NEW f, NEW g, NEW S, IsFiniteSet(S), \A x \in S : f[x] = g[x]
    PROVE  SumFunctionOnSet(f, S) = SumFunctionOnSet(g, S)
<1> DEFINE Good == {T \in SUBSET S :
                      SumFunctionOnSet(f, T) = SumFunctionOnSet(g, T)}
<1>1. ASSUME NEW T \in SUBSET S, \A U \in SUBSET T : U # T => U \in Good
      PROVE  T \in Good
  <2>1. IsFiniteSet(T)
    BY FS_Subset
  <2>2. CASE T = {}
    BY <2>2, SumEmpty
  <2>3. CASE T # {}
    <3>1. Some(T) \in T
      BY <2>3 DEF Some
    <3>2. T \ {Some(T)} \in SUBSET T /\ T \ {Some(T)} # T
      BY <3>1
    <3>3. SumFunctionOnSet(f, T \ {Some(T)}) = SumFunctionOnSet(g, T \ {Some(T)})
      BY <1>1, <3>2
    <3>4. f[Some(T)] = g[Some(T)]
      BY <3>1
    <3> QED
      BY <2>1, <2>3, <3>3, <3>4, SumIsStep
  <2> QED
    BY <2>2, <2>3
<1> HIDE DEF Good
<1>2. S \in Good
  BY <1>1, SubsetInduction
<1> QED
  BY <1>2 DEF Good

(* One more element. *)
LEMMA SumOneMore ==
    ASSUME NEW f, NEW S, IsFiniteSet(S), \A x \in S : f[x] \in Int,
           NEW y, y \notin S, f[y] \in Int
    PROVE  SumFunctionOnSet(f, S \cup {y}) = f[y] + SumFunctionOnSet(f, S)
<1>1. IsFiniteSet(S \cup {y})
  BY FS_AddElement
<1>2. (S \cup {y}) \ {y} = S
  OBVIOUS
<1>3. \A x \in S \cup {y} : f[x] \in Int
  OBVIOUS
<1> QED
  BY <1>1, <1>2, <1>3, SumOneOut

LEMMA SumNat ==
    ASSUME NEW f, NEW S, IsFiniteSet(S), \A x \in S : f[x] \in Nat
    PROVE  SumFunctionOnSet(f, S) \in Nat
<1> DEFINE Good == {T \in SUBSET S : SumFunctionOnSet(f, T) \in Nat}
<1>1. ASSUME NEW T \in SUBSET S, \A U \in SUBSET T : U # T => U \in Good
      PROVE  T \in Good
  <2>1. IsFiniteSet(T)
    BY FS_Subset
  <2>2. CASE T = {}
    BY <2>2, SumEmpty
  <2>3. CASE T # {}
    <3>1. Some(T) \in T
      BY <2>3 DEF Some
    <3>2. T \ {Some(T)} \in SUBSET T /\ T \ {Some(T)} # T
      BY <3>1
    <3>3. SumFunctionOnSet(f, T \ {Some(T)}) \in Nat /\ f[Some(T)] \in Nat
      BY <1>1, <3>1, <3>2
    <3> QED
      BY <2>1, <2>3, <3>3, SumIsStep
  <2> QED
    BY <2>2, <2>3
<1> HIDE DEF Good
<1>2. S \in Good
  BY <1>1, SubsetInduction
<1> QED
  BY <1>2 DEF Good

LEMMA SumOfZeros ==
    ASSUME NEW f, NEW S, IsFiniteSet(S), \A x \in S : f[x] = 0
    PROVE  SumFunctionOnSet(f, S) = 0
<1> DEFINE Good == {T \in SUBSET S : SumFunctionOnSet(f, T) = 0}
<1>1. ASSUME NEW T \in SUBSET S, \A U \in SUBSET T : U # T => U \in Good
      PROVE  T \in Good
  <2>1. IsFiniteSet(T)
    BY FS_Subset
  <2>2. CASE T = {}
    BY <2>2, SumEmpty
  <2>3. CASE T # {}
    <3>1. Some(T) \in T
      BY <2>3 DEF Some
    <3>2. T \ {Some(T)} \in SUBSET T /\ T \ {Some(T)} # T
      BY <3>1
    <3>3. SumFunctionOnSet(f, T \ {Some(T)}) = 0 /\ f[Some(T)] = 0
      BY <1>1, <3>1, <3>2
    <3> QED
      BY <2>1, <2>3, <3>3, SumIsStep
  <2> QED
    BY <2>2, <2>3
<1> HIDE DEF Good
<1>2. S \in Good
  BY <1>1, SubsetInduction
<1> QED
  BY <1>2 DEF Good

LEMMA SumNegated ==
    ASSUME NEW f, NEW g, NEW S, IsFiniteSet(S),
           \A x \in S : f[x] \in Int /\ g[x] = 0 - f[x]
    PROVE  SumFunctionOnSet(g, S) = 0 - SumFunctionOnSet(f, S)
<1> DEFINE Good == {T \in SUBSET S :
                      SumFunctionOnSet(g, T) = 0 - SumFunctionOnSet(f, T)}
<1>1. ASSUME NEW T \in SUBSET S, \A U \in SUBSET T : U # T => U \in Good
      PROVE  T \in Good
  <2>1. IsFiniteSet(T)
    BY FS_Subset
  <2>2. CASE T = {}
    BY <2>2, SumEmpty
  <2>3. CASE T # {}
    <3>1. Some(T) \in T
      BY <2>3 DEF Some
    <3>2. T \ {Some(T)} \in SUBSET T /\ T \ {Some(T)} # T
      BY <3>1
    <3>3. PICK a \in Int, b \in Int :
             /\ f[Some(T)] = a /\ g[Some(T)] = 0 - a
             /\ SumFunctionOnSet(f, T \ {Some(T)}) = b
      <4>1. IsFiniteSet(T \ {Some(T)})
        BY <2>1, FS_RemoveElement
      <4>2. SumFunctionOnSet(f, T \ {Some(T)}) \in Int
        BY <4>1, SumInt
      <4> QED
        BY <3>1, <4>2
    <3>4. SumFunctionOnSet(g, T \ {Some(T)}) = 0 - b
      BY <1>1, <3>2, <3>3
    <3>5. SumFunctionOnSet(f, T) = a + b
      BY <2>1, <2>3, <3>3, SumIsStep
    <3>6. SumFunctionOnSet(g, T) =
            g[Some(T)] + SumFunctionOnSet(g, T \ {Some(T)})
      BY <2>1, <2>3, SumIsStep
    <3> QED
      BY <3>3, <3>4, <3>5, <3>6
  <2> QED
    BY <2>2, <2>3
<1> HIDE DEF Good
<1>2. S \in Good
  BY <1>1, SubsetInduction
<1> QED
  BY <1>2 DEF Good

----------------------------------------------------------------------------
(* Sums over the positions of a sequence. *)

LEMMA Positions ==
    ASSUME NEW n \in Nat
    PROVE  IsFiniteSet(1..n)
BY FS_Interval

LEMMA SumNext ==
    ASSUME NEW f, NEW n \in Nat, \A i \in 1..n + 1 : f[i] \in Int
    PROVE  SumFunctionOnSet(f, 1..n + 1) = f[n + 1] + SumFunctionOnSet(f, 1..n)
<1>1. IsFiniteSet(1..n) /\ 1..n + 1 = (1..n) \cup {n + 1} /\ n + 1 \notin 1..n
  BY FS_Interval
<1> QED
  BY <1>1, SumOneMore

(* h begins like the first n places of f and goes on like those of g. *)
Joined(f, n, g, m, h) ==
    /\ \A i \in 1..n : f[i] \in Int /\ h[i] = f[i]
    /\ \A i \in 1..m : g[i] \in Int /\ h[n + i] = g[i]

LEMMA SumConcat ==
    ASSUME NEW f, NEW g, NEW h, NEW n \in Nat, NEW m \in Nat,
           Joined(f, n, g, m, h)
    PROVE  SumFunctionOnSet(h, 1..n + m) =
              SumFunctionOnSet(f, 1..n) + SumFunctionOnSet(g, 1..m)
<1>0. /\ \A i \in 1..n : f[i] \in Int /\ h[i] = f[i]
      /\ \A i \in 1..m : g[i] \in Int /\ h[n + i] = g[i]
  BY DEF Joined
<1> DEFINE Sum(x, k) == SumFunctionOnSet(x, 1..k)
           Good == {k \in Nat : k <= m => Sum(h, n + k) = Sum(f, n) + Sum(g, k)}
<1>1. Sum(f, n) \in Int /\ Sum(h, n) = Sum(f, n)
  BY <1>0, Positions, SumInt, SumSame
<1>2. 0 \in Good
  <2>1. 1..0 = {} /\ n + 0 = n
    OBVIOUS
  <2> QED
    BY <1>1, <2>1, SumEmpty
<1>3. ASSUME NEW k \in Good PROVE k + 1 \in Good
  <2>1. SUFFICES ASSUME k + 1 <= m
                 PROVE  Sum(h, n + (k + 1)) = Sum(f, n) + Sum(g, k + 1)
    OBVIOUS
  <2>2. k \in Nat /\ Sum(h, n + k) = Sum(f, n) + Sum(g, k)
    BY <2>1
  <2>3. \A i \in 1..(n + k) + 1 : h[i] \in Int
    <3> SUFFICES ASSUME NEW i \in 1..(n + k) + 1 PROVE h[i] \in Int
      OBVIOUS
    <3>1. CASE i <= n
      BY <1>0, <3>1
    <3>2. CASE i > n
      <4>1. i - n \in 1..m /\ n + (i - n) = i
        BY <2>1, <2>2, <3>2
      <4> QED
        BY <1>0, <4>1
    <3> QED
      BY <3>1, <3>2
  <2>4. Sum(h, (n + k) + 1) = h[(n + k) + 1] + Sum(h, n + k)
    BY <2>2, <2>3, SumNext
  <2>5. Sum(g, k + 1) = g[k + 1] + Sum(g, k)
    BY <1>0, <2>1, <2>2, SumNext
  <2>6. h[(n + k) + 1] = g[k + 1] /\ g[k + 1] \in Int
    BY <1>0, <2>1, <2>2
  <2>7. Sum(g, k) \in Int
    BY <1>0, <2>1, <2>2, Positions, SumInt
  <2>8. (n + k) + 1 = n + (k + 1)
    BY <2>2
  <2> HIDE DEF Sum
  <2> QED
    BY <1>1, <2>2, <2>4, <2>5, <2>6, <2>7, <2>8
<1>4. m \in Good
  <2>1. Good \in SUBSET Nat
    OBVIOUS
  <2> HIDE DEF Good
  <2> QED
    BY <1>2, <1>3, <2>1, NatInductionSet
<1> QED
  BY <1>4
=============================================================================
