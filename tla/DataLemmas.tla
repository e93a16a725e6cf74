----------------------------- MODULE DataLemmas -----------------------------
(***************************************************************************)
(* Facts about data that several proofs need: induction over numbers and   *)
(* over the subsets of a finite set, the greatest of some numbers, folds   *)
(* over a finite set and sums. The theorems of the library on induction    *)
(* take an operator as a parameter; here a property is the SET of what has *)
(* it, which the provers can instantiate.                                  *)
(***************************************************************************)
EXTENDS Integers, FiniteSets, FiniteSetsExt, Functions, FiniteSetTheorems, FunctionTheorems, TLAPS

\* What holds of a subset as soon as it holds of all smaller ones holds of
\* every subset of a finite set.
LEMMA SetInduction ==
  ASSUME NEW S, IsFiniteSet(S), NEW P,
         \A T \in SUBSET S : (\A U \in SUBSET T : U # T => U \in P) => T \in P
  PROVE  \A T \in SUBSET S : T \in P
<1> DEFINE bad == {T \in SUBSET S : T \notin P}
<1>1. SUFFICES ASSUME bad # {} PROVE FALSE
  OBVIOUS
<1>2. IsWellFoundedOn(StrictSubsetOrdering(S), FiniteSubsetsOf(S))
  BY FS_StrictSubsetOrderingWellFounded
<1>3. bad \subseteq FiniteSubsetsOf(S)
  BY FS_FiniteSubsetsOfFinite
<1>4. PICK T \in bad : \A U \in bad : <<U, T>> \notin StrictSubsetOrdering(S)
  <2> HIDE DEF bad
  <2> QED BY <1>1, <1>2, <1>3, WFMin
<1>5. \A U \in SUBSET T : U # T => U \notin bad
  BY <1>4 DEF StrictSubsetOrdering
<1> QED BY <1>5

\* What holds of 0, and of n + 1 when it holds of n, holds of every number.
LEMMA Induction ==
  ASSUME NEW S, 0 \in S, \A n \in Nat : n \in S => n + 1 \in S
  PROVE  \A n \in Nat : n \in S
<1>1. SUFFICES ASSUME NEW b \in Nat, b \notin S PROVE FALSE
  OBVIOUS
<1> DEFINE below == {n \in 0..b : n \in S}
           next == [n \in below |-> n + 1]
<1>2. IsFiniteSet(below) /\ 0 \in below
  <2>1. IsFiniteSet(0..b) BY FS_Interval
  <2>2. below \in SUBSET (0..b) OBVIOUS
  <2>3. IsFiniteSet(below) BY <2>1, <2>2, FS_Subset
  <2>4. QED BY <2>3
<1>3. next \in Injection(below, below \ {0})
  <2>1. \A n \in below : n + 1 \in below \ {0} BY <1>1
  <2>2. next \in [below -> below \ {0}] BY <2>1
  <2>3. \A m, n \in below : next[m] = next[n] => m = n OBVIOUS
  <2> HIDE DEF next, below
  <2>4. QED BY <2>2, <2>3, Fun_IsInj
<1> HIDE DEF next, below
<1>4. Cardinality(below) \in Nat BY <1>2, FS_CardinalityType
<1>5. IsFiniteSet(below \ {0}) /\ Cardinality(below \ {0}) = Cardinality(below) - 1
  BY <1>2, FS_RemoveElement
<1>6. Cardinality(below) <= Cardinality(below \ {0}) BY <1>3, <1>5, FS_Injection
<1>7. QED BY <1>4, <1>5, <1>6

\* The same for the numbers up to m.
LEMMA InductionUpTo ==
  ASSUME NEW m \in Nat, NEW S, 0 \in S, \A n \in 0..(m - 1) : n \in S => n + 1 \in S
  PROVE  \A n \in 0..m : n \in S
<1> DEFINE good == {n \in Nat : n <= m => n \in S}
<1>1. 0 \in good
  OBVIOUS
<1>2. \A n \in Nat : n \in good => n + 1 \in good
  OBVIOUS
<1>3. \A n \in Nat : n \in good
  <2> HIDE DEF good
  <2> QED BY <1>1, <1>2, Induction
<1> QED BY <1>3

\* The CHOOSE in Max finds something: a finite set of numbers that is not
\* empty has a greatest.
LEMMA MaxOfNumbers ==
  ASSUME NEW S \in SUBSET Nat, IsFiniteSet(S), S # {}
  PROVE  Max(S) \in S /\ \A y \in S : y <= Max(S)
<1> DEFINE HasMax(T) == \E x \in T : \A y \in T : x >= y
           good == {T \in SUBSET S : T # {} => HasMax(T)}
<1>1. ASSUME NEW T \in SUBSET S, \A U \in SUBSET T : U # T => U \in good
      PROVE  T \in good
  <2>1. SUFFICES ASSUME T # {} PROVE HasMax(T)
    OBVIOUS
  <2>2. PICK z \in T : TRUE
    BY <2>1
  <2>3. CASE T = {z}
    BY <2>3
  <2>4. CASE T # {z}
    <3>1. T \ {z} # {} /\ T \ {z} \in good
      BY <1>1, <2>2, <2>4
    <3>2. PICK x \in T \ {z} : \A y \in T \ {z} : x >= y
      BY <3>1
    <3>3. \A y \in T : y \in Nat
      OBVIOUS
    <3>4. CASE x >= z
      BY <3>2, <3>4
    <3>5. CASE ~(x >= z)
      BY <2>2, <3>2, <3>3, <3>5
    <3> QED BY <3>4, <3>5
  <2> QED BY <2>3, <2>4
<1>2. \A T \in SUBSET S : (\A U \in SUBSET T : U # T => U \in good) => T \in good
  BY <1>1
<1>3. S \in good
  <2> HIDE DEF good
  <2> QED BY <1>2, SetInduction
<1>4. HasMax(S)
  BY <1>3
<1> QED BY <1>4 DEF Max

\* A table of a fold over the subsets of S: each subset is folded from the
\* result for it without the element that pick takes out first.
HasFold(S, V, base, pick, step) ==
  \E f \in [SUBSET S -> V] : \A s \in SUBSET S :
    f[s] = IF s = {} THEN base ELSE step[<<pick[s], f[s \ {pick[s]}]>>]

\* A function on the numbers up to m may be defined from its value at 0 and, by
\* a step, from its value at the number before.
HasRecursion(m, V, base, step) ==
  \E f \in [0..m -> V] : /\ f[0] = base
                         /\ \A n \in 0..(m - 1) : f[n + 1] = step[<<n, f[n]>>]

LEMMA RecursionExists ==
  ASSUME NEW m \in Nat, NEW V, NEW base \in V, NEW step \in [(0..m) \X V -> V]
  PROVE  HasRecursion(m, V, base, step)
<1> DEFINE Fits(f, n) == /\ f \in [0..n -> V] /\ f[0] = base
                         /\ \A i \in 0..(n - 1) : f[i + 1] = step[<<i, f[i]>>]
           good == {n \in 0..m : \E f : Fits(f, n)}
<1>1. 0 \in good
  <2> DEFINE f == [i \in 0..0 |-> base]
  <2>1. Fits(f, 0)
    OBVIOUS
  <2> HIDE DEF Fits, f
  <2> QED BY <2>1
<1>2. ASSUME NEW n \in 0..(m - 1), n \in good
      PROVE  n + 1 \in good
  <2>1. PICK f : Fits(f, n)
    BY <1>2
  <2> DEFINE g == [i \in 0..(n + 1) |-> IF i = n + 1 THEN step[<<n, f[n]>>] ELSE f[i]]
  <2>2. f[n] \in V /\ n \in 0..m
    BY <2>1
  <2>3. step[<<n, f[n]>>] \in V
    BY <2>2
  <2>4. g \in [0..(n + 1) -> V]
    BY <2>1, <2>3
  <2>5. g[0] = base
    BY <2>1
  <2>6. ASSUME NEW i \in 0..n
        PROVE  g[i + 1] = step[<<i, g[i]>>]
    <3>1. g[i] = f[i] /\ i + 1 \in 0..(n + 1)
      OBVIOUS
    <3>2. CASE i = n
      BY <3>1, <3>2
    <3>3. CASE i # n
      <4>1. i \in 0..(n - 1) /\ g[i + 1] = f[i + 1]
        BY <3>1, <3>3
      <4> QED BY <2>1, <3>1, <4>1
    <3> QED BY <3>2, <3>3
  <2>7. Fits(g, n + 1)
    <3>1. (n + 1) - 1 = n
      OBVIOUS
    <3> HIDE DEF g
    <3> QED BY <2>4, <2>5, <2>6, <3>1
  <2> HIDE DEF Fits, g
  <2> QED BY <2>7
<1>3. \A n \in 0..m : n \in good
  <2> HIDE DEF good
  <2> QED BY <1>1, <1>2, InductionUpTo
<1>4. PICK f : Fits(f, m)
  BY <1>3
<1> QED BY <1>4 DEF HasRecursion

\* The recursive function of a fold over a finite set exists, whatever order
\* the elements are picked in.  Without this, a CHOOSE of it would be of
\* nothing known.
LEMMA FoldExists ==
  ASSUME NEW S, IsFiniteSet(S), NEW V, NEW base \in V,
         NEW pick, \A s \in SUBSET S : s # {} => pick[s] \in s,
         NEW step \in [S \X V -> V]
  PROVE  HasFold(S, V, base, pick, step)
<1> DEFINE Body(f, s) == IF s = {} THEN base ELSE step[<<pick[s], f[s \ {pick[s]}]>>]
           Upto(n) == {s \in SUBSET S : Cardinality(s) <= n}
           good == {n \in Nat : \E f \in [SUBSET S -> V] :
                                  \A s \in Upto(n) : f[s] = Body(f, s)}
<1>1. \A s \in SUBSET S : IsFiniteSet(s) /\ Cardinality(s) \in Nat
  BY FS_Subset, FS_CardinalityType
<1>2. ASSUME NEW f \in [SUBSET S -> V], NEW s \in SUBSET S
      PROVE  Body(f, s) \in V
  OBVIOUS
<1>3. 0 \in good
  <2> DEFINE f == [s \in SUBSET S |-> base]
  <2>1. \A s \in Upto(0) : s = {}
    BY <1>1, FS_EmptySet
  <2>2. f \in [SUBSET S -> V] /\ \A s \in Upto(0) : f[s] = Body(f, s)
    BY <2>1
  <2> QED BY <2>2
<1>4. ASSUME NEW n \in Nat, n \in good
      PROVE  n + 1 \in good
  <2>1. PICK f \in [SUBSET S -> V] : \A s \in Upto(n) : f[s] = Body(f, s)
    BY <1>4
  <2> DEFINE g == [s \in SUBSET S |-> Body(f, s)]
  <2>2. g \in [SUBSET S -> V]
    BY <1>2
  <2>3. ASSUME NEW s \in Upto(n + 1), s # {}
        PROVE  f[s \ {pick[s]}] = g[s \ {pick[s]}]
    <3>1. pick[s] \in s /\ IsFiniteSet(s)
      BY <1>1, <2>3
    <3>2. Cardinality(s \ {pick[s]}) = Cardinality(s) - 1
      <4> DEFINE x == pick[s]
      <4> HIDE DEF x, Upto
      <4>1. x \in s /\ IsFiniteSet(s)
        BY <3>1 DEF x
      <4>2. Cardinality(s \ {x}) = Cardinality(s) - 1
        BY <4>1, FS_RemoveElement
      <4> QED BY <4>2 DEF x
    <3>3. Cardinality(s) \in Nat /\ Cardinality(s) <= n + 1
      BY <1>1
    <3>4. s \ {pick[s]} \in Upto(n)
      BY <3>2, <3>3
    <3> QED BY <2>1, <3>4
  <2>4. \A s \in Upto(n + 1) : g[s] = Body(g, s)
    BY <2>3
  <2> HIDE DEF g, Body, Upto
  <2> QED BY <2>2, <2>4
<1>5. \A n \in Nat : n \in good
  <2> HIDE DEF good
  <2> QED BY <1>3, <1>4, Induction
<1>6. Cardinality(S) \in Nat
  BY FS_CardinalityType
<1>7. PICK f \in [SUBSET S -> V] : \A s \in Upto(Cardinality(S)) : f[s] = Body(f, s)
  BY <1>5, <1>6
<1>8. \A s \in SUBSET S : s \in Upto(Cardinality(S))
  BY FS_Subset
<1> QED BY <1>7, <1>8 DEF HasFold

\* The element that MapThenFoldSet takes out first.
AnyOf(s) == CHOOSE x \in s : TRUE

\* The sums of g over the subsets of S.
IsSumTable(f, g, S) ==
  /\ f \in [SUBSET S -> Nat]
  /\ \A s \in SUBSET S :
       f[s] = IF s = {} THEN 0 ELSE g[AnyOf(s)] + f[s \ {AnyOf(s)}]

\* SumFunctionOnSet is the last entry of such a table.
LEMMA SumUnfolds ==
  ASSUME NEW S, IsFiniteSet(S), NEW g, \A x \in S : g[x] \in Nat
  PROVE  \E f : IsSumTable(f, g, S) /\ SumFunctionOnSet(g, S) = f[S]
<1> DEFINE pick == [s \in SUBSET S |-> CHOOSE x \in s : TRUE]
           step == [p \in S \X Nat |-> g[p[1]] + p[2]]
           Sums(f) == f = [s \in SUBSET S |-> IF s = {} THEN 0
                       ELSE g[CHOOSE x \in s : TRUE] + f[s \ {CHOOSE x \in s : TRUE}]]
           sum == CHOOSE f : Sums(f)
<1>1. \A s \in SUBSET S : s # {} => pick[s] \in s
  OBVIOUS
<1>2. step \in [S \X Nat -> Nat]
  OBVIOUS
<1>3. PICK f \in [SUBSET S -> Nat] : \A s \in SUBSET S :
           f[s] = IF s = {} THEN 0 ELSE step[<<pick[s], f[s \ {pick[s]}]>>]
  <2> HIDE DEF pick, step
  <2>1. 0 \in Nat
    OBVIOUS
  <2>2. HasFold(S, Nat, 0, pick, step)
    BY <1>1, <1>2, <2>1, FoldExists
  <2> QED BY <2>2 DEF HasFold
<1>4. ASSUME NEW s \in SUBSET S
      PROVE  f[s] = IF s = {} THEN 0
                    ELSE g[CHOOSE x \in s : TRUE] + f[s \ {CHOOSE x \in s : TRUE}]
  <2>1. CASE s = {}
    BY <1>3, <2>1
  <2>2. CASE s # {}
    <3>1. pick[s] = CHOOSE x \in s : TRUE
      OBVIOUS
    <3>2. pick[s] \in S /\ f[s \ {pick[s]}] \in Nat
      BY <1>1, <2>2
    <3> QED BY <1>3, <2>2, <3>1, <3>2
  <2> QED BY <2>1, <2>2
<1>5. Sums(f)
  BY <1>4
<1>6. Sums(sum)
  <2> HIDE DEF Sums
  <2> QED BY <1>5
<1>7. SumFunctionOnSet(g, S) = sum[S]
  BY DEF SumFunctionOnSet, FoldFunctionOnSet, MapThenFoldSet
<1>8. \A s \in SUBSET S : sum[s] = f[s]
  <2> DEFINE same == {s \in SUBSET S : sum[s] = f[s]}
  <2>1. ASSUME NEW s \in SUBSET S, \A u \in SUBSET s : u # s => u \in same
        PROVE  sum[s] = f[s]
    <3> DEFINE x == CHOOSE x \in s : TRUE
    <3>1. sum[s] = IF s = {} THEN 0 ELSE g[x] + sum[s \ {x}]
      <4> HIDE DEF sum
      <4> QED BY <1>6
    <3>2. f[s] = IF s = {} THEN 0 ELSE g[x] + f[s \ {x}]
      BY <1>4
    <3>3. s # {} => x \in s
      OBVIOUS
    <3> HIDE DEF x, sum
    <3>4. s # {} => s \ {x} \in same
      BY <2>1, <3>3
    <3> QED BY <3>1, <3>2, <3>4
  <2> HIDE DEF sum
  <2>2. \A s \in SUBSET S : (\A u \in SUBSET s : u # s => u \in same) => s \in same
    BY <2>1
  <2> HIDE DEF same
  <2>3. \A s \in SUBSET S : s \in same
    BY <2>2, SetInduction
  <2> QED BY <2>3 DEF same
<1> HIDE DEF sum
<1>9. SumFunctionOnSet(g, S) = f[S]
  BY <1>7, <1>8
<1> QED BY <1>4, <1>9 DEF IsSumTable, AnyOf

\* A sum is a number, and the first element plus the rest.
LEMMA SumEquation ==
  ASSUME NEW S, IsFiniteSet(S), NEW g, \A x \in S : g[x] \in Nat
  PROVE  \A T \in SUBSET S :
           /\ SumFunctionOnSet(g, T) \in Nat
           /\ SumFunctionOnSet(g, T) =
                IF T = {} THEN 0
                ELSE g[AnyOf(T)]
                     + SumFunctionOnSet(g, T \ {AnyOf(T)})
<1> DEFINE sum(T) == SumFunctionOnSet(g, T)
<1>1. \A T : T # {} => AnyOf(T) \in T
  BY DEF AnyOf
<1>2. ASSUME NEW T \in SUBSET S
      PROVE  \E f : IsSumTable(f, g, T) /\ sum(T) = f[T]
  <2>1. IsFiniteSet(T)
    BY FS_Subset
  <2>2. \A x \in T : g[x] \in Nat
    OBVIOUS
  <2> QED BY <2>1, <2>2, SumUnfolds
<1> HIDE DEF sum
<1>3. ASSUME NEW T \in SUBSET S, NEW U \in SUBSET T, NEW f, NEW h,
             IsSumTable(f, g, T), IsSumTable(h, g, U)
      PROVE  f[U] = h[U]
  <2> DEFINE same == {s \in SUBSET U : f[s] = h[s]}
  <2>1. IsFiniteSet(U)
    BY FS_Subset
  <2>2. ASSUME NEW s \in SUBSET U, \A u \in SUBSET s : u # s => u \in same
        PROVE  f[s] = h[s]
    <3>1. f[s] = IF s = {} THEN 0 ELSE g[AnyOf(s)] + f[s \ {AnyOf(s)}]
      BY <1>3 DEF IsSumTable
    <3>2. h[s] = IF s = {} THEN 0 ELSE g[AnyOf(s)] + h[s \ {AnyOf(s)}]
      BY <1>3 DEF IsSumTable
    <3>3. s # {} => s \ {AnyOf(s)} \in same
      BY <1>1, <2>2
    <3> QED BY <3>1, <3>2, <3>3
  <2>3. \A s \in SUBSET U : (\A u \in SUBSET s : u # s => u \in same) => s \in same
    BY <2>2
  <2> HIDE DEF same
  <2>4. \A s \in SUBSET U : s \in same
    BY <2>1, <2>3, SetInduction
  <2> QED BY <2>4 DEF same
<1>4. ASSUME NEW T \in SUBSET S
      PROVE  /\ sum(T) \in Nat
             /\ sum(T) = IF T = {} THEN 0 ELSE g[AnyOf(T)] + sum(T \ {AnyOf(T)})
  <2>1. PICK f : IsSumTable(f, g, T) /\ sum(T) = f[T]
    BY <1>2
  <2>2. CASE T = {}
    BY <2>1, <2>2 DEF IsSumTable
  <2>3. CASE T # {}
    <3> DEFINE U == T \ {AnyOf(T)}
    <3>1. PICK h : IsSumTable(h, g, U) /\ sum(U) = h[U]
      BY <1>2
    <3>2. U \in SUBSET T
      OBVIOUS
    <3>3. f[U] = h[U]
      <4> HIDE DEF U
      <4> QED BY <1>3, <2>1, <3>1, <3>2
    <3>4. f[T] = g[AnyOf(T)] + f[U]
      BY <2>1, <2>3 DEF IsSumTable
    <3>5. f[T] \in Nat
      BY <2>1 DEF IsSumTable
    <3> QED BY <2>1, <2>3, <3>1, <3>3, <3>4, <3>5
  <2> QED BY <2>2, <2>3
<1> QED BY <1>4 DEF sum

\* A sum is any of its elements plus the rest, not only the one taken first.
LEMMA SumSplits ==
  ASSUME NEW S, IsFiniteSet(S), NEW g, \A x \in S : g[x] \in Nat, NEW x \in S
  PROVE  SumFunctionOnSet(g, S) = g[x] + SumFunctionOnSet(g, S \ {x})
<1> DEFINE sum(T) == SumFunctionOnSet(g, T)
           good == {T \in SUBSET S : \A y \in T : sum(T) = g[y] + sum(T \ {y})}
<1>1. \A T : T # {} => AnyOf(T) \in T
  BY DEF AnyOf
<1>2. ASSUME NEW T \in SUBSET S
      PROVE  /\ sum(T) \in Nat
             /\ T # {} => sum(T) = g[AnyOf(T)] + sum(T \ {AnyOf(T)})
  BY SumEquation
<1> HIDE DEF sum
<1>3. ASSUME NEW T \in SUBSET S, \A U \in SUBSET T : U # T => U \in good, NEW y \in T
      PROVE  sum(T) = g[y] + sum(T \ {y})
  <2> DEFINE z == AnyOf(T)
  <2>1. z \in T
    BY <1>1
  <2>2. sum(T) = g[z] + sum(T \ {z})
    BY <1>2
  <2>3. CASE y = z
    BY <2>2, <2>3
  <2>4. CASE y # z
    <3> HIDE DEF z
    <3>1. sum(T \ {z}) = g[y] + sum((T \ {z}) \ {y})
      BY <1>3, <2>1, <2>4
    <3>2. sum(T \ {y}) = g[z] + sum((T \ {y}) \ {z})
      BY <1>3, <2>1, <2>4
    <3>3. (T \ {z}) \ {y} = (T \ {y}) \ {z}
      OBVIOUS
    <3>4. sum((T \ {y}) \ {z}) \in Nat
      BY <1>2
    <3>5. g[y] \in Nat /\ g[z] \in Nat
      BY <2>1
    <3> QED BY <2>2, <3>1, <3>2, <3>3, <3>4, <3>5
  <2> QED BY <2>3, <2>4
<1>4. \A T \in SUBSET S : (\A U \in SUBSET T : U # T => U \in good) => T \in good
  BY <1>3
<1>5. S \in good
  <2> HIDE DEF good
  <2> QED BY <1>4, SetInduction
<1> QED BY <1>5 DEF sum

\* A sum grows with its terms ...
LEMMA SumMonotone ==
  ASSUME NEW S, IsFiniteSet(S), NEW g, \A x \in S : g[x] \in Nat,
         NEW h, \A x \in S : h[x] \in Nat, \A x \in S : g[x] <= h[x]
  PROVE  SumFunctionOnSet(g, S) <= SumFunctionOnSet(h, S)
<1> DEFINE G(T) == SumFunctionOnSet(g, T)
           H(T) == SumFunctionOnSet(h, T)
           good == {T \in SUBSET S : G(T) <= H(T)}
<1>1. ASSUME NEW T \in SUBSET S
      PROVE  G(T) \in Nat /\ H(T) \in Nat /\ (T = {} => G(T) = 0 /\ H(T) = 0)
  <2>1. G(T) \in Nat /\ (T = {} => G(T) = 0)
    BY SumEquation
  <2>2. H(T) \in Nat /\ (T = {} => H(T) = 0)
    BY SumEquation
  <2> QED BY <2>1, <2>2
<1>2. ASSUME NEW T \in SUBSET S, \A U \in SUBSET T : U # T => U \in good
      PROVE  G(T) <= H(T)
  <2>1. CASE T = {}
    BY <1>1, <2>1
  <2>2. CASE T # {}
    <3>1. PICK x \in T : TRUE
      BY <2>2
    <3>2. IsFiniteSet(T)
      BY FS_Subset
    <3>3. G(T) = g[x] + G(T \ {x}) /\ H(T) = h[x] + H(T \ {x})
      BY <3>2, SumSplits
    <3> HIDE DEF G, H
    <3>4. G(T \ {x}) <= H(T \ {x})
      BY <1>2, <3>1
    <3>5. g[x] \in Nat /\ h[x] \in Nat /\ g[x] <= h[x]
      BY <3>1
    <3>6. G(T \ {x}) \in Nat /\ H(T \ {x}) \in Nat
      BY <1>1
    <3> QED BY <3>3, <3>4, <3>5, <3>6
  <2> QED BY <2>1, <2>2
<1> HIDE DEF G, H
<1>3. \A T \in SUBSET S : (\A U \in SUBSET T : U # T => U \in good) => T \in good
  BY <1>2
<1>4. S \in good
  <2> HIDE DEF good
  <2> QED BY <1>3, SetInduction
<1> QED BY <1>4 DEF G, H

\* ... and strictly when one of them does.
LEMMA SumGrows ==
  ASSUME NEW S, IsFiniteSet(S), NEW g, \A x \in S : g[x] \in Nat,
         NEW h, \A x \in S : h[x] \in Nat, \A x \in S : g[x] <= h[x],
         NEW y \in S, g[y] < h[y]
  PROVE  SumFunctionOnSet(g, S) < SumFunctionOnSet(h, S)
<1>1. IsFiniteSet(S \ {y})
  BY FS_Subset
<1>2. SumFunctionOnSet(g, S \ {y}) <= SumFunctionOnSet(h, S \ {y})
  BY <1>1, SumMonotone
<1>3. SumFunctionOnSet(g, S) = g[y] + SumFunctionOnSet(g, S \ {y})
  BY SumSplits
<1>4. SumFunctionOnSet(h, S) = h[y] + SumFunctionOnSet(h, S \ {y})
  BY SumSplits
<1>5. SumFunctionOnSet(g, S \ {y}) \in Nat /\ SumFunctionOnSet(h, S \ {y}) \in Nat
  BY SumEquation
<1>6. g[y] \in Nat /\ h[y] \in Nat
  OBVIOUS
<1> QED BY <1>2, <1>3, <1>4, <1>5, <1>6

\* Equal terms have equal sums ...
LEMMA SumOfEquals ==
  ASSUME NEW S, IsFiniteSet(S), NEW g, \A x \in S : g[x] \in Nat,
         NEW h, \A x \in S : h[x] = g[x]
  PROVE  SumFunctionOnSet(h, S) = SumFunctionOnSet(g, S)
<1>1. \A x \in S : h[x] \in Nat /\ h[x] <= g[x] /\ g[x] <= h[x]
  OBVIOUS
<1>2. SumFunctionOnSet(h, S) <= SumFunctionOnSet(g, S)
  BY <1>1, SumMonotone
<1>3. SumFunctionOnSet(g, S) <= SumFunctionOnSet(h, S)
  BY <1>1, SumMonotone
<1>4. SumFunctionOnSet(g, S) \in Nat
  BY SumEquation
<1>5. SumFunctionOnSet(h, S) \in Nat
  BY <1>1, SumEquation
<1> QED BY <1>2, <1>3, <1>4, <1>5

\* ... terms of 0 have the sum 0 ...
LEMMA SumOfZeros ==
  ASSUME NEW S, IsFiniteSet(S), NEW g, \A x \in S : g[x] = 0
  PROVE  SumFunctionOnSet(g, S) = 0
<1> DEFINE good == {T \in SUBSET S : SumFunctionOnSet(g, T) = 0}
<1>1. \A x \in S : g[x] \in Nat
  OBVIOUS
<1>2. ASSUME NEW T \in SUBSET S, \A U \in SUBSET T : U # T => U \in good
      PROVE  SumFunctionOnSet(g, T) = 0
  <2>1. SumFunctionOnSet(g, T) =
          IF T = {} THEN 0 ELSE g[AnyOf(T)] + SumFunctionOnSet(g, T \ {AnyOf(T)})
    BY <1>1, SumEquation
  <2>2. CASE T # {}
    <3>1. AnyOf(T) \in T
      BY <2>2 DEF AnyOf
    <3>2. SumFunctionOnSet(g, T \ {AnyOf(T)}) = 0 /\ g[AnyOf(T)] = 0
      BY <1>2, <3>1
    <3> QED BY <2>1, <2>2, <3>2
  <2> QED BY <2>1, <2>2
<1>3. \A T \in SUBSET S : (\A U \in SUBSET T : U # T => U \in good) => T \in good
  BY <1>2
<1>4. S \in good
  <2> HIDE DEF good
  <2> QED BY <1>3, SetInduction
<1> QED BY <1>4

\* ... and a sum changes by what one of its terms does, when no other does.
LEMMA SumChangesAt ==
  ASSUME NEW S, IsFiniteSet(S), NEW g, \A x \in S : g[x] \in Nat, NEW y \in S,
         NEW h, h[y] \in Nat, \A x \in S \ {y} : h[x] = g[x]
  PROVE  /\ SumFunctionOnSet(g, S) \in Nat /\ SumFunctionOnSet(h, S) \in Nat
         /\ SumFunctionOnSet(h, S) + g[y] = SumFunctionOnSet(g, S) + h[y]
<1>1. \A x \in S : h[x] \in Nat
  OBVIOUS
<1>2. IsFiniteSet(S \ {y})
  BY FS_Subset
<1>3. SumFunctionOnSet(h, S \ {y}) = SumFunctionOnSet(g, S \ {y})
  BY <1>2, SumOfEquals
<1>4. SumFunctionOnSet(g, S) = g[y] + SumFunctionOnSet(g, S \ {y})
  BY SumSplits
<1>5. SumFunctionOnSet(h, S) = h[y] + SumFunctionOnSet(h, S \ {y})
  BY <1>1, SumSplits
<1>6. SumFunctionOnSet(g, S \ {y}) \in Nat
  BY SumEquation
<1>7. g[y] \in Nat
  OBVIOUS
<1> QED BY <1>3, <1>4, <1>5, <1>6, <1>7

\* For one, it grows by one when that term does.
LEMMA SumGrowsByOne ==
  ASSUME NEW S, IsFiniteSet(S), NEW g, \A x \in S : g[x] \in Nat, NEW y \in S,
         NEW h, h[y] = g[y] + 1, \A x \in S \ {y} : h[x] = g[x]
  PROVE  SumFunctionOnSet(h, S) = SumFunctionOnSet(g, S) + 1
<1>1. g[y] \in Nat /\ h[y] \in Nat
  OBVIOUS
<1>2. /\ SumFunctionOnSet(g, S) \in Nat /\ SumFunctionOnSet(h, S) \in Nat
      /\ SumFunctionOnSet(h, S) + g[y] = SumFunctionOnSet(g, S) + h[y]
  BY <1>1, SumChangesAt
<1> QED BY <1>1, <1>2

\* The elements of P up to n; counting them is counting up to P itself.
Below(P, n) == {i \in P : i <= n}

\* Going on to n + 1 counts one more just when it is in P.
LEMMA CountStep ==
  ASSUME NEW m \in Nat, NEW P \in SUBSET (1..m), NEW n \in 0..(m - 1)
  PROVE  /\ Cardinality(Below(P, n)) \in Nat
         /\ n + 1 \in P => Cardinality(Below(P, n + 1)) = Cardinality(Below(P, n)) + 1
         /\ n + 1 \notin P => Cardinality(Below(P, n + 1)) = Cardinality(Below(P, n))
<1>1. IsFiniteSet(Below(P, n))
  <2>1. IsFiniteSet(1..m) BY FS_Interval
  <2>2. Below(P, n) \in SUBSET (1..m) BY DEF Below
  <2> QED BY <2>1, <2>2, FS_Subset
<1>2. Cardinality(Below(P, n)) \in Nat
  BY <1>1, FS_CardinalityType
<1>3. \A i \in P : i <= n + 1 <=> i <= n \/ i = n + 1
  OBVIOUS
<1>4. CASE n + 1 \in P
  <2>1. Below(P, n + 1) = Below(P, n) \cup {n + 1} /\ n + 1 \notin Below(P, n)
    <3>1. \A i : i \in Below(P, n + 1) <=> i \in Below(P, n) \/ i = n + 1
      BY <1>3, <1>4 DEF Below
    <3>2. n + 1 \notin Below(P, n)
      BY DEF Below
    <3> QED BY <3>1, <3>2
  <2>2. Cardinality(Below(P, n) \cup {n + 1}) = Cardinality(Below(P, n)) + 1
    BY <1>1, <2>1, FS_AddElement
  <2> QED BY <1>2, <1>4, <2>1, <2>2
<1>5. CASE n + 1 \notin P
  <2>1. Below(P, n + 1) = Below(P, n)
    BY <1>3, <1>5 DEF Below
  <2> QED BY <1>2, <1>5, <2>1
<1> QED BY <1>4, <1>5
=============================================================================
