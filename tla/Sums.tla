-------------------------------- MODULE Sums --------------------------------
(***************************************************************************)
(* Laws of a sum over a finite set, for the theorems that no step creates  *)
(* or loses money.                                                         *)
(*                                                                         *)
(* The library defines a sum by recursion over the subsets of a set, always*)
(* taking the element CHOOSE gives.  The laws say that the order does not  *)
(* matter: any element may be taken out first.                             *)
(***************************************************************************)
EXTENDS Integers, FiniteSets, Functions, FiniteSetTheorems, TLAPS

\* A property of sets (the set P of those that have it) that every nonempty
\* subset of S inherits from one with an element less holds of all of them.
LEMMA SubsetInduction ==
  ASSUME NEW S, IsFiniteSet(S), NEW P, {} \in P,
         \A T \in SUBSET S : T # {} => \E x \in T : T \ {x} \in P => T \in P
  PROVE  SUBSET S \subseteq P
<1> SUFFICES ASSUME (SUBSET S) \ P # {} PROVE FALSE
  OBVIOUS
<1>1. \A T \in SUBSET S : IsFiniteSet(T)
  BY FS_Subset
<1>2. (SUBSET S) \ P \subseteq FiniteSubsetsOf(S)
  BY <1>1 DEF FiniteSubsetsOf
<1>3. \E T \in (SUBSET S) \ P : \A U \in (SUBSET S) \ P : <<U, T>> \notin StrictSubsetOrdering(S)
  BY <1>2, FS_StrictSubsetOrderingWellFounded, WFMin, Zenon
<1>4. PICK T \in (SUBSET S) \ P : \A U \in (SUBSET S) \ P : <<U, T>> \notin StrictSubsetOrdering(S)
  BY <1>3, Zenon
<1>5. PICK x \in T : T \ {x} \in P => T \in P
  BY <1>4, Zenon
<1>6. T \ {x} \in (SUBSET S) \ P
  BY <1>4, <1>5
<1>7. <<T \ {x}, T>> \in StrictSubsetOrdering(S)
  BY <1>4, <1>5 DEF StrictSubsetOrdering
<1> QED BY <1>4, <1>6, <1>7, Zenon
-----------------------------------------------------------------------------
\* g gives the sum of f over every subset of S, whichever element goes first.
IsSum(g, f, S) ==
  /\ g \in [SUBSET S -> Int] /\ g[{}] = 0
  /\ \A T \in SUBSET S : \A x \in T : g[T] = f[x] + g[T \ {x}]

\* Every finite set has such a function.
LEMMA SumExists ==
  ASSUME NEW S, IsFiniteSet(S), NEW f, \A x \in S : f[x] \in Int
  PROVE  \E g : IsSum(g, f, S)
<1> DEFINE P == {T \in SUBSET S : \E g : IsSum(g, f, T)}
<1>1. {} \in P
  <2>1. IsSum([T \in {{}} |-> 0], f, {})
    BY DEF IsSum
  <2> QED BY <2>1
<1>2. ASSUME NEW T \in SUBSET S, NEW x \in T, NEW g, IsSum(g, f, T \ {x})
      PROVE  \E h : IsSum(h, f, T)
  <2> DEFINE h == [U \in SUBSET T |-> IF x \in U THEN f[x] + g[U \ {x}] ELSE g[U]]
  <2>1. \A U \in SUBSET T : U \ {x} \in SUBSET (T \ {x}) /\ (x \notin U => U \in SUBSET (T \ {x}))
    OBVIOUS
  <2>2. f[x] \in Int /\ g \in [SUBSET (T \ {x}) -> Int] /\ g[{}] = 0
    BY <1>2 DEF IsSum
  <2>3. h \in [SUBSET T -> Int] /\ h[{}] = 0
    BY <2>1, <2>2
  <2>4. ASSUME NEW U \in SUBSET T, NEW y \in U PROVE h[U] = f[y] + h[U \ {y}]
    <3>1. U \ {y} \in SUBSET T /\ f[y] \in Int
      OBVIOUS
    <3>2. CASE y = x
      BY <2>1, <3>1, <3>2
    <3>3. CASE y # x /\ x \notin U
      <4>1. g[U] = f[y] + g[U \ {y}]
        BY <1>2, <2>1, <3>3 DEF IsSum
      <4> QED BY <3>1, <3>3, <4>1
    <3>4. CASE y # x /\ x \in U
      <4>1. (U \ {x}) \ {y} = (U \ {y}) \ {x}
        BY Zenon
      <4>2. g[U \ {x}] = f[y] + g[(U \ {y}) \ {x}]
        <5>1. g[U \ {x}] = f[y] + g[(U \ {x}) \ {y}]
          BY <1>2, <2>1, <3>4 DEF IsSum
        <5> QED BY <4>1, <5>1, Zenon
      <4>3. g[(U \ {y}) \ {x}] \in Int
        BY <2>1, <2>2, <3>1
      <4>4. h[U] = f[x] + g[U \ {x}]
        BY <3>4
      <4>5. x \in U \ {y}
        BY <3>4
      <4>6. h[U \ {y}] = f[x] + g[(U \ {y}) \ {x}]
        BY <3>1, <4>5
      <4> DEFINE a == f[x]  b == f[y]  c == g[(U \ {y}) \ {x}]
      <4>7. a \in Int /\ b \in Int /\ c \in Int
        BY <2>2, <3>1, <4>3
      <4>8. h[U] = a + (b + c) /\ h[U \ {y}] = a + c
        BY <4>2, <4>4, <4>6
      <4> HIDE DEF a, c
      <4>9. a + (b + c) = b + (a + c)
        BY <4>7
      <4> HIDE DEF b
      <4>10. h[U] = b + h[U \ {y}]
        BY <4>8, <4>9, Zenon
      <4> QED BY <4>10 DEF b
    <3> QED BY <3>2, <3>3, <3>4, Zenon
  <2> HIDE DEF h
  <2> QED BY <2>3, <2>4 DEF IsSum
<1>3. \A T \in SUBSET S : T # {} => \E x \in T : T \ {x} \in P => T \in P
  BY <1>2
<1>4. SUBSET S \subseteq P
  <2> HIDE DEF P
  <2> QED BY <1>1, <1>3, SubsetInduction, Zenon
<1> QED BY <1>4

\* The library's sum is that function.
LEMMA SumIs ==
  ASSUME NEW S, IsFiniteSet(S), NEW f, \A x \in S : f[x] \in Int, NEW g, IsSum(g, f, S)
  PROVE  SumFunctionOnSet(f, S) = g[S]
<1> DEFINE Takes(i) == i = [T \in SUBSET S |-> IF T = {} THEN 0
                             ELSE f[CHOOSE x \in T : TRUE] + i[T \ {CHOOSE x \in T : TRUE}]]
           iter == CHOOSE i : Takes(i)
<1>1. SumFunctionOnSet(f, S) = iter[S]
  BY DEF SumFunctionOnSet, FoldFunctionOnSet, MapThenFoldSet
<1>2. Takes(g)
  <2>1. \A T \in SUBSET S : T # {} => (CHOOSE x \in T : TRUE) \in T
    BY Zenon
  <2>2. \A T \in SUBSET S : g[T] = IF T = {} THEN 0
          ELSE f[CHOOSE x \in T : TRUE] + g[T \ {CHOOSE x \in T : TRUE}]
    BY <2>1, Zenon DEF IsSum
  <2>3. g = [T \in SUBSET S |-> g[T]]
    BY DEF IsSum
  <2> QED BY <2>2, <2>3
<1>3. Takes(iter)
  <2> HIDE DEF Takes
  <2> QED BY <1>2, Zenon
<1> DEFINE P == {T \in SUBSET S : iter[T] = g[T]}
<1> HIDE DEF iter
<1>4. {} \in P
  BY <1>3 DEF IsSum
<1>5. ASSUME NEW T \in SUBSET S, T # {} PROVE \E x \in T : T \ {x} \in P => T \in P
  <2> DEFINE c == CHOOSE x \in T : TRUE
  <2>1. c \in T
    BY <1>5
  <2>2. iter[T] = f[c] + iter[T \ {c}]
    BY <1>3, <1>5
  <2> HIDE DEF c
  <2>3. g[T] = f[c] + g[T \ {c}]
    BY <2>1 DEF IsSum
  <2> QED BY <2>1, <2>2, <2>3
<1>6. SUBSET S \subseteq P
  <2> HIDE DEF P
  <2> QED BY <1>4, <1>5, SubsetInduction, Zenon
<1> QED BY <1>1, <1>6

\* The laws: nothing sums to zero, and any element may be taken out.
LEMMA SumLaws ==
  ASSUME NEW S, IsFiniteSet(S), NEW f, \A x \in S : f[x] \in Int
  PROVE  /\ SumFunctionOnSet(f, {}) = 0
         /\ SumFunctionOnSet(f, S) \in Int
         /\ \A x \in S : SumFunctionOnSet(f, S) = f[x] + SumFunctionOnSet(f, S \ {x})
<1>1. PICK g : IsSum(g, f, S)
  BY SumExists
<1>2. ASSUME NEW T \in SUBSET S PROVE SumFunctionOnSet(f, T) = g[T]
  <2> DEFINE h == [U \in SUBSET T |-> g[U]]
  <2>1. \A U \in SUBSET T : h[U] = g[U] /\ U \in SUBSET S /\ \A x \in U : U \ {x} \in SUBSET T
    OBVIOUS
  <2>2. h \in [SUBSET T -> Int] /\ h[{}] = 0
    BY <1>1, <2>1 DEF IsSum
  <2> HIDE DEF h
  <2>3. \A U \in SUBSET T : \A x \in U : h[U] = f[x] + h[U \ {x}]
    BY <1>1, <2>1 DEF IsSum
  <2>4. IsSum(h, f, T)
    BY <2>2, <2>3 DEF IsSum
  <2>5. IsFiniteSet(T) /\ \A x \in T : f[x] \in Int
    BY FS_Subset
  <2> QED BY <2>1, <2>4, <2>5, SumIs
<1>3. g[{}] = 0 /\ g[S] \in Int /\ \A x \in S : g[S] = f[x] + g[S \ {x}]
  BY <1>1 DEF IsSum
<1> QED BY <1>2, <1>3, Zenon

\* Functions that agree on S have one sum over it.
LEMMA SumSame ==
  ASSUME NEW S, IsFiniteSet(S), NEW f, NEW g, \A x \in S : f[x] \in Int /\ g[x] = f[x]
  PROVE  SumFunctionOnSet(g, S) = SumFunctionOnSet(f, S)
<1>1. PICK h : IsSum(h, f, S)
  BY SumExists
<1>2. IsSum(h, g, S)
  BY <1>1 DEF IsSum
<1>3. \A x \in S : f[x] \in Int /\ g[x] \in Int
  OBVIOUS
<1> QED BY <1>1, <1>2, <1>3, SumIs

\* Zeros sum to zero.
LEMMA SumZero ==
  ASSUME NEW S, IsFiniteSet(S), NEW f, \A x \in S : f[x] = 0
  PROVE  SumFunctionOnSet(f, S) = 0
<1>1. IsSum([T \in SUBSET S |-> 0], f, S)
  BY DEF IsSum
<1> QED BY <1>1, SumIs

\* A change at one element changes the sum by as much.
LEMMA SumUpdate ==
  ASSUME NEW S, IsFiniteSet(S), NEW f, NEW g, \A x \in S : f[x] \in Int /\ g[x] \in Int,
         NEW y \in S, \A x \in S \ {y} : g[x] = f[x]
  PROVE  SumFunctionOnSet(g, S) = SumFunctionOnSet(f, S) + g[y] - f[y]
<1>1. IsFiniteSet(S \ {y})
  BY FS_RemoveElement
<1>2. SumFunctionOnSet(g, S \ {y}) = SumFunctionOnSet(f, S \ {y})
  BY <1>1, SumSame
<1>3. SumFunctionOnSet(f, S \ {y}) \in Int
  BY <1>1, SumLaws
<1>4. SumFunctionOnSet(f, S) = f[y] + SumFunctionOnSet(f, S \ {y})
  BY SumLaws
<1>5. SumFunctionOnSet(g, S) = g[y] + SumFunctionOnSet(g, S \ {y})
  BY SumLaws
<1> QED BY <1>2, <1>3, <1>4, <1>5
=============================================================================
