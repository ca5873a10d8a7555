--------------------------------- MODULE Sums ---------------------------------
(***************************************************************************)
(* What SumFunctionOnSet of module Functions, a fold that picks the        *)
(* elements of a set one by one in no particular order, is for integers.   *)
(*                                                                         *)
(* The induction theorems of the library take a predicate; here the        *)
(* predicate is a set: the strict subsets of a finite set are well-founded, *)
(* hence a set of subsets that holds every subset whose own strict subsets *)
(* it holds has them all.                                                  *)
(***************************************************************************)
EXTENDS Integers, FiniteSets, Functions, FiniteSetTheorems, WellFoundedInduction, TLAPS

LEMMA SubsetInduction ==
    ASSUME NEW S, IsFiniteSet(S), NEW Good,
           \A T \in SUBSET S : (\A U \in SUBSET T : U # T => U \in Good) => T \in Good
    PROVE  \A T \in SUBSET S : T \in Good
<1> DEFINE Bad == {T \in SUBSET S : T \notin Good}
<1> SUFFICES ASSUME Bad # {} PROVE FALSE
  OBVIOUS
<1>1. /\ FiniteSubsetsOf(S) = SUBSET S
      /\ IsWellFoundedOn(StrictSubsetOrdering(S), FiniteSubsetsOf(S))
  BY FS_FiniteSubsetsOfFinite, FS_StrictSubsetOrderingWellFounded
<1>2. PICK T \in Bad : \A U \in Bad : <<U, T>> \notin StrictSubsetOrdering(S)
  <2>1. Bad \subseteq SUBSET S
    OBVIOUS
  <2> HIDE DEF Bad
  <2> QED
    BY <1>1, <2>1, WFMin
<1>3. ASSUME NEW U \in SUBSET T, U # T PROVE U \in Good
  <2>1. <<U, T>> \in StrictSubsetOrdering(S) /\ U \in SUBSET S
    BY <1>2, <1>3 DEF StrictSubsetOrdering
  <2> QED
    BY <1>2, <2>1
<1> QED
  BY <1>2, <1>3

-----------------------------------------------------------------------------
(* The fold: the sum over s from the sums over its subsets.                *)
Pick(s) == CHOOSE x \in s : TRUE

OneMore(f, g, s) == IF s = {} THEN 0 ELSE f[Pick(s)] + g[s \ {Pick(s)}]

Sums(f, g, S) == g = [s \in SUBSET S |-> OneMore(f, g, s)]

LEMMA SumUnfold ==
    ASSUME NEW f, NEW S
    PROVE  SumFunctionOnSet(f, S) = (CHOOSE g : Sums(f, g, S))[S]
<1>1. SumFunctionOnSet(f, S) =
        (CHOOSE g : g = [s \in SUBSET S |-> IF s = {} THEN 0
                    ELSE f[CHOOSE x \in s : TRUE] + g[s \ {CHOOSE x \in s : TRUE}]])[S]
  BY Zenon DEF SumFunctionOnSet, FoldFunctionOnSet, MapThenFoldSet
<1> QED
  BY <1>1, Zenon DEF Sums, OneMore, Pick

LEMMA SumsAgree ==
    ASSUME NEW f, NEW g, NEW h, NEW S, NEW R, IsFiniteSet(S), Sums(f, g, S), Sums(f, h, R)
    PROVE  \A T \in SUBSET (S \cap R) : g[T] = h[T]
<1> DEFINE Good == {T \in SUBSET (S \cap R) : g[T] = h[T]}
<1>1. IsFiniteSet(S \cap R)
  BY FS_Subset
<1>2. ASSUME NEW T \in SUBSET (S \cap R), \A U \in SUBSET T : U # T => U \in Good
      PROVE  T \in Good
  <2>1. g[T] = OneMore(f, g, T) /\ h[T] = OneMore(f, h, T)
    BY DEF Sums
  <2>2. T # {} => Pick(T) \in T
    BY DEF Pick
  <2>3. T # {} => g[T \ {Pick(T)}] = h[T \ {Pick(T)}]
    BY <1>2, <2>2
  <2> QED
    BY <2>1, <2>3 DEF OneMore
<1> HIDE DEF Good
<1>3. \A T \in SUBSET (S \cap R) : T \in Good
  BY <1>1, <1>2, SubsetInduction
<1> QED
  BY <1>3 DEF Good

LEMMA SumsExist ==
    ASSUME NEW f, NEW S, IsFiniteSet(S)
    PROVE  \A T \in SUBSET S : \E g : Sums(f, g, T)
<1> DEFINE Good == {T \in SUBSET S : \E g : Sums(f, g, T)}
           W(T) == CHOOSE g : Sums(f, g, T)
<1>1. ASSUME NEW T \in SUBSET S, \A U \in SUBSET T : U # T => U \in Good
      PROVE  T \in Good
  <2> DEFINE V == [s \in SUBSET T |-> IF s # T THEN W(s)[s]
                     ELSE IF T = {} THEN 0 ELSE f[Pick(T)] + W(T \ {Pick(T)})[T \ {Pick(T)}]]
  <2>1. \A U \in SUBSET T : U # T => Sums(f, W(U), U)
    BY <1>1
  <2>2. \A s \in SUBSET T : s # {} => Pick(s) \in s
    BY DEF Pick
  <2> HIDE DEF W
  <2>3. ASSUME NEW s \in SUBSET T PROVE V[s] = OneMore(f, V, s)
    <3> DEFINE r == s \ {Pick(s)}
    <3>1. CASE s = {}
      <4>1. s # T => W(s)[s] = 0
        BY <2>1, <3>1 DEF Sums, OneMore
      <4> QED
        BY <3>1, <4>1 DEF OneMore
    <3>2. CASE s # {}
      <4>1. r \in SUBSET T /\ r # T /\ r \in SUBSET s /\ r # s
        BY <2>2, <3>2
      <4>2. V[r] = W(r)[r]
        BY <4>1
      <4>3. CASE s = T
        BY <3>2, <4>2, <4>3 DEF OneMore
      <4>4. CASE s # T
        <5>1. Sums(f, W(s), s) /\ Sums(f, W(r), r) /\ IsFiniteSet(s)
          BY <2>1, <4>1, <4>4, FS_Subset
        <5>2. s \cap r = r /\ r \in SUBSET (s \cap r)
          OBVIOUS
        <5> HIDE DEF r
        <5>3. W(s)[r] = W(r)[r]
          BY <5>1, <5>2, SumsAgree
        <5>4. W(s)[s] = f[Pick(s)] + W(s)[r]
          BY <5>1, <3>2 DEF Sums, OneMore, r
        <5> QED
          BY <3>2, <4>2, <4>4, <5>3, <5>4 DEF OneMore, r
      <4> QED
        BY <4>3, <4>4
    <3> QED
      BY <3>1, <3>2
  <2>4. V = [s \in SUBSET T |-> V[s]]
    OBVIOUS
  <2> HIDE DEF V
  <2>5. Sums(f, V, T)
    BY <2>3, <2>4 DEF Sums
  <2> QED
    BY <2>5
<1> HIDE DEF Good
<1>2. \A T \in SUBSET S : T \in Good
  BY <1>1, SubsetInduction
<1> QED
  BY <1>2 DEF Good

LEMMA SumPicks ==
    ASSUME NEW f, NEW S, IsFiniteSet(S)
    PROVE  SumFunctionOnSet(f, S) = IF S = {} THEN 0
              ELSE f[Pick(S)] + SumFunctionOnSet(f, S \ {Pick(S)})
<1> DEFINE W(T) == CHOOSE g : Sums(f, g, T)
           r == S \ {Pick(S)}
<1>1. \A T \in SUBSET S : Sums(f, W(T), T)
  BY SumsExist
<1>2. \A T : SumFunctionOnSet(f, T) = W(T)[T]
  BY SumUnfold
<1>3. r \in SUBSET (S \cap r) /\ r \in SUBSET S
  OBVIOUS
<1> HIDE DEF W, r
<1>4. W(S)[r] = W(r)[r]
  BY <1>1, <1>3, SumsAgree
<1>5. W(S)[S] = OneMore(f, W(S), S)
  BY <1>1 DEF Sums
<1> QED
  BY <1>2, <1>4, <1>5 DEF OneMore, r

-----------------------------------------------------------------------------
(* The order the elements are picked in does not matter.                   *)
LEMMA SumRemove ==
    ASSUME NEW D, NEW f \in [D -> Int], NEW S \in SUBSET D, IsFiniteSet(S)
    PROVE  /\ SumFunctionOnSet(f, S) \in Int
           /\ \A x \in S : SumFunctionOnSet(f, S) = f[x] + SumFunctionOnSet(f, S \ {x})
<1> DEFINE Sm(T) == SumFunctionOnSet(f, T)
           Good == {T \in SUBSET S : /\ Sm(T) \in Int
                                     /\ \A x \in T : Sm(T) = f[x] + Sm(T \ {x})}
<1>1. ASSUME NEW T \in SUBSET S, \A U \in SUBSET T : U # T => U \in Good
      PROVE  T \in Good
  <2> DEFINE p == Pick(T)
  <2>1. Sm(T) = IF T = {} THEN 0 ELSE f[p] + Sm(T \ {p})
    BY FS_Subset, SumPicks
  <2>2. CASE T = {}
    BY <2>1, <2>2
  <2>3. CASE T # {}
    <3>1. p \in T
      BY <2>3 DEF Pick
    <3>2. T \ {p} \in Good
      BY <1>1, <3>1
    <3>3. ASSUME NEW x \in T PROVE Sm(T) = f[x] + Sm(T \ {x})
      <4>1. CASE x = p
        BY <2>1, <2>3, <4>1
      <4>2. CASE x # p
        <5>1. T \ {x} \in Good /\ x \in T \ {p} /\ p \in T \ {x}
          BY <1>1, <3>1, <3>3, <4>2
        <5>2. (T \ {x}) \ {p} = (T \ {p}) \ {x} /\ (T \ {p}) \ {x} \in Good
          BY <1>1, <3>1
        <5> HIDE DEF Sm
        <5>3. /\ Sm(T \ {p}) = f[x] + Sm((T \ {p}) \ {x})
              /\ Sm(T \ {x}) = f[p] + Sm((T \ {p}) \ {x})
              /\ Sm((T \ {p}) \ {x}) \in Int /\ f[x] \in Int /\ f[p] \in Int
          BY <3>1, <3>2, <5>1, <5>2
        <5> QED
          BY <2>1, <2>3, <5>3
      <4> QED
        BY <4>1, <4>2
    <3>4. Sm(T) \in Int
      <4> HIDE DEF Sm
      <4>1. f[p] \in Int /\ Sm(T \ {p}) \in Int
        BY <3>1, <3>2
      <4> QED
        BY <2>1, <2>3, <4>1
    <3> QED
      BY <3>3, <3>4
  <2> QED
    BY <2>2, <2>3
<1> HIDE DEF Good
<1>2. S \in Good
  BY <1>1, SubsetInduction
<1> QED
  BY <1>2 DEF Good

LEMMA SumEmpty == ASSUME NEW f PROVE SumFunctionOnSet(f, {}) = 0
BY SumPicks, FS_EmptySet

(* Adding up is linear.                                                    *)
LEMMA SumPlus ==
    ASSUME NEW D, NEW f \in [D -> Int], NEW g \in [D -> Int], NEW S \in SUBSET D,
           IsFiniteSet(S), NEW h \in [D -> Int], \A x \in S : h[x] = f[x] + g[x]
    PROVE  SumFunctionOnSet(h, S) = SumFunctionOnSet(f, S) + SumFunctionOnSet(g, S)
<1> DEFINE Sm(e, T) == SumFunctionOnSet(e, T)
           Good == {T \in SUBSET S : Sm(h, T) = Sm(f, T) + Sm(g, T)}
<1>1. ASSUME NEW T \in SUBSET S, \A U \in SUBSET T : U # T => U \in Good
      PROVE  T \in Good
  <2>1. CASE T = {}
    BY <2>1, SumEmpty
  <2>2. CASE T # {}
    <3>1. PICK x \in T : TRUE
      BY <2>2
    <3>2. T \ {x} \in Good /\ x \in D
      BY <1>1
    <3>3. IsFiniteSet(T) /\ IsFiniteSet(T \ {x}) /\ T \in SUBSET D /\ T \ {x} \in SUBSET D
      BY FS_Subset
    <3>4. /\ Sm(h, T) = h[x] + Sm(h, T \ {x})
          /\ Sm(f, T) = f[x] + Sm(f, T \ {x})
          /\ Sm(g, T) = g[x] + Sm(g, T \ {x})
          /\ Sm(f, T \ {x}) \in Int /\ Sm(g, T \ {x}) \in Int
      BY <3>1, <3>3, SumRemove
    <3>5. Sm(h, T \ {x}) = Sm(f, T \ {x}) + Sm(g, T \ {x})
      BY <3>2
    <3>6. h[x] = f[x] + g[x] /\ f[x] \in Int /\ g[x] \in Int
      BY <3>1, <3>2
    <3> HIDE DEF Sm
    <3> QED
      BY <3>4, <3>5, <3>6
  <2> QED
    BY <2>1, <2>2
<1> HIDE DEF Good
<1>2. S \in Good
  BY <1>1, SubsetInduction
<1> QED
  BY <1>2 DEF Good

LEMMA SumNonnegative ==
    ASSUME NEW D, NEW f \in [D -> Int], NEW S \in SUBSET D, IsFiniteSet(S),
           \A x \in S : 0 <= f[x]
    PROVE  0 <= SumFunctionOnSet(f, S)
<1> DEFINE Sm(T) == SumFunctionOnSet(f, T)
           Good == {T \in SUBSET S : 0 <= Sm(T)}
<1>1. ASSUME NEW T \in SUBSET S, \A U \in SUBSET T : U # T => U \in Good
      PROVE  T \in Good
  <2>1. CASE T = {}
    BY <2>1, SumEmpty
  <2>2. CASE T # {}
    <3>1. PICK x \in T : TRUE
      BY <2>2
    <3>2. 0 <= Sm(T \ {x}) /\ 0 <= f[x] /\ f[x] \in Int
      BY <1>1, <3>1
    <3>3. IsFiniteSet(T) /\ IsFiniteSet(T \ {x}) /\ T \in SUBSET D /\ T \ {x} \in SUBSET D
      BY FS_Subset
    <3>4. Sm(T) = f[x] + Sm(T \ {x}) /\ Sm(T \ {x}) \in Int
      BY <3>1, <3>3, SumRemove
    <3> HIDE DEF Sm
    <3> QED
      BY <3>2, <3>4
  <2> QED
    BY <2>1, <2>2
<1> HIDE DEF Good
<1>2. S \in Good
  BY <1>1, SubsetInduction
<1> QED
  BY <1>2 DEF Good

(* More numbers that are not negative add up to more.                      *)
LEMMA SumMore ==
    ASSUME NEW D, NEW f \in [D -> Int], NEW S \in SUBSET D, IsFiniteSet(S),
           \A x \in S : 0 <= f[x], NEW R \in SUBSET S
    PROVE  SumFunctionOnSet(f, R) <= SumFunctionOnSet(f, S)
<1> DEFINE Sm(T) == SumFunctionOnSet(f, T)
           Good == {T \in SUBSET S : \A U \in SUBSET T : Sm(U) <= Sm(T)}
<1>1. ASSUME NEW T \in SUBSET S, \A U \in SUBSET T : U # T => U \in Good
      PROVE  T \in Good
  <2> SUFFICES ASSUME NEW U \in SUBSET T PROVE Sm(U) <= Sm(T)
    OBVIOUS
  <2>1. \A V \in SUBSET S : IsFiniteSet(V) /\ V \in SUBSET D /\ Sm(V) \in Int
    BY FS_Subset, SumRemove
  <2>2. CASE U # T
    <3>1. PICK x \in T \ U : TRUE
      BY <2>2
    <3>2. T \ {x} \in Good /\ U \in SUBSET (T \ {x})
      BY <1>1, <3>1
    <3>3. Sm(U) <= Sm(T \ {x})
      BY <3>2
    <3>4. Sm(T) = f[x] + Sm(T \ {x}) /\ 0 <= f[x] /\ f[x] \in Int
      BY <2>1, <3>1, SumRemove
    <3>5. Sm(U) \in Int /\ Sm(T \ {x}) \in Int
      BY <2>1
    <3> HIDE DEF Sm
    <3> QED
      BY <3>3, <3>4, <3>5
  <2>3. Sm(T) <= Sm(T)
    <3>1. Sm(T) \in Int
      BY <2>1
    <3> HIDE DEF Sm
    <3> QED
      BY <3>1
  <2> QED
    BY <2>2, <2>3
<1> HIDE DEF Good
<1>2. S \in Good
  BY <1>1, SubsetInduction
<1> QED
  BY <1>2 DEF Good

(* What follows from linearity.                                            *)
LEMMA SumZero ==
    ASSUME NEW D, NEW f \in [D -> Int], NEW S \in SUBSET D, IsFiniteSet(S),
           \A x \in S : f[x] = 0
    PROVE  SumFunctionOnSet(f, S) = 0
<1>1. \A x \in S : f[x] = f[x] + f[x]
  OBVIOUS
<1>2. SumFunctionOnSet(f, S) = SumFunctionOnSet(f, S) + SumFunctionOnSet(f, S)
  BY <1>1, SumPlus
<1>3. PICK n \in Int : n = SumFunctionOnSet(f, S)
  BY SumRemove
<1>4. n <= n + n /\ n + n <= n
  <2>1. n \in Int /\ n + n = n
    BY <1>2, <1>3
  <2> QED
    BY <2>1
<1>5. n = 0
  BY <1>4
<1> QED
  BY <1>3, <1>5

LEMMA SumSame ==
    ASSUME NEW D, NEW f \in [D -> Int], NEW g \in [D -> Int], NEW S \in SUBSET D,
           IsFiniteSet(S), \A x \in S : f[x] = g[x]
    PROVE  SumFunctionOnSet(f, S) = SumFunctionOnSet(g, S)
<1> DEFINE z == [x \in D |-> 0]
<1>1. z \in [D -> Int] /\ \A x \in S : z[x] = 0 /\ f[x] = g[x] + z[x]
  <2>1. \A x \in S : f[x] = g[x] + 0
    OBVIOUS
  <2> QED
    BY <2>1
<1> HIDE DEF z
<1>2. SumFunctionOnSet(z, S) = 0
  BY <1>1, SumZero
<1>3. SumFunctionOnSet(f, S) = SumFunctionOnSet(g, S) + SumFunctionOnSet(z, S)
  BY <1>1, SumPlus
<1>4. SumFunctionOnSet(g, S) \in Int
  BY SumRemove
<1> QED
  BY <1>2, <1>3, <1>4

(* Two sums together are no more than a third where this holds of the      *)
(* numbers added up.                                                       *)
LEMMA SumBound ==
    ASSUME NEW D, NEW f \in [D -> Int], NEW g \in [D -> Int], NEW h \in [D -> Int],
           NEW S \in SUBSET D, IsFiniteSet(S), \A x \in S : f[x] + g[x] <= h[x]
    PROVE  SumFunctionOnSet(f, S) + SumFunctionOnSet(g, S) <= SumFunctionOnSet(h, S)
<1> DEFINE fg == [x \in D |-> f[x] + g[x]]
           rest == [x \in D |-> h[x] - fg[x]]
<1>1. \A x \in D : f[x] \in Int /\ g[x] \in Int /\ h[x] \in Int
  OBVIOUS
<1>2. \A x \in D : fg[x] = f[x] + g[x] /\ fg[x] \in Int
  BY <1>1
<1>3. \A x \in D : rest[x] = h[x] - fg[x]
  OBVIOUS
<1>4. fg \in [D -> Int]
  BY <1>2
<1> HIDE DEF fg
<1>5. \A x \in D : rest[x] \in Int /\ h[x] = fg[x] + rest[x]
  BY <1>1, <1>2, <1>3
<1>6. rest \in [D -> Int]
  BY <1>5
<1> HIDE DEF rest
<1>7. \A x \in S : 0 <= rest[x]
  BY <1>1, <1>2, <1>3
<1>8. /\ SumFunctionOnSet(fg, S) = SumFunctionOnSet(f, S) + SumFunctionOnSet(g, S)
      /\ SumFunctionOnSet(h, S) = SumFunctionOnSet(fg, S) + SumFunctionOnSet(rest, S)
  <2>1. (\A x \in S : fg[x] = f[x] + g[x]) /\ (\A x \in S : h[x] = fg[x] + rest[x])
    BY <1>2, <1>5
  <2>2. SumFunctionOnSet(fg, S) = SumFunctionOnSet(f, S) + SumFunctionOnSet(g, S)
    BY <1>4, <2>1, SumPlus
  <2>3. SumFunctionOnSet(h, S) = SumFunctionOnSet(fg, S) + SumFunctionOnSet(rest, S)
    BY <1>4, <1>6, <2>1, SumPlus
  <2> QED
    BY <2>2, <2>3
<1>9. 0 <= SumFunctionOnSet(rest, S) /\ SumFunctionOnSet(rest, S) \in Int
  BY <1>6, <1>7, SumNonnegative, SumRemove
<1>10. SumFunctionOnSet(fg, S) \in Int
  BY <1>4, SumRemove
<1> QED
  BY <1>8, <1>9, <1>10

(* One of the numbers changes.                                             *)
LEMMA SumChanged ==
    ASSUME NEW D, NEW f \in [D -> Int], NEW g \in [D -> Int], NEW S \in SUBSET D,
           IsFiniteSet(S), NEW t \in S, \A x \in S : x # t => g[x] = f[x]
    PROVE  SumFunctionOnSet(g, S) = SumFunctionOnSet(f, S) + (g[t] - f[t])
<1> DEFINE R == S \ {t}
<1>1. R \in SUBSET D /\ IsFiniteSet(R) /\ (\A x \in R : g[x] = f[x])
  BY FS_Subset
<1>2. /\ SumFunctionOnSet(g, S) = g[t] + SumFunctionOnSet(g, R)
      /\ SumFunctionOnSet(f, S) = f[t] + SumFunctionOnSet(f, R)
  BY SumRemove
<1> HIDE DEF R
<1>3. SumFunctionOnSet(g, R) = SumFunctionOnSet(f, R)
  BY <1>1, SumSame
<1>4. SumFunctionOnSet(f, R) \in Int /\ f[t] \in Int /\ g[t] \in Int
  BY <1>1, SumRemove
<1> QED
  BY <1>2, <1>3, <1>4
=============================================================================
