----------------------------- MODULE DataProofs -----------------------------
(***************************************************************************)
(* Facts that the proofs about data share.  Induction over the naturals    *)
(* and over the subsets of a finite set is stated with a set of what is    *)
(* good in place of a predicate, so that it can be cited.  From it follow  *)
(* that a fold is what its recursive definition says, that Ordered lists a *)
(* set in order, and how sums split, compare and count.                    *)
(***************************************************************************)
EXTENDS Ordering, SequencesExt, FiniteSetTheorems, WellFoundedInduction, TLAPS

\* A set of naturals has a least element.
LEMMA LeastNat ==
  ASSUME NEW B \in SUBSET Nat, B # {}
  PROVE  \E b \in B : \A c \in B : b <= c
<1> DEFINE Less == {pair \in Nat \X Nat : pair[1] < pair[2]}
<1>1. OpToRel(<, Nat) = Less
  BY DEF OpToRel
<1> HIDE DEF Less
<1>2. PICK b \in B : \A c \in B : ~(<<c, b>> \in Less)
  BY <1>1, NatLessThanWellFounded, WFMin
<1>3. \A c \in B : ~(c < b)
  BY <1>2 DEF Less
<1> QED  BY <1>3

\* What holds of 0 and passes from each number to the next holds of every number.
LEMMA NatInductive ==
  ASSUME NEW Good, 0 \in Good, \A n \in Nat : n \in Good => n + 1 \in Good
  PROVE  Nat \subseteq Good
<1> DEFINE Bad == Nat \ Good
<1>1. SUFFICES ASSUME Bad # {}  PROVE FALSE
  OBVIOUS
<1>2. PICK b \in Bad : \A c \in Bad : b <= c
  BY <1>1, LeastNat
<1>3. b - 1 \in Nat /\ b - 1 \notin Bad
  BY <1>2
<1>4. (b - 1) + 1 = b
  BY <1>2
<1> QED  BY <1>2, <1>3, <1>4

\* What holds of the empty set and stays with each element added holds of a finite
\* set.
LEMMA SetInductive ==
  ASSUME NEW S, IsFiniteSet(S), NEW Good, {} \in Good,
         \A T \in SUBSET S : \A x \in S \ T : T \in Good => T \cup {x} \in Good
  PROVE  S \in Good
<1> DEFINE Sized == {n \in Nat : \A T \in SUBSET S : Cardinality(T) = n => T \in Good}
<1>0. \A T \in SUBSET S : IsFiniteSet(T) /\ Cardinality(T) \in Nat
  BY FS_Subset, FS_CardinalityType
<1>1. 0 \in Sized
  BY <1>0, FS_EmptySet
<1>2. ASSUME NEW n \in Nat, n \in Sized  PROVE n + 1 \in Sized
  <2>1. ASSUME NEW T \in SUBSET S, Cardinality(T) = n + 1  PROVE T \in Good
    <3>0. IsFiniteSet(T)
      BY <1>0
    <3>1. T # {}
      <4>1. Cardinality({}) = 0
        BY FS_EmptySet
      <4>2. n + 1 # 0
        OBVIOUS
      <4> QED  BY <2>1, <4>1, <4>2
    <3>2. PICK x \in T : TRUE
      BY <3>1
    <3>3. Cardinality(T \ {x}) = n
      <4>1. Cardinality(T \ {x}) = Cardinality(T) - 1
        BY <3>0, FS_RemoveElement
      <4> QED  BY <2>1, <4>1
    <3>4. T \ {x} \in Good
      BY <1>2, <3>3
    <3>5. (T \ {x}) \cup {x} = T
      OBVIOUS
    <3> QED  BY <3>4, <3>5
  <2> QED  BY <2>1
<1> HIDE DEF Sized
<1>3. Nat \subseteq Sized
  BY <1>1, <1>2, NatInductive
<1> QED  BY <1>0, <1>3 DEF Sized

\* An image of a finite set is finite.
LEMMA ImageFinite ==
  ASSUME NEW S, IsFiniteSet(S), NEW f, DOMAIN f = S
  PROVE  IsFiniteSet({f[x] : x \in S})
<1> DEFINE T == {f[x] : x \in S}
           g == [x \in S |-> f[x]]
<1>1. g \in Surjection(S, T)
  BY DEF Surjection
<1> QED  BY <1>1, FS_Surjection

-----------------------------------------------------------------------------
(* Folds.                                                                  *)

\* g is the fold of step from base, for every subset of S.
IsFold(g, S, base, pick, step) ==
  \A T \in SUBSET S : g[T] = IF T = {} THEN base ELSE step[<<pick[T], g[T \ {pick[T]}]>>]

\* The function that MapThenFoldSet chooses exists, and has values of the type of
\* what is accumulated.
LEMMA FoldExists ==
  ASSUME NEW S, IsFiniteSet(S), NEW Acc, NEW base \in Acc,
         NEW pick, \A T \in SUBSET S : T # {} => pick[T] \in T,
         NEW step, \A x \in S : \A acc \in Acc : step[<<x, acc>>] \in Acc
  PROVE  \E g \in [SUBSET S -> Acc] : IsFold(g, S, base, pick, step)
<1> DEFINE Def(g, T) == IF T = {} THEN base ELSE step[<<pick[T], g[T \ {pick[T]}]>>]
           Upto(n, g) == \A T \in SUBSET S : Cardinality(T) <= n => g[T] = Def(g, T)
           Good == {n \in Nat : \E g \in [SUBSET S -> Acc] : Upto(n, g)}
<1>0. \A T \in SUBSET S : IsFiniteSet(T) /\ Cardinality(T) \in Nat
  BY FS_Subset, FS_CardinalityType
<1>1. 0 \in Good
  <2> DEFINE g == [T \in SUBSET S |-> base]
  <2>1. g \in [SUBSET S -> Acc]
    OBVIOUS
  <2>2. \A T \in SUBSET S : Cardinality(T) <= 0 => T = {}
    BY <1>0, FS_EmptySet
  <2>3. Upto(0, g)
    BY <2>2
  <2> QED  BY <2>1, <2>3
<1>2. ASSUME NEW n \in Nat, n \in Good  PROVE n + 1 \in Good
  <2>1. PICK g \in [SUBSET S -> Acc] : Upto(n, g)
    BY <1>2
  <2> DEFINE f == [T \in SUBSET S |-> Def(g, T)]
  <2>2. f \in [SUBSET S -> Acc]
    <3>1. ASSUME NEW T \in SUBSET S, T # {}  PROVE Def(g, T) \in Acc
      <4>1. pick[T] \in S /\ T \ {pick[T]} \in SUBSET S
        BY <3>1
      <4>2. g[T \ {pick[T]}] \in Acc
        BY <4>1
      <4> QED  BY <3>1, <4>1, <4>2
    <3>2. \A T \in SUBSET S : Def(g, T) \in Acc
      BY <3>1
    <3> HIDE DEF Def
    <3> QED  BY <3>2
  <2>3. ASSUME NEW T \in SUBSET S, Cardinality(T) <= n + 1  PROVE f[T] = Def(f, T)
    <3>1. CASE T = {}
      BY <3>1
    <3>2. CASE T # {}
      <4> DEFINE U == T \ {pick[T]}
      <4>1. pick[T] \in T
        BY <3>2
      <4>2. U \in SUBSET S /\ Cardinality(U) <= n
        BY <1>0, <2>3, <4>1, FS_RemoveElement
      <4>3. g[U] = Def(g, U)
        <5> HIDE DEF U, Def
        <5> QED  BY <2>1, <4>2
      <4>4. f[U] = g[U]
        <5> HIDE DEF U, Def
        <5> QED  BY <4>2, <4>3
      <4> QED  BY <3>2, <4>4
    <3> QED  BY <3>1, <3>2
  <2>4. Upto(n + 1, f)
    <3> HIDE DEF f, Def
    <3> QED  BY <2>3
  <2> HIDE DEF f, Upto
  <2> QED  BY <2>2, <2>4
<1> HIDE DEF Good
<1>3. Nat \subseteq Good
  BY <1>1, <1>2, NatInductive
<1> USE DEF Good
<1>4. PICK g \in [SUBSET S -> Acc] : Upto(Cardinality(S), g)
  BY <1>0, <1>3
<1>5. \A T \in SUBSET S : g[T] = Def(g, T)
  <2>1. \A T \in SUBSET S : Cardinality(T) <= Cardinality(S)
    BY FS_Subset
  <2> HIDE DEF Def
  <2> QED  BY <1>4, <2>1
<1> QED  BY <1>5 DEF IsFold

\* The initial segments that FoldLeft goes through.
LEMMA Segments ==
  /\ 1 .. 0 = {}
  /\ \A n \in Nat : \A i \in 1 .. n : 1 .. i \in SUBSET (1 .. n)
  /\ \A i \in Nat \ {0} : Max(1 .. i) = i /\ (1 .. i) \ {i} = 1 .. (i - 1)
<1>1. ASSUME NEW i \in Nat \ {0}  PROVE Max(1 .. i) = i
  <2>1. i \in 1 .. i /\ \A y \in 1 .. i : i >= y
    OBVIOUS
  <2>2. \A x \in 1 .. i : (\A y \in 1 .. i : x >= y) => x = i
    BY <2>1
  <2> QED  BY <2>1, <2>2 DEF Max
<1> QED  BY <1>1

\* The greatest number of a segment's subset exists.
LEMMA MaxOf ==
  ASSUME NEW n \in Nat, NEW T \in SUBSET (1 .. n), T # {}
  PROVE  Max(T) \in T /\ \A y \in T : Max(T) >= y
<1> DEFINE B == {n - y : y \in T}
<1>1. B \in SUBSET Nat /\ B # {}
  <2>1. \A y \in T : y \in Int /\ y <= n
    OBVIOUS
  <2>2. \A y \in T : n - y \in Nat
    BY <2>1
  <2> QED  BY <2>2
<1>2. PICK b \in B : \A c \in B : b <= c
  BY <1>1, LeastNat
<1>3. PICK x \in T : b = n - x
  BY <1>2
<1>4. \A y \in T : x >= y
  <2>1. \A y \in T : y \in Int
    OBVIOUS
  <2>2. \A y \in T : n - x <= n - y
    BY <1>2, <1>3
  <2> QED  BY <2>1, <2>2
<1> QED  BY <1>4 DEF Max

\* The same from left to right over the positions 1 .. n.
IsFoldLeft(g, n, base, step) ==
  \A T \in SUBSET (1 .. n) : g[T] = IF T = {} THEN base ELSE step[<<Max(T), g[T \ {Max(T)}]>>]

\* The fold from left to right over a sequence of length n, of which step is told
\* the positions.
LEMMA FoldLeftExists ==
  ASSUME NEW n \in Nat, NEW Acc, NEW base \in Acc,
         NEW step, \A i \in 1 .. n : \A acc \in Acc : step[<<i, acc>>] \in Acc
  PROVE  \E g \in [SUBSET (1 .. n) -> Acc] : IsFoldLeft(g, n, base, step)
<1> DEFINE pick == [T \in SUBSET (1 .. n) |-> Max(T)]
<1>1. \A T \in SUBSET (1 .. n) : pick[T] = Max(T)
  OBVIOUS
<1>2. \A T \in SUBSET (1 .. n) : T # {} => pick[T] \in T
  BY <1>1, MaxOf
<1>3. IsFiniteSet(1 .. n)
  BY FS_Interval
<1> HIDE DEF pick
<1>4. PICK g \in [SUBSET (1 .. n) -> Acc] : IsFold(g, 1 .. n, base, pick, step)
  BY <1>2, <1>3, FoldExists
<1> QED  BY <1>1, <1>4 DEF IsFold, IsFoldLeft

-----------------------------------------------------------------------------
(* Ordered.                                                                *)

\* R orders S.
StrictOrder(S, R) ==
  /\ \A x \in S : <<x, x>> \notin R
  /\ \A x \in S : \A y \in S : x # y => <<x, y>> \in R \/ <<y, x>> \in R
  /\ \A x \in S : \A y \in S : \A z \in S : <<x, y>> \in R /\ <<y, z>> \in R => <<x, z>> \in R

\* Ordered with the order as a set of pairs.
Ranked(S, R) ==
  [i \in 1 .. Cardinality(S) |->
     CHOOSE x \in S : Cardinality({y \in S : <<y, x>> \in R}) = i - 1]

\* The sequence Ordered makes of a finite set and a strict total order has every
\* element once, each before those it precedes: the number of elements before one
\* tells the elements apart, so every number below the cardinality is that of one.
LEMMA RankedInOrder ==
  ASSUME NEW S, IsFiniteSet(S), NEW R, StrictOrder(S, R), NEW s, s = Ranked(S, R)
  PROVE  /\ Cardinality(S) \in Nat
         /\ s \in [1 .. Cardinality(S) -> S]
         /\ \A x \in S : \E i \in 1 .. Cardinality(S) : s[i] = x
         /\ \A i \in 1 .. Cardinality(S) : \A j \in 1 .. Cardinality(S) :
              i < j => <<s[i], s[j]>> \in R
<1>s. s = [i \in 1 .. Cardinality(S) |->
            CHOOSE x \in S : Cardinality({y \in S : <<y, x>> \in R}) = i - 1]
  BY DEF Ranked
<1>r. /\ \A x \in S : <<x, x>> \notin R
      /\ \A x \in S : \A y \in S : x # y => <<x, y>> \in R \/ <<y, x>> \in R
      /\ \A x \in S : \A y \in S : \A z \in S : <<x, y>> \in R /\ <<y, z>> \in R => <<x, z>> \in R
  BY DEF StrictOrder
<1> DEFINE n == Cardinality(S)
           Before(x) == {y \in S : <<y, x>> \in R}
           rank == [x \in S |-> Cardinality(Before(x)) + 1]
<1>0. n \in Nat
  BY FS_CardinalityType
<1>1. ASSUME NEW x \in S
      PROVE  /\ IsFiniteSet(Before(x)) /\ Cardinality(Before(x)) \in Nat
             /\ Cardinality(Before(x)) < n
  <2>1. Before(x) \in SUBSET S /\ Before(x) # S
    BY <1>r
  <2> HIDE DEF Before
  <2>2. IsFiniteSet(Before(x)) /\ Cardinality(Before(x)) <= n /\ Cardinality(Before(x)) # n
    BY <2>1, FS_Subset
  <2> QED  BY <1>0, <2>2, FS_CardinalityType
<1>2. ASSUME NEW x \in S, NEW y \in S, <<x, y>> \in R
      PROVE  Cardinality(Before(x)) < Cardinality(Before(y))
  <2>1. Before(x) \in SUBSET Before(y) /\ x \in Before(y) /\ x \notin Before(x)
    BY <1>2, <1>r
  <2> HIDE DEF Before
  <2>2. /\ Cardinality(Before(x)) <= Cardinality(Before(y))
        /\ Cardinality(Before(x)) # Cardinality(Before(y))
    BY <1>1, <2>1, FS_Subset
  <2> QED  BY <1>1, <2>2
<1>a. \A x \in S : rank[x] = Cardinality(Before(x)) + 1
  OBVIOUS
<1>b. DOMAIN rank = S /\ rank = [x \in S |-> rank[x]]
  <2> HIDE DEF Before
  <2> QED  OBVIOUS
<1> HIDE DEF Before, rank, n
<1>3. \A x \in S : rank[x] \in 1 .. n
  BY <1>0, <1>1, <1>a
<1>c. \A x \in S : \A y \in S : <<x, y>> \in R => rank[x] < rank[y]
  BY <1>1, <1>2, <1>a
<1>4. \A x \in S : \A y \in S : rank[x] = rank[y] => x = y
  <2>1. ASSUME NEW x \in S, NEW y \in S, rank[x] = rank[y], x # y  PROVE FALSE
    <3>1. rank[x] \in Int /\ rank[y] \in Int
      BY <1>0, <1>3
    <3>2. rank[x] < rank[y] \/ rank[y] < rank[x]
      BY <1>c, <1>r, <2>1
    <3> QED  BY <2>1, <3>1, <3>2
  <2> QED  BY <2>1
<1>5. rank \in Injection(S, 1 .. n)
  <2>1. rank \in [S -> 1 .. n]
    BY <1>3, <1>b
  <2> QED  BY <1>4, <2>1 DEF Injection, IsInjective
<1>6. IsFiniteSet(1 .. n) /\ Cardinality(1 .. n) = n
  <2>1. IsFiniteSet(1 .. n) /\ Cardinality(1 .. n) = IF 1 > n THEN 0 ELSE n - 1 + 1
    BY <1>0, FS_Interval
  <2> QED  BY <1>0, <2>1
<1>7. rank \in Surjection(S, 1 .. n)
  BY <1>5, <1>6, FS_Injection DEF n
<1>8. \A i \in 1 .. n : \E x \in S : rank[x] = i
  BY <1>7 DEF Surjection
<1>9. ASSUME NEW i \in 1 .. n  PROVE s[i] \in S /\ rank[s[i]] = i
  <2>1. \A x \in S : rank[x] = i <=> Cardinality(Before(x)) = i - 1
    BY <1>0, <1>1, <1>a
  <2>2. s[i] = CHOOSE x \in S : Cardinality(Before(x)) = i - 1
    BY <1>s DEF n, Before
  <2> QED  BY <1>8, <2>1, <2>2
<1>12. s \in [1 .. n -> S]
  <2> DEFINE At(i) == CHOOSE x \in S : Cardinality({y \in S : <<y, x>> \in R}) = i - 1
  <2>1. s = [i \in 1 .. n |-> At(i)]
    BY <1>s DEF n
  <2> HIDE DEF At
  <2> QED  BY <1>9, <2>1
<1>13. \A x \in S : \E i \in 1 .. n : s[i] = x
  <2>1. ASSUME NEW x \in S  PROVE s[rank[x]] = x
    <3>1. rank[x] \in 1 .. n
      BY <1>3
    <3>2. s[rank[x]] \in S /\ rank[s[rank[x]]] = rank[x]
      BY <1>9, <3>1, Zenon
    <3> QED  BY <1>4, <3>2, Zenon
  <2> QED  BY <1>3, <2>1, Zenon
<1>14. ASSUME NEW i \in 1 .. n, NEW j \in 1 .. n, i < j  PROVE <<s[i], s[j]>> \in R
  <2>0. /\ s[i] \in S /\ rank[s[i]] = i /\ i \in Int
        /\ s[j] \in S /\ rank[s[j]] = j /\ j \in Int
    <3>1. i \in Int /\ j \in Int
      BY <1>0
    <3> QED  BY <1>9, <3>1, Zenon
  <2>1. s[i] # s[j]
    BY <1>14, <2>0
  <2>2. ~(<<s[j], s[i]>> \in R)
    <3>1. <<s[j], s[i]>> \in R => rank[s[j]] < rank[s[i]]
      BY <1>c, <2>0, Zenon
    <3>2. rank[s[j]] = j /\ rank[s[i]] = i
      BY <2>0
    <3> QED  BY <1>14, <2>0, <3>1, <3>2
  <2> QED  BY <1>9, <1>r, <2>1, <2>2
<1> QED  BY <1>0, <1>12, <1>13, <1>14 DEF n

-----------------------------------------------------------------------------
(* Sums.                                                                   *)

\* MapThenSumSet with a function in place of an operator.
SumOf(f, S) ==
  (CHOOSE g : g = [T \in SUBSET S |->
     IF T = {} THEN 0
     ELSE f[CHOOSE x \in T : TRUE] + g[T \ {CHOOSE x \in T : TRUE}]])[S]

\* The sum takes out one element after the other.
LEMMA SumStep ==
  ASSUME NEW S, IsFiniteSet(S), NEW f, \A x \in S : f[x] \in Int
  PROVE  /\ SumOf(f, S) \in Int
         /\ SumOf(f, {}) = 0
         /\ \A T \in SUBSET S : T # {} => \E x \in T : SumOf(f, T) = f[x] + SumOf(f, T \ {x})
<1> DEFINE pick(T) == CHOOSE x \in T : TRUE
           Of(g, T) == IF T = {} THEN 0 ELSE f[pick(T)] + g[T \ {pick(T)}]
           Def(g, U) == [T \in SUBSET U |-> Of(g, T)]
           it(U) == CHOOSE g : g = Def(g, U)
<1>1. \A U : SumOf(f, U) = it(U)[U]
  BY DEF SumOf
<1>2. ASSUME NEW U \in SUBSET S  PROVE \E g \in [SUBSET U -> Int] : g = Def(g, U)
  <2> DEFINE step == [pair \in U \X Int |-> f[pair[1]] + pair[2]]
             first == [T \in SUBSET U |-> pick(T)]
  <2>1. \A x \in U : \A acc \in Int : step[<<x, acc>>] = f[x] + acc
    OBVIOUS
  <2>3. \A T \in SUBSET U : first[T] = pick(T)
    OBVIOUS
  <2>4. \A T \in SUBSET U : T # {} => pick(T) \in T
    OBVIOUS
  <2>5. IsFiniteSet(U)
    BY FS_Subset
  <2> HIDE DEF step, first, pick
  <2>2. /\ 0 \in Int
        /\ \A x \in U : \A acc \in Int : step[<<x, acc>>] \in Int
    <3>1. \A x \in U : f[x] \in Int
      OBVIOUS
    <3> QED  BY <2>1, <3>1
  <2>6. \A T \in SUBSET U : T # {} => first[T] \in T
    BY <2>3, <2>4
  <2>7. PICK g \in [SUBSET U -> Int] : IsFold(g, U, 0, first, step)
    BY <2>2, <2>5, <2>6, FoldExists
  <2>8. ASSUME NEW T \in SUBSET U  PROVE g[T] = Of(g, T)
    <3>1. CASE T = {}
      BY <2>7, <3>1 DEF IsFold
    <3>2. CASE T # {}
      <4>1. pick(T) \in U /\ T \ {pick(T)} \in SUBSET U
        BY <2>4, <3>2
      <4>2. g[T \ {pick(T)}] \in Int
        BY <4>1
      <4> QED  BY <2>1, <2>3, <2>7, <3>2, <4>1, <4>2 DEF IsFold
    <3> QED  BY <3>1, <3>2
  <2> HIDE DEF Of
  <2>9. g = Def(g, U)
    BY <2>8
  <2> QED  BY <2>9
<1>3. ASSUME NEW U \in SUBSET S  PROVE it(U) = Def(it(U), U)
  <2> HIDE DEF Def
  <2> QED  BY <1>2
<1>4. \A T \in SUBSET S : T # {} => pick(T) \in T
  OBVIOUS
<1> HIDE DEF it
<1>5. \A U \in SUBSET S : \A T \in SUBSET U : it(U)[T] = Of(it(U), T)
  <2> HIDE DEF Of
  <2> QED  BY <1>3
<1> HIDE DEF Def, pick
<1>6. \A U \in SUBSET S : it(U)[{}] = 0
  BY <1>5
<1>7. \A U \in SUBSET S : \A T \in SUBSET U : T # {} =>
        it(U)[T] = f[pick(T)] + it(U)[T \ {pick(T)}]
  BY <1>5
<1> HIDE DEF Of
<1> DEFINE Agree == {n \in Nat : \A U \in SUBSET S : \A V \in SUBSET U : \A T \in SUBSET V :
                       Cardinality(T) = n => it(U)[T] = it(V)[T] /\ it(U)[T] \in Int}
<1>8. \A T \in SUBSET S : IsFiniteSet(T) /\ Cardinality(T) \in Nat
  BY FS_Subset, FS_CardinalityType
<1>9. 0 \in Agree
  <2>1. \A T \in SUBSET S : Cardinality(T) = 0 => T = {}
    BY <1>8, FS_EmptySet
  <2> QED  BY <1>6, <2>1
<1>10. ASSUME NEW n \in Nat, n \in Agree  PROVE n + 1 \in Agree
  <2>1. ASSUME NEW U \in SUBSET S, NEW V \in SUBSET U, NEW T \in SUBSET V, Cardinality(T) = n + 1
        PROVE  it(U)[T] = it(V)[T] /\ it(U)[T] \in Int
    <3>1. T # {} /\ T \in SUBSET U /\ T \in SUBSET S /\ V \in SUBSET S
      <4>1. n + 1 # 0 /\ Cardinality({}) = 0
        BY FS_EmptySet
      <4> QED  BY <2>1, <4>1
    <3> DEFINE x == pick(T)
               R == T \ {x}
    <3>2. x \in T /\ x \in S /\ R \in SUBSET V
      BY <1>4, <3>1
    <3>3. Cardinality(R) = n
      BY <1>8, <2>1, <3>1, <3>2, FS_RemoveElement
    <3>4. it(U)[T] = f[x] + it(U)[R] /\ it(V)[T] = f[x] + it(V)[R]
      BY <1>7, <3>1
    <3> HIDE DEF x, R
    <3>5. it(U)[R] = it(V)[R] /\ it(U)[R] \in Int
      BY <1>10, <3>2, <3>3
    <3> QED  BY <3>2, <3>4, <3>5
  <2> QED  BY <2>1
<1> HIDE DEF Agree
<1>11. Nat \subseteq Agree
  BY <1>9, <1>10, NatInductive
<1>12. ASSUME NEW U \in SUBSET S, NEW V \in SUBSET U
       PROVE  it(U)[V] = it(V)[V] /\ it(U)[V] \in Int
  <2>1. V \in SUBSET V /\ Cardinality(V) \in Agree
    BY <1>8, <1>11
  <2> QED  BY <2>1 DEF Agree
<1>13. SumOf(f, S) \in Int
  BY <1>1, <1>12
<1>14. SumOf(f, {}) = 0
  BY <1>1, <1>6
<1>15. ASSUME NEW T \in SUBSET S, T # {}
       PROVE  \E x \in T : SumOf(f, T) = f[x] + SumOf(f, T \ {x})
  <2>1. pick(T) \in T
    BY <1>4, <1>15
  <2>2. T \ {pick(T)} \in SUBSET T /\ T \in SUBSET T
    OBVIOUS
  <2>3. it(T)[T] = f[pick(T)] + it(T)[T \ {pick(T)}]
    BY <1>7, <1>15, <2>2
  <2>4. it(T)[T \ {pick(T)}] = it(T \ {pick(T)})[T \ {pick(T)}]
    BY <1>12, <2>2
  <2> QED  BY <1>1, <2>1, <2>3, <2>4
<1> QED  BY <1>13, <1>14, <1>15

\* Which element is taken out does not matter.
LEMMA SumAdd ==
  ASSUME NEW S, IsFiniteSet(S), NEW f, \A x \in S : f[x] \in Int,
         NEW T \in SUBSET S, NEW x \in S \ T
  PROVE  /\ SumOf(f, T) \in Int
         /\ SumOf(f, T \cup {x}) = SumOf(f, T) + f[x]
<1> DEFINE Good == {n \in Nat : \A U \in SUBSET S : \A y \in S \ U :
                      Cardinality(U) = n => SumOf(f, U \cup {y}) = SumOf(f, U) + f[y]}
<1>0. \A U \in SUBSET S : IsFiniteSet(U) /\ Cardinality(U) \in Nat
  BY FS_Subset, FS_CardinalityType
<1>1. \A U \in SUBSET S : SumOf(f, U) \in Int
  BY <1>0, SumStep
<1>2. SumOf(f, {}) = 0
  BY SumStep
<1>3. \A U \in SUBSET S : U # {} => \E y \in U : SumOf(f, U) = f[y] + SumOf(f, U \ {y})
  BY SumStep
<1>4. 0 \in Good
  <2>1. \A U \in SUBSET S : Cardinality(U) = 0 => U = {}
    BY <1>0, FS_EmptySet
  <2>2. \A y \in S : SumOf(f, {y}) = 0 + f[y]
    <3>1. ASSUME NEW y \in S  PROVE SumOf(f, {y}) = f[y] + SumOf(f, {})
      <4>1. {y} \in SUBSET S /\ {y} # {} /\ {y} \ {y} = {}
        OBVIOUS
      <4>2. PICK z \in {y} : SumOf(f, {y}) = f[z] + SumOf(f, {y} \ {z})
        BY <1>3, <4>1
      <4> QED  BY <4>1, <4>2
    <3> QED  BY <1>2, <3>1
  <2>3. \A y \in S : {} \cup {y} = {y}
    OBVIOUS
  <2> QED  BY <1>2, <2>1, <2>2, <2>3
<1>5. ASSUME NEW n \in Nat, n \in Good  PROVE n + 1 \in Good
  <2>1. ASSUME NEW U \in SUBSET S, NEW y \in S \ U, Cardinality(U) = n + 1
        PROVE  SumOf(f, U \cup {y}) = SumOf(f, U) + f[y]
    <3>1. PICK z \in U \cup {y} : SumOf(f, U \cup {y}) = f[z] + SumOf(f, (U \cup {y}) \ {z})
      <4>1. U \cup {y} \in SUBSET S /\ U \cup {y} # {}
        OBVIOUS
      <4> QED  BY <1>3, <4>1
    <3>2. CASE z = y
      <4>1. (U \cup {y}) \ {y} = U
        OBVIOUS
      <4> QED  BY <1>1, <3>1, <3>2, <4>1
    <3>3. CASE z # y
      <4> DEFINE R == U \ {z}
      <4>1. /\ z \in U /\ z \in S /\ y \in S
            /\ (U \cup {y}) \ {z} = R \cup {y} /\ R \cup {z} = U
            /\ R \in SUBSET S /\ y \in S \ R /\ z \in S \ R
        BY <3>3
      <4>2. Cardinality(R) = n
        BY <1>0, <2>1, <4>1, FS_RemoveElement
      <4> HIDE DEF R
      <4>3. SumOf(f, R \cup {y}) = SumOf(f, R) + f[y]
        BY <1>5, <4>1, <4>2
      <4>4. SumOf(f, U) = SumOf(f, R) + f[z]
        BY <1>5, <4>1, <4>2
      <4>5. SumOf(f, R) \in Int /\ f[y] \in Int /\ f[z] \in Int
        BY <1>1, <4>1
      <4>6. SumOf(f, U \cup {y}) = f[z] + SumOf(f, R \cup {y})
        BY <3>1, <4>1
      <4> HIDE DEF R
      <4> QED  BY <4>3, <4>4, <4>5, <4>6
    <3> QED  BY <3>2, <3>3
  <2> QED  BY <2>1
<1> HIDE DEF Good
<1>6. Cardinality(T) \in Good
  BY <1>0, <1>4, <1>5, NatInductive
<1> QED  BY <1>1, <1>6 DEF Good

LEMMA SumEmpty == ASSUME NEW f  PROVE SumOf(f, {}) = 0
<1>1. IsFiniteSet({}) /\ \A x \in {} : f[x] \in Int
  BY FS_EmptySet
<1> QED  BY <1>1, SumStep

LEMMA SumInt ==
  ASSUME NEW S, IsFiniteSet(S), NEW f, \A x \in S : f[x] \in Int, NEW T \in SUBSET S
  PROVE  SumOf(f, T) \in Int
<1>1. IsFiniteSet(T) /\ \A x \in T : f[x] \in Int
  BY FS_Subset
<1> QED  BY <1>1, SumStep

\* Only the values on the set count.
LEMMA SumSame ==
  ASSUME NEW S, IsFiniteSet(S), NEW f, NEW g, \A x \in S : f[x] \in Int /\ f[x] = g[x]
  PROVE  SumOf(f, S) = SumOf(g, S)
<1> DEFINE Good == {T \in SUBSET S : SumOf(f, T) = SumOf(g, T)}
<1>0. /\ \A x \in S : f[x] \in Int
      /\ \A x \in S : g[x] \in Int
  OBVIOUS
<1>1. {} \in Good
  BY SumEmpty
<1>2. ASSUME NEW T \in SUBSET S, NEW x \in S \ T, T \in Good  PROVE T \cup {x} \in Good
  <2>1. SumOf(f, T \cup {x}) = SumOf(f, T) + f[x] /\ SumOf(g, T \cup {x}) = SumOf(g, T) + g[x]
    BY <1>0, SumAdd
  <2> QED  BY <1>2, <2>1
<1> HIDE DEF Good
<1>3. S \in Good
  BY <1>1, <1>2, SetInductive
<1> QED  BY <1>3 DEF Good

LEMMA SumUnion ==
  ASSUME NEW S, IsFiniteSet(S), NEW f, \A x \in S : f[x] \in Int,
         NEW A \in SUBSET S, NEW B \in SUBSET S, A \cap B = {}
  PROVE  SumOf(f, A \cup B) = SumOf(f, A) + SumOf(f, B)
<1> DEFINE Good == {T \in SUBSET B : SumOf(f, A \cup T) = SumOf(f, A) + SumOf(f, T)}
<1>0. IsFiniteSet(B)
  BY FS_Subset
<1>1. {} \in Good
  <2>1. A \cup {} = A /\ SumOf(f, A) \in Int
    BY SumInt
  <2> QED  BY <2>1, SumEmpty
<1>2. ASSUME NEW T \in SUBSET B, NEW x \in B \ T, T \in Good  PROVE T \cup {x} \in Good
  <2>1. /\ T \in SUBSET S /\ x \in S \ T /\ A \cup T \in SUBSET S /\ x \in S \ (A \cup T)
        /\ A \cup (T \cup {x}) = (A \cup T) \cup {x}
    OBVIOUS
  <2>2. SumOf(f, T \cup {x}) = SumOf(f, T) + f[x]
    BY <2>1, SumAdd
  <2>3. SumOf(f, (A \cup T) \cup {x}) = SumOf(f, A \cup T) + f[x]
    BY <2>1, SumAdd
  <2>4. SumOf(f, A) \in Int /\ SumOf(f, T) \in Int /\ f[x] \in Int
    BY <2>1, SumInt
  <2>5. SumOf(f, A \cup T) = SumOf(f, A) + SumOf(f, T)
    BY <1>2
  <2>6. SumOf(f, A \cup (T \cup {x})) = SumOf(f, A) + SumOf(f, T \cup {x})
    <3>1. SumOf(f, A \cup (T \cup {x})) = SumOf(f, A \cup T) + f[x]
      BY <2>1, <2>3
    <3> QED  BY <2>2, <2>4, <2>5, <3>1
  <2> QED  BY <2>1, <2>6
<1> HIDE DEF Good
<1>3. B \in Good
  BY <1>0, <1>1, <1>2, SetInductive
<1> QED  BY <1>3 DEF Good

\* A sum is the sum of the sums over what k maps to the same.
Fiber(S, k, y) == {x \in S : k[x] = y}

LEMMA SumFibers ==
  ASSUME NEW S, IsFiniteSet(S), NEW f, \A x \in S : f[x] \in Int,
         NEW T, IsFiniteSet(T), NEW k, \A x \in S : k[x] \in T,
         NEW h, \A y \in T : h[y] = SumOf(f, Fiber(S, k, y))
  PROVE  SumOf(f, S) = SumOf(h, T)
<1>f. \A y : Fiber(S, k, y) = {x \in S : k[x] = y}
  BY DEF Fiber
<1> DEFINE Over(Y) == {x \in S : k[x] \in Y}
           Good == {Y \in SUBSET T : SumOf(f, Over(Y)) = SumOf(h, Y)}
<1>0. \A y \in T : h[y] \in Int
  <2>1. ASSUME NEW y \in T  PROVE SumOf(f, {x \in S : k[x] = y}) \in Int
    <3>1. {x \in S : k[x] = y} \in SUBSET S
      OBVIOUS
    <3> QED  BY <3>1, SumInt
  <2> QED  BY <1>f, <2>1
<1>1. {} \in Good
  <2>1. Over({}) = {}
    OBVIOUS
  <2> QED  BY <2>1, SumEmpty
<1>2. ASSUME NEW Y \in SUBSET T, NEW y \in T \ Y, Y \in Good  PROVE Y \cup {y} \in Good
  <2> DEFINE A == Over(Y)
             B == {x \in S : k[x] = y}
  <2>1. A \in SUBSET S /\ B \in SUBSET S /\ A \cap B = {} /\ Over(Y \cup {y}) = A \cup B
    OBVIOUS
  <2>2. SumOf(f, A) = SumOf(h, Y) /\ SumOf(f, B) = h[y]
    BY <1>2, <1>f
  <2>3. SumOf(h, Y \cup {y}) = SumOf(h, Y) + h[y]
    BY <1>0, SumAdd
  <2> HIDE DEF A, B, Over
  <2>4. SumOf(f, A \cup B) = SumOf(f, A) + SumOf(f, B)
    BY <2>1, SumUnion
  <2> QED  BY <2>1, <2>2, <2>3, <2>4
<1> HIDE DEF Good
<1>3. T \in Good
  BY <1>1, <1>2, SetInductive
<1>4. Over(T) = S
  OBVIOUS
<1> QED  BY <1>3, <1>4 DEF Good

\* A bound of every part bounds the sum.
LEMMA SumBelow ==
  ASSUME NEW S, IsFiniteSet(S), NEW f, NEW g, \A x \in S : f[x] \in Int /\ g[x] \in Int,
         NEW m \in Int, \A x \in S : m * f[x] <= g[x]
  PROVE  m * SumOf(f, S) <= SumOf(g, S)
<1> DEFINE Good == {T \in SUBSET S : m * SumOf(f, T) <= SumOf(g, T)}
<1>0. /\ \A x \in S : f[x] \in Int
      /\ \A x \in S : g[x] \in Int
  OBVIOUS
<1>1. {} \in Good
  BY SumEmpty
<1>2. ASSUME NEW T \in SUBSET S, NEW x \in S \ T, T \in Good  PROVE T \cup {x} \in Good
  <2> DEFINE a == SumOf(f, T)
             b == SumOf(g, T)
             u == f[x]
             v == g[x]
  <2>1. SumOf(f, T \cup {x}) = a + u /\ SumOf(g, T \cup {x}) = b + v
    BY <1>0, SumAdd
  <2>2. a \in Int /\ b \in Int /\ u \in Int /\ v \in Int
    BY <1>0, SumInt
  <2>3. m * a <= b /\ m * u <= v
    BY <1>2
  <2> HIDE DEF a, b, u, v
  <2>4. m * (a + u) = m * a + m * u /\ m * a \in Int /\ m * u \in Int
    BY <2>2
  <2>5. m * (a + u) <= b + v
    BY <2>2, <2>3, <2>4
  <2>6. m * SumOf(f, T \cup {x}) <= SumOf(g, T \cup {x})
    BY <2>1, <2>5
  <2> QED  BY <2>6
<1> HIDE DEF Good
<1>3. S \in Good
  BY <1>1, <1>2, SetInductive
<1> QED  BY <1>3 DEF Good

LEMMA SumAbove ==
  ASSUME NEW S, IsFiniteSet(S), NEW f, NEW g, \A x \in S : f[x] \in Int /\ g[x] \in Int,
         NEW m \in Int, \A x \in S : g[x] <= m * f[x]
  PROVE  SumOf(g, S) <= m * SumOf(f, S)
<1> DEFINE Good == {T \in SUBSET S : SumOf(g, T) <= m * SumOf(f, T)}
<1>0. /\ \A x \in S : f[x] \in Int
      /\ \A x \in S : g[x] \in Int
  OBVIOUS
<1>1. {} \in Good
  BY SumEmpty
<1>2. ASSUME NEW T \in SUBSET S, NEW x \in S \ T, T \in Good  PROVE T \cup {x} \in Good
  <2> DEFINE a == SumOf(f, T)
             b == SumOf(g, T)
             u == f[x]
             v == g[x]
  <2>1. SumOf(f, T \cup {x}) = a + u /\ SumOf(g, T \cup {x}) = b + v
    BY <1>0, SumAdd
  <2>2. a \in Int /\ b \in Int /\ u \in Int /\ v \in Int
    BY <1>0, SumInt
  <2>3. b <= m * a /\ v <= m * u
    BY <1>2
  <2> HIDE DEF a, b, u, v
  <2>4. m * (a + u) = m * a + m * u /\ m * a \in Int /\ m * u \in Int
    BY <2>2
  <2>5. b + v <= m * (a + u)
    BY <2>2, <2>3, <2>4
  <2>6. SumOf(g, T \cup {x}) <= m * SumOf(f, T \cup {x})
    BY <2>1, <2>5
  <2> QED  BY <2>6
<1> HIDE DEF Good
<1>3. S \in Good
  BY <1>1, <1>2, SetInductive
<1> QED  BY <1>3 DEF Good

\* A sum of one, and of two.
LEMMA SumOne ==
  ASSUME NEW f, NEW x, f[x] \in Int
  PROVE  SumOf(f, {x}) = f[x]
<1> DEFINE one == {x}
<1>1. IsFiniteSet(one) /\ \A z \in one : f[z] \in Int
  BY FS_Singleton
<1>2. one \in SUBSET one /\ one # {} /\ \A z \in one : z = x /\ one \ {z} = {}
  OBVIOUS
<1>3. SumOf(f, {}) = 0
  BY SumEmpty
<1> HIDE DEF one
<1>4. \E z \in one : SumOf(f, one) = f[z] + SumOf(f, one \ {z})
  BY <1>1, <1>2, SumStep
<1>5. SumOf(f, one) = f[x]
  BY <1>2, <1>3, <1>4
<1> QED  BY <1>5 DEF one

LEMMA SumTwo ==
  ASSUME NEW f, NEW x, NEW y, x # y, f[x] \in Int, f[y] \in Int
  PROVE  SumOf(f, {x, y}) = f[x] + f[y]
<1> DEFINE P == {x, y}
           one == {x}
<1>1. IsFiniteSet(P) /\ \A z \in P : f[z] \in Int
  <2>1. IsFiniteSet({x} \cup {y})
    BY FS_Singleton, FS_AddElement
  <2>2. {x} \cup {y} = {x, y}
    OBVIOUS
  <2> QED  BY <2>1, <2>2
<1>2. one \in SUBSET P /\ y \in P \ one /\ one \cup {y} = P
  OBVIOUS
<1>3. SumOf(f, one) = f[x]
  BY SumOne
<1> HIDE DEF P, one
<1>4. SumOf(f, one \cup {y}) = SumOf(f, one) + f[y]
  BY <1>1, <1>2, SumAdd
<1> QED  BY <1>2, <1>3, <1>4 DEF P

\* A sum of ones counts.
LEMMA SumOnes ==
  ASSUME NEW S, IsFiniteSet(S), NEW f, \A x \in S : f[x] = 1
  PROVE  SumOf(f, S) = Cardinality(S)
<1> DEFINE Good == {T \in SUBSET S : SumOf(f, T) = Cardinality(T)}
<1>0. \A x \in S : f[x] \in Int
  OBVIOUS
<1>1. {} \in Good
  BY SumEmpty, FS_EmptySet
<1>2. ASSUME NEW T \in SUBSET S, NEW x \in S \ T, T \in Good  PROVE T \cup {x} \in Good
  <2>1. SumOf(f, T \cup {x}) = SumOf(f, T) + f[x]
    BY <1>0, SumAdd
  <2>2. IsFiniteSet(T)
    BY FS_Subset
  <2>3. Cardinality(T \cup {x}) = Cardinality(T) + 1
    BY <2>2, FS_AddElement
  <2>4. T \cup {x} \in SUBSET S
    OBVIOUS
  <2> QED  BY <1>2, <2>1, <2>3, <2>4
<1> HIDE DEF Good
<1>3. S \in Good
  BY <1>1, <1>2, SetInductive
<1> QED  BY <1>3 DEF Good

\* The greater and the lesser of two.
LEMMA MaxMinOfTwo ==
  ASSUME NEW a \in Int, NEW b \in Int
  PROVE  /\ Max({a, b}) = IF a >= b THEN a ELSE b
         /\ Min({a, b}) = IF a <= b THEN a ELSE b
<1>1. Max({a, b}) = IF a >= b THEN a ELSE b
  <2> DEFINE m == IF a >= b THEN a ELSE b
  <2>1. m \in {a, b} /\ \A y \in {a, b} : m >= y
    OBVIOUS
  <2>2. \A x \in {a, b} : (\A y \in {a, b} : x >= y) => x = m
    OBVIOUS
  <2> HIDE DEF m
  <2>3. Max({a, b}) = m
    BY <2>1, <2>2 DEF Max
  <2> QED  BY <2>3 DEF m
<1>2. Min({a, b}) = IF a <= b THEN a ELSE b
  <2> DEFINE m == IF a <= b THEN a ELSE b
  <2>1. m \in {a, b} /\ \A y \in {a, b} : m <= y
    OBVIOUS
  <2>2. \A x \in {a, b} : (\A y \in {a, b} : x <= y) => x = m
    OBVIOUS
  <2> HIDE DEF m
  <2>3. Min({a, b}) = m
    BY <2>1, <2>2 DEF Min
  <2> QED  BY <2>3 DEF m
<1> QED  BY <1>1, <1>2

\* A finite set of integers has a greatest and a least element.
LEMMA MaxMinOfFinite ==
  ASSUME NEW S \in SUBSET Int, IsFiniteSet(S), S # {}
  PROVE  /\ Max(S) \in S /\ \A y \in S : Max(S) >= y
         /\ Min(S) \in S /\ \A y \in S : Min(S) <= y
<1> DEFINE Good == {T \in SUBSET S : T # {} => /\ \E x \in T : \A y \in T : x >= y
                                               /\ \E x \in T : \A y \in T : x <= y}
<1>1. {} \in Good
  OBVIOUS
<1>2. ASSUME NEW T \in SUBSET S, NEW z \in S \ T, T \in Good  PROVE T \cup {z} \in Good
  <2>1. CASE T = {}
    BY <2>1
  <2>2. CASE T # {}
    <3> DEFINE U == T \cup {z}
    <3>1. PICK x \in T : \A y \in T : x >= y
      BY <1>2, <2>2
    <3>2. \E u \in U : \A y \in U : u >= y
      BY <3>1
    <3>3. PICK w \in T : \A y \in T : w <= y
      BY <1>2, <2>2
    <3>4. \E u \in U : \A y \in U : u <= y
      BY <3>3
    <3> QED  BY <3>2, <3>4
  <2> QED  BY <2>1, <2>2
<1> HIDE DEF Good
<1>3. S \in Good
  BY <1>1, <1>2, SetInductive
<1>4. (\E x \in S : \A y \in S : x >= y) /\ (\E x \in S : \A y \in S : x <= y)
  BY <1>3 DEF Good
<1> QED  BY <1>4 DEF Max, Min
=============================================================================
