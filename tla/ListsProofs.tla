---------------------------- MODULE ListsProofs ----------------------------
(***************************************************************************)
(* Induction in a form the provers can use, and what sorting, filtering    *)
(* and joining sequences give.  The induction theorems of the library take *)
(* an operator; here the property is a set instead, which holds the        *)
(* numbers, or the subsets, it is true of.                                 *)
(***************************************************************************)
EXTENDS Lists, FiniteSetTheorems, FunctionTheorems, SequenceTheorems, TLAPS

(* A set of numbers that is not empty has a least one.                     *)
LEMMA LeastNatural ==
    ASSUME NEW T, T \subseteq Nat, T # {}
    PROVE  \E x \in T : \A y \in T : x <= y
<1>1. PICK x \in T : \A y \in T : <<y, x>> \notin OpToRel(<, Nat)
  BY NatLessThanWellFounded, WFMin
<1>2. \A y \in T : ~(y < x)
  BY <1>1 DEF OpToRel
<1> QED BY <1>2

LEMMA InductionUpTo ==
    ASSUME NEW n \in Nat, NEW T, 0 \in T,
           \A k \in 0 .. n - 1 : k \in T => k + 1 \in T
    PROVE  0 .. n \subseteq T
<1> SUFFICES ASSUME (0 .. n) \ T # {} PROVE FALSE
  OBVIOUS
<1>1. PICK x \in (0 .. n) \ T : \A y \in (0 .. n) \ T : x <= y
  <2> DEFINE F == (0 .. n) \ T
  <2>1. F \subseteq Nat /\ F # {}
    OBVIOUS
  <2> HIDE DEF F
  <2>2. \E x \in F : \A y \in F : x <= y
    BY <2>1, LeastNatural
  <2> QED BY <2>2 DEF F
<1>2. x # 0 /\ x - 1 \in 0 .. n - 1
  OBVIOUS
<1>3. x - 1 \in T
  BY <1>1, <1>2
<1>4. (x - 1) + 1 \in T
  BY <1>2, <1>3
<1> QED BY <1>4

LEMMA InductionOnSubsets ==
    ASSUME NEW S, IsFiniteSet(S), NEW T, {} \in T,
           \A A \in SUBSET S : \A x \in S \ A : A \in T => A \cup {x} \in T
    PROVE  S \in T
<1> DEFINE F == (SUBSET S) \ T
<1> SUFFICES ASSUME S \in F PROVE FALSE
  OBVIOUS
<1>1. /\ IsWellFoundedOn(StrictSubsetOrdering(S), FiniteSubsetsOf(S))
      /\ F \subseteq FiniteSubsetsOf(S)
  BY FS_Subset, FS_StrictSubsetOrderingWellFounded DEF FiniteSubsetsOf
<1>2. PICK A \in F : \A B \in F : <<B, A>> \notin StrictSubsetOrdering(S)
  BY <1>1, WFMin
<1>3. PICK x \in A : TRUE
  OBVIOUS
<1>4. A \ {x} \in T
  <2>1. A \ {x} \in SUBSET S /\ A \in SUBSET S /\ A \ {x} # A
    BY <1>2
  <2>2. <<A \ {x}, A>> \in StrictSubsetOrdering(S)
    BY <2>1 DEF StrictSubsetOrdering
  <2> QED BY <1>2, <2>1, <2>2
<1>5. (A \ {x}) \cup {x} = A
  OBVIOUS
<1> QED BY <1>4, <1>5
-----------------------------------------------------------------------------
(* Sorting.                                                                *)

(* R orders S.                                                             *)
Orders(R, S) ==
    /\ \A a \in S : <<a, a>> \notin R
    /\ \A a, b \in S : a # b => <<a, b>> \in R \/ <<b, a>> \in R
    /\ \A a, b, c \in S : <<a, b>> \in R /\ <<b, c>> \in R => <<a, c>> \in R

(* Every element goes where the number of those before it puts it.         *)
LEMMA SortingExists ==
    ASSUME NEW S, IsFiniteSet(S), NEW R, Orders(R, S)
    PROVE  \E f \in Bijection(1 .. Cardinality(S), S) :
               \A i, j \in 1 .. Cardinality(S) : i < j => <<f[i], f[j]>> \in R
<1> DEFINE n == Cardinality(S)
           Earlier(x) == {y \in S : <<y, x>> \in R}
           rank == [x \in S |-> Cardinality(Earlier(x)) + 1]
<1>1. n \in Nat /\ Cardinality(1 .. n) = n /\ IsFiniteSet(1 .. n)
  BY FS_CardinalityType, FS_Interval
<1>2. \A x \in S : /\ IsFiniteSet(Earlier(x)) /\ Cardinality(Earlier(x)) \in Nat
                   /\ Cardinality(Earlier(x)) < n
  <2> SUFFICES ASSUME NEW x \in S
               PROVE  /\ IsFiniteSet(Earlier(x)) /\ Cardinality(Earlier(x)) \in Nat
                      /\ Cardinality(Earlier(x)) < n
    OBVIOUS
  <2>1. Earlier(x) \in SUBSET S /\ Earlier(x) # S
    BY DEF Orders
  <2> HIDE DEF Earlier
  <2>2. /\ IsFiniteSet(Earlier(x)) /\ Cardinality(Earlier(x)) <= n
        /\ Cardinality(Earlier(x)) # n
    BY <2>1, FS_Subset
  <2>3. Cardinality(Earlier(x)) \in Nat
    BY <2>2, FS_CardinalityType
  <2> QED BY <1>1, <2>2, <2>3
<1>3. \A a, b \in S : <<a, b>> \in R => rank[a] < rank[b]
  <2> SUFFICES ASSUME NEW a \in S, NEW b \in S, <<a, b>> \in R
               PROVE  rank[a] < rank[b]
    OBVIOUS
  <2>1. Earlier(a) \in SUBSET Earlier(b) /\ Earlier(a) # Earlier(b)
    BY DEF Orders
  <2>2. IsFiniteSet(Earlier(b)) /\ Cardinality(Earlier(a)) \in Nat
        /\ Cardinality(Earlier(b)) \in Nat
    BY <1>2
  <2>3. rank[a] = Cardinality(Earlier(a)) + 1 /\ rank[b] = Cardinality(Earlier(b)) + 1
    OBVIOUS
  <2> HIDE DEF Earlier, rank
  <2>4. /\ Cardinality(Earlier(a)) <= Cardinality(Earlier(b))
        /\ Cardinality(Earlier(a)) # Cardinality(Earlier(b))
    BY <2>1, <2>2, FS_Subset
  <2> QED BY <2>2, <2>3, <2>4
<1>4. rank \in [S -> 1 .. n]
  <2>1. \A x \in S : rank[x] = Cardinality(Earlier(x)) + 1
    OBVIOUS
  <2>2. rank = [x \in S |-> rank[x]]
    OBVIOUS
  <2> HIDE DEF rank, Earlier, n
  <2>3. \A x \in S : rank[x] \in 1 .. n
    BY <1>1, <1>2, <2>1 DEF n
  <2> QED BY <2>2, <2>3
<1> HIDE DEF rank, n
<1>5. rank \in Injection(S, 1 .. n)
  <2>1. \A a, b \in S : rank[a] = rank[b] => a = b
    <3> SUFFICES ASSUME NEW a \in S, NEW b \in S, rank[a] = rank[b], a # b
                 PROVE  FALSE
      OBVIOUS
    <3>1. rank[a] \in Int /\ rank[b] \in Int
      BY <1>4
    <3>2. rank[a] < rank[b] \/ rank[b] < rank[a]
      BY <1>3 DEF Orders
    <3> QED BY <3>1, <3>2
  <2> QED BY <1>4, <2>1, Fun_IsInj
<1>6. rank \in Surjection(S, 1 .. n)
  BY <1>1, <1>5, FS_Injection DEF n
<1> DEFINE f == Inverse(rank, S, 1 .. n)
<1>7. f \in Bijection(1 .. n, S) /\ \A s \in S : f[rank[s]] = s
  BY <1>5, <1>6, Fun_BijInverse DEF Bijection
<1> HIDE DEF f
<1>8. f \in [1 .. n -> S] /\ \A i \in 1 .. n : rank[f[i]] = i
  <2>1. f \in [1 .. n -> S]
    BY <1>7, Fun_BijectionProperties
  <2>2. \A i \in 1 .. n : \E s \in S : rank[s] = i
    BY <1>6, Fun_SurjectionProperties
  <2> QED BY <1>7, <2>1, <2>2
<1>9. \A i, j \in 1 .. n : i < j => <<f[i], f[j]>> \in R
  <2> SUFFICES ASSUME NEW i \in 1 .. n, NEW j \in 1 .. n, i < j,
                      <<f[i], f[j]>> \notin R
               PROVE  FALSE
    OBVIOUS
  <2>1. f[i] \in S /\ f[j] \in S /\ rank[f[i]] = i /\ rank[f[j]] = j
    BY <1>8
  <2>2. f[i] # f[j]
    BY <2>1
  <2>3. <<f[j], f[i]>> \in R
    BY <2>1, <2>2 DEF Orders
  <2>4. j < i
    BY <1>3, <2>1, <2>3
  <2> QED BY <2>4
<1> QED BY <1>7, <1>9 DEF n

LEMMA BijectionIsList ==
    ASSUME NEW S, IsFiniteSet(S), NEW f \in Bijection(1 .. Cardinality(S), S)
    PROVE  /\ Cardinality(S) \in Nat /\ f \in Seq(S) /\ Len(f) = Cardinality(S)
           /\ DOMAIN f = 1 .. Cardinality(S) /\ IsInjective(f)
           /\ S = {f[k] : k \in 1 .. Cardinality(S)} /\ ToSet(f) = S
<1>1. Cardinality(S) \in Nat
  BY FS_CardinalityType
<1>2. f \in [1 .. Cardinality(S) -> S] /\ IsInjective(f)
  BY DEF Bijection, Injection
<1>3. \A t \in S : \E k \in 1 .. Cardinality(S) : f[k] = t
  BY DEF Bijection, Surjection
<1>4. f \in Seq(S) /\ Len(f) = Cardinality(S)
  BY <1>1, <1>2, SeqDef
<1>5. ToSet(f) = S
  BY <1>2, <1>3 DEF ToSet
<1> QED BY <1>1, <1>2, <1>3, <1>4, <1>5

LEMMA IncreasingLists ==
    ASSUME NEW S \in SUBSET Int, IsFiniteSet(S)
    PROVE  /\ Increasing(S) \in Bijection(1 .. Cardinality(S), S)
           /\ \A i, j \in 1 .. Cardinality(S) :
                  i < j => Increasing(S)[i] < Increasing(S)[j]
<1> DEFINE R == {p \in S \X S : p[1] < p[2]}
<1>1. Orders(R, S)
  BY DEF Orders
<1>2. \A a, b \in S : <<a, b>> \in R <=> a < b
  OBVIOUS
<1> HIDE DEF R
<1>3. PICK f \in Bijection(1 .. Cardinality(S), S) :
          \A i, j \in 1 .. Cardinality(S) : i < j => <<f[i], f[j]>> \in R
  BY <1>1, SortingExists
<1>4. \A i, j \in 1 .. Cardinality(S) : i < j => f[i] < f[j]
  <2>1. \A k \in 1 .. Cardinality(S) : f[k] \in S
    BY <1>3, BijectionIsList
  <2> QED BY <1>2, <1>3, <2>1
<1>5. \A g \in Bijection(1 .. Cardinality(S), S) : Len(g) = Cardinality(S)
  BY BijectionIsList
<1> DEFINE Sorted(g) == \A i, j \in 1 .. Len(g) : i < j => g[i] < g[j]
<1>6. Increasing(S) = CHOOSE g \in Bijection(1 .. Cardinality(S), S) : Sorted(g)
  BY DEF Increasing, Listing, IsSorted
<1>7. Sorted(f)
  BY <1>4, <1>5
<1> HIDE DEF Sorted
<1>8. Increasing(S) \in Bijection(1 .. Cardinality(S), S) /\ Sorted(Increasing(S))
  BY <1>6, <1>7
<1> QED BY <1>5, <1>8 DEF Sorted

LEMMA UpTo ==
    ASSUME NEW n \in Nat
    PROVE  IsFiniteSet(1 .. n) /\ Cardinality(1 .. n) = n
  BY FS_Interval

(* The positions of a list can be put in the order of their scores.        *)
Higher(f, i, j) == f[i] > f[j] \/ (f[i] = f[j] /\ i < j)

LEMMA PositionsRank ==
    ASSUME NEW n \in Nat, NEW f \in [1 .. n -> Int]
    PROVE  \E g \in Bijection(1 .. n, 1 .. n) :
               \A i, j \in 1 .. n : i < j => Higher(f, g[i], g[j])
<1>1. PICK S : S = 1 .. n
  OBVIOUS
<1>2. IsFiniteSet(S) /\ Cardinality(S) = n
  BY <1>1, UpTo
<1>3. \A i \in S : i \in Int /\ f[i] \in Int
  BY <1>1
<1> DEFINE R == {p \in S \X S : Higher(f, p[1], p[2])}
<1>4. R \subseteq S \X S
  OBVIOUS
<1>5. \A i, j \in S : <<i, j>> \in R <=> Higher(f, i, j)
  OBVIOUS
<1> HIDE DEF R
<1>6. Orders(R, S)
  <2>1. \A x \in S : <<x, x>> \notin R
    BY <1>3, <1>5 DEF Higher
  <2>2. \A x, y \in S : x # y => <<x, y>> \in R \/ <<y, x>> \in R
    BY <1>3, <1>5 DEF Higher
  <2>3. \A x, y, z \in S : <<x, y>> \in R /\ <<y, z>> \in R => <<x, z>> \in R
    BY <1>3, <1>5 DEF Higher
  <2> QED BY <1>4, <2>1, <2>2, <2>3 DEF Orders
<1>7. PICK g \in Bijection(1 .. n, S) :
          \A i, j \in 1 .. n : i < j => <<g[i], g[j]>> \in R
  <2>1. \E g \in Bijection(1 .. Cardinality(S), S) :
            \A i, j \in 1 .. Cardinality(S) : i < j => <<g[i], g[j]>> \in R
    BY <1>2, <1>6, SortingExists
  <2> QED BY <1>2, <2>1
<1>8. \A k \in 1 .. n : g[k] \in S
  BY <1>7, Fun_BijectionProperties
<1> QED BY <1>1, <1>5, <1>7, <1>8
-----------------------------------------------------------------------------
(* Filtering.                                                              *)

LEMMA PickedElements ==
    ASSUME NEW S, NEW s \in Seq(S), NEW P \in SUBSET (DOMAIN s)
    PROVE  /\ IsFiniteSet(P) /\ Cardinality(P) \in Nat
           /\ Picked(s, P) \in Seq(S) /\ Len(Picked(s, P)) = Cardinality(P)
           /\ DOMAIN Picked(s, P) = 1 .. Cardinality(P)
           /\ ToSet(Picked(s, P)) = {s[n] : n \in P}
           /\ \A k \in 1 .. Cardinality(P) :
                  Increasing(P)[k] \in P /\ Picked(s, P)[k] = s[Increasing(P)[k]]
           /\ \A j, k \in 1 .. Cardinality(P) :
                  j < k => Increasing(P)[j] < Increasing(P)[k]
           /\ (\A m, n \in P : s[m] = s[n] => m = n) => IsInjective(Picked(s, P))
<1> DEFINE at == Increasing(P)
           c == Cardinality(P)
           picked == Picked(s, P)
<1>1. DOMAIN s = 1 .. Len(s) /\ Len(s) \in Nat /\ \A n \in DOMAIN s : s[n] \in S
  OBVIOUS
<1>2. P \in SUBSET Int /\ IsFiniteSet(P)
  <2>1. P \in SUBSET (1 .. Len(s)) /\ IsFiniteSet(1 .. Len(s))
    BY <1>1, FS_Interval
  <2> QED BY <2>1, FS_Subset
<1>3. at \in Bijection(1 .. c, P) /\ \A i, j \in 1 .. c : i < j => at[i] < at[j]
  BY <1>2, IncreasingLists
<1>4. /\ c \in Nat /\ IsInjective(at) /\ DOMAIN at = 1 .. c
      /\ P = {at[k] : k \in 1 .. c}
  BY <1>2, <1>3, BijectionIsList
<1>5. picked = [k \in 1 .. c |-> s[at[k]]]
  BY DEF Picked
<1> HIDE DEF at, c, picked
<1>6. \A k \in 1 .. c : at[k] \in P /\ picked[k] = s[at[k]] /\ picked[k] \in S
  BY <1>1, <1>4, <1>5
<1>7. picked \in [1 .. c -> S]
  BY <1>5, <1>6
<1>8. picked \in Seq(S) /\ Len(picked) = c /\ DOMAIN picked = 1 .. c
  BY <1>4, <1>7, SeqDef
<1>9. ToSet(picked) = {s[n] : n \in P}
  <2>1. ToSet(picked) = {picked[k] : k \in 1 .. c}
    BY <1>8 DEF ToSet
  <2>2. ToSet(picked) \subseteq {s[n] : n \in P}
    BY <1>6, <2>1
  <2>3. ASSUME NEW n \in P PROVE s[n] \in ToSet(picked)
    <3>1. PICK k \in 1 .. c : n = at[k]
      BY <1>4
    <3> QED BY <1>6, <2>1, <3>1
  <2> QED BY <2>2, <2>3
<1>10. (\A m, n \in P : s[m] = s[n] => m = n) => IsInjective(picked)
  BY <1>4, <1>6, <1>8 DEF IsInjective
<1> QED BY <1>2, <1>3, <1>4, <1>6, <1>8, <1>9, <1>10 DEF at, c, picked

-----------------------------------------------------------------------------
(* Joining.  g joins the first m of the sequences in bs one by one, as the *)
(* recursion inside FlattenSeq does.                                       *)
Joins(bs, g, m) ==
    g = [i \in 1 .. m |-> IF i = 1 THEN bs[i] ELSE g[i - 1] \o bs[i]]

LEMMA JoinsExist ==
    ASSUME NEW bs, NEW m \in Nat
    PROVE  \E g : Joins(bs, g, m)
<1> DEFINE T == {k \in Nat : \E g : Joins(bs, g, k)}
<1>1. 0 \in T
  <2> DEFINE g == [i \in 1 .. 0 |-> bs[i]]
  <2>1. g = [i \in 1 .. 0 |-> IF i = 1 THEN bs[i] ELSE g[i - 1] \o bs[i]]
    OBVIOUS
  <2> QED BY <2>1 DEF Joins
<1>2. ASSUME NEW k \in 0 .. m - 1, k \in T PROVE k + 1 \in T
  <2>1. PICK g : Joins(bs, g, k)
    BY <1>2
  <2> DEFINE next(i) == IF i = 1 THEN bs[i] ELSE g[i - 1] \o bs[i]
             h == [i \in 1 .. k + 1 |-> next(i)]
  <2>2. \A i \in 1 .. k : g[i] = next(i)
    BY <2>1 DEF Joins
  <2>3. \A i \in 1 .. k + 1 : i # 1 => i - 1 \in 1 .. k
    BY <1>2
  <2>4. \A i \in 1 .. k + 1 : i # 1 => h[i - 1] = g[i - 1]
    BY <2>2, <2>3
  <2>5. h = [i \in 1 .. k + 1 |-> IF i = 1 THEN bs[i] ELSE h[i - 1] \o bs[i]]
    BY <2>4
  <2>6. Joins(bs, h, k + 1)
    BY <2>5 DEF Joins
  <2> HIDE DEF h
  <2>7. k + 1 \in Nat
    OBVIOUS
  <2> QED BY <2>6, <2>7
<1> HIDE DEF T
<1>3. m \in T
  BY <1>1, <1>2, InductionUpTo
<1> QED BY <1>3 DEF T

LEMMA JoinsAt ==
    ASSUME NEW bs, NEW m, NEW g, Joins(bs, g, m), NEW i \in 1 .. m
    PROVE  g[i] = IF i = 1 THEN bs[i] ELSE g[i - 1] \o bs[i]
<1> DEFINE body == [j \in 1 .. m |-> IF j = 1 THEN bs[j] ELSE g[j - 1] \o bs[j]]
<1>1. g = body
  BY DEF Joins
<1>2. body[i] = IF i = 1 THEN bs[i] ELSE g[i - 1] \o bs[i]
  OBVIOUS
<1> QED BY <1>1, <1>2, Zenon

LEMMA JoinsAgree ==
    ASSUME NEW bs, NEW cs, NEW m \in Nat, NEW n \in Nat, m <= n,
           \A i \in 1 .. m : bs[i] = cs[i],
           NEW g, Joins(bs, g, m), NEW h, Joins(cs, h, n)
    PROVE  \A i \in 1 .. m : g[i] = h[i]
<1> DEFINE T == {k \in Nat : k \in 1 .. m => g[k] = h[k]}
<1>1. 0 \in T
  OBVIOUS
<1>2. ASSUME NEW k \in 0 .. m - 1, k \in T PROVE k + 1 \in T
  <2>1. /\ g[k + 1] = IF k + 1 = 1 THEN bs[k + 1] ELSE g[(k + 1) - 1] \o bs[k + 1]
        /\ h[k + 1] = IF k + 1 = 1 THEN cs[k + 1] ELSE h[(k + 1) - 1] \o cs[k + 1]
    <3>1. k + 1 \in 1 .. m /\ k + 1 \in 1 .. n
      OBVIOUS
    <3> QED BY <3>1, JoinsAt
  <2>2. (k + 1) - 1 = k /\ bs[k + 1] = cs[k + 1] /\ (k + 1 # 1 => g[k] = h[k])
    BY <1>2
  <2> QED BY <2>1, <2>2
<1> HIDE DEF T
<1>3. 0 .. m \subseteq T
  BY <1>1, <1>2, InductionUpTo
<1> QED BY <1>3 DEF T

LEMMA FlattenJoins ==
    ASSUME NEW S, NEW bs \in Seq(S), bs # <<>>, NEW g, Joins(bs, g, Len(bs))
    PROVE  FlattenSeq(bs) = g[Len(bs)]
<1> DEFINE n == Len(bs)
           h == CHOOSE f : f = [i \in 1 .. n |-> IF i = 1 THEN bs[i] ELSE f[i - 1] \o bs[i]]
<1>1. n \in Nat /\ n # 0 /\ n \in 1 .. n
  OBVIOUS
<1>2. FlattenSeq(bs) = h[n]
  BY <1>1 DEF FlattenSeq
<1>3. Joins(bs, h, n)
  BY DEF Joins
<1> HIDE DEF h
<1> QED BY <1>1, <1>2, <1>3, JoinsAgree

LEMMA Beginning ==
    ASSUME NEW B, NEW n \in Nat, NEW bs \in [1 .. n -> B], NEW k \in 0 .. n
    PROVE  /\ SubSeq(bs, 1, k) \in Seq(B) /\ Len(SubSeq(bs, 1, k)) = k
           /\ DOMAIN SubSeq(bs, 1, k) = 1 .. k
           /\ \A i \in 1 .. k : SubSeq(bs, 1, k)[i] = bs[i]
<1> DEFINE sub == SubSeq(bs, 1, k)
<1>1. \A i \in 1 .. k : bs[i] \in B
  OBVIOUS
<1>2. /\ sub \in Seq(B) /\ Len(sub) = IF 1 <= k THEN k - 1 + 1 ELSE 0
      /\ \A i \in 1 .. k - 1 + 1 : sub[i] = bs[1 + i - 1]
  BY <1>1, SubSeqProperties
<1> HIDE DEF sub
<1>3. k - 1 + 1 = k /\ \A i \in 1 .. k : 1 + i - 1 = i
  OBVIOUS
<1>4. Len(sub) = k /\ \A i \in 1 .. k : sub[i] = bs[i]
  BY <1>2, <1>3
<1> QED BY <1>2, <1>4 DEF sub

LEMMA FlattenBeginning ==
    ASSUME NEW B, NEW n \in Nat, NEW bs \in [1 .. n -> B], NEW g, Joins(bs, g, n),
           NEW j \in 1 .. n
    PROVE  FlattenSeq(SubSeq(bs, 1, j)) = g[j]
<1>1. j \in Nat /\ j \in 0 .. n /\ j <= n
  OBVIOUS
<1>2. PICK sub \in Seq(B) : /\ sub = SubSeq(bs, 1, j) /\ Len(sub) = j
                           /\ \A i \in 1 .. j : sub[i] = bs[i]
  <2>1. /\ SubSeq(bs, 1, j) \in Seq(B) /\ Len(SubSeq(bs, 1, j)) = j
        /\ \A i \in 1 .. j : SubSeq(bs, 1, j)[i] = bs[i]
    BY <1>1, Beginning
  <2> QED BY <2>1, Zenon
<1>3. sub # <<>> /\ \A i \in 1 .. j : sub[i] = bs[i]
  BY <1>2
<1>4. PICK f : Joins(sub, f, j)
  BY <1>1, JoinsExist
<1>5. \A i \in 1 .. j : f[i] = g[i]
  BY <1>1, <1>3, <1>4, JoinsAgree
<1>6. FlattenSeq(sub) = f[j]
  BY <1>2, <1>3, <1>4, FlattenJoins
<1> QED BY <1>2, <1>5, <1>6

LEMMA FlattenStep ==
    ASSUME NEW S, NEW n \in Nat, NEW bs \in [1 .. n -> Seq(S)]
    PROVE  /\ FlattenSeq(SubSeq(bs, 1, 0)) = <<>>
           /\ \A k \in 0 .. n : FlattenSeq(SubSeq(bs, 1, k)) \in Seq(S)
           /\ \A k \in 1 .. n : FlattenSeq(SubSeq(bs, 1, k))
                                    = FlattenSeq(SubSeq(bs, 1, k - 1)) \o bs[k]
<1> DEFINE B == Seq(S)
           Flat(m) == FlattenSeq(SubSeq(bs, 1, m))
           T == {m \in Nat : Flat(m) \in B}
<1>1. Flat(0) = <<>> /\ Flat(0) \in B
  <2>1. SubSeq(bs, 1, 0) = <<>>
    OBVIOUS
  <2> QED BY <2>1 DEF FlattenSeq
<1>2. bs \in [1 .. n -> B] /\ \A x, y \in B : x \o y \in B
  OBVIOUS
<1>3. \A b \in B : <<>> \o b = b
  OBVIOUS
<1> HIDE DEF B, T
<1>4. PICK g : Joins(bs, g, n)
  BY JoinsExist
<1>5. ASSUME NEW j \in 1 .. n PROVE Flat(j) = g[j]
  BY <1>2, <1>4, FlattenBeginning
<1> HIDE DEF Flat
<1>6. ASSUME NEW m \in 1 .. n PROVE Flat(m) = Flat(m - 1) \o bs[m]
  <2>1. g[m] = IF m = 1 THEN bs[m] ELSE g[m - 1] \o bs[m]
    BY <1>4, JoinsAt
  <2>2. CASE m = 1
    <3>1. m - 1 = 0 /\ bs[m] \in B
      BY <1>2, <2>2
    <3> QED BY <1>1, <1>3, <1>5, <2>1, <2>2, <3>1
  <2>3. CASE m # 1
    <3>1. m - 1 \in 1 .. n
      BY <2>3
    <3> QED BY <1>5, <2>1, <2>3, <3>1
  <2> QED BY <2>2, <2>3
<1>7. 0 \in T
  BY <1>1 DEF T
<1>8. ASSUME NEW m \in 0 .. n - 1, m \in T PROVE m + 1 \in T
  <2>1. m + 1 \in 1 .. n /\ (m + 1) - 1 = m
    OBVIOUS
  <2>2. Flat(m + 1) = Flat(m) \o bs[m + 1]
    BY <1>6, <2>1
  <2>3. Flat(m) \in B /\ bs[m + 1] \in B /\ m + 1 \in Nat
    BY <1>2, <1>8, <2>1 DEF T
  <2> QED BY <1>2, <2>2, <2>3 DEF T
<1>9. 0 .. n \subseteq T
  BY <1>7, <1>8, InductionUpTo
<1>10. \A k \in 0 .. n : Flat(k) \in B
  BY <1>9 DEF T
<1> QED BY <1>1, <1>6, <1>10 DEF Flat, B

LEMMA ConcatElements ==
    ASSUME NEW S, NEW p \in Seq(S), NEW q \in Seq(S)
    PROVE  ToSet(p \o q) = ToSet(p) \cup ToSet(q)
<1>1. ToSet(p \o q) = Range(p \o q) /\ ToSet(p) = Range(p) /\ ToSet(q) = Range(q)
  BY DEF ToSet, Range
<1>2. Range(p \o q) = Range(p) \cup Range(q)
  BY RangeConcatenation
<1> QED BY <1>1, <1>2

(* What is joined has the elements of its parts.                           *)
LEMMA FlattenElements ==
    ASSUME NEW S, NEW n \in Nat, NEW bs \in [1 .. n -> Seq(S)]
    PROVE  /\ FlattenSeq(bs) \in Seq(S)
           /\ \A x \in S : x \in ToSet(FlattenSeq(bs))
                             <=> \E k \in 1 .. n : x \in ToSet(bs[k])
<1> DEFINE B == Seq(S)
           Flat(m) == FlattenSeq(SubSeq(bs, 1, m))
           Has(m, x) == \E k \in 1 .. m : x \in ToSet(bs[k])
           T == {m \in Nat : \A x \in S : x \in ToSet(Flat(m)) <=> Has(m, x)}
<1>1. /\ Flat(0) = <<>> /\ \A k \in 0 .. n : Flat(k) \in B
      /\ \A k \in 1 .. n : Flat(k) = Flat(k - 1) \o bs[k]
  BY FlattenStep
<1>2. /\ bs \in [1 .. n -> B] /\ ToSet(<<>>) = {}
      /\ \A p, q \in B : ToSet(p \o q) = ToSet(p) \cup ToSet(q)
  <2>1. \A p, q \in B : ToSet(p \o q) = ToSet(p) \cup ToSet(q)
    BY ConcatElements
  <2>2. ToSet(<<>>) = {}
    BY DEF ToSet
  <2> QED BY <2>1, <2>2
<1>3. Flat(n) = FlattenSeq(bs)
  <2>1. SubSeq(bs, 1, n) \in Seq(B) /\ Len(SubSeq(bs, 1, n)) = n
        /\ \A i \in 1 .. n : SubSeq(bs, 1, n)[i] = bs[i]
    BY <1>2, Beginning
  <2>2. bs \in Seq(B) /\ Len(bs) = n
    BY <1>2, SeqDef
  <2> HIDE DEF B
  <2>3. SubSeq(bs, 1, n) = bs
    BY <2>1, <2>2, SeqEqual
  <2> QED BY <2>3
<1> HIDE DEF B, Flat
<1>4. 0 \in T
  BY <1>1, <1>2
<1>5. ASSUME NEW m \in 0 .. n - 1, m \in T PROVE m + 1 \in T
  <2>1. m + 1 \in 1 .. n /\ (m + 1) - 1 = m /\ m \in 0 .. n /\ m + 1 \in Nat
    OBVIOUS
  <2>2. ToSet(Flat(m + 1)) = ToSet(Flat(m)) \cup ToSet(bs[m + 1])
    <3>1. Flat(m + 1) = Flat(m) \o bs[m + 1]
      BY <1>1, <2>1
    <3>2. Flat(m) \in B /\ bs[m + 1] \in B
      BY <1>1, <1>2, <2>1
    <3> QED BY <1>2, <3>1, <3>2
  <2>3. \A x \in S : Has(m + 1, x) <=> Has(m, x) \/ x \in ToSet(bs[m + 1])
    <3>1. 1 .. m + 1 = (1 .. m) \cup {m + 1}
      BY <2>1
    <3> QED BY <3>1
  <2>4. \A x \in S : x \in ToSet(Flat(m)) <=> Has(m, x)
    BY <1>5
  <2> HIDE DEF Has
  <2> QED BY <2>1, <2>2, <2>3, <2>4
<1> HIDE DEF T
<1>6. 0 .. n \subseteq T
  BY <1>4, <1>5, InductionUpTo
<1>7. n \in 0 .. n
  OBVIOUS
<1> QED BY <1>1, <1>3, <1>6, <1>7 DEF T, B

Together(bs, n) == UNION {ToSet(bs[k]) : k \in 1 .. n}

LEMMA FlattenTogether ==
    ASSUME NEW S, NEW n \in Nat, NEW bs \in [1 .. n -> Seq(S)]
    PROVE  ToSet(FlattenSeq(bs)) = Together(bs, n)
<1>1. PICK f : f = FlattenSeq(bs)
  OBVIOUS
<1>2. f \in Seq(S) /\ \A x \in S : x \in ToSet(f) <=> \E k \in 1 .. n : x \in ToSet(bs[k])
  BY <1>1, FlattenElements
<1>3. ToSet(f) \subseteq S
  BY <1>2 DEF ToSet
<1>4. \A k \in 1 .. n : ToSet(bs[k]) \subseteq S
  <2>1. ASSUME NEW k \in 1 .. n PROVE ToSet(bs[k]) \subseteq S
    <3>1. bs[k] \in Seq(S)
      OBVIOUS
    <3> QED BY <3>1 DEF ToSet
  <2> QED BY <2>1
<1> QED BY <1>1, <1>2, <1>3, <1>4 DEF Together

(* A part begins where the parts before it end.                            *)
LEMMA FlattenAt ==
    ASSUME NEW S, NEW n \in Nat, NEW bs \in [1 .. n -> Seq(S)],
           NEW k \in 1 .. n, NEW j \in 1 .. Len(bs[k]),
           NEW p, p = Len(FlattenSeq(SubSeq(bs, 1, k - 1))) + j
    PROVE  /\ p \in 1 .. Len(FlattenSeq(SubSeq(bs, 1, n)))
           /\ FlattenSeq(SubSeq(bs, 1, n))[p] = bs[k][j]
<1> DEFINE B == Seq(S)
           Flat(m) == FlattenSeq(SubSeq(bs, 1, m))
           At(m) == p \in 1 .. Len(Flat(m)) /\ Flat(m)[p] = bs[k][j]
           T == {d \in Nat : k + d \in 1 .. n => At(k + d)}
<1>1. /\ \A m \in 0 .. n : Flat(m) \in B
      /\ \A m \in 1 .. n : Flat(m) = Flat(m - 1) \o bs[m]
  BY FlattenStep
<1>2. \A m \in 1 .. n : bs[m] \in B
  OBVIOUS
<1>3. \A a, b \in B : /\ Len(a) \in Nat /\ Len(b) \in Nat
                      /\ Len(a \o b) = Len(a) + Len(b)
                      /\ \A i \in 1 .. Len(a) : (a \o b)[i] = a[i]
                      /\ \A i \in 1 .. Len(b) : (a \o b)[Len(a) + i] = b[i]
  OBVIOUS
<1>4. p = Len(Flat(k - 1)) + j
  OBVIOUS
<1> HIDE DEF B, Flat
<1>5. 0 \in T
  <2>1. k \in 1 .. n /\ k - 1 \in 0 .. n /\ k + 0 = k
    OBVIOUS
  <2>2. Flat(k) = Flat(k - 1) \o bs[k] /\ Flat(k - 1) \in B /\ bs[k] \in B
    BY <1>1, <1>2, <2>1
  <2>3. At(k)
    BY <1>3, <1>4, <2>2
  <2> HIDE DEF At
  <2> QED BY <2>1, <2>3
<1>6. ASSUME NEW d \in 0 .. n - 1, d \in T PROVE d + 1 \in T
  <2> SUFFICES ASSUME k + (d + 1) \in 1 .. n PROVE At(k + (d + 1))
    OBVIOUS
  <2>1. k + d \in 1 .. n /\ k + d \in 0 .. n /\ (k + (d + 1)) - 1 = k + d
    OBVIOUS
  <2>2. At(k + d)
    BY <1>6, <2>1
  <2>3. /\ Flat(k + (d + 1)) = Flat(k + d) \o bs[k + (d + 1)]
        /\ Flat(k + d) \in B /\ bs[k + (d + 1)] \in B
    BY <1>1, <1>2, <2>1
  <2> QED BY <1>3, <2>2, <2>3
<1>7. n - k \in 0 .. n /\ k + (n - k) = n /\ n \in 1 .. n
  OBVIOUS
<1> HIDE DEF T
<1>8. n - k \in T
  BY <1>5, <1>6, <1>7, InductionUpTo
<1>9. At(n)
  BY <1>7, <1>8 DEF T
<1> QED BY <1>9 DEF Flat
-----------------------------------------------------------------------------
(* Tables of offsets.                                                      *)

LEMMA Monotone ==
    ASSUME NEW n \in Nat, NEW f \in [1 .. n -> Int],
           \A k \in 1 .. n - 1 : f[k] <= f[k + 1]
    PROVE  \A i, j \in 1 .. n : i <= j => f[i] <= f[j]
<1> DEFINE T(i) == {d \in Nat : i + d \in 1 .. n => f[i] <= f[i + d]}
<1> SUFFICES ASSUME NEW i \in 1 .. n, NEW j \in 1 .. n, i <= j
             PROVE  f[i] <= f[j]
  OBVIOUS
<1>1. 0 \in T(i)
  OBVIOUS
<1>2. ASSUME NEW d \in 0 .. n - 1, d \in T(i) PROVE d + 1 \in T(i)
  <2> SUFFICES ASSUME i + (d + 1) \in 1 .. n PROVE f[i] <= f[i + (d + 1)]
    OBVIOUS
  <2>1. i + d \in 1 .. n - 1 /\ i + d \in 1 .. n /\ (i + d) + 1 = i + (d + 1)
    OBVIOUS
  <2>2. f[i] <= f[i + d] /\ f[i + d] <= f[i + (d + 1)]
    BY <1>2, <2>1
  <2>3. f[i] \in Int /\ f[i + d] \in Int /\ f[i + (d + 1)] \in Int
    BY <2>1
  <2> QED BY <2>2, <2>3
<1>3. j - i \in 0 .. n /\ i + (j - i) = j
  OBVIOUS
<1> HIDE DEF T
<1>4. j - i \in T(i)
  BY <1>1, <1>2, <1>3, InductionUpTo
<1> QED BY <1>3, <1>4 DEF T

(* There is only one way to number 1 .. m in order.                        *)
LEMMA OnlyOneWay ==
    ASSUME NEW m \in Nat, NEW f,
           \A k \in 1 .. m : f[k] \in 1 .. m,
           \A j, k \in 1 .. m : j < k => f[j] < f[k]
    PROVE  \A k \in 1 .. m : f[k] = k
<1> DEFINE Up == {k \in Nat : k \in 1 .. m => f[k] >= k}
           Down == {d \in Nat : m - d \in 1 .. m => f[m - d] <= m - d}
<1>1. 0 .. m \subseteq Up
  <2>1. 0 \in Up
    OBVIOUS
  <2>2. ASSUME NEW k \in 0 .. m - 1, k \in Up PROVE k + 1 \in Up
    <3>1. CASE k = 0
      BY <3>1
    <3>2. CASE k # 0
      <4>1. k \in 1 .. m /\ k + 1 \in 1 .. m /\ k < k + 1
        BY <3>2
      <4>2. f[k] >= k /\ f[k] < f[k + 1] /\ f[k] \in 1 .. m /\ f[k + 1] \in 1 .. m
        BY <2>2, <4>1
      <4>3. f[k + 1] >= k + 1
        BY <4>2
      <4> QED BY <4>3
    <3> QED BY <3>1, <3>2
  <2> HIDE DEF Up
  <2> QED BY <2>1, <2>2, InductionUpTo
<1>2. 0 .. m \subseteq Down
  <2>1. 0 \in Down
    OBVIOUS
  <2>2. ASSUME NEW d \in 0 .. m - 1, d \in Down PROVE d + 1 \in Down
    <3>1. CASE d = m - 1
      BY <3>1
    <3>2. CASE d # m - 1
      <4>1. PICK k \in Nat : k = m - (d + 1) /\ k + 1 = m - d
        BY <3>2
      <4>2. k \in 1 .. m /\ k + 1 \in 1 .. m /\ k < k + 1
        BY <3>2, <4>1
      <4>3. f[k + 1] <= k + 1 /\ f[k] < f[k + 1] /\ f[k] \in 1 .. m /\ f[k + 1] \in 1 .. m
        BY <2>2, <4>1, <4>2
      <4>4. f[k] <= k
        BY <4>3
      <4> QED BY <4>1, <4>4
    <3> QED BY <3>1, <3>2
  <2> HIDE DEF Down
  <2> QED BY <2>1, <2>2, InductionUpTo
<1>3. SUFFICES ASSUME NEW k \in 1 .. m PROVE f[k] = k
  OBVIOUS
<1>4. f[k] >= k
  <2>1. k \in Up
    <3> HIDE DEF Up
    <3> QED BY <1>1
  <2> QED BY <2>1
<1>5. f[k] <= k
  <2>1. m - k \in 0 .. m /\ m - (m - k) = k
    OBVIOUS
  <2>2. m - k \in Down
    <3> HIDE DEF Down
    <3> QED BY <1>2, <2>1
  <2> QED BY <2>1, <2>2
<1> QED BY <1>4, <1>5

(* Every position up to the last offset is between two that follow.        *)
LEMMA Between ==
    ASSUME NEW n \in Nat, NEW f \in [1 .. n + 1 -> Int], f[1] = 0,
           NEW a \in 1 .. f[n + 1]
    PROVE  \E k \in 1 .. n : f[k] < a /\ a <= f[k + 1]
<1> DEFINE T == {k \in 1 .. n + 1 : a <= f[k]}
<1>1. n + 1 \in T /\ T \subseteq Nat
  OBVIOUS
<1>2. PICK x \in T : \A y \in T : x <= y
  BY <1>1, LeastNatural
<1>3. x # 1
  BY <1>2
<1>4. x - 1 \in 1 .. n /\ x - 1 \in 1 .. n + 1 /\ (x - 1) + 1 = x
  BY <1>3
<1>5. ~(a <= f[x - 1])
  BY <1>2, <1>4
<1> QED BY <1>2, <1>4, <1>5
-----------------------------------------------------------------------------
(* Least elements and insertions.                                          *)

LEMMA MinIsLeast ==
    ASSUME NEW T, T \subseteq Nat, T # {}
    PROVE  Min(T) \in T /\ \A y \in T : Min(T) <= y
<1>1. \E x \in T : \A y \in T : x <= y
  BY LeastNatural
<1> QED BY <1>1 DEF Min

LEMMA MinOfTwo ==
    ASSUME NEW a \in Nat, NEW b \in Nat
    PROVE  Min({a, b}) = IF a <= b THEN a ELSE b
<1>1. {a, b} \subseteq Nat /\ {a, b} # {}
  OBVIOUS
<1>2. Min({a, b}) \in {a, b} /\ \A y \in {a, b} : Min({a, b}) <= y
  BY <1>1, MinIsLeast
<1> QED BY <1>2

LEMMA Insertion ==
    ASSUME NEW S, NEW s \in Seq(S), NEW i \in 1 .. Len(s) + 1, NEW e \in S,
           NEW t, t = InsertAt(s, i, e)
    PROVE  /\ t \in Seq(S) /\ Len(t) = Len(s) + 1 /\ t[i] = e
           /\ \A j \in 1 .. i - 1 : t[j] = s[j]
           /\ \A j \in i + 1 .. Len(s) + 1 : t[j] = s[j - 1]
<1>1. Len(s) \in Nat /\ \A k \in 1 .. Len(s) : s[k] \in S
  OBVIOUS
<1>2. PICK p : p = SubSeq(s, 1, i - 1)
  OBVIOUS
<1>3. /\ p \in Seq(S) /\ Len(p) = i - 1 /\ \A j \in 1 .. i - 1 : p[j] = s[j]
  <2>1. \A k \in 1 .. i - 1 : s[k] \in S
    BY <1>1
  <2>2. /\ SubSeq(s, 1, i - 1) \in Seq(S)
        /\ Len(SubSeq(s, 1, i - 1)) = IF 1 <= i - 1 THEN i - 1 - 1 + 1 ELSE 0
        /\ \A j \in 1 .. i - 1 - 1 + 1 : SubSeq(s, 1, i - 1)[j] = s[1 + j - 1]
    BY <2>1, SubSeqProperties
  <2>3. i - 1 - 1 + 1 = i - 1 /\ \A j \in 1 .. i - 1 : 1 + j - 1 = j
    OBVIOUS
  <2> QED BY <1>2, <2>2, <2>3
<1>4. PICK q : q = SubSeq(s, i, Len(s))
  OBVIOUS
<1>5. /\ q \in Seq(S) /\ Len(q) = Len(s) - i + 1
      /\ \A j \in 1 .. Len(s) - i + 1 : q[j] = s[i + j - 1]
  <2>1. \A k \in i .. Len(s) : s[k] \in S
    BY <1>1
  <2>2. /\ SubSeq(s, i, Len(s)) \in Seq(S)
        /\ Len(SubSeq(s, i, Len(s))) = IF i <= Len(s) THEN Len(s) - i + 1 ELSE 0
        /\ \A j \in 1 .. Len(s) - i + 1 : SubSeq(s, i, Len(s))[j] = s[i + j - 1]
    BY <1>1, <2>1, SubSeqProperties
  <2>3. (IF i <= Len(s) THEN Len(s) - i + 1 ELSE 0) = Len(s) - i + 1
    BY <1>1
  <2> QED BY <1>4, <2>2, <2>3
<1>6. t = p \o <<e>> \o q
  BY <1>2, <1>4 DEF InsertAt
<1>7. PICK u : u = p \o <<e>>
  OBVIOUS
<1>8. /\ u \in Seq(S) /\ Len(u) = i /\ u[i] = e /\ \A j \in 1 .. i - 1 : u[j] = s[j]
  BY <1>3, <1>7
<1>9. t = u \o q
  BY <1>6, <1>7
<1>10. /\ t \in Seq(S) /\ Len(t) = Len(s) + 1
       /\ \A j \in 1 .. i : t[j] = u[j]
       /\ \A j \in i + 1 .. Len(s) + 1 : t[j] = q[j - i]
  BY <1>1, <1>5, <1>8, <1>9
<1>11. \A j \in i + 1 .. Len(s) + 1 : j - i \in 1 .. Len(s) - i + 1 /\ i + (j - i) - 1 = j - 1
  BY <1>1
<1>12. \A j \in i + 1 .. Len(s) + 1 : t[j] = s[j - 1]
  BY <1>5, <1>10, <1>11
<1> QED BY <1>8, <1>10, <1>12
-----------------------------------------------------------------------------
(* There is one increasing listing of a set: a function that goes through  *)
(* the set upwards is that one.                                            *)
LEMMA IncreasingIs ==
    ASSUME NEW S \in SUBSET Int, IsFiniteSet(S), NEW m, m = Cardinality(S),
           NEW f, \A x \in S : \E k \in 1 .. m : f[k] = x,
           \A k \in 1 .. m : f[k] \in S,
           \A j, k \in 1 .. m : j < k => f[j] < f[k]
    PROVE  \A k \in 1 .. m : Increasing(S)[k] = f[k]
<1>1. PICK at : at = Increasing(S)
  OBVIOUS
<1>2. /\ at \in Bijection(1 .. m, S)
      /\ \A i, j \in 1 .. m : i < j => at[i] < at[j]
  BY <1>1, IncreasingLists
<1>3. m \in Nat
  BY FS_CardinalityType
<1>4. \A k \in 1 .. m : at[k] \in S
  BY <1>2 DEF Bijection, Injection
<1> DEFINE where == [k \in 1 .. m |-> CHOOSE j \in 1 .. m : f[j] = at[k]]
<1>5. \A k \in 1 .. m : where[k] \in 1 .. m /\ f[where[k]] = at[k]
  BY <1>4
<1> HIDE DEF where
<1>6. ASSUME NEW j \in 1 .. m, NEW k \in 1 .. m, j < k PROVE where[j] < where[k]
  <2>1. at[j] < at[k] /\ at[j] \in Int /\ at[k] \in Int
    BY <1>2, <1>4, <1>6
  <2>2. PICK a \in 1 .. m : a = where[j] /\ f[a] = at[j]
    BY <1>5
  <2>3. PICK b \in 1 .. m : b = where[k] /\ f[b] = at[k]
    BY <1>5
  <2>4. a # b /\ ~(b < a)
    <3>1. b < a => f[b] < f[a]
      OBVIOUS
    <3> QED BY <2>1, <2>2, <2>3, <3>1
  <2> QED BY <2>2, <2>3, <2>4
<1>7. \A k \in 1 .. m : where[k] = k
  BY <1>3, <1>5, <1>6, OnlyOneWay
<1> QED BY <1>1, <1>5, <1>7

(* What a filter keeps of one position more.                               *)
LEMMA PickedGrows ==
    ASSUME NEW S, NEW s \in Seq(S), NEW P \in SUBSET (DOMAIN s),
           NEW m \in DOMAIN s, \A n \in P : n < m
    PROVE  Picked(s, P \cup {m}) = Picked(s, P) \o <<s[m]>>
<1>1. PICK c \in Nat : c = Cardinality(P)
  BY PickedElements
<1>2. IsFiniteSet(P) /\ P \in SUBSET Int /\ m \in Int /\ m \notin P
  BY PickedElements
<1>3. PICK Q : Q = P \cup {m}
  OBVIOUS
<1>4. IsFiniteSet(Q) /\ Cardinality(Q) = c + 1
  BY <1>1, <1>2, <1>3, FS_AddElement
<1>5. PICK at : at = Increasing(P)
  OBVIOUS
<1>6. /\ \A k \in 1 .. c : at[k] \in P
      /\ \A j, k \in 1 .. c : j < k => at[j] < at[k]
      /\ P = {at[k] : k \in 1 .. c}
  <2>1. at \in Bijection(1 .. c, P) /\ \A j, k \in 1 .. c : j < k => at[j] < at[k]
    BY <1>1, <1>2, <1>5, IncreasingLists
  <2>2. P = {at[k] : k \in 1 .. c}
    BY <1>1, <1>2, <2>1, BijectionIsList
  <2> QED BY <2>1, <2>2
<1>7. PICK f : f = [k \in 1 .. c + 1 |-> IF k = c + 1 THEN m ELSE at[k]]
  OBVIOUS
<1>8. f[c + 1] = m /\ \A k \in 1 .. c : f[k] = at[k]
  BY <1>7
<1>9. \A x \in Q : \E k \in 1 .. c + 1 : f[k] = x
  <2>1. \A x \in P : \E k \in 1 .. c : f[k] = x
    BY <1>6, <1>8
  <2>2. \A k \in 1 .. c : k \in 1 .. c + 1
    OBVIOUS
  <2>3. c + 1 \in 1 .. c + 1
    OBVIOUS
  <2> QED BY <1>3, <1>8, <2>1, <2>2, <2>3
<1>10. \A k \in 1 .. c + 1 : f[k] \in Q
  BY <1>3, <1>6, <1>8
<1>11. \A j, k \in 1 .. c + 1 : j < k => f[j] < f[k]
  <2>1. ASSUME NEW j \in 1 .. c + 1, NEW k \in 1 .. c + 1, j < k PROVE f[j] < f[k]
    <3>1. j \in 1 .. c /\ f[j] = at[j]
      BY <1>8, <2>1
    <3>2. CASE k = c + 1
      BY <1>6, <1>8, <3>1, <3>2
    <3>3. CASE k # c + 1
      <4>1. k \in 1 .. c /\ f[k] = at[k]
        BY <1>8, <3>3
      <4> QED BY <1>6, <2>1, <3>1, <4>1
    <3> QED BY <3>2, <3>3
  <2> QED BY <2>1
<1>12. \A k \in 1 .. c + 1 : Increasing(Q)[k] = f[k]
  <2>1. Q \in SUBSET Int
    BY <1>2, <1>3
  <2> QED BY <1>4, <1>9, <1>10, <1>11, <2>1, IncreasingIs
<1>13. Picked(s, Q) = [k \in 1 .. c + 1 |-> s[f[k]]]
  BY <1>4, <1>12 DEF Picked
<1>14. Picked(s, P) = [k \in 1 .. c |-> s[at[k]]]
  BY <1>1, <1>5 DEF Picked
<1>15. \A k \in 1 .. c : s[at[k]] \in S
  BY <1>6
<1>16. PICK kept : kept = [k \in 1 .. c |-> s[at[k]]]
  OBVIOUS
<1>17. kept \in Seq(S) /\ Len(kept) = c /\ \A k \in 1 .. c : kept[k] = s[at[k]]
  BY <1>15, <1>16
<1>18. kept \o <<s[m]>> = [k \in 1 .. c + 1 |-> s[f[k]]]
  <2>1. PICK e : e = s[m]
    OBVIOUS
  <2>2. kept \o <<e>> = [k \in 1 .. c + 1 |-> IF k <= c THEN kept[k] ELSE e]
    BY <1>17
  <2>3. \A k \in 1 .. c + 1 : (IF k <= c THEN kept[k] ELSE e) = s[f[k]]
    BY <1>8, <1>17, <2>1
  <2> QED BY <2>1, <2>2, <2>3
<1> QED BY <1>3, <1>13, <1>14, <1>16, <1>18

Until(W, k) == {j \in W : j <= k}
Grows(W, n) ==
    /\ Until(W, 0) = {} /\ Until(W, n) = W
    /\ \A k \in 0 .. n : Until(W, k) \in SUBSET (1 .. n)
    /\ \A k \in 0 .. n : \A j \in Until(W, k) : j < k + 1
    /\ \A k \in 0 .. n - 1 :
           Until(W, k + 1) = IF k + 1 \in W THEN Until(W, k) \cup {k + 1}
                                ELSE Until(W, k)

LEMMA UntilGrows ==
    ASSUME NEW n \in Nat, NEW W \in SUBSET (1 .. n)
    PROVE  Grows(W, n)
<1>2. \A j \in W : j \in Int /\ 1 <= j /\ j <= n
  OBVIOUS
<1>3. \A k : Until(W, k) \subseteq W
  BY DEF Until
<1>4. \A k \in Int : \A j \in W : j \in Until(W, k) <=> j <= k
  BY DEF Until
<1>5. Until(W, 0) = {}
  <2>1. \A j \in W : j \notin Until(W, 0)
    BY <1>2, <1>4
  <2> QED BY <1>3, <2>1
<1>6. Until(W, n) = W
  <2>1. \A j \in W : j \in Until(W, n)
    BY <1>2, <1>4
  <2> QED BY <1>3, <2>1
<1>7. ASSUME NEW k \in 0 .. n - 1
      PROVE  Until(W, k + 1) = IF k + 1 \in W THEN Until(W, k) \cup {k + 1}
                                  ELSE Until(W, k)
  <2>1. \A j \in W : j \in Until(W, k + 1) <=> j \in Until(W, k) \/ j = k + 1
    BY <1>2, <1>4
  <2>2. CASE k + 1 \in W
    BY <1>3, <2>1, <2>2
  <2>3. CASE k + 1 \notin W
    <3>1. \A j : j \in Until(W, k + 1) <=> j \in Until(W, k)
      BY <1>3, <2>1, <2>3
    <3> QED BY <2>3, <3>1
  <2> QED BY <2>2, <2>3
<1>8. \A k \in 0 .. n : Until(W, k) \in SUBSET (1 .. n)
  BY <1>3
<1>9. \A k \in 0 .. n : \A j \in Until(W, k) : j < k + 1
  <2>1. \A k \in 0 .. n : \A j \in W : j \in Until(W, k) => j < k + 1
    BY <1>2, <1>4
  <2> QED BY <1>3, <2>1
<1> QED BY <1>5, <1>6, <1>7, <1>8, <1>9 DEF Grows

(* Joining one element for each position in W and nothing for the others   *)
(* is filtering.                                                           *)
Singles(v, W) == [k \in DOMAIN v |-> IF k \in W THEN <<v[k]>> ELSE <<>>]

LEMMA FlattenPicked ==
    ASSUME NEW S, NEW v \in Seq(S), NEW W \in SUBSET (DOMAIN v)
    PROVE  FlattenSeq(Singles(v, W)) = Picked(v, W)
<1>a. PICK n \in Nat : n = Len(v)
  OBVIOUS
<1>b. DOMAIN v = 1 .. n /\ W \in SUBSET (1 .. n) /\ \A k \in 1 .. n : v[k] \in S
  BY <1>a
<1>c. PICK bs : bs = Singles(v, W)
  OBVIOUS
<1>d. \A k \in 1 .. n : bs[k] = IF k \in W THEN <<v[k]>> ELSE <<>>
  BY <1>b, <1>c DEF Singles
<1>e. bs \in [1 .. n -> Seq(S)]
  <2>1. <<>> \in Seq(S) /\ \A x \in S : <<x>> \in Seq(S)
    OBVIOUS
  <2>2. \A k \in 1 .. n : bs[k] \in Seq(S)
    BY <1>b, <1>d, <2>1
  <2>3. bs = [k \in 1 .. n |-> bs[k]]
    BY <1>b, <1>c DEF Singles
  <2> QED BY <2>2, <2>3
<1>2. PICK g : g = [k \in 0 .. n |-> FlattenSeq(SubSeq(bs, 1, k))]
  OBVIOUS
<1>3. g[0] = <<>> /\ \A k \in 1 .. n : g[k] = g[k - 1] \o bs[k]
  <2>1. /\ FlattenSeq(SubSeq(bs, 1, 0)) = <<>>
        /\ \A k \in 1 .. n : FlattenSeq(SubSeq(bs, 1, k))
                                 = FlattenSeq(SubSeq(bs, 1, k - 1)) \o bs[k]
    BY <1>e, FlattenStep
  <2>2. \A k \in 1 .. n : k \in 0 .. n /\ k - 1 \in 0 .. n
    OBVIOUS
  <2>3. 0 \in 0 .. n
    OBVIOUS
  <2> QED BY <1>2, <2>1, <2>2, <2>3
<1>4. g[n] = FlattenSeq(bs)
  <2>1. SubSeq(bs, 1, n) = bs
    BY <1>e
  <2>2. n \in 0 .. n
    OBVIOUS
  <2> QED BY <1>2, <2>1, <2>2
<1>1. /\ Until(W, 0) = {} /\ Until(W, n) = W
      /\ \A k \in 0 .. n : Until(W, k) \in SUBSET (1 .. n)
      /\ \A k \in 0 .. n : \A j \in Until(W, k) : j < k + 1
      /\ \A k \in 0 .. n - 1 :
             Until(W, k + 1) = IF k + 1 \in W THEN Until(W, k) \cup {k + 1}
                                  ELSE Until(W, k)
  <2>1. n \in Nat /\ W \in SUBSET (1 .. n)
    BY <1>a, <1>b
  <2>2. Grows(W, n)
    BY <2>1, UntilGrows
  <2> QED BY <2>2 DEF Grows
<1> DEFINE upTo(k) == Picked(v, Until(W, k))
           T == {k \in 0 .. n : g[k] = upTo(k)}
<1>5. \A k \in 0 .. n : upTo(k) \in Seq(S)
  <2>1. ASSUME NEW k \in 0 .. n PROVE upTo(k) \in Seq(S)
    <3>1. Until(W, k) \in SUBSET (DOMAIN v)
      BY <1>1, <1>b
    <3> QED BY <3>1, PickedElements
  <2> QED BY <2>1
<1>6. 0 \in T
  <2>1. Until(W, 0) = {}
    BY <1>1
  <2>2. Picked(v, {}) = <<>>
    BY FS_EmptySet DEF Picked
  <2>3. 0 \in 0 .. n
    OBVIOUS
  <2> QED BY <1>3, <2>1, <2>2, <2>3
<1>7. ASSUME NEW k \in 0 .. n - 1, k \in T PROVE k + 1 \in T
  <2>1. k + 1 \in 1 .. n /\ k \in 0 .. n /\ k + 1 \in 0 .. n /\ (k + 1) - 1 = k
    OBVIOUS
  <2>2. g[k + 1] = upTo(k) \o bs[k + 1]
    BY <1>3, <1>7, <2>1
  <2>3. CASE k + 1 \in W
    <3>1. bs[k + 1] = <<v[k + 1]>>
      BY <1>d, <2>1, <2>3
    <3>2. Until(W, k + 1) = Until(W, k) \cup {k + 1}
      BY <1>1, <2>3
    <3>3. PICK P : P = Until(W, k)
      OBVIOUS
    <3>4. P \in SUBSET (DOMAIN v) /\ k + 1 \in DOMAIN v /\ \A j \in P : j < k + 1
      BY <1>1, <1>b, <2>1, <3>3
    <3>5. Picked(v, P \cup {k + 1}) = Picked(v, P) \o <<v[k + 1]>>
      BY <3>4, PickedGrows
    <3> QED BY <2>1, <2>2, <3>1, <3>2, <3>3, <3>5
  <2>4. CASE k + 1 \notin W
    <3>1. bs[k + 1] = <<>>
      BY <1>d, <2>1, <2>4
    <3>2. Until(W, k + 1) = Until(W, k)
      BY <1>1, <2>4
    <3>3. PICK p \in Seq(S) : p = upTo(k)
      BY <1>5, <2>1
    <3>4. p \o <<>> = p
      OBVIOUS
    <3>5. upTo(k + 1) = p /\ g[k + 1] = p
      BY <2>2, <3>1, <3>2, <3>3, <3>4
    <3> QED BY <2>1, <3>5
  <2> QED BY <2>3, <2>4
<1>8. n \in T
  <2> HIDE DEF T
  <2>1. 0 .. n \subseteq T
    BY <1>6, <1>7, InductionUpTo
  <2> QED BY <2>1
<1> QED BY <1>1, <1>4, <1>8, <1>c

(* Joining sequences of one element each gives the elements.               *)
LEMMA FlattenSingles ==
    ASSUME NEW S, NEW v \in Seq(S)
    PROVE  FlattenSeq([k \in DOMAIN v |-> <<v[k]>>]) = v
<1>1. PICK n \in Nat : n = Len(v) /\ DOMAIN v = 1 .. n
  OBVIOUS
<1>2. Singles(v, DOMAIN v) = [k \in DOMAIN v |-> <<v[k]>>]
  BY DEF Singles
<1>3. FlattenSeq(Singles(v, DOMAIN v)) = Picked(v, DOMAIN v)
  BY FlattenPicked
<1>4. PICK P : P = DOMAIN v
  OBVIOUS
<1>5. Cardinality(P) = n
  BY <1>1, <1>4, UpTo
<1>6. P \in SUBSET (DOMAIN v)
  BY <1>4
<1>7. /\ \A k \in 1 .. n : Increasing(P)[k] \in 1 .. n
      /\ \A j, k \in 1 .. n : j < k => Increasing(P)[j] < Increasing(P)[k]
  BY <1>1, <1>4, <1>5, <1>6, PickedElements
<1>8. \A k \in 1 .. n : Increasing(P)[k] = k
  BY <1>7, OnlyOneWay
<1>9. Picked(v, P) = [k \in 1 .. n |-> v[k]]
  BY <1>5, <1>8 DEF Picked
<1>10. [k \in 1 .. n |-> v[k]] = v
  BY <1>1
<1> QED BY <1>2, <1>3, <1>4, <1>9, <1>10

(* Where the elements of the parts are in the whole.                       *)
Positions(bs, n) ==
    \A k \in 1 .. n : \A j \in 1 .. Len(bs[k]) :
        /\ Len(FlattenSeq(SubSeq(bs, 1, k - 1))) + j
               \in 1 .. Len(FlattenSeq(SubSeq(bs, 1, n)))
        /\ FlattenSeq(SubSeq(bs, 1, n))[Len(FlattenSeq(SubSeq(bs, 1, k - 1))) + j]
               = bs[k][j]

LEMMA FlattenPositions ==
    ASSUME NEW S, NEW n \in Nat, NEW bs \in [1 .. n -> Seq(S)]
    PROVE  Positions(bs, n)
  BY FlattenAt DEF Positions
=============================================================================
