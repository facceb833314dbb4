------------------------ MODULE ForwardSearchProofs ------------------------
(***************************************************************************)
(* The best hits survive three steps that each see only a part: the index  *)
(* cuts by text alone, places that cannot be read drop out, and the sort   *)
(* by score and importance comes before the limit.  Proved for every       *)
(* index, whatever scores and whatever order of documents it has.  And     *)
(* whoever asks for a word of a place matches it, for texts of any length: *)
(* what the import and the query do to a text agree.                       *)
(***************************************************************************)
EXTENDS ForwardSearch, ListsProofs

Asked == {"asked", "searched", "answered"}
Ranked == {"searched", "answered"}

Imported ==
    /\ phase \in Phases /\ places \in Seq(Tagged) /\ lost \in SUBSET Ids
    /\ phase # "import" => DOMAIN terms = Ids /\ order \in Bijection(Ids, Ids)

Limited ==
    /\ query = NoQuery \/ query.limit \in 1 .. MAX_LIMIT
    /\ phase \in Asked => query.limit \in 1 .. MAX_LIMIT

Fetching ==
    /\ DOMAIN score \in SUBSET Ids /\ score \in [DOMAIN score -> 1 .. MaxScore]
    /\ phase \in Ranked => hits = TopDocs(score, MAX_LIMIT)
    /\ phase \notin Ranked => score = <<>> /\ hits = <<>>

Answers ==
    /\ phase = "answered" =>
           results = [k \in DOMAIN Answer(hits, query.limit) |->
                          [id |-> Answer(hits, query.limit)[k],
                           score |-> forward_score(Answer(hits, query.limit)[k])]]
    /\ phase # "answered" => results = <<>>

IInv == Imported /\ Limited /\ Fetching /\ Answers

-----------------------------------------------------------------------------
(* The three steps.                                                        *)

IsTop(top, D, s, m) ==
    /\ top \in Seq(D) /\ IsInjective(top)
    /\ \A d \in D, h \in ToSet(top) : s[d] > s[h] => d \in ToSet(top)
    /\ Cardinality(D) <= m => ToSet(top) = D

IsRanking(t, ids, D) ==
    /\ t \in Seq(D) /\ IsInjective(t) /\ Len(t) = Len(ids) /\ ToSet(t) = ToSet(ids)
    /\ \A i, j \in 1 .. Len(t) : i < j => forward_score(t[i]) >= forward_score(t[j])

IsAnswer(a, H, n) ==
    /\ a \in Seq(H) /\ IsInjective(a) /\ Len(a) = Min({n, Cardinality(H)})
    /\ \A i, j \in 1 .. Len(a) : i < j => forward_score(a[i]) >= forward_score(a[j])
    /\ \A d \in H \ ToSet(a), k \in 1 .. Len(a) :
           forward_score(d) <= forward_score(a[k])

LEMMA IdsAre ==
    ASSUME places \in Seq(Tagged)
    PROVE  /\ Len(places) \in Nat /\ Ids = 1 .. Len(places) /\ Ids \subseteq Nat
           /\ IsFiniteSet(Ids)
           /\ \A d \in Ids : places[d] \in Tagged /\ places[d].importance \in Nat
<1>1. Len(places) \in Nat /\ Ids = 1 .. Len(places)
  BY DEF Ids
<1>2. \A d \in Ids : places[d] \in Tagged
  BY <1>1
<1>3. \A p \in Tagged : p.importance \in Nat
  BY TaggedAssumption
<1>4. IsFiniteSet(Ids)
  BY <1>1, FS_Interval
<1> QED BY <1>1, <1>2, <1>3, <1>4

(* The beginning of a list.                                                *)
LEMMA BestIs ==
    ASSUME NEW D, NEW ids \in Seq(D), NEW n \in Nat
    PROVE  /\ Best(ids, n) \in Seq(D) /\ Len(Best(ids, n)) = Min({n, Len(ids)})
           /\ Len(Best(ids, n)) <= n /\ Len(Best(ids, n)) <= Len(ids)
           /\ Len(ids) <= n => Len(Best(ids, n)) = Len(ids)
           /\ DOMAIN Best(ids, n) = 1 .. Len(Best(ids, n))
           /\ \A k \in 1 .. Len(Best(ids, n)) : Best(ids, n)[k] = ids[k]
<1>1. PICK l \in Nat : l = Len(ids)
  OBVIOUS
<1>2. PICK k \in Nat : k = Min({n, l})
  BY MinOfTwo
<1>3. k <= n /\ k <= l /\ (l <= n => k = l) /\ k \in 0 .. l
  BY <1>2, MinOfTwo
<1>4. ids \in [1 .. l -> D]
  BY <1>1
<1>5. PICK b : b = SubSeq(ids, 1, k)
  OBVIOUS
<1>6. b \in Seq(D) /\ Len(b) = k /\ DOMAIN b = 1 .. k /\ \A i \in 1 .. k : b[i] = ids[i]
  BY <1>3, <1>4, <1>5, Beginning
<1>7. Best(ids, n) = b
  BY <1>1, <1>2, <1>5 DEF Best
<1> QED BY <1>1, <1>2, <1>3, <1>6, <1>7

(* All documents with a score, in the order of the index.                  *)
ByText(D, s) == Listing(D, LAMBDA d, e : Before(s, d, e))

LEMMA ListedAll ==
    ASSUME NEW D, NEW s \in [D -> Int], D \in SUBSET Ids, places \in Seq(Tagged),
           order \in Bijection(Ids, Ids), NEW all, all = ByText(D, s)
    PROVE  /\ all \in Bijection(1 .. Cardinality(D), D)
           /\ \A i, j \in 1 .. Cardinality(D) : i < j => Before(s, all[i], all[j])
<1> DEFINE R == {p \in D \X D : Before(s, p[1], p[2])}
<1>1. IsFiniteSet(D)
  <2>1. IsFiniteSet(Ids)
    BY IdsAre
  <2> QED BY <2>1, FS_Subset
<1>2. \A d \in D : order[d] \in Nat /\ s[d] \in Int
  <2>1. order \in [Ids -> Ids] /\ Ids \subseteq Nat
    BY IdsAre, Fun_BijectionProperties
  <2> QED BY <2>1
<1>3. \A d, e \in D : order[d] = order[e] => d = e
  <2>1. order \in Injection(Ids, Ids)
    BY Fun_BijectionProperties
  <2>2. \A d, e \in Ids : order[d] = order[e] => d = e
    BY <2>1 DEF Injection, IsInjective
  <2> QED BY <2>2
<1>4. Orders(R, D)
  <2>1. \A d, e \in D : <<d, e>> \in R <=> Before(s, d, e)
    OBVIOUS
  <2>2. R \subseteq D \X D
    OBVIOUS
  <2> HIDE DEF R
  <2> QED BY <1>2, <1>3, <2>1, <2>2 DEF Orders, Before
<1>5. \A d, e \in D : <<d, e>> \in R <=> Before(s, d, e)
  OBVIOUS
<1> HIDE DEF R
<1>6. PICK f \in Bijection(1 .. Cardinality(D), D) :
          \A i, j \in 1 .. Cardinality(D) : i < j => <<f[i], f[j]>> \in R
  BY <1>1, <1>4, SortingExists
<1>7. \A i, j \in 1 .. Cardinality(D) : i < j => Before(s, f[i], f[j])
  <2>1. \A k \in 1 .. Cardinality(D) : f[k] \in D
    BY <1>1, <1>6, BijectionIsList
  <2> QED BY <1>5, <1>6, <2>1
<1>8. \A g \in Bijection(1 .. Cardinality(D), D) : Len(g) = Cardinality(D)
  BY <1>1, BijectionIsList
<1> DEFINE InOrder(g) == \A i, j \in 1 .. Len(g) : i < j => Before(s, g[i], g[j])
<1>9. all = CHOOSE g \in Bijection(1 .. Cardinality(D), D) : InOrder(g)
  BY DEF ByText, Listing, IsSorted
<1>10. InOrder(f)
  BY <1>7, <1>8
<1> HIDE DEF InOrder
<1>11. all \in Bijection(1 .. Cardinality(D), D) /\ InOrder(all)
  BY <1>6, <1>9, <1>10
<1> QED BY <1>8, <1>11 DEF InOrder

(* TopDocs: whatever is cut fits the text no better than what is not.      *)
LEMMA TopIs ==
    ASSUME NEW s, NEW D, DOMAIN s = D, s \in [D -> Int], D \in SUBSET Ids,
           places \in Seq(Tagged), order \in Bijection(Ids, Ids), NEW m \in Nat
    PROVE  IsTop(TopDocs(s, m), D, s, m)
<1>1. PICK all : all = ByText(D, s)
  OBVIOUS
<1>2. /\ all \in Bijection(1 .. Cardinality(D), D)
      /\ \A i, j \in 1 .. Cardinality(D) : i < j => Before(s, all[i], all[j])
  BY <1>1, ListedAll
<1>3. IsFiniteSet(D)
  <2>1. IsFiniteSet(Ids)
    BY IdsAre
  <2> QED BY <2>1, FS_Subset
<1>4. PICK n \in Nat : n = Cardinality(D)
  BY <1>3, FS_CardinalityType
<1>5. /\ all \in Seq(D) /\ Len(all) = n /\ IsInjective(all) /\ DOMAIN all = 1 .. n
      /\ D = {all[k] : k \in 1 .. n}
  BY <1>2, <1>3, <1>4, BijectionIsList
<1>6. PICK l \in Nat : l = Len(Best(all, m))
  <2>1. Best(all, m) \in Seq(D)
    BY <1>5, BestIs
  <2> QED BY <2>1
<1>7. PICK top : top = TopDocs(s, m)
  OBVIOUS
<1>8. /\ l = Len(top) /\ l <= n /\ (n <= m => l = n)
      /\ top \in Seq(D) /\ DOMAIN top = 1 .. l
      /\ \A k \in 1 .. l : top[k] = all[k]
  <2>1. top = Best(all, m)
    BY <1>1, <1>7 DEF TopDocs, Best, ByText
  <2>2. all \in Seq(D)
    BY <1>5
  <2>3. /\ top \in Seq(D) /\ l <= Len(all) /\ (Len(all) <= m => l = Len(all))
        /\ DOMAIN top = 1 .. l /\ \A k \in 1 .. l : top[k] = all[k]
    <3> DEFINE b == Best(all, m)
    <3>1. b \in Seq(D)
      BY <2>2, BestIs
    <3>4. Len(b) <= Len(all)
      BY <2>2, BestIs
    <3>5. DOMAIN b = 1 .. Len(b)
      BY <2>2, BestIs
    <3>2. Len(all) <= m => Len(b) = Len(all)
      BY <2>2, BestIs
    <3>3. \A k \in 1 .. Len(b) : b[k] = all[k]
      BY <2>2, BestIs
    <3> HIDE DEF b
    <3> QED BY <1>6, <2>1, <3>1, <3>2, <3>3, <3>4, <3>5 DEF b
  <2> QED BY <1>5, <1>6, <2>1, <2>3
<1>9. \A k \in 1 .. l : k \in 1 .. n
  BY <1>8
<1>10. ToSet(top) = {all[k] : k \in 1 .. l}
  BY <1>8 DEF ToSet
<1>11. IsInjective(top)
  BY <1>5, <1>8, <1>9 DEF IsInjective
<1>12. ASSUME NEW d \in D, NEW h \in ToSet(top), s[d] > s[h] PROVE d \in ToSet(top)
  <2>1. PICK i \in 1 .. n : d = all[i]
    BY <1>5
  <2>2. PICK j \in 1 .. l : h = all[j]
    BY <1>10
  <2>3. ~Before(s, all[j], all[i])
    <3>1. all[i] \in D /\ all[j] \in D /\ s[all[i]] \in Int /\ s[all[j]] \in Int
      BY <1>5, <1>9, <2>1, <2>2
    <3> QED BY <1>12, <2>1, <2>2, <3>1 DEF Before
  <2>4. ~(j < i)
    BY <1>2, <1>4, <1>9, <2>3
  <2>5. i \in 1 .. l
    BY <2>1, <2>2, <2>4
  <2> QED BY <1>10, <2>1, <2>5
<1>13. n <= m => ToSet(top) = D
  BY <1>5, <1>8, <1>10
<1> QED BY <1>4, <1>7, <1>8, <1>11, <1>12, <1>13 DEF IsTop

(* What can be read of a list without doubles.                             *)
LEMMA ReadableIs ==
    ASSUME NEW D, NEW ids \in Seq(D), IsInjective(ids)
    PROVE  /\ Readable(ids) \in Seq(D) /\ IsInjective(Readable(ids))
           /\ ToSet(Readable(ids)) = ToSet(ids) \ lost
<1>1. PICK P : P = {k \in DOMAIN ids : ids[k] \notin lost}
  OBVIOUS
<1>2. P \in SUBSET (DOMAIN ids)
  BY <1>1
<1>3. Readable(ids) = Picked(ids, P)
  BY <1>1 DEF Readable
<1>4. \A m, n \in P : ids[m] = ids[n] => m = n
  BY <1>2 DEF IsInjective
<1>5. /\ Picked(ids, P) \in Seq(D) /\ IsInjective(Picked(ids, P))
      /\ ToSet(Picked(ids, P)) = {ids[n] : n \in P}
  BY <1>2, <1>4, PickedElements
<1>6. {ids[n] : n \in P} = ToSet(ids) \ lost
  BY <1>1 DEF ToSet
<1> QED BY <1>3, <1>5, <1>6

(* The sort is a permutation of the list, best first.                      *)
Ranks(ids) ==
    Listing(DOMAIN ids, LAMBDA i, j :
                \/ forward_score(ids[i]) > forward_score(ids[j])
                \/ forward_score(ids[i]) = forward_score(ids[j]) /\ i < j)

Rated(D) == \A d \in D : forward_score(d) \in Int

Permutes(ranks, ids, n) ==
    /\ DOMAIN ranks = 1 .. n /\ IsInjective(ranks)
    /\ \A k \in 1 .. n : ranks[k] \in 1 .. n
    /\ 1 .. n = {ranks[k] : k \in 1 .. n}
    /\ \A i, j \in 1 .. n : i < j =>
           forward_score(ids[ranks[i]]) >= forward_score(ids[ranks[j]])

LEMMA RanksAre ==
    ASSUME NEW D, NEW ids \in Seq(D), Rated(D), NEW n \in Nat, n = Len(ids)
    PROVE  Permutes(Ranks(ids), ids, n)
<1> DEFINE Earlier(i, j) == \/ forward_score(ids[i]) > forward_score(ids[j])
                            \/ forward_score(ids[i]) = forward_score(ids[j]) /\ i < j
           InOrder(h) == \A i, j \in 1 .. Len(h) : i < j => Earlier(h[i], h[j])
<1> DEFINE ranks == Ranks(ids)
<1>1. PICK S : S = DOMAIN ids
  OBVIOUS
<1>2. S = 1 .. n
  BY <1>1
<1>3. IsFiniteSet(S) /\ Cardinality(S) = n
  <2>1. IsFiniteSet(1 .. n) /\ Cardinality(1 .. n) = n
    BY UpTo
  <2> QED BY <1>2, <2>1
<1>4. ranks = CHOOSE h \in Bijection(1 .. Cardinality(S), S) : InOrder(h)
  BY <1>1 DEF Ranks, Listing, IsSorted
<1> HIDE DEF ranks
<1>5. PICK f : f = [k \in 1 .. n |-> forward_score(ids[k])]
  OBVIOUS
<1>6. \A k \in 1 .. n : f[k] = forward_score(ids[k]) /\ f[k] \in Int
  <2>1. \A k \in 1 .. n : ids[k] \in D
    OBVIOUS
  <2> QED BY <1>5, <2>1 DEF Rated
<1>7. f \in [1 .. n -> Int]
  BY <1>5, <1>6
<1>8. \A i, j \in 1 .. n : Higher(f, i, j) <=> Earlier(i, j)
  BY <1>6 DEF Higher
<1> HIDE DEF Earlier
<1>9. PICK g \in Bijection(1 .. n, 1 .. n) :
          \A i, j \in 1 .. n : i < j => Higher(f, g[i], g[j])
  BY <1>7, PositionsRank
<1>10. ASSUME NEW h \in Bijection(1 .. Cardinality(S), S)
       PROVE  /\ Len(h) = n /\ DOMAIN h = 1 .. n /\ IsInjective(h)
              /\ S = {h[k] : k \in 1 .. n} /\ \A k \in 1 .. n : h[k] \in S
  <2>1. /\ h \in Seq(S) /\ Len(h) = Cardinality(S) /\ DOMAIN h = 1 .. Cardinality(S)
        /\ IsInjective(h) /\ S = {h[k] : k \in 1 .. Cardinality(S)}
    <3> HIDE DEF InOrder
    <3> QED BY <1>3, BijectionIsList
  <2> QED BY <1>3, <2>1
<1>11. g \in Bijection(1 .. Cardinality(S), S) /\ InOrder(g)
  <2>1. g \in Bijection(1 .. Cardinality(S), S)
    BY <1>2, <1>3, <1>9
  <2>2. Len(g) = n /\ \A k \in 1 .. n : g[k] \in 1 .. n
    BY <1>2, <1>10, <2>1
  <2> QED BY <1>8, <1>9, <2>1, <2>2
<1> HIDE DEF InOrder
<1>12. ranks \in Bijection(1 .. Cardinality(S), S) /\ InOrder(ranks)
  BY <1>4, <1>11
<1>13. /\ Len(ranks) = n /\ DOMAIN ranks = 1 .. n /\ IsInjective(ranks)
       /\ S = {ranks[k] : k \in 1 .. n} /\ \A k \in 1 .. n : ranks[k] \in S
  BY <1>10, <1>12
<1>14. ASSUME NEW i \in 1 .. n, NEW j \in 1 .. n, i < j
       PROVE  forward_score(ids[ranks[i]]) >= forward_score(ids[ranks[j]])
  <2>1. Earlier(ranks[i], ranks[j])
    BY <1>12, <1>13, <1>14 DEF InOrder
  <2>2. ranks[i] \in 1 .. n /\ ranks[j] \in 1 .. n
    BY <1>2, <1>13
  <2>3. /\ forward_score(ids[ranks[i]]) \in Int /\ forward_score(ids[ranks[j]]) \in Int
    BY <1>6, <2>2
  <2> QED BY <2>1, <2>3 DEF Earlier
<1>15. Permutes(ranks, ids, n)
  BY <1>2, <1>13, <1>14 DEF Permutes
<1> QED BY <1>15 DEF ranks

LEMMA SortedIs ==
    ASSUME NEW D, NEW ids \in Seq(D), IsInjective(ids), Rated(D)
    PROVE  IsRanking(Sorted(ids), ids, D)
<1>1. PICK n \in Nat : n = Len(ids)
  OBVIOUS
<1>2. DOMAIN ids = 1 .. n /\ \A k \in 1 .. n : ids[k] \in D
  BY <1>1
<1>3. PICK ranks : ranks = Ranks(ids)
  OBVIOUS
<1>4. /\ DOMAIN ranks = 1 .. n /\ IsInjective(ranks)
      /\ \A k \in 1 .. n : ranks[k] \in 1 .. n
      /\ 1 .. n = {ranks[k] : k \in 1 .. n}
      /\ \A i, j \in 1 .. n : i < j =>
             forward_score(ids[ranks[i]]) >= forward_score(ids[ranks[j]])
  <2>1. Permutes(ranks, ids, n)
    BY <1>1, <1>3, RanksAre
  <2> QED BY <2>1 DEF Permutes
<1>5. PICK t : t = [k \in DOMAIN ids |-> ids[ranks[k]]]
  OBVIOUS
<1>6. Sorted(ids) = t
  BY <1>3, <1>5 DEF Sorted, Ranks
<1>7. \A k \in 1 .. n : t[k] = ids[ranks[k]] /\ t[k] \in D
  BY <1>2, <1>4, <1>5
<1>8. t \in [1 .. n -> D]
  BY <1>2, <1>5, <1>7
<1>9. t \in Seq(D) /\ Len(t) = n /\ DOMAIN t = 1 .. n
  BY <1>8, SeqDef
<1>10. IsInjective(t)
  BY <1>2, <1>4, <1>7, <1>9 DEF IsInjective
<1>11. ToSet(t) = ToSet(ids)
  <2>1. ToSet(t) = {t[k] : k \in 1 .. n}
    BY <1>9 DEF ToSet
  <2>2. ToSet(ids) = {ids[k] : k \in 1 .. n}
    BY <1>2 DEF ToSet
  <2>3. \A k \in 1 .. n : \E j \in 1 .. n : k = ranks[j]
    <3>1. \A k \in {ranks[i] : i \in 1 .. n} : \E j \in 1 .. n : k = ranks[j]
      OBVIOUS
    <3>2. 1 .. n = {ranks[i] : i \in 1 .. n}
      BY <1>4
    <3> QED BY <3>1, <3>2
  <2>4. \A k \in 1 .. n : \E j \in 1 .. n : ids[k] = t[j]
    <3> SUFFICES ASSUME NEW k \in 1 .. n PROVE \E j \in 1 .. n : ids[k] = t[j]
      OBVIOUS
    <3>1. PICK j \in 1 .. n : k = ranks[j]
      BY <2>3
    <3>2. t[j] = ids[ranks[j]]
      BY <1>7
    <3> QED BY <3>1, <3>2
  <2>5. \A j \in 1 .. n : \E k \in 1 .. n : t[j] = ids[k]
    BY <1>4, <1>7
  <2> QED BY <2>1, <2>2, <2>4, <2>5
<1>12. \A i, j \in 1 .. n : i < j => forward_score(t[i]) >= forward_score(t[j])
  BY <1>4, <1>7
<1> QED BY <1>1, <1>6, <1>9, <1>10, <1>11, <1>12 DEF IsRanking

(* What a query of the limit n gets of the hits: all of them that can be   *)
(* read, or n with none better among the rest.                             *)
LEMMA AnswerIs ==
    ASSUME NEW D, NEW ids \in Seq(D), IsInjective(ids), Rated(D), NEW n \in Nat,
           NEW H, H = ToSet(ids) \ lost
    PROVE  IsAnswer(Answer(ids, n), H, n)
<1>1. PICK r : r = Readable(ids)
  OBVIOUS
<1>2. r \in Seq(D) /\ IsInjective(r) /\ ToSet(r) = H
  BY <1>1, ReadableIs
<1>3. PICK t : t = Sorted(r)
  OBVIOUS
<1>4. /\ t \in Seq(D) /\ IsInjective(t) /\ Len(t) = Len(r) /\ ToSet(t) = H
      /\ \A i, j \in 1 .. Len(t) : i < j => forward_score(t[i]) >= forward_score(t[j])
  <2>1. IsRanking(t, r, D)
    BY <1>2, <1>3, SortedIs
  <2> QED BY <1>2, <2>1 DEF IsRanking
<1>5. PICK c \in Nat : c = Len(t)
  BY <1>4
<1>6. DOMAIN t = 1 .. c /\ H = {t[k] : k \in 1 .. c} /\ \A k \in 1 .. c : t[k] \in D
  BY <1>4, <1>5 DEF ToSet
<1>7. Cardinality(H) = c
  <2>1. t \in Bijection(1 .. c, H)
    <3>1. \A k \in 1 .. c : t[k] \in H
      BY <1>6
    <3>2. t \in [1 .. c -> H]
      BY <1>4, <1>5, <1>6, <3>1
    <3>3. \A i, j \in 1 .. c : t[i] = t[j] => i = j
      BY <1>4, <1>6 DEF IsInjective
    <3>4. \A x \in H : \E k \in 1 .. c : t[k] = x
      BY <1>6
    <3> QED BY <3>2, <3>3, <3>4, Fun_IsBij
  <2>2. IsFiniteSet(1 .. c) /\ Cardinality(1 .. c) = c
    BY UpTo
  <2>3. Cardinality(1 .. c) = Cardinality(H)
    BY <2>1, <2>2, FS_Bijection DEF ExistsBijection
  <2> QED BY <2>2, <2>3
<1>8. t \in Seq(H)
  <2>1. \A k \in 1 .. c : t[k] \in H
    BY <1>6
  <2>2. t \in [1 .. c -> H]
    BY <1>4, <1>5, <1>6, <2>1
  <2> QED BY <2>2, SeqDef
<1>9. PICK a : a = Best(t, n)
  OBVIOUS
<1>10. PICK l \in Nat : l = Len(a)
  <2>1. a \in Seq(H)
    BY <1>8, <1>9, BestIs
  <2> QED BY <2>1
<1>11. a \in Seq(H) /\ DOMAIN a = 1 .. l
  <2>1. a \in Seq(H)
    BY <1>8, <1>9, BestIs
  <2> QED BY <1>10, <2>1
<1>12. l = Min({n, c}) /\ l <= c
  BY <1>5, <1>8, <1>9, <1>10, BestIs
<1>13. \A k \in 1 .. l : a[k] = t[k]
  <2>1. \A k \in 1 .. Len(Best(t, n)) : Best(t, n)[k] = t[k]
    BY <1>8, BestIs
  <2> QED BY <1>9, <1>10, <2>1
<1>14. \A k \in 1 .. l : k \in 1 .. c
  BY <1>12
<1>15. IsInjective(a)
  BY <1>4, <1>6, <1>11, <1>13, <1>14 DEF IsInjective
<1>16. \A i, j \in 1 .. l : i < j => forward_score(a[i]) >= forward_score(a[j])
  BY <1>4, <1>5, <1>13, <1>14
<1>17. ASSUME NEW d \in H \ ToSet(a), NEW k \in 1 .. l
       PROVE  forward_score(d) <= forward_score(a[k])
  <2>1. PICK i \in 1 .. c : d = t[i]
    BY <1>6
  <2>2. \A j \in 1 .. l : t[j] \in ToSet(a)
    BY <1>11, <1>13 DEF ToSet
  <2>3. k < i
    BY <1>17, <2>1, <2>2
  <2>4. forward_score(t[k]) >= forward_score(t[i])
    BY <1>4, <1>5, <1>14, <2>3
  <2>5. forward_score(t[k]) \in Int /\ forward_score(t[i]) \in Int
    BY <1>6, <1>14 DEF Rated
  <2> QED BY <1>13, <2>1, <2>4, <2>5
<1>18. Answer(ids, n) = a
  BY <1>1, <1>3, <1>9 DEF Answer
<1>19. IsAnswer(a, H, n)
  BY <1>7, <1>10, <1>11, <1>12, <1>15, <1>16, <1>17 DEF IsAnswer
<1> QED BY <1>18, <1>19

(* A larger limit only adds to an answer.                                  *)
LEMMA LongerAnswer ==
    ASSUME NEW D, NEW ids \in Seq(D), IsInjective(ids), Rated(D),
           NEW m \in Nat, NEW n \in Nat, m <= n
    PROVE  /\ Len(Answer(ids, n)) >= Len(Answer(ids, m))
           /\ \A k \in DOMAIN Answer(ids, m) : Answer(ids, n)[k] = Answer(ids, m)[k]
<1>1. PICK t : t = Sorted(Readable(ids))
  OBVIOUS
<1>2. t \in Seq(D)
  <2>1. Readable(ids) \in Seq(D) /\ IsInjective(Readable(ids))
    BY ReadableIs
  <2> QED BY <1>1, <2>1, SortedIs DEF IsRanking
<1>3. PICK c \in Nat : c = Len(t)
  BY <1>2
<1>4. Answer(ids, m) = Best(t, m) /\ Answer(ids, n) = Best(t, n)
  BY <1>1 DEF Answer
<1>5. PICK a : a = Best(t, m)
  OBVIOUS
<1>6. PICK b : b = Best(t, n)
  OBVIOUS
<1>7. /\ DOMAIN a = 1 .. Len(a) /\ a \in Seq(D) /\ Len(a) = Min({m, c})
  BY <1>2, <1>3, <1>5, BestIs
<1>8. \A k \in 1 .. Len(a) : a[k] = t[k]
  BY <1>2, <1>5, BestIs
<1>9. b \in Seq(D) /\ Len(b) = Min({n, c})
  BY <1>2, <1>3, <1>6, BestIs
<1>10. \A k \in 1 .. Len(b) : b[k] = t[k]
  BY <1>2, <1>6, BestIs
<1>11. Len(b) >= Len(a) /\ Len(a) \in Nat /\ Len(b) \in Nat
  BY <1>7, <1>9, MinOfTwo
<1>12. \A k \in 1 .. Len(a) : b[k] = a[k]
  BY <1>8, <1>10, <1>11
<1> QED BY <1>4, <1>5, <1>6, <1>7, <1>11, <1>12

-----------------------------------------------------------------------------
(* The steps.                                                              *)

LEMMA LimitIs ==
    ASSUME NEW n \in Limits, n # 0
    PROVE  Limit(n) \in 1 .. MAX_LIMIT
<1>1. MAX_LIMIT \in Nat /\ DEFAULT_LIMIT \in 1 .. MAX_LIMIT
  BY LimitsAssumption
<1>2. CASE n = NoLimit
  BY <1>1, <1>2 DEF Limit
<1>3. CASE n # NoLimit
  <2>1. n \in Nat
    BY <1>3, LimitsAssumption
  <2>2. Limit(n) = Min({n, MAX_LIMIT})
    BY <1>3 DEF Limit
  <2>3. MAX_LIMIT >= 1
    BY <1>1
  <2> QED BY <1>1, <2>1, <2>2, <2>3, MinOfTwo
<1> QED BY <1>2, <1>3

LEMMA InitInv == Init => IInv
<1> SUFFICES ASSUME Init PROVE IInv
  OBVIOUS
<1>1. /\ phase = "import" /\ phase \notin Ranked /\ phase \notin Asked /\ phase \in Phases
      /\ phase # "answered"
  BY DEF Init, Ranked, Asked, Phases
<1>2. Imported /\ Limited /\ Answers
  BY <1>1 DEF Init, Imported, Limited, Answers
<1>3. Fetching
  BY <1>1 DEF Init, Fetching
<1> QED BY <1>2, <1>3 DEF IInv

LEMMA PushInv == ASSUME IInv, NEW p \in Tagged, Push(p) PROVE IInv'
<1>1. /\ phase = "import" /\ phase' = phase /\ places' = Append(places, p)
      /\ UNCHANGED <<terms, order, lost, query, score, hits, results>>
  BY DEF Push
<1>2. Imported /\ Limited /\ Fetching /\ Answers
  BY DEF IInv
<1>3. phase \notin Ranked /\ phase \notin Asked /\ phase # "answered"
  BY <1>1 DEF Ranked, Asked
<1>4. places' \in Seq(Tagged) /\ Ids \subseteq Ids'
  <2>1. places \in Seq(Tagged)
    BY <1>2 DEF Imported
  <2>2. places' \in Seq(Tagged) /\ Len(places') = Len(places) + 1
    BY <1>1, <2>1
  <2> QED BY <2>1, <2>2 DEF Ids
<1>5. Imported'
  BY <1>1, <1>2, <1>4 DEF Imported
<1>6. Fetching'
  BY <1>1, <1>2, <1>3, <1>4 DEF Fetching
<1>7. Limited' /\ Answers'
  BY <1>1, <1>2, <1>3 DEF Limited, Answers
<1> QED BY <1>5, <1>6, <1>7 DEF IInv

LEMMA IndexInv == ASSUME IInv, build_index PROVE IInv'
<1>1. /\ phase = "import" /\ phase' = "ready" /\ DOMAIN terms' = Ids
      /\ order' \in Bijection(Ids, Ids) /\ lost' \in SUBSET Ids
      /\ UNCHANGED <<places, query, score, hits, results>>
  BY DEF build_index
<1>2. Imported /\ Limited /\ Fetching /\ Answers
  BY DEF IInv
<1>3. /\ phase \notin Ranked /\ phase' \notin Ranked /\ phase' \notin Asked
      /\ phase # "answered" /\ phase' # "answered" /\ phase' \in Phases
  BY <1>1 DEF Ranked, Asked, Phases
<1>4. Ids' = Ids
  BY <1>1 DEF Ids
<1>5. Imported'
  BY <1>1, <1>2, <1>3, <1>4 DEF Imported
<1>6. Fetching' /\ Limited' /\ Answers'
  BY <1>1, <1>2, <1>3, <1>4 DEF Fetching, Limited, Answers
<1> QED BY <1>5, <1>6 DEF IInv

LEMMA AskInv == ASSUME IInv, NEW q \in Queries, NEW n \in Limits, Ask(q, n) PROVE IInv'
<1>1. /\ phase = "ready" /\ phase' \in {"asked", "invalid"}
      /\ UNCHANGED <<places, terms, order, lost, score, hits, results>>
      /\ phase' = "invalid" => query' = query
      /\ phase' = "asked" => query' = [q |-> q, limit |-> Limit(n)] /\ n # 0
  BY DEF Ask
<1>2. Imported /\ Limited /\ Fetching /\ Answers
  BY DEF IInv
<1>3. /\ phase \notin Ranked /\ phase' \notin Ranked /\ phase # "import"
      /\ phase # "answered" /\ phase' # "answered" /\ phase' \in Phases
  BY <1>1 DEF Ranked, Phases
<1>4. Ids' = Ids
  BY <1>1 DEF Ids
<1>5. Imported'
  BY <1>1, <1>2, <1>3, <1>4 DEF Imported
<1>6. Limited'
  <2>1. CASE phase' = "asked"
    <3>1. Limit(n) \in 1 .. MAX_LIMIT
      BY <1>1, <2>1, LimitIs
    <3>2. query'.limit = Limit(n)
      BY <1>1, <2>1
    <3> QED BY <3>1, <3>2 DEF Limited
  <2>2. CASE phase' = "invalid"
    BY <1>1, <1>2, <2>2 DEF Limited, Asked
  <2> QED BY <1>1, <2>1, <2>2
<1>7. Fetching' /\ Answers'
  BY <1>1, <1>2, <1>3, <1>4 DEF Fetching, Answers
<1> QED BY <1>5, <1>6, <1>7 DEF IInv

LEMMA SearchInv == ASSUME IInv, Search PROVE IInv'
<1>1. /\ phase = "asked" /\ UNCHANGED <<places, terms, order, lost, query, results>>
      /\ \/ phase' = "invalid" /\ UNCHANGED <<score, hits>>
         \/ /\ phase' = "searched"
            /\ score' \in [Matching(tokenize(query.q)) -> 1 .. MaxScore]
            /\ hits' = Fetched(score', query.limit)
  BY DEF Search
<1>2. Imported /\ Limited /\ Fetching /\ Answers
  BY DEF IInv
<1>3. /\ phase \notin Ranked /\ phase # "import" /\ phase \in Asked
      /\ phase # "answered" /\ phase' # "answered" /\ phase' \in Phases
      /\ phase' # "import"
  BY <1>1 DEF Ranked, Phases, Asked
<1>4. Ids' = Ids
  BY <1>1 DEF Ids
<1>5. Imported' /\ Limited' /\ Answers'
  BY <1>1, <1>2, <1>3, <1>4 DEF Imported, Limited, Answers
<1>6. Fetching'
  <2>1. CASE phase' = "invalid"
    <3>1. phase' \notin Ranked /\ UNCHANGED <<score, hits>>
      BY <1>1, <2>1 DEF Ranked
    <3> QED BY <1>2, <1>3, <1>4, <3>1 DEF Fetching
  <2>2. CASE phase' = "searched"
    <3>1. /\ phase' \in Ranked /\ hits' = Fetched(score', query.limit)
          /\ score' \in [Matching(tokenize(query.q)) -> 1 .. MaxScore]
      BY <1>1, <2>2 DEF Ranked
    <3>2. DOMAIN score' \in SUBSET Ids /\ score' \in [DOMAIN score' -> 1 .. MaxScore]
      <4>1. Matching(tokenize(query.q)) \in SUBSET Ids
        BY DEF Matching
      <4> HIDE DEF Matching, tokenize
      <4> QED BY <3>1, <4>1
    <3>3. hits' = TopDocs(score, MAX_LIMIT)'
      BY <1>1, <3>1 DEF Fetched, TopDocs, Listing, Before, IsSorted
    <3> QED BY <1>4, <3>1, <3>2, <3>3 DEF Fetching
  <2> QED BY <1>1, <2>1, <2>2
<1> QED BY <1>5, <1>6 DEF IInv

LEMMA SameAnswer ==
    ASSUME UNCHANGED <<places, order, lost, query, score, hits>>
    PROVE  /\ TopDocs(score, MAX_LIMIT)' = TopDocs(score, MAX_LIMIT)
           /\ Answer(hits, query.limit)' = Answer(hits, query.limit)
           /\ \A id : forward_score(id)' = forward_score(id)
<1>1. TopDocs(score, MAX_LIMIT)' = TopDocs(score, MAX_LIMIT)
  BY DEF TopDocs, Listing, Before, IsSorted
<1>2. Answer(hits, query.limit)' = Answer(hits, query.limit)
  BY DEF Answer, Best, Sorted, Readable, Picked, Increasing, Listing, IsSorted,
         forward_score
<1>3. \A id : forward_score(id)' = forward_score(id)
  BY DEF forward_score
<1> QED BY <1>1, <1>2, <1>3

LEMMA RankInv == ASSUME IInv, Rank PROVE IInv'
<1>1. /\ phase = "searched" /\ phase' = "answered"
      /\ UNCHANGED <<places, terms, order, lost, query, score, hits>>
  BY DEF Rank
<1>2. Imported /\ Limited /\ Fetching
  BY DEF IInv
<1>3. /\ phase \in Ranked /\ phase' \in Ranked /\ phase \in Asked /\ phase' \in Asked
      /\ phase # "import" /\ phase' \in Phases
  BY <1>1 DEF Ranked, Phases, Asked
<1>4. Ids' = Ids
  BY <1>1 DEF Ids
<1>5. Imported' /\ Limited'
  BY <1>1, <1>2, <1>3, <1>4 DEF Imported, Limited
<1>6. Fetching'
  BY <1>1, <1>2, <1>3, <1>4, SameAnswer DEF Fetching
<1>7. Answers'
  <2>1. results' = [k \in DOMAIN Answer(hits, query.limit) |->
                        [id |-> Answer(hits, query.limit)[k],
                         score |-> forward_score(Answer(hits, query.limit)[k])]]
    BY DEF Rank
  <2> QED BY <1>1, <2>1, SameAnswer DEF Answers
<1> QED BY <1>5, <1>6, <1>7 DEF IInv

(* The hits and the answer are what the model's operators make of them.    *)
THEOREM ForwardSearchInvariant == Spec => []IInv
<1>1. IInv /\ [Next]_vars => IInv'
  <2> SUFFICES ASSUME IInv, [Next]_vars PROVE IInv'
    OBVIOUS
  <2>1. CASE Next
    BY <2>1, PushInv, IndexInv, AskInv, SearchInv, RankInv DEF Next
  <2>2. CASE UNCHANGED vars
    <3>1. UNCHANGED <<phase, places, terms, order, lost, query, score, hits, results>>
      BY <2>2 DEF vars
    <3>2. Ids' = Ids /\ Imported /\ Limited /\ Fetching /\ Answers
      BY <3>1 DEF Ids, IInv
    <3>3. Imported' /\ Limited'
      BY <3>1, <3>2 DEF Imported, Limited
    <3>4. Fetching'
      BY <3>1, <3>2, SameAnswer DEF Fetching
    <3>5. Answers'
      BY <3>1, <3>2, SameAnswer DEF Answers
    <3> QED BY <3>3, <3>4, <3>5 DEF IInv
  <2> QED BY <2>1, <2>2
<1> QED BY <1>1, InitInv, PTL DEF Spec

-----------------------------------------------------------------------------
(* What the answer is made of.                                             *)

AnswerNow == Answer(hits, query.limit)

LEMMA AnsweredIs ==
    ASSUME IInv, phase \in Ranked
    PROVE  /\ places \in Seq(Tagged) /\ order \in Bijection(Ids, Ids)
           /\ DOMAIN score \in SUBSET Ids /\ IsFiniteSet(DOMAIN score)
           /\ \A d \in DOMAIN score : score[d] \in Int /\ places[d].importance \in Nat
           /\ Rated(DOMAIN score)
           /\ MAX_LIMIT \in Nat /\ query.limit \in Nat /\ query.limit <= MAX_LIMIT
           /\ hits = TopDocs(score, MAX_LIMIT)
           /\ IsTop(hits, DOMAIN score, score, MAX_LIMIT)
           /\ hits \in Seq(DOMAIN score) /\ IsInjective(hits)
<1>1. /\ places \in Seq(Tagged) /\ order \in Bijection(Ids, Ids)
      /\ DOMAIN score \in SUBSET Ids /\ hits = TopDocs(score, MAX_LIMIT)
      /\ score \in [DOMAIN score -> 1 .. MaxScore] /\ query.limit \in 1 .. MAX_LIMIT
  BY DEF IInv, Imported, Limited, Fetching, Ranked, Asked
<1>2. MAX_LIMIT \in Nat /\ MaxScore \in Nat
  BY LimitsAssumption
<1>3. IsFiniteSet(DOMAIN score)
  <2>1. IsFiniteSet(Ids)
    BY <1>1, IdsAre
  <2> QED BY <1>1, <2>1, FS_Subset
<1>4. \A d \in DOMAIN score : score[d] \in Int /\ places[d].importance \in Nat
  <2>1. \A d \in Ids : places[d].importance \in Nat
    BY <1>1, IdsAre
  <2>2. \A d \in DOMAIN score : score[d] \in 1 .. MaxScore
    BY <1>1
  <2>3. \A x \in 1 .. MaxScore : x \in Int
    OBVIOUS
  <2> QED BY <1>1, <2>1, <2>2, <2>3
<1>5. Rated(DOMAIN score)
  BY <1>4 DEF Rated, forward_score
<1>6. score \in [DOMAIN score -> Int]
  BY <1>1, <1>4
<1>7. IsTop(hits, DOMAIN score, score, MAX_LIMIT)
  BY <1>1, <1>2, <1>6, TopIs
<1>8. hits \in Seq(DOMAIN score) /\ IsInjective(hits)
  BY <1>7 DEF IsTop
<1> QED BY <1>1, <1>2, <1>3, <1>4, <1>5, <1>7, <1>8

LEMMA ResultsAre ==
    ASSUME IInv, phase = "answered", NEW D, D = DOMAIN score,
           NEW H, H = ToSet(hits) \ lost, NEW a, a = AnswerNow
    PROVE  /\ IsAnswer(a, H, query.limit) /\ H \in SUBSET D /\ DOMAIN a = 1 .. Len(a)
           /\ a \in Seq(H) /\ Len(a) \in Nat
           /\ DOMAIN results = DOMAIN a /\ Len(results) = Len(a)
           /\ \A k \in DOMAIN results : results[k].id = a[k]
           /\ \A k \in DOMAIN results : results[k].score = forward_score(a[k])
           /\ Found = ToSet(a)
<1>1. phase \in Ranked
  BY DEF Ranked
<1>2. hits \in Seq(D) /\ IsInjective(hits) /\ Rated(D) /\ query.limit \in Nat
  BY <1>1, AnsweredIs
<1>3. IsAnswer(a, H, query.limit)
  BY <1>2, AnswerIs DEF AnswerNow
<1>4. H \in SUBSET D
  BY <1>2 DEF ToSet
<1>5. a \in Seq(H)
  BY <1>3 DEF IsAnswer
<1>6. PICK l \in Nat : l = Len(a) /\ DOMAIN a = 1 .. l
  BY <1>5
<1>7. results = [k \in DOMAIN a |-> [id |-> a[k], score |-> forward_score(a[k])]]
  BY DEF IInv, Answers, AnswerNow
<1>8. DOMAIN results = DOMAIN a /\ Len(results) = l
  BY <1>6, <1>7
<1>9. \A k \in DOMAIN results : results[k].id = a[k]
  BY <1>7
<1>10. \A k \in DOMAIN results : results[k].score = forward_score(a[k])
  BY <1>7
<1>11. Found = ToSet(a)
  BY <1>8, <1>9 DEF Found, ToSet
<1> QED BY <1>3, <1>4, <1>5, <1>6, <1>8, <1>9, <1>10, <1>11

(* The ids of hits and results are ids of places, and the limit is one.    *)
THEOREM ForwardSearchTypes == Spec => []TypeOK
<1>1. IInv => TypeOK
  <2> SUFFICES ASSUME IInv PROVE TypeOK
    OBVIOUS
  <2>1. Imported /\ Limited /\ Fetching /\ Answers
    BY DEF IInv
  <2>2. /\ phase \in Phases /\ places \in Seq(Tagged) /\ lost \subseteq Ids
        /\ phase # "import" => DOMAIN terms = Ids /\ order \in Bijection(Ids, Ids)
        /\ query = NoQuery \/ query.limit \in 1 .. MAX_LIMIT
        /\ DOMAIN score \subseteq Ids
    BY <2>1 DEF Imported, Limited, Fetching
  <2>3. \A k \in DOMAIN hits : hits[k] \in DOMAIN score
    <3>1. CASE phase \in Ranked
      <4>1. hits \in Seq(DOMAIN score)
        BY <3>1, AnsweredIs
      <4> QED BY <4>1
    <3>2. CASE phase \notin Ranked
      <4>1. hits = <<>>
        BY <2>1, <3>2 DEF Fetching
      <4> QED BY <4>1
    <3> QED BY <3>1, <3>2
  <2>4. \A k \in DOMAIN results : results[k].id \in Ids
    <3>1. CASE phase = "answered"
      <4>1. PICK D : D = DOMAIN score
        OBVIOUS
      <4>2. PICK H : H = ToSet(hits) \ lost
        OBVIOUS
      <4>3. PICK a : a = AnswerNow
        OBVIOUS
      <4>4. H \in SUBSET D /\ DOMAIN results = DOMAIN a /\ a \in Seq(H)
        BY <3>1, <4>1, <4>2, <4>3, ResultsAre
      <4>7. \A k \in DOMAIN results : results[k].id = a[k]
        BY <3>1, <4>1, <4>2, <4>3, ResultsAre
      <4>5. D \subseteq Ids
        BY <2>2, <4>1
      <4>6. \A k \in DOMAIN a : a[k] \in H
        BY <4>4
      <4> QED BY <4>4, <4>5, <4>6, <4>7
    <3>2. CASE phase # "answered"
      <4>1. results = <<>>
        BY <2>1, <3>2 DEF Answers
      <4> QED BY <4>1
    <3> QED BY <3>1, <3>2
  <2> QED BY <2>2, <2>3, <2>4 DEF TypeOK
<1> QED BY <1>1, ForwardSearchInvariant, PTL

(* As long as the index cuts nothing, the answer is as long as the limit   *)
(* lets it be and no match that can be read and is left out is better.     *)
THEOREM ForwardSearchBest == Spec => []AnswersTheBest
<1>1. IInv => AnswersTheBest
  <2> SUFFICES ASSUME IInv, phase = "answered", Cardinality(DOMAIN score) <= MAX_LIMIT
               PROVE  /\ Len(results) = Min({query.limit, Cardinality(DOMAIN score \ lost)})
                      /\ \A d \in LeftOut, k \in DOMAIN results :
                             forward_score(d) <= results[k].score
    BY DEF AnswersTheBest
  <2>1. PICK D : D = DOMAIN score
    OBVIOUS
  <2>2. PICK H : H = ToSet(hits) \ lost
    OBVIOUS
  <2>3. PICK a : a = AnswerNow
    OBVIOUS
  <2>4. IsAnswer(a, H, query.limit)
    BY <2>1, <2>2, <2>3, ResultsAre
  <2>5. DOMAIN a = 1 .. Len(a) /\ DOMAIN results = DOMAIN a /\ Len(results) = Len(a)
    BY <2>1, <2>2, <2>3, ResultsAre
  <2>6. \A k \in DOMAIN results : results[k].score = forward_score(a[k])
    BY <2>1, <2>2, <2>3, ResultsAre
  <2>7. Found = ToSet(a)
    BY <2>1, <2>2, <2>3, ResultsAre
  <2>8. H = DOMAIN score \ lost
    <3>1. IsTop(hits, DOMAIN score, score, MAX_LIMIT)
      BY AnsweredIs DEF Ranked
    <3> QED BY <2>2, <3>1 DEF IsTop
  <2>9. Len(results) = Min({query.limit, Cardinality(DOMAIN score \ lost)})
    BY <2>4, <2>5, <2>8 DEF IsAnswer
  <2>10. \A d \in H \ ToSet(a), k \in 1 .. Len(a) : forward_score(d) <= forward_score(a[k])
    BY <2>4 DEF IsAnswer
  <2>11. LeftOut = H \ ToSet(a)
    BY <2>7, <2>8 DEF LeftOut
  <2> QED BY <2>5, <2>6, <2>9, <2>10, <2>11
<1> QED BY <1>1, ForwardSearchInvariant, PTL

(* Who fits the text better than a hit and is as important is a hit too:   *)
(* the index cannot have cut it, and the sort puts it first.               *)
THEOREM ForwardSearchFair == Spec => []NoHitIsDominated
<1>1. IInv => NoHitIsDominated
  <2> SUFFICES ASSUME IInv, phase = "answered"
               PROVE  /\ \A d \in LeftOut, h \in Found :
                             score[d] > score[h] =>
                                 places[d].importance < places[h].importance
                      /\ \A j, k \in DOMAIN results : j < k =>
                             /\ results[j].id # results[k].id
                             /\ results[j].score >= results[k].score
    BY DEF NoHitIsDominated
  <2>1. PICK D : D = DOMAIN score
    OBVIOUS
  <2>2. PICK H : H = ToSet(hits) \ lost
    OBVIOUS
  <2>3. PICK a : a = AnswerNow
    OBVIOUS
  <2>r. /\ IsAnswer(a, H, query.limit) /\ H \in SUBSET D /\ DOMAIN a = 1 .. Len(a)
        /\ a \in Seq(H) /\ Len(a) \in Nat
        /\ DOMAIN results = DOMAIN a /\ Len(results) = Len(a)
        /\ \A k \in DOMAIN results : results[k].id = a[k]
        /\ \A k \in DOMAIN results : results[k].score = forward_score(a[k])
        /\ Found = ToSet(a)
    BY <2>1, <2>2, <2>3, ResultsAre
  <2>4. IsAnswer(a, H, query.limit)
    BY <2>r
  <2>5. DOMAIN a = 1 .. Len(a) /\ DOMAIN results = DOMAIN a /\ a \in Seq(H)
    BY <2>r
  <2>6. \A k \in DOMAIN results : results[k].score = forward_score(a[k])
    BY <2>r
  <2>7. \A k \in DOMAIN results : results[k].id = a[k]
    BY <2>r
  <2>8. Found = ToSet(a)
    BY <2>r
  <2>9. H \in SUBSET D
    BY <2>r
  <2>10. \A d \in D : score[d] \in Int /\ places[d].importance \in Nat
    BY <2>1, AnsweredIs DEF Ranked
  <2>11. ASSUME NEW d \in LeftOut, NEW h \in Found, score[d] > score[h]
         PROVE  places[d].importance < places[h].importance
    <3>1. PICK k \in DOMAIN a : h = a[k]
      BY <2>8 DEF ToSet
    <3>2. h \in H /\ h \in D /\ h \in ToSet(hits)
      BY <2>2, <2>5, <2>9, <3>1
    <3>3. d \in D /\ d \notin lost /\ d \notin ToSet(a)
      BY <2>1, <2>8 DEF LeftOut
    <3>4. d \in ToSet(hits)
      <4>1. IsTop(hits, D, score, MAX_LIMIT)
        BY <2>1, AnsweredIs DEF Ranked
      <4> QED BY <2>11, <3>2, <3>3, <4>1 DEF IsTop
    <3>5. d \in H \ ToSet(a)
      BY <2>2, <3>3, <3>4
    <3>6. forward_score(d) <= forward_score(h)
      BY <2>4, <2>5, <3>1, <3>5 DEF IsAnswer
    <3>7. /\ score[d] \in Int /\ places[d].importance \in Nat
          /\ score[h] \in Int /\ places[h].importance \in Nat
      BY <2>10, <3>2, <3>3
    <3> QED BY <2>11, <3>6, <3>7 DEF forward_score
  <2>12. ASSUME NEW j \in DOMAIN results, NEW k \in DOMAIN results, j < k
         PROVE  results[j].id # results[k].id /\ results[j].score >= results[k].score
    <3>1. j \in DOMAIN a /\ k \in DOMAIN a /\ j \in 1 .. Len(a) /\ k \in 1 .. Len(a)
      BY <2>5
    <3>2. IsInjective(a) /\ forward_score(a[j]) >= forward_score(a[k])
      BY <2>4, <2>12, <3>1 DEF IsAnswer
    <3>3. j # k
      BY <2>5, <2>12
    <3>4. a[j] # a[k]
      BY <3>1, <3>2, <3>3 DEF IsInjective
    <3> QED BY <2>6, <2>7, <3>2, <3>4
  <2> QED BY <2>11, <2>12
<1> QED BY <1>1, ForwardSearchInvariant, PTL

(* The answer to a limit is the beginning of the answer to a larger one,   *)
(* because the index is asked for the same hits whatever the limit is.     *)
THEOREM ForwardSearchNests == Spec => []AnswersNest
<1>1. IInv => AnswersNest
  <2> SUFFICES ASSUME IInv, phase = "answered", NEW n \in query.limit .. MAX_LIMIT
               PROVE  LET more == Answer(Fetched(score, n), n)
                      IN  /\ Len(more) >= Len(results)
                          /\ \A k \in DOMAIN results : more[k] = results[k].id
    BY DEF AnswersNest
  <2>1. PICK D : D = DOMAIN score
    OBVIOUS
  <2>2. /\ hits \in Seq(D) /\ IsInjective(hits) /\ Rated(D)
        /\ query.limit \in Nat /\ MAX_LIMIT \in Nat
    BY <2>1, AnsweredIs DEF Ranked
  <2>3. n \in Nat /\ query.limit <= n
    BY <2>2
  <2>4. Fetched(score, n) = hits
    BY DEF IInv, Fetching, Ranked, Fetched
  <2>5. /\ Len(Answer(hits, n)) >= Len(AnswerNow)
        /\ \A k \in DOMAIN AnswerNow : Answer(hits, n)[k] = AnswerNow[k]
    BY <2>2, <2>3, LongerAnswer DEF AnswerNow
  <2>6. PICK H : H = ToSet(hits) \ lost
    OBVIOUS
  <2>7. PICK a : a = AnswerNow
    OBVIOUS
  <2>8. DOMAIN results = DOMAIN a /\ Len(results) = Len(a)
    BY <2>1, <2>6, <2>7, ResultsAre
  <2>9. \A k \in DOMAIN results : results[k].id = a[k]
    BY <2>1, <2>6, <2>7, ResultsAre
  <2>10. PICK more : more = Answer(hits, n)
    OBVIOUS
  <2>11. Len(more) >= Len(results) /\ \A k \in DOMAIN results : more[k] = results[k].id
    BY <2>5, <2>7, <2>8, <2>9, <2>10
  <2> QED BY <2>4, <2>10, <2>11
<1> QED BY <1>1, ForwardSearchInvariant, PTL
-----------------------------------------------------------------------------
(***************************************************************************)
(* The way of a word through the tokenizers.                               *)
(***************************************************************************)

(* All but U+0130 lowers to one character, which is small already.         *)
Plain(s) == \A i \in DOMAIN s : s[i] # "ADOT"
Small(c) == IF c = "A" THEN "a" ELSE IF c = "B" THEN "b" ELSE c

LEMMA LowerIs ==
    ASSUME NEW c, c # "ADOT"
    PROVE  /\ Lower(c) = <<Small(c)>>
           /\ Small(c) # "ADOT" /\ Small(Small(c)) = Small(c)
           /\ c \in Alphanumeric => Small(c) \in Alphanumeric
           /\ c \in Characters => Small(c) \in Characters
<1>1. CASE c = "A"
  <2>1. Lower(c) = <<"a">>
    BY <1>1 DEF Lower
  <2>2. Small(c) = "a" /\ Small("a") = "a"
    BY <1>1 DEF Small
  <2>3. "a" \in Alphanumeric /\ "a" # "ADOT" /\ "a" \in Characters
    BY DEF Alphanumeric, Characters
  <2> QED BY <2>1, <2>2, <2>3
<1>2. CASE c = "B"
  <2>1. Lower(c) = <<"b">>
    BY <1>2 DEF Lower
  <2>2. Small(c) = "b" /\ Small("b") = "b"
    BY <1>2 DEF Small
  <2>3. "b" \in Alphanumeric /\ "b" # "ADOT" /\ "b" \in Characters
    BY DEF Alphanumeric, Characters
  <2> QED BY <2>1, <2>2, <2>3
<1>3. CASE c # "A" /\ c # "B"
  <2>1. Lower(c) = <<c>>
    BY <1>3 DEF Lower
  <2> QED BY <1>3, <2>1 DEF Small
<1> QED BY <1>1, <1>2, <1>3

LEMMA LoweredIs ==
    ASSUME NEW s \in Text, Plain(s)
    PROVE  /\ Lowered(s) = [i \in DOMAIN s |-> Small(s[i])]
           /\ Lowered(s) \in Text /\ Len(Lowered(s)) = Len(s)
           /\ Plain(Lowered(s)) /\ Lowered(Lowered(s)) = Lowered(s)
<1>1. ASSUME NEW t \in Text, Plain(t)
      PROVE  /\ Lowered(t) = [i \in DOMAIN t |-> Small(t[i])]
             /\ Lowered(t) \in Text /\ Len(Lowered(t)) = Len(t)
             /\ DOMAIN Lowered(t) = DOMAIN t /\ Plain(Lowered(t))
  <2>1. PICK n \in Nat : n = Len(t) /\ DOMAIN t = 1 .. n
    BY DEF Text
  <2>2. \A i \in 1 .. n : t[i] \in Characters /\ t[i] # "ADOT"
    BY <1>1, <2>1 DEF Text, Plain
  <2>3. PICK v : v = [i \in 1 .. n |-> Small(t[i])]
    OBVIOUS
  <2>4. \A i \in 1 .. n : v[i] = Small(t[i]) /\ v[i] \in Characters /\ v[i] # "ADOT"
                          /\ Lower(t[i]) = <<v[i]>>
    BY <2>2, <2>3, LowerIs
  <2>5. v \in Text /\ Len(v) = n /\ DOMAIN v = 1 .. n
    BY <2>3, <2>4 DEF Text
  <2>6. [i \in DOMAIN t |-> Lower(t[i])] = [i \in DOMAIN v |-> <<v[i]>>]
    BY <2>1, <2>4, <2>5
  <2>7. Lowered(t) = v
    BY <2>5, <2>6, FlattenSingles DEF Lowered, Text
  <2>8. Plain(v)
    BY <2>4, <2>5 DEF Plain
  <2> QED BY <2>1, <2>3, <2>5, <2>7, <2>8
<1>2. PICK t : t = Lowered(s)
  OBVIOUS
<1>3. t = [i \in DOMAIN s |-> Small(s[i])] /\ t \in Text /\ Plain(t) /\ DOMAIN t = DOMAIN s
  BY <1>1, <1>2
<1>4. Lowered(t) = [i \in DOMAIN s |-> Small(t[i])]
  BY <1>1, <1>3
<1>5. \A i \in DOMAIN s : Small(t[i]) = t[i]
  BY <1>3, LowerIs DEF Plain
<1>6. Lowered(t) = t
  BY <1>3, <1>4, <1>5
<1> QED BY <1>1, <1>2, <1>3, <1>6

(* Whatever it is, a text stays a text.                                    *)
LEMMA LoweredIsText ==
    ASSUME NEW s \in Text
    PROVE  Lowered(s) \in Text
<1>1. PICK n \in Nat : n = Len(s) /\ DOMAIN s = 1 .. n
  BY DEF Text
<1>2. \A i \in 1 .. n : Lower(s[i]) \in Seq(Characters)
  <2>1. ASSUME NEW i \in 1 .. n PROVE Lower(s[i]) \in Seq(Characters)
    <3>1. s[i] \in Characters
      BY <1>1 DEF Text
    <3>2. CASE s[i] = "ADOT"
      <4>1. Lower(s[i]) = <<"a", "dot">>
        BY <3>2 DEF Lower
      <4>2. "a" \in Characters /\ "dot" \in Characters
        BY DEF Characters, Alphanumeric, Marks
      <4> QED BY <4>1, <4>2
    <3>3. CASE s[i] # "ADOT"
      <4>1. Lower(s[i]) = <<Small(s[i])>> /\ Small(s[i]) \in Characters
        BY <3>1, <3>3, LowerIs
      <4> QED BY <4>1
    <3> QED BY <3>2, <3>3
  <2> QED BY <2>1
<1>3. PICK bs : bs = [i \in DOMAIN s |-> Lower(s[i])]
  OBVIOUS
<1>4. bs \in [1 .. n -> Seq(Characters)]
  BY <1>1, <1>2, <1>3
<1> QED BY <1>3, <1>4, FlattenElements DEF Lowered, Text

-----------------------------------------------------------------------------
(* part is all there is between two characters of s that are in no word,   *)
(* or between one of them and an end of s; a characters of s are before it.*)
StandsAt(part, s, a) ==
    /\ a \in Nat /\ a + Len(part) <= Len(s)
    /\ \A j \in 1 .. Len(part) : s[a + j] = part[j]
    /\ a > 0 => s[a] \notin Alphanumeric
    /\ a + Len(part) < Len(s) => s[a + Len(part) + 1] \notin Alphanumeric

Separates(separator) ==
    /\ separator \in Text /\ separator # <<>>
    /\ \A j \in DOMAIN separator : separator[j] \notin Alphanumeric

LEMMA JoinedParts ==
    ASSUME NEW separator, Separates(separator), NEW n \in Nat,
           NEW strings \in [1 .. n -> Text]
    PROVE  /\ Joined(strings, separator) \in Text
           /\ \A k \in 1 .. n :
                  \E a : StandsAt(strings[k], Joined(strings, separator), a)
<1>1. PICK S : S = Characters
  OBVIOUS
<1>2. PICK w \in Nat : w = Len(separator) /\ DOMAIN separator = 1 .. w /\ w >= 1
  BY DEF Separates, Text
<1>3. PICK bs : bs = [i \in 1 .. n |-> IF i = 1 THEN strings[i]
                                       ELSE separator \o strings[i]]
  OBVIOUS
<1>4. separator \in Seq(S) /\ \A i \in 1 .. n : strings[i] \in Seq(S)
  BY <1>1 DEF Separates, Text
<1>5. bs \in [1 .. n -> Seq(S)]
  <2>1. \A i \in 1 .. n : bs[i] \in Seq(S)
    BY <1>3, <1>4
  <2> QED BY <1>3, <2>1
<1> DEFINE Flat(m) == FlattenSeq(SubSeq(bs, 1, m))
<1>6. /\ Flat(0) = <<>>
      /\ \A k \in 0 .. n : Flat(k) \in Seq(S)
      /\ \A k \in 1 .. n : Flat(k) = Flat(k - 1) \o bs[k]
  BY <1>5, FlattenStep
<1>7. PICK s : s = Joined(strings, separator)
  OBVIOUS
<1>8. s = Flat(n)
  <2>1. DOMAIN strings = 1 .. n
    OBVIOUS
  <2>2. s = FlattenSeq(bs)
    BY <1>3, <1>7, <2>1 DEF Joined
  <2>3. SubSeq(bs, 1, n) = bs
    BY <1>5
  <2> QED BY <2>2, <2>3
<1>9. \A k \in 1 .. n : \A j \in 1 .. Len(bs[k]) : \A p :
          p = Len(Flat(k - 1)) + j => p \in 1 .. Len(s) /\ s[p] = bs[k][j]
  <2>1. Positions(bs, n)
    BY <1>5, FlattenPositions
  <2> QED BY <1>8, <2>1 DEF Positions
<1> HIDE DEF Flat
<1>10. s \in Seq(S)
  BY <1>6, <1>8
<1>11. ASSUME NEW k \in 1 .. n PROVE \E a : StandsAt(strings[k], s, a)
  <2>1. PICK part \in Seq(S) : part = strings[k]
    BY <1>4
  <2>2. PICK m \in Nat : m = Len(part)
    OBVIOUS
  <2>3. k - 1 \in 0 .. n /\ k \in 0 .. n
    OBVIOUS
  <2>4. PICK l \in Nat : l = Len(Flat(k - 1))
    BY <1>6, <2>3
  <2>5. PICK v \in Nat : v = IF k = 1 THEN 0 ELSE w
    OBVIOUS
  <2>6. Len(bs[k]) = v + m /\ \A j \in 1 .. m : bs[k][v + j] = part[j]
    <3>1. CASE k = 1
      BY <1>3, <2>1, <2>2, <2>5, <3>1
    <3>2. CASE k # 1
      <4>1. bs[k] = separator \o part
        BY <1>3, <2>1, <3>2
      <4> QED BY <1>2, <1>4, <2>1, <2>2, <2>5, <3>2, <4>1
    <3> QED BY <3>1, <3>2
  <2>7. Len(Flat(k)) = l + (v + m)
    <3>1. bs[k] \in Seq(S) /\ Flat(k - 1) \in Seq(S) /\ Flat(k) = Flat(k - 1) \o bs[k]
      BY <1>5, <1>6, <2>3
    <3>2. PICK b \in Seq(S) : b = bs[k]
      BY <3>1
    <3>3. PICK f \in Seq(S) : f = Flat(k - 1)
      BY <3>1
    <3>4. Len(f \o b) = Len(f) + Len(b)
      OBVIOUS
    <3> QED BY <2>4, <2>6, <3>1, <3>2, <3>3, <3>4
  <2>8. \A j \in 1 .. m : l + (v + j) \in 1 .. Len(s) /\ s[l + (v + j)] = part[j]
    <3>1. ASSUME NEW j \in 1 .. m
          PROVE  l + (v + j) \in 1 .. Len(s) /\ s[l + (v + j)] = part[j]
      <4>1. v + j \in 1 .. Len(bs[k])
        BY <2>6
      <4>2. l + (v + j) = Len(Flat(k - 1)) + (v + j)
        BY <2>4
      <4>3. l + (v + j) \in 1 .. Len(s) /\ s[l + (v + j)] = bs[k][v + j]
        BY <1>9, <4>1, <4>2
      <4> QED BY <2>6, <4>3
    <3> QED BY <3>1
  <2>9. l + v > 0 => s[l + v] \notin Alphanumeric
    <3>1. CASE k = 1
      <4>1. l = 0 /\ v = 0
        BY <1>6, <2>4, <2>5, <3>1
      <4> QED BY <4>1
    <3>2. CASE k # 1
      <4>1. v = w /\ w \in 1 .. Len(bs[k])
        BY <1>2, <2>2, <2>5, <2>6, <3>2
      <4>2. s[l + w] = bs[k][w]
        BY <1>9, <2>4, <4>1
      <4>3. bs[k] = separator \o part
        BY <1>3, <2>1, <3>2
      <4>4. bs[k][w] = separator[w]
        BY <1>2, <1>4, <2>1, <4>3
      <4> QED BY <1>2, <4>1, <4>2, <4>4 DEF Separates
    <3> QED BY <3>1, <3>2
  <2>10. CASE k = n
    <3>1. Len(s) = l + (v + m)
      BY <1>8, <2>7, <2>10
    <3>2. StandsAt(part, s, l + v)
      BY <2>2, <2>8, <2>9, <3>1 DEF StandsAt
    <3> QED BY <2>1, <3>2
  <2>11. CASE k # n
    <3>1. k + 1 \in 1 .. n /\ (k + 1) - 1 = k /\ k + 1 # 1
      BY <2>11
    <3>2. PICK next \in Seq(S) : bs[k + 1] = separator \o next
      BY <1>3, <1>4, <3>1
    <3>3. 1 \in 1 .. Len(bs[k + 1]) /\ bs[k + 1][1] = separator[1]
      BY <1>2, <1>4, <3>2
    <3>4. l + (v + m) + 1 \in 1 .. Len(s) /\ s[l + (v + m) + 1] = separator[1]
      <4>1. \A p : p = Len(Flat(k)) + 1 => p \in 1 .. Len(s) /\ s[p] = bs[k + 1][1]
        BY <1>9, <3>1, <3>3
      <4>2. l + (v + m) + 1 = Len(Flat(k)) + 1
        BY <2>7
      <4> QED BY <3>3, <4>1, <4>2
    <3>5. separator[1] \notin Alphanumeric
      BY <1>2 DEF Separates
    <3>6. Len(s) \in Nat /\ l + (v + m) + 1 = (l + v) + m + 1
      BY <1>10
    <3>7. s[(l + v) + m + 1] \notin Alphanumeric /\ (l + v) + m <= Len(s)
      BY <3>4, <3>5, <3>6
    <3>8. \A j \in 1 .. m : s[(l + v) + j] = part[j]
      <4>1. \A j \in 1 .. m : l + (v + j) = (l + v) + j
        OBVIOUS
      <4> QED BY <2>8, <4>1
    <3>9. StandsAt(part, s, l + v)
      BY <2>2, <2>9, <3>7, <3>8 DEF StandsAt
    <3> QED BY <2>1, <3>9
  <2> QED BY <2>10, <2>11
<1> QED BY <1>1, <1>7, <1>10, <1>11 DEF Text
-----------------------------------------------------------------------------
(* The runs of a text are its longest stretches of alphanumeric characters.*)
Spans(s) == {p \in (DOMAIN s) \X (DOMAIN s) : p[1] <= p[2] /\ IsRun(s, p[1], p[2])}
SpanList(s) == Listing(Spans(s), LAMBDA p, q : p[1] < q[1])
InWord(r) == r # <<>> /\ \A i \in DOMAIN r : r[i] \in Alphanumeric

LEMMA SpansOrdered ==
    ASSUME NEW s \in Text, NEW p \in Spans(s), NEW q \in Spans(s), p # q
    PROVE  p[1] < q[1] \/ q[1] < p[1]
<1>1. PICK n \in Nat : n = Len(s) /\ DOMAIN s = 1 .. n
  BY DEF Text
<1>2. PICK i \in 1 .. n, j \in 1 .. n : p = <<i, j>> /\ i <= j /\ IsRun(s, i, j)
  BY <1>1 DEF Spans
<1>3. PICK k \in 1 .. n, l \in 1 .. n : q = <<k, l>> /\ k <= l /\ IsRun(s, k, l)
  BY <1>1 DEF Spans
<1>4. SUFFICES ASSUME i = k PROVE FALSE
  BY <1>2, <1>3
<1>5. j # l
  BY <1>2, <1>3, <1>4
<1>6. CASE j < l
  <2>1. j + 1 \in k .. l /\ j < Len(s)
    BY <1>1, <1>2, <1>4, <1>6
  <2> QED BY <1>2, <1>3, <2>1 DEF IsRun
<1>7. CASE l < j
  <2>1. l + 1 \in i .. j /\ l < Len(s)
    BY <1>1, <1>3, <1>4, <1>7
  <2> QED BY <1>2, <1>3, <2>1 DEF IsRun
<1> QED BY <1>5, <1>6, <1>7

LEMMA SpansListed ==
    ASSUME NEW s \in Text, NEW spans, spans = SpanList(s)
    PROVE  /\ IsFiniteSet(Spans(s))
           /\ spans \in Bijection(1 .. Cardinality(Spans(s)), Spans(s))
<1> DEFINE S == Spans(s)
           R == {e \in S \X S : e[1][1] < e[2][1]}
<1>1. IsFiniteSet(S)
  <2>1. PICK n \in Nat : DOMAIN s = 1 .. n
    BY DEF Text
  <2>2. IsFiniteSet(DOMAIN s)
    BY <2>1, FS_Interval
  <2>3. IsFiniteSet((DOMAIN s) \X (DOMAIN s))
    BY <2>2, FS_Product
  <2>4. S \in SUBSET ((DOMAIN s) \X (DOMAIN s))
    BY DEF Spans
  <2> QED BY <2>3, <2>4, FS_Subset
<1>2. \A p, q \in S : <<p, q>> \in R <=> p[1] < q[1]
  OBVIOUS
<1>3. \A p \in S : p[1] \in Int
  BY DEF Spans, Text
<1>4. \A p, q \in S : p # q => p[1] < q[1] \/ q[1] < p[1]
  BY SpansOrdered
<1> HIDE DEF R, S
<1>5. Orders(R, S)
  <2>1. \A p \in S : <<p, p>> \notin R
    BY <1>2, <1>3
  <2>2. \A p, q \in S : p # q => <<p, q>> \in R \/ <<q, p>> \in R
    BY <1>2, <1>4
  <2>3. \A p, q, r \in S : <<p, q>> \in R /\ <<q, r>> \in R => <<p, r>> \in R
    BY <1>2, <1>3
  <2> QED BY <2>1, <2>2, <2>3 DEF Orders
<1>6. PICK f \in Bijection(1 .. Cardinality(S), S) :
          \A i, j \in 1 .. Cardinality(S) : i < j => <<f[i], f[j]>> \in R
  BY <1>1, <1>5, SortingExists
<1> DEFINE InOrder(g) == \A i, j \in 1 .. Len(g) : i < j => g[i][1] < g[j][1]
<1>7. spans = CHOOSE g \in Bijection(1 .. Cardinality(S), S) : InOrder(g)
  BY DEF SpanList, Listing, IsSorted, S
<1>8. InOrder(f)
  <2>1. Len(f) = Cardinality(S) /\ \A k \in 1 .. Cardinality(S) : f[k] \in S
    BY <1>1, BijectionIsList
  <2> QED BY <1>2, <1>6, <2>1
<1> HIDE DEF InOrder
<1>9. spans \in Bijection(1 .. Cardinality(S), S)
  BY <1>6, <1>7, <1>8
<1> QED BY <1>1, <1>9 DEF S

LEMMA RunsAre ==
    ASSUME NEW s \in Text, NEW runs, runs = Runs(s)
    PROVE  /\ runs \in Seq(Text) /\ \A r \in Range(runs) : InWord(r)
           /\ Range(runs) = {SubSeq(s, p[1], p[2]) : p \in Spans(s)}
<1>1. PICK o : o = SpanList(s)
  OBVIOUS
<1>2. IsFiniteSet(Spans(s)) /\ o \in Bijection(1 .. Cardinality(Spans(s)), Spans(s))
  BY <1>1, SpansListed
<1>3. PICK m \in Nat : m = Cardinality(Spans(s))
  BY <1>2, FS_CardinalityType
<1>4. DOMAIN o = 1 .. m /\ Spans(s) = {o[k] : k \in 1 .. m}
  BY <1>2, <1>3, BijectionIsList
<1>5. runs = [k \in 1 .. m |-> SubSeq(s, o[k][1], o[k][2])]
  <2>1. runs = [k \in DOMAIN o |-> SubSeq(s, o[k][1], o[k][2])]
    BY <1>1 DEF Runs, Spans, SpanList
  <2> QED BY <1>4, <2>1
<1>6. ASSUME NEW p \in Spans(s)
      PROVE  SubSeq(s, p[1], p[2]) \in Text /\ InWord(SubSeq(s, p[1], p[2]))
  <2>1. PICK n \in Nat : n = Len(s) /\ DOMAIN s = 1 .. n /\ s \in Seq(Characters)
    BY DEF Text
  <2>2. PICK i \in 1 .. n, j \in 1 .. n : p = <<i, j>> /\ i <= j /\ IsRun(s, i, j)
    BY <2>1 DEF Spans
  <2>3. PICK r : r = SubSeq(s, i, j)
    OBVIOUS
  <2>4. /\ r \in Seq(Characters) /\ Len(r) = j - i + 1
        /\ \A x \in 1 .. j - i + 1 : r[x] = s[i + x - 1]
    BY <2>1, <2>2, <2>3
  <2>5. \A x \in 1 .. j - i + 1 : i + x - 1 \in i .. j
    BY <2>2
  <2>6. DOMAIN r = 1 .. j - i + 1 /\ r # <<>>
    BY <2>2, <2>4
  <2>7. \A x \in DOMAIN r : r[x] \in Alphanumeric
    BY <2>2, <2>4, <2>5, <2>6 DEF IsRun
  <2> QED BY <2>2, <2>3, <2>4, <2>6, <2>7 DEF InWord, Text
<1>7. \A k \in 1 .. m : o[k] \in Spans(s)
  BY <1>4
<1>8. runs \in Seq(Text)
  BY <1>5, <1>6, <1>7
<1>9. Range(runs) = {runs[k] : k \in 1 .. m}
  BY <1>5 DEF Range
<1>10. \A k \in 1 .. m : runs[k] = SubSeq(s, o[k][1], o[k][2])
  BY <1>5
<1>11. Range(runs) = {SubSeq(s, p[1], p[2]) : p \in Spans(s)}
  <2>1. \A p \in Spans(s) : \E k \in 1 .. m : p = o[k]
    BY <1>4
  <2>2. ASSUME NEW r \in Range(runs) PROVE r \in {SubSeq(s, p[1], p[2]) : p \in Spans(s)}
    <3>1. PICK k \in 1 .. m : r = runs[k]
      BY <1>9
    <3> QED BY <1>7, <1>10, <3>1
  <2>3. ASSUME NEW p \in Spans(s) PROVE SubSeq(s, p[1], p[2]) \in Range(runs)
    <3>1. PICK k \in 1 .. m : p = o[k]
      BY <2>1
    <3> QED BY <1>9, <1>10, <3>1
  <2> QED BY <2>2, <2>3
<1> QED BY <1>6, <1>8, <1>11

(* A word of a part that stands in a text is a word of the text.           *)
LEMMA WordMoves ==
    ASSUME NEW part \in Text, NEW s \in Text, NEW a, StandsAt(part, s, a),
           NEW r \in Range(Runs(part))
    PROVE  r \in Range(Runs(s))
<1>1. PICK n \in Nat : n = Len(s) /\ DOMAIN s = 1 .. n /\ s \in Seq(Characters)
  BY DEF Text
<1>2. PICK m \in Nat : m = Len(part) /\ DOMAIN part = 1 .. m /\ part \in Seq(Characters)
  BY DEF Text
<1>3. /\ a \in Nat /\ a + m <= n /\ \A x \in 1 .. m : s[a + x] = part[x]
      /\ a > 0 => s[a] \notin Alphanumeric
      /\ a + m < n => s[a + m + 1] \notin Alphanumeric
  BY <1>1, <1>2 DEF StandsAt
<1>4. PICK p \in Spans(part) : r = SubSeq(part, p[1], p[2])
  BY RunsAre
<1>5. PICK i \in 1 .. m, j \in 1 .. m : p = <<i, j>> /\ i <= j /\ IsRun(part, i, j)
  BY <1>2, <1>4 DEF Spans
<1>6. a + i \in 1 .. n /\ a + j \in 1 .. n /\ a + i <= a + j
  BY <1>3, <1>5
<1>7. IsRun(s, a + i, a + j)
  <2>1. ASSUME NEW k \in (a + i) .. (a + j) PROVE s[k] \in Alphanumeric
    <3>1. k - a \in i .. j /\ k - a \in 1 .. m /\ a + (k - a) = k
      BY <1>3, <1>5
    <3> QED BY <1>3, <1>5, <3>1 DEF IsRun
  <2>2. s[(a + i) - 1] \notin Alphanumeric \/ ~(a + i > 1)
    <3>1. CASE i = 1
      <4>1. (a + i) - 1 = a
        BY <1>3, <3>1
      <4> QED BY <1>3, <3>1, <4>1
    <3>2. CASE i # 1
      <4>1. i - 1 \in 1 .. m /\ a + (i - 1) = (a + i) - 1 /\ i > 1
        BY <1>3, <3>2
      <4> QED BY <1>3, <1>5, <4>1 DEF IsRun
    <3> QED BY <3>1, <3>2
  <2>3. s[(a + j) + 1] \notin Alphanumeric \/ ~(a + j < Len(s))
    <3>1. CASE j = m
      BY <1>1, <1>3, <3>1
    <3>2. CASE j # m
      <4>1. j + 1 \in 1 .. m /\ a + (j + 1) = (a + j) + 1 /\ j < m
        BY <1>3, <3>2
      <4> QED BY <1>2, <1>3, <1>5, <4>1 DEF IsRun
    <3> QED BY <3>1, <3>2
  <2> QED BY <2>1, <2>2, <2>3 DEF IsRun
<1>8. <<a + i, a + j>> \in Spans(s)
  BY <1>1, <1>6, <1>7 DEF Spans
<1>9. SubSeq(s, a + i, a + j) = SubSeq(part, i, j)
  <2>1. PICK u : u = SubSeq(s, a + i, a + j)
    OBVIOUS
  <2>2. PICK v : v = SubSeq(part, i, j)
    OBVIOUS
  <2>3. /\ u \in Seq(Characters) /\ Len(u) = j - i + 1
        /\ \A x \in 1 .. j - i + 1 : u[x] = s[(a + i) + x - 1]
    <3>1. PICK b \in 1 .. n : b = a + i
      BY <1>6
    <3>2. PICK e \in 1 .. n : e = a + j
      BY <1>6
    <3>3. b <= e /\ e - b + 1 = j - i + 1
      BY <1>3, <1>5, <3>1, <3>2
    <3>4. /\ SubSeq(s, b, e) \in Seq(Characters) /\ Len(SubSeq(s, b, e)) = e - b + 1
          /\ \A x \in 1 .. e - b + 1 : SubSeq(s, b, e)[x] = s[b + x - 1]
      BY <1>1, <3>3
    <3> QED BY <2>1, <3>1, <3>2, <3>3, <3>4
  <2>4. /\ v \in Seq(Characters) /\ Len(v) = j - i + 1
        /\ \A x \in 1 .. j - i + 1 : v[x] = part[i + x - 1]
    BY <1>2, <1>5, <2>2
  <2>5. ASSUME NEW x \in 1 .. j - i + 1 PROVE u[x] = v[x]
    <3>1. i + x - 1 \in 1 .. m /\ a + (i + x - 1) = (a + i) + x - 1
      BY <1>3, <1>5
    <3> QED BY <1>3, <2>3, <2>4, <3>1
  <2>6. u = v
    BY <2>3, <2>4, <2>5, SeqEqual
  <2> QED BY <2>1, <2>2, <2>6
<1>10. r \in {SubSeq(s, q[1], q[2]) : q \in Spans(s)}
  <2>1. PICK q \in Spans(s) : q[1] = a + i /\ q[2] = a + j
    BY <1>8
  <2>2. r = SubSeq(part, i, j)
    BY <1>4, <1>5
  <2>3. r = SubSeq(s, q[1], q[2])
    BY <1>9, <2>1, <2>2
  <2> QED BY <2>3
<1> QED BY <1>10, RunsAre

LEMMA WordAlone ==
    ASSUME NEW r \in Text, InWord(r)
    PROVE  r \in Range(Runs(r))
<1>1. PICK n \in Nat : n = Len(r) /\ DOMAIN r = 1 .. n /\ r \in Seq(Characters)
  BY DEF Text
<1>2. n >= 1
  BY <1>1 DEF InWord
<1>3. IsRun(r, 1, n)
  BY <1>1 DEF IsRun, InWord
<1>4. <<1, n>> \in Spans(r)
  BY <1>1, <1>2, <1>3 DEF Spans
<1>5. SubSeq(r, 1, n) = r
  BY <1>1
<1>6. r \in {SubSeq(r, p[1], p[2]) : p \in Spans(r)}
  BY <1>4, <1>5
<1> QED BY <1>6, RunsAre

(* The index splits a second time the text that was put together from the  *)
(* tokens, and finds every short plain word of the first text again.       *)
Short(r) == Plain(r) /\ Len(r) < TokenBytes

LEMMA TokensAre ==
    ASSUME NEW s \in Text, NEW tokens, tokens = tokenize(s)
    PROVE  /\ tokens \in Seq(Text)
           /\ \A r \in Range(Runs(s)) : Lowered(r) \in Range(tokens)
<1>1. PICK runs : runs = Runs(s)
  OBVIOUS
<1>2. runs \in Seq(Text)
  BY <1>1, RunsAre
<1>3. PICK n \in Nat : n = Len(runs) /\ DOMAIN runs = 1 .. n
  BY <1>2
<1>4. tokens = [k \in 1 .. n |-> Lowered(runs[k])]
  BY <1>1, <1>3 DEF tokenize
<1>5. \A k \in 1 .. n : Lowered(runs[k]) \in Text
  BY <1>2, <1>3, LoweredIsText
<1>6. tokens \in Seq(Text)
  BY <1>4, <1>5
<1>7. ASSUME NEW r \in Range(runs) PROVE Lowered(r) \in Range(tokens)
  <2>1. PICK k \in 1 .. n : r = runs[k]
    BY <1>3 DEF Range
  <2>2. tokens[k] = Lowered(r) /\ k \in DOMAIN tokens
    BY <1>4, <2>1
  <2> QED BY <2>2 DEF Range
<1> QED BY <1>1, <1>6, <1>7

LEMMA BlankSeparates == Separates(<<" ">>) /\ Separates(<<",", " ">>)
<1>1. " " \in Characters /\ "," \in Characters
  BY DEF Characters, Marks
<1>2. " " \notin Alphanumeric /\ "," \notin Alphanumeric
  BY DEF Alphanumeric
<1>3. ASSUME NEW c \in Characters, c \notin Alphanumeric PROVE Separates(<<c>>)
  <2>1. <<c>> \in Seq(Characters) /\ <<c>> # <<>>
    OBVIOUS
  <2>2. \A j \in DOMAIN <<c>> : <<c>>[j] = c
    OBVIOUS
  <2> QED BY <1>3, <2>1, <2>2 DEF Separates, Text
<1>4. ASSUME NEW c \in Characters, NEW d \in Characters,
             c \notin Alphanumeric, d \notin Alphanumeric
      PROVE  Separates(<<c, d>>)
  <2>1. <<c, d>> \in Seq(Characters) /\ <<c, d>> # <<>>
    OBVIOUS
  <2>2. \A j \in DOMAIN <<c, d>> : <<c, d>>[j] = c \/ <<c, d>>[j] = d
    OBVIOUS
  <2> QED BY <1>4, <2>1, <2>2 DEF Separates, Text
<1> QED BY <1>1, <1>2, <1>3, <1>4

LEMMA LoweredWord ==
    ASSUME NEW r \in Text, InWord(r), Plain(r)
    PROVE  InWord(Lowered(r))
<1>1. PICK t : t = Lowered(r)
  OBVIOUS
<1>2. t = [i \in DOMAIN r |-> Small(r[i])] /\ t \in Text /\ Len(t) = Len(r)
  BY <1>1, LoweredIs
<1>3. \A i \in DOMAIN r : t[i] \in Alphanumeric
  BY <1>2, LowerIs DEF InWord, Plain
<1>4. DOMAIN t = DOMAIN r
  BY <1>2
<1>5. t # <<>>
  BY <1>2 DEF InWord, Text
<1> QED BY <1>1, <1>3, <1>4, <1>5 DEF InWord

LEMMA NormalText ==
    ASSUME NEW raw \in Text, NEW text, text = normalize_query(raw)
    PROVE  /\ text \in Text
           /\ \A r \in Range(Runs(raw)) : Short(r) => Lowered(r) \in Terms(text)
<1>1. PICK tokens : tokens = tokenize(raw)
  OBVIOUS
<1>2. tokens \in Seq(Text) /\ \A r \in Range(Runs(raw)) : Lowered(r) \in Range(tokens)
  BY <1>1, TokensAre
<1>3. PICK n \in Nat : DOMAIN tokens = 1 .. n /\ tokens \in [1 .. n -> Text]
  BY <1>2
<1>4. text = Joined(tokens, <<" ">>)
  BY <1>1 DEF normalize_query
<1>5. text \in Text /\ \A k \in 1 .. n : \E a : StandsAt(tokens[k], text, a)
  BY <1>3, <1>4, BlankSeparates, JoinedParts
<1>6. ASSUME NEW r \in Range(Runs(raw)), Short(r) PROVE Lowered(r) \in Terms(text)
  <2>1. r \in Text /\ InWord(r)
    <3>1. Runs(raw) \in Seq(Text) /\ \A q \in Range(Runs(raw)) : InWord(q)
      BY RunsAre
    <3> QED BY <3>1 DEF Range
  <2>2. PICK t : t = Lowered(r)
    OBVIOUS
  <2>3. t \in Text /\ Len(t) = Len(r) /\ Lowered(t) = t /\ InWord(t)
    BY <1>6, <2>1, <2>2, LoweredIs, LoweredWord DEF Short
  <2>4. PICK k \in 1 .. n : t = tokens[k]
    BY <1>2, <1>3, <2>2 DEF Range
  <2>5. PICK a : StandsAt(t, text, a)
    BY <1>5, <2>4
  <2>6. t \in Range(Runs(t))
    BY <2>3, WordAlone
  <2>7. t \in Range(Runs(text))
    BY <1>5, <2>3, <2>5, <2>6, WordMoves
  <2>8. Len(t) < TokenBytes
    BY <1>6, <2>3 DEF Short
  <2> QED BY <2>2, <2>3, <2>7, <2>8 DEF Terms
<1> QED BY <1>5, <1>6

(* Every tag a place has gets into the text it is indexed under.           *)
LEMMA PresentIs ==
    ASSUME NEW n \in Nat, NEW fields \in [1 .. n -> Text \cup {None}],
           NEW present, present = Present(fields)
    PROVE  /\ present \in Seq(Text)
           /\ \A i \in 1 .. n : fields[i] # None => fields[i] \in Range(present)
<1>1. PICK S : S = Text \cup {None}
  OBVIOUS
<1>2. PICK P : P = {i \in DOMAIN fields : fields[i] # None}
  OBVIOUS
<1>3. fields \in Seq(S) /\ P \in SUBSET (DOMAIN fields) /\ DOMAIN fields = 1 .. n
  BY <1>1, <1>2
<1>4. present = Picked(fields, P)
  BY <1>2 DEF Present
<1>5. PICK m \in Nat : m = Cardinality(P)
  BY <1>3, PickedElements
<1>6. /\ DOMAIN present = 1 .. m /\ Len(present) = m /\ present \in Seq(S)
      /\ ToSet(present) = {fields[i] : i \in P}
      /\ \A k \in 1 .. m : Increasing(P)[k] \in P /\ present[k] = fields[Increasing(P)[k]]
  BY <1>3, <1>4, <1>5, PickedElements
<1>7. \A i \in P : fields[i] \in Text
  BY <1>2
<1>8. \A k \in 1 .. m : present[k] \in Text
  BY <1>6, <1>7
<1>9. present \in Seq(Text)
  BY <1>6, <1>8
<1>10. ASSUME NEW i \in 1 .. n, fields[i] # None PROVE fields[i] \in Range(present)
  <2>1. i \in P
    BY <1>2, <1>3, <1>10
  <2>2. fields[i] \in ToSet(present)
    BY <1>6, <2>1
  <2> QED BY <2>2 DEF ToSet, Range
<1> QED BY <1>9, <1>10

LEMMA JoinedTags ==
    ASSUME NEW n \in Nat, NEW fields \in [1 .. n -> Text \cup {None}],
           NEW separator, Separates(separator),
           NEW raw, raw = Joined(Present(fields), separator)
    PROVE  /\ raw \in Text
           /\ \A i \in 1 .. n : fields[i] # None =>
                  \A r \in Range(Runs(fields[i])) : r \in Range(Runs(raw))
<1>1. PICK present : present = Present(fields)
  OBVIOUS
<1>2. /\ present \in Seq(Text)
      /\ \A i \in 1 .. n : fields[i] # None => fields[i] \in Range(present)
  BY <1>1, PresentIs
<1>3. PICK m \in Nat : DOMAIN present = 1 .. m /\ present \in [1 .. m -> Text]
  BY <1>2
<1>4. raw \in Text /\ \A k \in 1 .. m : \E a : StandsAt(present[k], raw, a)
  BY <1>1, <1>3, JoinedParts
<1>5. ASSUME NEW i \in 1 .. n, fields[i] # None, NEW r \in Range(Runs(fields[i]))
      PROVE  r \in Range(Runs(raw))
  <2>1. PICK k \in 1 .. m : fields[i] = present[k]
    BY <1>2, <1>3, <1>5 DEF Range
  <2>2. present[k] \in Text /\ r \in Range(Runs(present[k]))
    BY <1>3, <1>5, <2>1
  <2>3. PICK a : StandsAt(present[k], raw, a)
    BY <1>4
  <2> QED BY <1>4, <2>2, <2>3, WordMoves
<1> QED BY <1>4, <1>5

LEMMA DisplayNameIs ==
    ASSUME NEW name \in Text \cup {None}, NEW road \in Text \cup {None}
    PROVE  format_display_name(name, road) \in Text
<1>1. PICK fields : fields = <<IF name = <<>> THEN None ELSE name, road>>
  OBVIOUS
<1>2. fields \in [1 .. 2 -> Text \cup {None}]
  BY <1>1
<1>3. Joined(Present(fields), <<",", " ">>) \in Text
  <2>1. Separates(<<",", " ">>)
    BY BlankSeparates
  <2> QED BY <1>2, <2>1, JoinedTags
<1>4. UnknownPlace \in Text
  BY DEF UnknownPlace, Text, Characters, Alphanumeric
<1> QED BY <1>1, <1>3, <1>4 DEF format_display_name

LEMMA PlainWords ==
    ASSUME NEW s \in Text, Plain(s), NEW r \in Range(Runs(s))
    PROVE  Plain(r)
<1>1. PICK n \in Nat : n = Len(s) /\ DOMAIN s = 1 .. n /\ s \in Seq(Characters)
  BY DEF Text
<1>2. PICK p \in Spans(s) : r = SubSeq(s, p[1], p[2])
  BY RunsAre
<1>3. PICK i \in 1 .. n, j \in 1 .. n : p = <<i, j>> /\ i <= j
  BY <1>1, <1>2 DEF Spans
<1>4. /\ DOMAIN r = 1 .. j - i + 1
      /\ \A x \in 1 .. j - i + 1 : r[x] = s[i + x - 1] /\ i + x - 1 \in 1 .. n
  BY <1>1, <1>2, <1>3
<1> QED BY <1>1, <1>4 DEF Plain

Tags(p) == {p.name, p.road, p.category, p.type_name} \ {None}

LEMMA TagsFound ==
    ASSUME NEW p \in Tagged, NEW tag \in Tags(p), NEW r \in Range(Runs(tag)), Short(r)
    PROVE  Lowered(r) \in Terms(place_search_text(p))
<1>1. PICK shown : shown = format_display_name(p.name, p.road)
  OBVIOUS
<1>2. /\ p.name \in Text \cup {None} /\ p.road \in Text \cup {None}
      /\ p.category \in Text /\ p.type_name \in Text
  BY TaggedAssumption
<1>3. shown \in Text
  BY <1>1, <1>2, DisplayNameIs
<1>4. PICK fields : fields = <<p.name, shown, p.road, p.category, p.type_name>>
  OBVIOUS
<1>5. fields \in [1 .. 5 -> Text \cup {None}]
  BY <1>2, <1>3, <1>4
<1>6. PICK i \in 1 .. 5 : fields[i] = tag /\ tag # None
  BY <1>4 DEF Tags
<1>7. PICK raw : raw = Joined(Present(fields), <<" ">>)
  OBVIOUS
<1>8. raw \in Text /\ r \in Range(Runs(raw))
  <2>1. Separates(<<" ">>)
    BY BlankSeparates
  <2>2. /\ raw \in Text
        /\ \A k \in 1 .. 5 : fields[k] # None =>
               \A q \in Range(Runs(fields[k])) : q \in Range(Runs(raw))
    BY <1>5, <1>7, <2>1, JoinedTags
  <2> QED BY <1>6, <2>2
<1>9. place_search_text(p) = normalize_query(raw)
  BY <1>1, <1>4, <1>7 DEF place_search_text
<1> QED BY <1>8, <1>9, NormalText
-----------------------------------------------------------------------------
(* The index holds the text of the places, whatever happens after it is    *)
(* built: nothing else is written to either.                               *)
Indexed ==
    /\ places \in Seq(Tagged)
    /\ phase # "import" =>
           terms = [d \in Ids |-> Terms(place_search_text(places[d]))]

LEMMA IndexedAlways == Spec => []Indexed
<1>1. Init => Indexed
  BY DEF Init, Indexed
<1>2. Indexed /\ [Next]_vars => Indexed'
  <2> SUFFICES ASSUME Indexed, [Next]_vars PROVE Indexed'
    OBVIOUS
  <2>1. ASSUME NEW p \in Tagged, Push(p) PROVE Indexed'
    <3>1. phase' = "import" /\ places' \in Seq(Tagged)
      BY <2>1 DEF Push, Indexed
    <3> QED BY <3>1 DEF Indexed
  <2>2. CASE build_index
    <3>1. places' = places /\ terms' = [d \in Ids |-> Terms(place_search_text(places[d]))]
      BY <2>2 DEF build_index
    <3> QED BY <3>1 DEF Indexed, Ids
  <2>3. CASE \/ \E q \in Queries, n \in Limits : Ask(q, n)
             \/ Search \/ Rank \/ UNCHANGED vars
    <3>1. UNCHANGED <<places, terms>> /\ (phase = "import" => phase' = "import")
      BY <2>3 DEF Ask, Search, Rank, vars
    <3> QED BY <3>1 DEF Indexed, Ids
  <2> QED BY <2>1, <2>2, <2>3 DEF Next
<1> QED BY <1>1, <1>2, PTL DEF Spec

(* Whoever asks for a word that any tag of a place has, in capitals or in  *)
(* small letters and among whatever other words, matches the place, unless *)
(* the word is too long for the index or holds the one letter whose lower  *)
(* case is not a letter.                                                   *)
Asks(q, w) == \E u \in Range(Runs(q)) : Lowered(u) = Lowered(w)
FoundByWord ==
    phase # "import" =>
        \A d \in Ids : \A tag \in Tags(places[d]) : \A w \in Range(Runs(tag)) :
            Short(w) =>
                \A q \in Text : Asks(q, w) => d \in Matching(tokenize(q))

THEOREM ForwardSearchWords == Spec => []FoundByWord
<1>1. Indexed => FoundByWord
  <2> SUFFICES ASSUME Indexed, phase # "import", NEW d \in Ids,
                      NEW tag \in Tags(places[d]), NEW w \in Range(Runs(tag)),
                      Short(w), NEW q \in Text, Asks(q, w)
               PROVE  d \in Matching(tokenize(q))
    BY DEF FoundByWord
  <2>1. places[d] \in Tagged /\ terms[d] = Terms(place_search_text(places[d]))
    BY DEF Indexed, Ids
  <2>2. Lowered(w) \in terms[d]
    BY <2>1, TagsFound
  <2>3. PICK u \in Range(Runs(q)) : Lowered(u) = Lowered(w)
    BY DEF Asks
  <2>4. Lowered(w) \in Range(tokenize(q))
    BY <2>3, TokensAre
  <2> QED BY <2>2, <2>4 DEF Matching
<1> QED BY <1>1, IndexedAlways, PTL

(* The name finds its place, for names without the letter U+0130.          *)
PlainNames == \A p \in Tagged : p.name # None => Plain(p.name)

THEOREM ForwardSearchFinds == PlainNames => (Spec => []FoundByName)
<1> SUFFICES ASSUME PlainNames PROVE Spec => []FoundByName
  OBVIOUS
<1>1. Indexed /\ FoundByWord => FoundByName
  <2> SUFFICES ASSUME Indexed, FoundByWord, phase # "import", NEW d \in Ids,
                      Reachable(places[d].name)
               PROVE  d \in Matching(tokenize(places[d].name))
    BY DEF FoundByName
  <2>1. PICK name : name = places[d].name
    OBVIOUS
  <2>2. places[d] \in Tagged
    BY DEF Indexed, Ids
  <2>3. name # None /\ name \in Text /\ Plain(name) /\ name \in Tags(places[d])
    BY <2>1, <2>2, TaggedAssumption DEF Reachable, PlainNames, Tags
  <2>4. PICK w \in Range(Runs(name)) : Len(w) < TokenBytes
    BY <2>1 DEF Reachable
  <2>5. Plain(w)
    BY <2>3, PlainWords
  <2>6. Asks(name, w)
    BY DEF Asks
  <2> QED BY <2>1, <2>3, <2>4, <2>5, <2>6 DEF FoundByWord, Short
<1> QED BY <1>1, IndexedAlways, ForwardSearchWords, PTL
=============================================================================
