------------------------ MODULE ReverseSearchProofs ------------------------
(***************************************************************************)
(* Reverse geocoding for any grid, any places, any limit and any damage to *)
(* the fine layer: what a layer holds after it was built, what a lookup    *)
(* reads from a layer that open has admitted, that the candidates come to  *)
(* all that is in reach while some are missing, and that push_best keeps   *)
(* the best of them.                                                       *)
(***************************************************************************)
EXTENDS ReverseSearch, ListsProofs

(* What build_csr_layer is given: places with ids of their own.            *)
Distinct(E) ==
    /\ IsFiniteSet(E)
    /\ \A e \in E : e.id \in Nat /\ e.cell \in Nat /\ e.importance \in Nat
    /\ \A a, b \in E : a.id = b.id => a = b

(* The places of one cell, the most important first.                       *)
IsBucket(b, S) ==
    /\ b \in Seq(S) /\ ToSet(b) = S /\ IsInjective(b)
    /\ \A i, j \in 1 .. Len(b) : i < j => Before(b[i], b[j])

Rising(s) == \A i, j \in 1 .. Len(s) : i < j => s[i] < s[j]

IsLayer(L) == L = [cells |-> L.cells, offsets |-> L.offsets, postings |-> L.postings]

(* What was written for E: cells in order, a bucket for each, and where it *)
(* begins.                                                                 *)
Cut(off, n, bs) ==
    /\ off \in [1 .. n + 1 -> Nat] /\ off[1] = 0
    /\ \A k \in 1 .. n : Len(bs[k]) \in Nat /\ off[k + 1] = off[k] + Len(bs[k])

Listed(post, off, n, bs) ==
    /\ post \in Seq(Nat) /\ Len(post) = off[n + 1]
    /\ \A k \in 1 .. n : \A j \in 1 .. Len(bs[k]) : post[off[k] + j] = bs[k][j].id

Grouped(cells, E, bs) ==
    /\ cells \in Seq(Nat) /\ Rising(cells)
    /\ ToSet(cells) = {e.cell : e \in E}
    /\ \A k \in 1 .. Len(cells) : IsBucket(bs[k], {e \in E : e.cell = cells[k]})

Written(L, E, bs) ==
    /\ IsLayer(L)
    /\ L.cells = Column(L.cells.rows, Wide)
    /\ L.offsets = Column(L.offsets.rows, Wide)
    /\ L.postings = Column(L.postings.rows, Narrow)
    /\ Grouped(L.cells.rows, E, bs)
    /\ Cut(L.offsets.rows, Len(L.cells.rows), bs)
    /\ Listed(L.postings.rows, L.offsets.rows, Len(L.cells.rows), bs)

(* What no damage changes.                                                 *)
Sound(L, I) ==
    /\ IsLayer(L)
    /\ L.cells.rows \in Seq(Nat) /\ Rising(L.cells.rows)
    /\ L.offsets.rows \in Seq(Nat)
    /\ L.postings.rows \in Seq(I) /\ IsInjective(L.postings.rows)
    /\ L.cells.count \in Nat /\ L.offsets.count \in Nat /\ L.postings.count \in Nat
    /\ L.cells.size \in Int /\ L.offsets.size \in Int /\ L.postings.size \in Int
    /\ L.cells.size <= Header + Wide * Len(L.cells.rows)
    /\ L.offsets.size <= Header + Wide * Len(L.offsets.rows)
    /\ L.postings.size <= Header + Narrow * Len(L.postings.rows)
-----------------------------------------------------------------------------
(* Building a layer.                                                       *)

LEMMA BucketExists ==
    ASSUME NEW E, Distinct(E), NEW S \in SUBSET E
    PROVE  IsBucket(Listing(S, Before), S)
<1> DEFINE R == {p \in S \X S : Before(p[1], p[2])}
<1>1. IsFiniteSet(S)
  BY FS_Subset DEF Distinct
<1>2. Orders(R, S)
  <2>1. \A a, b \in S : <<a, b>> \in R <=> Before(a, b)
    OBVIOUS
  <2>2. /\ \A a \in S : ~Before(a, a)
        /\ \A a, b \in S : a # b => Before(a, b) \/ Before(b, a)
        /\ \A a, b, c \in S : Before(a, b) /\ Before(b, c) => Before(a, c)
    BY DEF Before, Distinct
  <2> HIDE DEF R
  <2> QED BY <2>1, <2>2 DEF Orders
<1>3. \A a, b \in S : <<a, b>> \in R <=> Before(a, b)
  OBVIOUS
<1> HIDE DEF R
<1>4. PICK f \in Bijection(1 .. Cardinality(S), S) :
          \A i, j \in 1 .. Cardinality(S) : i < j => <<f[i], f[j]>> \in R
  BY <1>1, <1>2, SortingExists
<1> DEFINE Sorted(g) == \A i, j \in 1 .. Len(g) : i < j => Before(g[i], g[j])
<1>5. Sorted(f)
  <2>1. Len(f) = Cardinality(S) /\ \A k \in 1 .. Cardinality(S) : f[k] \in S
    BY <1>1, BijectionIsList
  <2> QED BY <1>3, <1>4, <2>1
<1>6. Listing(S, Before) = CHOOSE g \in Bijection(1 .. Cardinality(S), S) : Sorted(g)
  BY DEF Listing, IsSorted
<1> HIDE DEF Sorted
<1>7. PICK b \in Bijection(1 .. Cardinality(S), S) :
          b = Listing(S, Before) /\ Sorted(b)
  BY <1>5, <1>6
<1>8. ToSet(b) = S /\ b \in Seq(S) /\ IsInjective(b)
  BY <1>1, BijectionIsList
<1> QED BY <1>7, <1>8 DEF IsBucket, Sorted

(* What build_csr_layer writes.                                            *)
LEMMA LayerWritten ==
    ASSUME NEW E, Distinct(E)
    PROVE  \E buckets : Written(Layer(E), E, buckets)
<1> DEFINE C == {e.cell : e \in E}
           cells == Increasing(C)
           bs == [k \in 1 .. Len(cells) |-> Listing({e \in E : e.cell = cells[k]}, Before)]
           upTo(k) == FlattenSeq(SubSeq(bs, 1, k))
           all == upTo(Len(cells))
           off == [k \in 1 .. Len(cells) + 1 |-> Len(upTo(k - 1))]
           post == [n \in 1 .. Len(all) |-> all[n].id]
<1>1. Layer(E) = [cells |-> Column(cells, Wide), offsets |-> Column(off, Wide),
                  postings |-> Column(post, Narrow)]
  BY DEF Layer
<1>2. PICK n \in Nat : /\ Len(cells) = n /\ cells \in Seq(Nat) /\ Rising(cells)
                       /\ ToSet(cells) = C /\ DOMAIN cells = 1 .. n
  <2>1. C \in SUBSET Nat /\ C \in SUBSET Int
    BY DEF Distinct
  <2>2. IsFiniteSet(C)
    <3> DEFINE cellOf == [e \in E |-> e.cell]
    <3>1. cellOf \in Surjection(E, C)
      BY DEF Surjection
    <3> HIDE DEF cellOf
    <3> QED BY <3>1, FS_Surjection DEF Distinct
  <2> HIDE DEF C
  <2>3. cells \in Bijection(1 .. Cardinality(C), C)
    BY <2>1, <2>2, IncreasingLists
  <2>4. \A i, j \in 1 .. Cardinality(C) : i < j => cells[i] < cells[j]
    BY <2>1, <2>2, IncreasingLists
  <2> HIDE DEF cells
  <2>5. /\ Cardinality(C) \in Nat /\ cells \in Seq(C) /\ Len(cells) = Cardinality(C)
        /\ ToSet(cells) = C /\ DOMAIN cells = 1 .. Cardinality(C)
    BY <2>2, <2>3, BijectionIsList
  <2>6. cells \in Seq(Nat)
    BY <2>1, <2>5, SeqMonotonic
  <2> QED BY <2>4, <2>5, <2>6 DEF Rising
<1>3. ToSet(cells) = {e.cell : e \in E}
  BY <1>2
<1> HIDE DEF C, cells
<1>4. \A k \in 1 .. n : IsBucket(bs[k], {e \in E : e.cell = cells[k]})
  <2> SUFFICES ASSUME NEW k \in 1 .. n
               PROVE  IsBucket(bs[k], {e \in E : e.cell = cells[k]})
    OBVIOUS
  <2>1. IsBucket(Listing({e \in E : e.cell = cells[k]}, Before),
                 {e \in E : e.cell = cells[k]})
    <3>1. {e \in E : e.cell = cells[k]} \in SUBSET E
      OBVIOUS
    <3> QED BY <3>1, BucketExists
  <2>2. bs[k] = Listing({e \in E : e.cell = cells[k]}, Before)
    BY <1>2
  <2> QED BY <2>1, <2>2, Zenon
<1>5. bs \in [1 .. n -> Seq(E)]
  <2>1. DOMAIN bs = 1 .. n /\ bs = [k \in 1 .. n |-> bs[k]]
    BY <1>2
  <2> HIDE DEF bs
  <2>2. \A k \in 1 .. n : bs[k] \in Seq(E)
    <3> SUFFICES ASSUME NEW k \in 1 .. n PROVE bs[k] \in Seq(E)
      OBVIOUS
    <3>1. bs[k] \in Seq({e \in E : e.cell = cells[k]})
      BY <1>4 DEF IsBucket
    <3>2. {e \in E : e.cell = cells[k]} \subseteq E
      OBVIOUS
    <3> QED BY <3>1, <3>2, SeqMonotonic
  <2> QED BY <2>1, <2>2
<1> HIDE DEF bs
<1>6. /\ upTo(0) = <<>> /\ \A k \in 0 .. n : upTo(k) \in Seq(E)
      /\ \A k \in 1 .. n : upTo(k) = upTo(k - 1) \o bs[k]
  BY <1>5, FlattenStep
<1>7. \A k \in 1 .. n : \A j \in 1 .. Len(bs[k]) :
          Len(upTo(k - 1)) + j \in 1 .. Len(upTo(n))
          /\ upTo(n)[Len(upTo(k - 1)) + j] = bs[k][j]
  BY <1>5, FlattenAt
<1> HIDE DEF upTo
<1>8. /\ off \in [1 .. n + 1 -> Nat] /\ \A k \in 0 .. n : off[k + 1] = Len(upTo(k))
  <2>1. \A k \in 0 .. n : Len(upTo(k)) \in Nat
    BY <1>6
  <2>2. \A k \in 1 .. n + 1 : k - 1 \in 0 .. n
    OBVIOUS
  <2>3. \A k \in 0 .. n : k + 1 \in 1 .. n + 1 /\ (k + 1) - 1 = k
    OBVIOUS
  <2> QED BY <1>2, <2>1, <2>2, <2>3
<1> HIDE DEF off
<1>9. off[1] = 0 /\ \A k \in 1 .. n : off[k + 1] = off[k] + Len(bs[k])
  <2>1. off[0 + 1] = Len(upTo(0)) /\ 0 + 1 = 1
    BY <1>8
  <2>2. ASSUME NEW k \in 1 .. n PROVE off[k + 1] = off[k] + Len(bs[k])
    <3>1. k \in 0 .. n /\ k - 1 \in 0 .. n /\ (k - 1) + 1 = k
      OBVIOUS
    <3>2. off[k + 1] = Len(upTo(k)) /\ off[k] = Len(upTo(k - 1))
      BY <1>8, <3>1
    <3>3. upTo(k) = upTo(k - 1) \o bs[k] /\ upTo(k - 1) \in Seq(E) /\ bs[k] \in Seq(E)
      BY <1>5, <1>6, <3>1
    <3> QED BY <3>2, <3>3
  <2> QED BY <1>6, <2>1, <2>2
<1>10. /\ post \in Seq(Nat) /\ Len(post) = off[n + 1]
       /\ \A m \in 1 .. Len(upTo(n)) : post[m] = upTo(n)[m].id
  <2>1. all = upTo(n) /\ upTo(n) \in Seq(E)
    BY <1>2, <1>6
  <2>2. post = [m \in 1 .. Len(upTo(n)) |-> upTo(n)[m].id]
    BY <2>1
  <2>3. Len(upTo(n)) \in Nat /\ \A m \in 1 .. Len(upTo(n)) : upTo(n)[m] \in E
    BY <2>1
  <2> HIDE DEF post
  <2>4. post \in [1 .. Len(upTo(n)) -> Nat]
    BY <2>2, <2>3 DEF Distinct
  <2>5. post \in Seq(Nat) /\ Len(post) = Len(upTo(n))
    BY <2>3, <2>4, SeqDef
  <2>6. off[n + 1] = Len(upTo(n))
    BY <1>8
  <2> QED BY <2>2, <2>5, <2>6
<1> HIDE DEF post, all
<1>11. \A k \in 1 .. n : \A j \in 1 .. Len(bs[k]) : post[off[k] + j] = bs[k][j].id
  <2> SUFFICES ASSUME NEW k \in 1 .. n, NEW j \in 1 .. Len(bs[k])
               PROVE  post[off[k] + j] = bs[k][j].id
    OBVIOUS
  <2>1. k - 1 \in 0 .. n /\ (k - 1) + 1 = k
    OBVIOUS
  <2>2. off[k] = Len(upTo(k - 1))
    BY <1>8, <2>1
  <2> QED BY <1>7, <1>10, <2>2
<1>12. PICK L : L = Layer(E)
  OBVIOUS
<1>13. /\ L.cells = Column(cells, Wide) /\ L.offsets = Column(off, Wide)
       /\ L.postings = Column(post, Narrow) /\ IsLayer(L)
  BY <1>1, <1>12 DEF IsLayer
<1>14. /\ L.cells.rows = cells /\ L.offsets.rows = off /\ L.postings.rows = post
  BY <1>13 DEF Column
<1>15. Grouped(cells, E, bs)
  BY <1>2, <1>3, <1>4 DEF Grouped
<1>16. Cut(off, n, bs)
  <2>1. \A k \in 1 .. n : Len(bs[k]) \in Nat
    BY <1>5, LenProperties
  <2> QED BY <1>8, <1>9, <2>1 DEF Cut
<1>17. Listed(post, off, n, bs)
  BY <1>10, <1>11 DEF Listed
<1>18. Written(L, E, bs)
  BY <1>2, <1>13, <1>14, <1>15, <1>16, <1>17 DEF Written
<1> QED BY <1>12, <1>18

(* Every posting stands in the bucket of a cell.                           *)
LEMMA InABucket ==
    ASSUME NEW n \in Nat, NEW bs, NEW off, Cut(off, n, bs),
           NEW post, Listed(post, off, n, bs), NEW a \in DOMAIN post
    PROVE  \E k \in 1 .. n : \E j \in 1 .. Len(bs[k]) :
               a = off[k] + j /\ post[a] = bs[k][j].id
<1>1. off \in [1 .. n + 1 -> Int] /\ off[1] = 0 /\ a \in 1 .. off[n + 1]
  BY DEF Cut, Listed
<1>2. PICK k \in 1 .. n : off[k] < a /\ a <= off[k + 1]
  BY <1>1, Between
<1>3. /\ off[k] \in Nat /\ a \in Nat /\ Len(bs[k]) \in Nat
      /\ off[k + 1] = off[k] + Len(bs[k])
  BY <1>1 DEF Cut
<1>4. a - off[k] \in 1 .. Len(bs[k]) /\ off[k] + (a - off[k]) = a
  BY <1>2, <1>3
<1>5. post[off[k] + (a - off[k])] = bs[k][a - off[k]].id
  BY <1>4 DEF Listed
<1> QED BY <1>4, <1>5

LEMMA RisingInjective ==
    ASSUME NEW s \in Seq(Nat), Rising(s), NEW i \in 1 .. Len(s), NEW j \in 1 .. Len(s),
           s[i] = s[j]
    PROVE  i = j
<1>1. s[i] \in Nat /\ s[j] \in Nat
  OBVIOUS
<1> QED BY <1>1 DEF Rising

LEMMA WrittenIsSound ==
    ASSUME NEW L, NEW E, Distinct(E), NEW bs, Written(L, E, bs)
    PROVE  Sound(L, {e.id : e \in E})
<1> DEFINE n == Len(L.cells.rows)
           cells == L.cells.rows
           off == L.offsets.rows
           post == L.postings.rows
           I == {e.id : e \in E}
<1>1. /\ Grouped(cells, E, bs) /\ Cut(off, n, bs) /\ Listed(post, off, n, bs)
      /\ IsLayer(L) /\ L.cells = Column(cells, Wide)
      /\ L.offsets = Column(off, Wide) /\ L.postings = Column(post, Narrow)
  BY DEF Written
<1>2. n \in Nat /\ cells \in Seq(Nat) /\ Rising(cells)
  BY <1>1 DEF Grouped
<1>3. \A k \in 1 .. n :
          /\ IsInjective(bs[k]) /\ DOMAIN bs[k] = 1 .. Len(bs[k])
          /\ \A j \in 1 .. Len(bs[k]) : bs[k][j] \in E /\ bs[k][j].cell = cells[k]
  <2> SUFFICES ASSUME NEW k \in 1 .. n
               PROVE  /\ IsInjective(bs[k]) /\ DOMAIN bs[k] = 1 .. Len(bs[k])
                      /\ \A j \in 1 .. Len(bs[k]) :
                             bs[k][j] \in E /\ bs[k][j].cell = cells[k]
    OBVIOUS
  <2> DEFINE Here == {e \in E : e.cell = cells[k]}
  <2>1. bs[k] \in Seq(Here) /\ IsInjective(bs[k])
    BY <1>1 DEF Grouped, IsBucket
  <2> HIDE DEF Here
  <2>2. \A j \in 1 .. Len(bs[k]) : bs[k][j] \in Here
    BY <2>1
  <2>3. DOMAIN bs[k] = 1 .. Len(bs[k])
    BY <2>1
  <2> QED BY <2>1, <2>2, <2>3 DEF Here
<1> HIDE DEF n, cells, off, post, I
<1>4. \A a \in DOMAIN post : \E k \in 1 .. n : \E j \in 1 .. Len(bs[k]) :
          a = off[k] + j /\ post[a] = bs[k][j].id
  BY <1>1, <1>2, InABucket
<1>5. post \in Seq(I)
  <2>1. \A a \in DOMAIN post : post[a] \in I
    BY <1>3, <1>4 DEF I
  <2>2. Len(post) \in Nat /\ post \in [1 .. Len(post) -> I]
    BY <1>1, <2>1 DEF Listed
  <2> QED BY <2>2, SeqDef
<1>6. IsInjective(post)
  <2> SUFFICES ASSUME NEW a \in DOMAIN post, NEW b \in DOMAIN post, post[a] = post[b]
               PROVE  a = b
    BY DEF IsInjective
  <2>a. PICK k \in 1 .. n : \E j \in 1 .. Len(bs[k]) :
            a = off[k] + j /\ post[a] = bs[k][j].id
    BY <1>4
  <2>1. PICK j \in 1 .. Len(bs[k]) : a = off[k] + j /\ post[a] = bs[k][j].id
    BY <2>a
  <2>b. PICK m \in 1 .. n : \E i \in 1 .. Len(bs[m]) :
            b = off[m] + i /\ post[b] = bs[m][i].id
    BY <1>4
  <2>2. PICK i \in 1 .. Len(bs[m]) : b = off[m] + i /\ post[b] = bs[m][i].id
    BY <2>b
  <2>3. bs[k][j] \in E /\ bs[m][i] \in E /\ bs[k][j].id = bs[m][i].id
    BY <1>3, <2>1, <2>2
  <2>4. bs[k][j] = bs[m][i]
    BY <2>3 DEF Distinct
  <2>5. cells[k] = cells[m]
    BY <1>3, <2>4
  <2>6. k = m
    BY <1>2, <2>5, RisingInjective DEF n, cells
  <2>7. bs[k][j] = bs[k][i] /\ i \in DOMAIN bs[k] /\ j \in DOMAIN bs[k]
    BY <1>3, <2>4, <2>6
  <2>8. i = j
    BY <1>3, <2>7 DEF IsInjective
  <2> QED BY <2>1, <2>2, <2>6, <2>8
<1>7. off \in Seq(Nat) /\ Len(off) \in Nat /\ Len(post) \in Nat
  <2>1. n + 1 \in Nat /\ off \in [1 .. n + 1 -> Nat]
    BY <1>1, <1>2 DEF Cut
  <2>2. off \in Seq(Nat)
    BY <2>1, SeqDef
  <2> QED BY <1>5, <2>2
<1>8. /\ L.cells.count = n /\ L.cells.size = Header + Wide * n
      /\ L.offsets.count = Len(off) /\ L.offsets.size = Header + Wide * Len(off)
      /\ L.postings.count = Len(post) /\ L.postings.size = Header + Narrow * Len(post)
  BY <1>1 DEF Column, n, cells
<1> QED BY <1>1, <1>2, <1>5, <1>6, <1>7, <1>8
        DEF Sound, n, cells, off, post, I, Header, Wide, Narrow

LEMMA DamagedIsSound ==
    ASSUME NEW L, NEW E, NEW I, NEW bs, Written(L, E, bs), Sound(L, I),
           NEW J, Sound(L, J), Len(places) \in I \ J,
           NEW M \in Damages(L)
    PROVE  Sound(M, I)
<1> USE DEF Header, Wide, Narrow
<1>1. /\ IsLayer(L) /\ L.cells = Column(L.cells.rows, Wide)
      /\ L.offsets = Column(L.offsets.rows, Wide)
      /\ L.postings = Column(L.postings.rows, Narrow)
  BY DEF Written
<1>2. /\ L.cells.rows \in Seq(Nat) /\ L.offsets.rows \in Seq(Nat)
      /\ L.postings.rows \in Seq(I)
      /\ Len(L.cells.rows) \in Nat /\ Len(L.offsets.rows) \in Nat
      /\ Len(L.postings.rows) \in Nat
  <2>1. /\ L.cells.rows \in Seq(Nat) /\ L.offsets.rows \in Seq(Nat)
        /\ L.postings.rows \in Seq(I)
    BY DEF Sound
  <2>2. /\ Len(L.cells.rows) \in Nat /\ Len(L.offsets.rows) \in Nat
        /\ Len(L.postings.rows) \in Nat
    BY <2>1
  <2> QED BY <2>1, <2>2
<1>3. /\ L.cells.count = Len(L.cells.rows)
      /\ L.cells.size = Header + Wide * Len(L.cells.rows)
      /\ L.offsets.count = Len(L.offsets.rows)
      /\ L.offsets.size = Header + Wide * Len(L.offsets.rows)
      /\ L.postings.count = Len(L.postings.rows)
      /\ L.postings.size = Header + Narrow * Len(L.postings.rows)
  BY <1>1 DEF Column
<1>4. CASE M \in {[L EXCEPT !.cells = f] : f \in Shorter(L.cells)}
  <2>1. PICK k \in {0, Header, L.cells.size - 1} :
            M = [L EXCEPT !.cells = [L.cells EXCEPT !.size = k]]
    BY <1>4 DEF Shorter
  <2>2. /\ IsLayer(M) /\ M.offsets = L.offsets /\ M.postings = L.postings
        /\ M.cells.rows = L.cells.rows /\ M.cells.count = L.cells.count
        /\ M.cells.size = k
    BY <1>1, <2>1 DEF IsLayer, Column
  <2>3. k \in Int /\ k <= Header + Wide * Len(L.cells.rows)
    BY <1>2, <1>3
  <2> QED BY <2>2, <2>3 DEF Sound
<1>5. CASE M \in {[L EXCEPT !.offsets = f] : f \in Shorter(L.offsets)}
  <2>1. PICK k \in {0, Header, L.offsets.size - 1} :
            M = [L EXCEPT !.offsets = [L.offsets EXCEPT !.size = k]]
    BY <1>5 DEF Shorter
  <2>2. /\ IsLayer(M) /\ M.cells = L.cells /\ M.postings = L.postings
        /\ M.offsets.rows = L.offsets.rows /\ M.offsets.count = L.offsets.count
        /\ M.offsets.size = k
    BY <1>1, <2>1 DEF IsLayer, Column
  <2>3. k \in Int /\ k <= Header + Wide * Len(L.offsets.rows)
    BY <1>2, <1>3
  <2> QED BY <2>2, <2>3 DEF Sound
<1>6. CASE M \in {[L EXCEPT !.postings = f] : f \in Shorter(L.postings)}
  <2>1. PICK k \in {0, Header, L.postings.size - 1} :
            M = [L EXCEPT !.postings = [L.postings EXCEPT !.size = k]]
    BY <1>6 DEF Shorter
  <2>2. /\ IsLayer(M) /\ M.cells = L.cells /\ M.offsets = L.offsets
        /\ M.postings.rows = L.postings.rows /\ M.postings.count = L.postings.count
        /\ M.postings.size = k
    BY <1>1, <2>1 DEF IsLayer, Column
  <2>3. k \in Int /\ k <= Header + Narrow * Len(L.postings.rows)
    BY <1>2, <1>3
  <2> QED BY <2>2, <2>3 DEF Sound
<1>7. CASE M \in WrongOffset(L)
  <2>1. PICK k \in 1 .. L.offsets.count, v \in 0 .. L.postings.count + 1 :
            M = [L EXCEPT !.offsets.rows[k] = v]
    BY <1>7 DEF WrongOffset
  <2>2. /\ IsLayer(M) /\ M.cells = L.cells /\ M.postings = L.postings
        /\ M.offsets.rows = [L.offsets.rows EXCEPT ![k] = v]
        /\ M.offsets.count = L.offsets.count /\ M.offsets.size = L.offsets.size
    BY <1>1, <2>1 DEF IsLayer, Column
  <2>3. v \in Nat /\ k \in 1 .. Len(L.offsets.rows)
    BY <1>2, <1>3
  <2>4. M.offsets.rows \in Seq(Nat) /\ Len(M.offsets.rows) = Len(L.offsets.rows)
    BY <1>2, <2>2, <2>3, ExceptSeq
  <2> QED BY <1>2, <1>3, <2>2, <2>4 DEF Sound
<1>8. CASE M \in WrongCounts(L)
  <2>1. PICK k \in 0 .. L.cells.count + 1 :
            M = [L EXCEPT !.cells.count = k, !.offsets.count = k + 1]
    BY <1>8 DEF WrongCounts
  <2>2. /\ IsLayer(M) /\ M.postings = L.postings
        /\ M.cells.rows = L.cells.rows /\ M.cells.size = L.cells.size
        /\ M.cells.count = k
        /\ M.offsets.rows = L.offsets.rows /\ M.offsets.size = L.offsets.size
        /\ M.offsets.count = k + 1
    BY <1>1, <2>1 DEF IsLayer, Column
  <2>3. k \in Nat /\ k + 1 \in Nat
    BY <1>2, <1>3
  <2> QED BY <1>2, <1>3, <2>2, <2>3 DEF Sound
<1>9. CASE M \in WrongPosting(L)
  <2>1. PICK k \in 1 .. L.postings.count : M = [L EXCEPT !.postings.rows[k] = Len(places)]
    BY <1>9 DEF WrongPosting
  <2>2. PICK q, t : q = L.postings.rows /\ t = M.postings.rows
    OBVIOUS
  <2>3. /\ IsLayer(M) /\ M.cells = L.cells /\ M.offsets = L.offsets
        /\ t = [q EXCEPT ![k] = Len(places)]
        /\ M.postings.count = L.postings.count /\ M.postings.size = L.postings.size
    BY <1>1, <2>1, <2>2 DEF IsLayer, Column
  <2>4. q \in Seq(I) /\ q \in Seq(J) /\ IsInjective(q) /\ k \in 1 .. Len(q)
    BY <1>3, <2>2 DEF Sound
  <2>5. t \in Seq(I) /\ Len(t) = Len(q)
    BY <2>3, <2>4, ExceptSeq
  <2>6. IsInjective(t)
    <3>1. DOMAIN q = 1 .. Len(q) /\ DOMAIN t = 1 .. Len(q) /\ \A i \in 1 .. Len(q) : q[i] \in J
      BY <2>4, <2>5
    <3>2. \A i \in 1 .. Len(q) : t[i] = IF i = k THEN Len(places) ELSE q[i]
      BY <2>3, <3>1
    <3> QED BY <2>4, <3>1, <3>2 DEF IsInjective
  <2> QED BY <1>2, <1>3, <2>2, <2>3, <2>5, <2>6 DEF Sound
<1> QED BY <1>4, <1>5, <1>6, <1>7, <1>8, <1>9 DEF Damages, ShorterFile

LEMMA SoundWider ==
    ASSUME NEW L, NEW I, NEW J, I \subseteq J, Sound(L, I)
    PROVE  Sound(L, J)
<1>1. PICK q : q = L.postings.rows
  OBVIOUS
<1>2. q \in Seq(J)
  <2>1. q \in Seq(I)
    BY <1>1 DEF Sound
  <2> QED BY <2>1
<1> QED BY <1>1, <1>2 DEF Sound
-----------------------------------------------------------------------------
(* The binary search of lookup_cell_ids.                                   *)

(* The range <<lo, hi>> is halved once.                                    *)
Halved(rows, c, g, lo, hi) ==
    LET mid == (lo + hi) \div 2
    IN  IF lo >= hi THEN lo
        ELSE IF rows[mid + 1] < c THEN g[<<mid + 1, hi>>]
        ELSE g[<<lo, mid>>]

LEMMA Middle ==
    ASSUME NEW n \in Nat, NEW lo \in 0 .. n, NEW hi \in 0 .. n, lo < hi
    PROVE  /\ (lo + hi) \div 2 \in lo .. hi - 1 /\ (lo + hi) \div 2 \in 0 .. n
           /\ (lo + hi) \div 2 + 1 \in 0 .. n
OBVIOUS

(* The halving goes on to ranges of nothing, so there is a function that   *)
(* does it.                                                                *)
CanHalve(n, rows, c) ==
    \E g : g = [r \in (0 .. n) \X (0 .. n) |-> Halved(rows, c, g, r[1], r[2])]

LEMMA SearchExists ==
    ASSUME NEW n \in Nat, NEW rows, NEW c
    PROVE  CanHalve(n, rows, c)
<1> DEFINE D == (0 .. n) \X (0 .. n)
           Right(g, d) == \A lo, hi \in 0 .. n :
                              hi - lo <= d => g[<<lo, hi>>] = Halved(rows, c, g, lo, hi)
           T == {d \in Nat : \E g : g = [r \in D |-> g[r]] /\ Right(g, d)}
<1>1. 0 \in T
  <2> DEFINE g == [r \in D |-> r[1]]
  <2>1. \A lo, hi \in 0 .. n : hi - lo <= 0 => Halved(rows, c, g, lo, hi) = lo
    BY DEF Halved
  <2>2. \A lo, hi \in 0 .. n : g[<<lo, hi>>] = lo
    OBVIOUS
  <2>3. g = [r \in D |-> g[r]]
    OBVIOUS
  <2> HIDE DEF g
  <2>4. Right(g, 0)
    BY <2>1, <2>2
  <2> QED BY <2>3, <2>4
<1>2. ASSUME NEW d \in 0 .. n - 1, d \in T PROVE d + 1 \in T
  <2>1. PICK g : g = [r \in D |-> g[r]] /\ Right(g, d)
    BY <1>2
  <2> DEFINE h == [r \in D |-> IF r[2] - r[1] <= d THEN g[r]
                               ELSE Halved(rows, c, g, r[1], r[2])]
  <2>2. \A lo, hi \in 0 .. n :
            h[<<lo, hi>>] = IF hi - lo <= d THEN g[<<lo, hi>>]
                            ELSE Halved(rows, c, g, lo, hi)
    OBVIOUS
  <2>3. h = [r \in D |-> h[r]]
    OBVIOUS
  <2> HIDE DEF h
  <2>4. ASSUME NEW lo \in 0 .. n, NEW hi \in 0 .. n, hi - lo <= d + 1
        PROVE  Halved(rows, c, g, lo, hi) = Halved(rows, c, h, lo, hi)
    <3>1. CASE lo >= hi
      BY <3>1 DEF Halved
    <3>2. CASE lo < hi
      <4> DEFINE mid == (lo + hi) \div 2
      <4>1. mid \in lo .. hi - 1 /\ mid \in 0 .. n /\ mid + 1 \in 0 .. n
        BY <3>2, Middle
      <4>2. /\ Halved(rows, c, g, lo, hi)
                   = IF rows[mid + 1] < c THEN g[<<mid + 1, hi>>] ELSE g[<<lo, mid>>]
            /\ Halved(rows, c, h, lo, hi)
                   = IF rows[mid + 1] < c THEN h[<<mid + 1, hi>>] ELSE h[<<lo, mid>>]
        BY <3>2 DEF Halved
      <4> HIDE DEF mid
      <4>3. hi - (mid + 1) <= d /\ mid - lo <= d
        BY <2>4, <4>1
      <4>4. h[<<mid + 1, hi>>] = g[<<mid + 1, hi>>] /\ h[<<lo, mid>>] = g[<<lo, mid>>]
        BY <2>2, <4>1, <4>3
      <4> QED BY <4>2, <4>4
    <3> QED BY <3>1, <3>2
  <2>5. Right(h, d + 1)
    <3> SUFFICES ASSUME NEW lo \in 0 .. n, NEW hi \in 0 .. n, hi - lo <= d + 1
                 PROVE  h[<<lo, hi>>] = Halved(rows, c, h, lo, hi)
      OBVIOUS
    <3>1. h[<<lo, hi>>] = Halved(rows, c, g, lo, hi)
      BY <2>1, <2>2
    <3> QED BY <2>4, <3>1
  <2>6. d + 1 \in Nat
    OBVIOUS
  <2> HIDE DEF Right
  <2> QED BY <2>3, <2>5, <2>6
<1> HIDE DEF T
<1>3. n \in 0 .. n
  OBVIOUS
<1>4. n \in T
  BY <1>1, <1>2, <1>3, InductionUpTo
<1>5. PICK g : g = [r \in D |-> g[r]] /\ Right(g, n)
  BY <1>4 DEF T
<1>6. \A r \in D : g[r] = Halved(rows, c, g, r[1], r[2])
  <2> SUFFICES ASSUME NEW lo \in 0 .. n, NEW hi \in 0 .. n
               PROVE  g[<<lo, hi>>] = Halved(rows, c, g, lo, hi)
    OBVIOUS
  <2>1. hi - lo <= n
    OBVIOUS
  <2> QED BY <1>5, <2>1
<1>7. g = [r \in D |-> Halved(rows, c, g, r[1], r[2])]
  BY <1>5, <1>6
<1> QED BY <1>7 DEF CanHalve

(* It ends before the first cell that is not below c.                      *)
LEMMA FirstIsFound ==
    ASSUME NEW L, NEW c \in Nat, L.cells.count \in Nat, L.cells.rows \in Seq(Nat),
           L.cells.count <= Len(L.cells.rows), Rising(L.cells.rows)
    PROVE  /\ FirstNotBelow(L, c) \in 0 .. L.cells.count
           /\ \A k \in 1 .. L.cells.count :
                  L.cells.rows[k] < c <=> k <= FirstNotBelow(L, c)
<1> DEFINE n == L.cells.count
           rows == L.cells.rows
           g == CHOOSE f : f = [r \in (0 .. n) \X (0 .. n) |->
                                   LET mid == (r[1] + r[2]) \div 2
                                   IN  IF r[1] >= r[2] THEN r[1]
                                       ELSE IF rows[mid + 1] < c THEN f[<<mid + 1, r[2]>>]
                                       ELSE f[<<r[1], mid>>]]
<1>1. FirstNotBelow(L, c) = g[<<0, n>>]
  BY DEF FirstNotBelow
<1>2. g = CHOOSE f : f = [r \in (0 .. n) \X (0 .. n) |-> Halved(rows, c, f, r[1], r[2])]
  BY DEF Halved
<1>3. g = [r \in (0 .. n) \X (0 .. n) |-> Halved(rows, c, g, r[1], r[2])]
  <2> HIDE DEF g, n, rows
  <2>1. n \in Nat
    BY DEF n
  <2>2. \E f : f = [r \in (0 .. n) \X (0 .. n) |-> Halved(rows, c, f, r[1], r[2])]
    <3>1. CanHalve(n, rows, c)
      BY <2>1, SearchExists
    <3> QED BY <3>1 DEF CanHalve
  <2> QED BY <1>2, <2>2
<1> HIDE DEF g
<1>4. \A lo, hi \in 0 .. n : g[<<lo, hi>>] = Halved(rows, c, g, lo, hi)
  <2> SUFFICES ASSUME NEW lo \in 0 .. n, NEW hi \in 0 .. n
               PROVE  g[<<lo, hi>>] = Halved(rows, c, g, lo, hi)
    OBVIOUS
  <2> DEFINE body == [r \in (0 .. n) \X (0 .. n) |-> Halved(rows, c, g, r[1], r[2])]
  <2>1. body[<<lo, hi>>] = Halved(rows, c, g, lo, hi)
    OBVIOUS
  <2>2. g = body
    BY <1>3
  <2> HIDE DEF body
  <2> QED BY <2>1, <2>2
<1>5. /\ n \in Nat /\ \A k \in 1 .. n : rows[k] \in Nat
      /\ \A i, j \in 1 .. n : i < j => rows[i] < rows[j]
  <2>1. n \in Nat /\ rows \in Seq(Nat) /\ n <= Len(rows) /\ Len(rows) \in Nat
    OBVIOUS
  <2>2. \A k \in 1 .. n : k \in 1 .. Len(rows)
    BY <2>1
  <2> QED BY <2>1, <2>2 DEF Rising
<1> HIDE DEF n, rows
<1> DEFINE Below(lo) == \A k \in 1 .. n : k <= lo => rows[k] < c
           NotBelow(hi) == \A k \in 1 .. n : k > hi => ~(rows[k] < c)
           T == {d \in Nat : \A lo, hi \in 0 .. n :
                     lo <= hi /\ hi - lo <= d /\ Below(lo) /\ NotBelow(hi) =>
                         /\ g[<<lo, hi>>] \in 0 .. n
                         /\ Below(g[<<lo, hi>>]) /\ NotBelow(g[<<lo, hi>>])}
<1>6. 0 \in T
  <2>1. \A lo, hi \in 0 .. n : lo <= hi /\ hi - lo <= 0 => lo = hi
    BY <1>5
  <2>2. \A lo \in 0 .. n : g[<<lo, lo>>] = lo
    <3> SUFFICES ASSUME NEW lo \in 0 .. n PROVE g[<<lo, lo>>] = lo
      OBVIOUS
    <3>1. lo >= lo
      BY <1>5
    <3>2. Halved(rows, c, g, lo, lo) = lo
      BY <3>1 DEF Halved
    <3> QED BY <1>4, <3>2
  <2> HIDE DEF Below, NotBelow
  <2> QED BY <2>1, <2>2
<1>7. ASSUME NEW d \in 0 .. n - 1, d \in T PROVE d + 1 \in T
  <2> SUFFICES ASSUME NEW lo \in 0 .. n, NEW hi \in 0 .. n, lo <= hi,
                      hi - lo <= d + 1, Below(lo), NotBelow(hi)
               PROVE  /\ g[<<lo, hi>>] \in 0 .. n
                      /\ Below(g[<<lo, hi>>]) /\ NotBelow(g[<<lo, hi>>])
    <3> HIDE DEF Below, NotBelow
    <3> QED OBVIOUS
  <2>1. CASE lo = hi
    BY <1>4, <1>5, <2>1 DEF Halved
  <2>2. CASE lo < hi
    <3> DEFINE mid == (lo + hi) \div 2
    <3>1. mid \in lo .. hi - 1 /\ mid \in 0 .. n /\ mid + 1 \in 0 .. n /\ mid + 1 \in 1 .. n
      <4>1. lo \in Nat /\ hi \in Nat /\ n \in Nat /\ hi <= n
        BY <1>5
      <4>2. mid \in lo .. hi - 1
        BY <2>2, <4>1, Middle
      <4> HIDE DEF mid
      <4> QED BY <4>1, <4>2
    <3>2. g[<<lo, hi>>] = IF rows[mid + 1] < c THEN g[<<mid + 1, hi>>] ELSE g[<<lo, mid>>]
      <4>1. g[<<lo, hi>>] = Halved(rows, c, g, lo, hi)
        BY <1>4
      <4>2. ~(lo >= hi)
        BY <1>5, <2>2
      <4> QED BY <4>1, <4>2 DEF Halved
    <3> HIDE DEF mid
    <3>3. /\ mid + 1 <= hi /\ hi - (mid + 1) <= d
          /\ lo <= mid /\ mid - lo <= d
      BY <2>2, <3>1
    <3>4. CASE rows[mid + 1] < c
      <4>1. Below(mid + 1)
        <5> SUFFICES ASSUME NEW k \in 1 .. n, k <= mid + 1 PROVE rows[k] < c
          OBVIOUS
        <5>1. k = mid + 1 \/ k < mid + 1
          BY <1>5, <3>1
        <5>2. rows[k] \in Nat /\ rows[mid + 1] \in Nat
          BY <1>5, <3>1
        <5>3. k < mid + 1 => rows[k] < rows[mid + 1]
          BY <1>5, <3>1
        <5> QED BY <3>4, <5>1, <5>2, <5>3
      <4> HIDE DEF Below, NotBelow
      <4> QED BY <1>7, <3>1, <3>2, <3>3, <3>4, <4>1
    <3>5. CASE ~(rows[mid + 1] < c)
      <4>1. NotBelow(mid)
        <5> SUFFICES ASSUME NEW k \in 1 .. n, k > mid PROVE ~(rows[k] < c)
          OBVIOUS
        <5>1. k = mid + 1 \/ mid + 1 < k
          BY <1>5, <3>1
        <5>2. rows[k] \in Nat /\ rows[mid + 1] \in Nat
          BY <1>5, <3>1
        <5>3. mid + 1 < k => rows[mid + 1] < rows[k]
          BY <1>5, <3>1
        <5> QED BY <3>5, <5>1, <5>2, <5>3
      <4> HIDE DEF Below, NotBelow
      <4> QED BY <1>7, <3>1, <3>2, <3>3, <3>5, <4>1
    <3> QED BY <3>4, <3>5
  <2>3. lo = hi \/ lo < hi
    BY <1>5
  <2> HIDE DEF Below, NotBelow
  <2> QED BY <2>1, <2>2, <2>3
<1>8. n \in 0 .. n /\ 0 \in 0 .. n /\ n - 0 <= n /\ 0 <= n /\ Below(0) /\ NotBelow(n)
  BY <1>5
<1> HIDE DEF T, Below, NotBelow
<1>9. n \in T
  BY <1>5, <1>6, <1>7, <1>8, InductionUpTo
<1>10. g[<<0, n>>] \in 0 .. n /\ Below(g[<<0, n>>]) /\ NotBelow(g[<<0, n>>])
  BY <1>8, <1>9 DEF T
<1>11. \A k \in 1 .. n : rows[k] < c <=> k <= g[<<0, n>>]
  <2>1. PICK x \in 0 .. n : x = g[<<0, n>>] /\ Below(x) /\ NotBelow(x)
    BY <1>10
  <2>2. \A k \in 1 .. n : k <= x \/ k > x
    BY <1>5
  <2>3. \A k \in 1 .. n : rows[k] < c <=> k <= x
    BY <2>1, <2>2 DEF Below, NotBelow
  <2> QED BY <2>1, <2>3
<1> QED BY <1>1, <1>10, <1>11 DEF n, rows
-----------------------------------------------------------------------------
(* Looking up a cell.                                                      *)

(* What the checks of CsrLayer::open give.                                 *)
LEMMA AdmittedTables ==
    ASSUME NEW L, NEW I, Sound(L, I), Admits(L)
    PROVE  /\ L.cells.count \in Nat /\ L.cells.rows \in Seq(Nat) /\ Rising(L.cells.rows)
           /\ L.cells.count <= Len(L.cells.rows)
           /\ \A k \in 1 .. L.cells.count + 1 : L.offsets.rows[k] \in Nat
           /\ \A k \in 1 .. L.cells.count :
                  /\ L.offsets.rows[k] <= L.offsets.rows[k + 1]
                  /\ L.offsets.rows[k + 1] <= Len(L.postings.rows)
           /\ L.offsets.rows[1] = 0
           /\ L.postings.rows \in Seq(I) /\ IsInjective(L.postings.rows)
           /\ \A i \in Nat : i < L.postings.count => Readable(L.postings, Narrow, i)
           /\ \A k \in 1 .. L.cells.count : L.offsets.rows[k + 1] <= L.postings.count
<1> USE DEF Header, Wide, Narrow
<1> DEFINE n == L.cells.count
           off == L.offsets.rows
           post == L.postings.rows
<1>1. /\ n \in Nat /\ L.cells.rows \in Seq(Nat) /\ Rising(L.cells.rows)
      /\ off \in Seq(Nat) /\ post \in Seq(I) /\ IsInjective(post)
      /\ L.postings.count \in Nat /\ L.offsets.count = n + 1
      /\ Len(L.cells.rows) \in Nat /\ Len(off) \in Nat /\ Len(post) \in Nat
  <2>1. /\ n \in Nat /\ L.cells.rows \in Seq(Nat) /\ Rising(L.cells.rows)
        /\ off \in Seq(Nat) /\ post \in Seq(I) /\ IsInjective(post)
        /\ L.postings.count \in Nat
    BY DEF Sound
  <2>2. L.offsets.count = n + 1
    BY DEF Admits
  <2>3. Len(L.cells.rows) \in Nat /\ Len(off) \in Nat /\ Len(post) \in Nat
    BY <2>1
  <2> QED BY <2>1, <2>2, <2>3
<1>2. n <= Len(L.cells.rows)
  <2>1. /\ L.cells.size \in Int /\ L.cells.size <= Header + Wide * Len(L.cells.rows)
        /\ L.cells.size >= Header + Wide * n
    BY DEF Sound, Admits, Covered
  <2> QED BY <1>1, <2>1
<1>3. n + 1 <= Len(off)
  <2>1. /\ L.offsets.size \in Int /\ L.offsets.size <= Header + Wide * Len(off)
        /\ L.offsets.size >= Header + Wide * L.offsets.count
    BY DEF Sound, Admits, Covered
  <2>2. L.offsets.count = n + 1 /\ n \in Nat /\ Len(off) \in Nat
    BY <1>1
  <2> HIDE DEF n, off
  <2> QED BY <2>1, <2>2
<1>4. /\ L.postings.count <= Len(post) /\ L.postings.size \in Int
      /\ L.postings.size >= Header + Narrow * L.postings.count
  <2>1. /\ L.postings.size \in Int /\ L.postings.size <= Header + Narrow * Len(post)
        /\ L.postings.size >= Header + Narrow * L.postings.count
    BY DEF Sound, Admits, Covered
  <2>2. L.postings.count \in Nat /\ Len(post) \in Nat
    BY <1>1
  <2> HIDE DEF post
  <2> QED BY <2>1, <2>2
<1>5. \A i \in Nat : i < L.postings.count => Readable(L.postings, Narrow, i)
  BY <1>1, <1>4 DEF Readable
<1>6. \A k \in 1 .. n + 1 : off[k] \in Nat
  <2>1. n \in Nat /\ off \in Seq(Nat) /\ Len(off) \in Nat /\ n + 1 <= Len(off)
    BY <1>1, <1>3
  <2> HIDE DEF n, off
  <2> QED BY <2>1
<1>7. /\ off[1] = 0
      /\ \A k \in 2 .. n + 1 : off[k] \in off[k - 1] .. L.postings.count
  BY <1>1 DEF Admits, ValidOffsets
<1>8. \A k \in 1 .. n : off[k] <= off[k + 1] /\ off[k + 1] <= L.postings.count
                        /\ off[k + 1] <= Len(post)
  <2> SUFFICES ASSUME NEW k \in 1 .. n
               PROVE  off[k] <= off[k + 1] /\ off[k + 1] <= L.postings.count
                      /\ off[k + 1] <= Len(post)
    OBVIOUS
  <2>1. k + 1 \in 2 .. n + 1 /\ (k + 1) - 1 = k /\ k \in 1 .. n + 1
        /\ k + 1 \in 1 .. n + 1
    BY <1>1
  <2>2. off[k + 1] \in off[k] .. L.postings.count
    BY <1>7, <2>1
  <2>3. /\ off[k] \in Nat /\ off[k + 1] \in Nat /\ L.postings.count \in Nat
        /\ Len(post) \in Nat /\ L.postings.count <= Len(post)
    BY <1>1, <1>4, <1>6, <2>1
  <2> HIDE DEF off, post
  <2> QED BY <2>2, <2>3
<1> QED BY <1>1, <1>2, <1>5, <1>6, <1>7, <1>8

IsSlice(s, post, a, b) == s = SubSeq(post, a + 1, b)

(* A lookup in an admitted layer gives what stands between two offsets.    *)
LEMMA LookupFinds ==
    ASSUME NEW L, NEW I, Sound(L, I), Admits(L), NEW c \in Nat
    PROVE  \/ /\ LookupCellIds(L, c) = <<>>
              /\ \A k \in 1 .. L.cells.count : L.cells.rows[k] # c
           \/ \E k \in 1 .. L.cells.count :
                  /\ L.cells.rows[k] = c
                  /\ IsSlice(LookupCellIds(L, c), L.postings.rows,
                             L.offsets.rows[k], L.offsets.rows[k + 1])
<1> DEFINE n == L.cells.count
           rows == L.cells.rows
           off == L.offsets.rows
           lo == FirstNotBelow(L, c)
<1>1. /\ n \in Nat /\ rows \in Seq(Nat) /\ Rising(rows) /\ n <= Len(rows)
      /\ \A k \in 1 .. n + 1 : off[k] \in Nat
      /\ \A k \in 1 .. n : off[k + 1] <= L.postings.count
      /\ \A i \in Nat : i < L.postings.count => Readable(L.postings, Narrow, i)
  BY AdmittedTables
<1>2. lo \in 0 .. n /\ \A k \in 1 .. n : rows[k] < c <=> k <= lo
  BY <1>1, FirstIsFound
<1>3. /\ \A k \in 1 .. n : rows[k] \in Nat
      /\ \A i, j \in 1 .. n : i < j => rows[i] < rows[j]
  <2>1. Len(rows) \in Nat /\ \A k \in 1 .. n : k \in 1 .. Len(rows)
    BY <1>1
  <2> QED BY <1>1, <2>1 DEF Rising
<1>4. L.postings.count \in Nat
  BY DEF Sound
<1>5. LookupCellIds(L, c) =
          IF lo >= n \/ rows[lo + 1] # c THEN <<>>
          ELSE IF \A i \in off[lo + 1] .. off[lo + 2] - 1 : Readable(L.postings, Narrow, i)
               THEN SubSeq(L.postings.rows, off[lo + 1] + 1, off[lo + 2])
               ELSE Unreadable
  BY DEF LookupCellIds
<1> HIDE DEF n, rows, off, lo
<1>6. CASE lo >= n \/ rows[lo + 1] # c
  <2>1. \A k \in 1 .. n : rows[k] # c
    <3> SUFFICES ASSUME NEW k \in 1 .. n, rows[k] = c PROVE FALSE
      OBVIOUS
    <3>1. rows[k] \in Nat /\ ~(rows[k] < c)
      BY <1>3
    <3>2. k > lo /\ lo + 1 \in 1 .. n /\ ~(lo >= n)
      BY <1>1, <1>2, <3>1
    <3>3. k # lo + 1
      BY <1>6, <3>2
    <3>4. rows[lo + 1] \in Nat /\ rows[lo + 1] < rows[k] /\ ~(lo + 1 <= lo)
      BY <1>1, <1>2, <1>3, <3>2, <3>3
    <3> QED BY <1>2, <3>2, <3>4
  <2> QED BY <1>5, <1>6, <2>1 DEF n, rows
<1>7. CASE ~(lo >= n) /\ rows[lo + 1] = c
  <2>1. lo + 1 \in 1 .. n /\ lo + 1 \in 1 .. n + 1 /\ (lo + 1) + 1 = lo + 2
        /\ lo + 2 \in 1 .. n + 1
    BY <1>1, <1>2, <1>7
  <2>2. off[lo + 1] \in Nat /\ off[lo + 2] \in Nat /\ off[lo + 2] <= L.postings.count
    BY <1>1, <2>1
  <2>3. \A i \in off[lo + 1] .. off[lo + 2] - 1 : Readable(L.postings, Narrow, i)
    BY <1>1, <1>4, <2>2
  <2>4. LookupCellIds(L, c) = SubSeq(L.postings.rows, off[lo + 1] + 1, off[(lo + 1) + 1])
    BY <1>5, <1>7, <2>1, <2>3
  <2> QED BY <1>7, <2>1, <2>4 DEF n, rows, off, IsSlice
<1> QED BY <1>6, <1>7

(* What stands between two offsets.                                        *)
StandsThere(s, post, a, b, I) ==
    /\ s \in Seq(I) /\ Len(s) = b - a /\ DOMAIN s = 1 .. b - a
    /\ \A j \in 1 .. b - a : s[j] = post[a + j]

LEMMA SliceAt ==
    ASSUME NEW I, NEW post \in Seq(I), NEW a \in Nat, NEW b \in Nat,
           a <= b, b <= Len(post), NEW s, IsSlice(s, post, a, b)
    PROVE  StandsThere(s, post, a, b, I)
<1>1. Len(post) \in Nat /\ \A p \in 1 .. Len(post) : post[p] \in I
  OBVIOUS
<1>2. \A p \in a + 1 .. b : post[p] \in I
  BY <1>1
<1>3. /\ SubSeq(post, a + 1, b) \in Seq(I)
      /\ Len(SubSeq(post, a + 1, b)) = IF a + 1 <= b THEN b - (a + 1) + 1 ELSE 0
      /\ \A j \in 1 .. b - (a + 1) + 1 : SubSeq(post, a + 1, b)[j] = post[a + 1 + j - 1]
  BY <1>2, SubSeqProperties
<1>4. s \in Seq(I) /\ Len(s) = b - a
  BY <1>3 DEF IsSlice
<1>5. \A j \in 1 .. b - a : s[j] = post[a + j]
  <2>1. \A j \in 1 .. b - a : j \in 1 .. b - (a + 1) + 1 /\ a + 1 + j - 1 = a + j
    OBVIOUS
  <2> QED BY <1>3, <2>1 DEF IsSlice
<1> QED BY <1>4, <1>5 DEF StandsThere

LEMMA SliceElement ==
    ASSUME NEW I, NEW post \in Seq(I), NEW a \in Nat, NEW b \in Nat,
           a <= b, b <= Len(post), NEW s, IsSlice(s, post, a, b), NEW x \in ToSet(s)
    PROVE  \E p \in 1 .. Len(post) : a < p /\ p <= b /\ x = post[p]
<1>1. DOMAIN s = 1 .. b - a /\ \A j \in 1 .. b - a : s[j] = post[a + j]
  BY SliceAt DEF StandsThere
<1>2. PICK j \in 1 .. b - a : x = s[j]
  BY <1>1 DEF ToSet
<1>3. a + j \in 1 .. Len(post) /\ a < a + j /\ a + j <= b
  <2>1. Len(post) \in Nat
    OBVIOUS
  <2> QED BY <2>1
<1> QED BY <1>1, <1>2, <1>3

LEMMA SliceInjective ==
    ASSUME NEW I, NEW post \in Seq(I), NEW a \in Nat, NEW b \in Nat,
           a <= b, b <= Len(post), NEW s, IsSlice(s, post, a, b), IsInjective(post)
    PROVE  IsInjective(s)
<1>1. DOMAIN s = 1 .. b - a /\ \A j \in 1 .. b - a : s[j] = post[a + j]
  BY SliceAt DEF StandsThere
<1> SUFFICES ASSUME NEW i \in 1 .. b - a, NEW j \in 1 .. b - a, s[i] = s[j]
             PROVE  i = j
  BY <1>1 DEF IsInjective
<1>2. a + i \in DOMAIN post /\ a + j \in DOMAIN post
  <2>1. Len(post) \in Nat /\ DOMAIN post = 1 .. Len(post)
    OBVIOUS
  <2> QED BY <2>1
<1>3. post[a + i] = post[a + j]
  BY <1>1
<1>4. a + i = a + j
  BY <1>2, <1>3 DEF IsInjective
<1> QED BY <1>4

LEMMA LookupIsSound ==
    ASSUME NEW L, NEW I \in SUBSET Nat, Sound(L, I), Admits(L), NEW c \in Nat
    PROVE  /\ LookupCellIds(L, c) \in Seq(I) /\ LookupCellIds(L, c) # Unreadable
           /\ IsInjective(LookupCellIds(L, c))
<1>1. CASE LookupCellIds(L, c) = <<>>
  <2>1. <<>> \in Seq(I) /\ <<>> # Unreadable /\ IsInjective(<<>>)
    BY DEF Unreadable, IsInjective
  <2> QED BY <1>1, <2>1
<1>2. CASE \E k \in 1 .. L.cells.count :
               IsSlice(LookupCellIds(L, c), L.postings.rows,
                       L.offsets.rows[k], L.offsets.rows[k + 1])
  <2>1. PICK k \in 1 .. L.cells.count :
            IsSlice(LookupCellIds(L, c), L.postings.rows,
                    L.offsets.rows[k], L.offsets.rows[k + 1])
    BY <1>2
  <2>2. PICK a \in Nat, b \in Nat :
            a = L.offsets.rows[k] /\ b = L.offsets.rows[k + 1] /\ a <= b
            /\ b <= Len(L.postings.rows)
    <3>1. L.cells.count \in Nat
      BY AdmittedTables
    <3>2. k \in 1 .. L.cells.count + 1 /\ k + 1 \in 1 .. L.cells.count + 1
      BY <3>1
    <3>3. L.offsets.rows[k] \in Nat /\ L.offsets.rows[k + 1] \in Nat
      BY <3>2, AdmittedTables
    <3>4. L.offsets.rows[k] <= L.offsets.rows[k + 1]
          /\ L.offsets.rows[k + 1] <= Len(L.postings.rows)
      BY AdmittedTables
    <3> QED BY <3>3, <3>4
  <2>3. L.postings.rows \in Seq(I) /\ IsInjective(L.postings.rows)
    BY AdmittedTables
  <2>4. PICK s : s = LookupCellIds(L, c)
    OBVIOUS
  <2>5. s \in Seq(I) /\ IsInjective(s)
    <3>1. PICK post : post = L.postings.rows
      OBVIOUS
    <3>2. IsSlice(s, post, a, b) /\ post \in Seq(I) /\ IsInjective(post)
          /\ b <= Len(post)
      BY <2>1, <2>2, <2>3, <2>4, <3>1
    <3>3. s \in Seq(I)
      BY <2>2, <3>2, SliceAt DEF StandsThere
    <3> QED BY <2>2, <3>2, <3>3, SliceInjective
  <2>6. s # Unreadable
    <3> SUFFICES ASSUME s = <<-1>> PROVE FALSE
      BY DEF Unreadable
    <3>1. s[1] \in I /\ s[1] = -1
      BY <2>5
    <3> QED BY <3>1
  <2> QED BY <2>4, <2>5, <2>6
<1> QED BY <1>1, <1>2, LookupFinds

(* Where a posting that is found stands.                                   *)
LEMMA StandsBetween ==
    ASSUME NEW L, NEW I, Sound(L, I), Admits(L), NEW c \in Nat,
           NEW x, x \in ToSet(LookupCellIds(L, c))
    PROVE  \E k \in 1 .. L.cells.count : \E p \in 1 .. Len(L.postings.rows) :
               /\ L.cells.rows[k] = c /\ x = L.postings.rows[p]
               /\ L.offsets.rows[k] < p /\ p <= L.offsets.rows[k + 1]
<1> DEFINE n == L.cells.count
           off == L.offsets.rows
           post == L.postings.rows
<1>1. ToSet(<<>>) = {}
  BY DEF ToSet
<1>2. PICK k \in 1 .. n : L.cells.rows[k] = c
                          /\ IsSlice(LookupCellIds(L, c), post, off[k], off[k + 1])
  BY <1>1, LookupFinds
<1>3. /\ n \in Nat /\ post \in Seq(I) /\ \A m \in 1 .. n + 1 : off[m] \in Nat
      /\ off[k] <= off[k + 1] /\ off[k + 1] <= Len(post)
  BY AdmittedTables
<1> HIDE DEF n, off, post
<1>4. k \in 1 .. n + 1 /\ k + 1 \in 1 .. n + 1
  BY <1>3
<1>5. PICK a \in Nat, b \in Nat : a = off[k] /\ b = off[k + 1] /\ a <= b
                                  /\ b <= Len(post)
  BY <1>3, <1>4
<1>6. IsSlice(LookupCellIds(L, c), post, a, b)
  BY <1>2, <1>5
<1>7. PICK p \in 1 .. Len(post) : a < p /\ p <= b /\ x = post[p]
  BY <1>3, <1>5, <1>6, SliceElement
<1> QED BY <1>2, <1>5, <1>7 DEF n, off, post

(* Two cells share no posting, for the offsets go up.                      *)
LEMMA LookupsApart ==
    ASSUME NEW L, NEW I, Sound(L, I), Admits(L), NEW c \in Nat, NEW d \in Nat, c # d
    PROVE  ToSet(LookupCellIds(L, c)) \cap ToSet(LookupCellIds(L, d)) = {}
<1> DEFINE n == L.cells.count
           off == L.offsets.rows
           post == L.postings.rows
<1> SUFFICES ASSUME NEW x, x \in ToSet(LookupCellIds(L, c)),
                    x \in ToSet(LookupCellIds(L, d))
             PROVE  FALSE
  OBVIOUS
<1>1. /\ n \in Nat /\ post \in Seq(I) /\ IsInjective(post)
      /\ \A k \in 1 .. n + 1 : off[k] \in Nat
      /\ \A k \in 1 .. n : off[k] <= off[k + 1]
  BY AdmittedTables
<1> DEFINE StandsIn(e, k) == \E p \in 1 .. Len(post) :
               L.cells.rows[k] = e /\ x = post[p] /\ off[k] < p /\ p <= off[k + 1]
<1> HIDE DEF StandsIn
<1>2. PICK k \in 1 .. n : StandsIn(c, k)
  <2>1. \E k \in 1 .. n : StandsIn(c, k)
    BY StandsBetween DEF StandsIn
  <2> QED BY <2>1
<1>3. PICK m \in 1 .. n : StandsIn(d, m)
  <2>1. \E m \in 1 .. n : StandsIn(d, m)
    BY StandsBetween DEF StandsIn
  <2> QED BY <2>1
<1> USE DEF StandsIn
<1> HIDE DEF n, off, post
<1>4. k # m
  BY <1>2, <1>3
<1>5. \A i, j \in 1 .. n + 1 : i <= j => off[i] <= off[j]
  <2> DEFINE table == [i \in 1 .. n + 1 |-> off[i]]
  <2>1. /\ n + 1 \in Nat /\ table \in [1 .. n + 1 -> Int]
        /\ \A i \in 1 .. n + 1 : table[i] = off[i]
    BY <1>1
  <2>2. \A i \in 1 .. (n + 1) - 1 : table[i] <= table[i + 1]
    <3>1. \A i \in 1 .. (n + 1) - 1 : i \in 1 .. n /\ i \in 1 .. n + 1 /\ i + 1 \in 1 .. n + 1
      BY <1>1
    <3> QED BY <1>1, <2>1, <3>1
  <2> HIDE DEF table
  <2>3. \A i, j \in 1 .. n + 1 : i <= j => table[i] <= table[j]
    BY <2>1, <2>2, Monotone
  <2> QED BY <2>1, <2>3
<1>6. \A i \in 1 .. n : i \in 1 .. n + 1 /\ i + 1 \in 1 .. n + 1
                        /\ off[i] \in Nat /\ off[i + 1] \in Nat
  BY <1>1
<1>7. PICK p \in 1 .. Len(post) : x = post[p] /\ off[k] < p /\ p <= off[k + 1]
                                 /\ off[m] < p /\ p <= off[m + 1]
  <2>1. PICK p \in 1 .. Len(post) : x = post[p] /\ off[k] < p /\ p <= off[k + 1]
    BY <1>2
  <2>2. PICK q \in 1 .. Len(post) : x = post[q] /\ off[m] < q /\ q <= off[m + 1]
    BY <1>3
  <2>3. p = q
    <3>1. p \in DOMAIN post /\ q \in DOMAIN post /\ post[p] = post[q]
      BY <1>1, <2>1, <2>2
    <3> QED BY <1>1, <3>1 DEF IsInjective
  <2> QED BY <2>1, <2>2, <2>3
<1>8. p \in Nat
  BY <1>7
<1>9. CASE k < m
  <2>1. k + 1 <= m
    BY <1>9
  <2>2. off[k + 1] <= off[m]
    BY <1>5, <1>6, <2>1
  <2> QED BY <1>6, <1>7, <1>8, <2>2
<1>10. CASE m < k
  <2>1. m + 1 <= k
    BY <1>10
  <2>2. off[m + 1] <= off[k]
    BY <1>5, <1>6, <2>1
  <2> QED BY <1>6, <1>7, <1>8, <2>2
<1> QED BY <1>1, <1>4, <1>9, <1>10

InCell(E, c) == {e \in E : e.cell = c}
IdsOf(found, b) ==
    Len(found) = Len(b) /\ \A j \in 1 .. Len(b) : found[j] = b[j].id

(* In a layer that was written for E it gives the places of the cell.      *)
LEMMA LookupIsBucket ==
    ASSUME NEW L, NEW E, Distinct(E), NEW bs, Written(L, E, bs), Admits(L),
           NEW c \in Nat
    PROVE  \E b : IsBucket(b, InCell(E, c)) /\ IdsOf(LookupCellIds(L, c), b)
<1>0. SUFFICES \E b : /\ IsBucket(b, {e \in E : e.cell = c})
                      /\ Len(LookupCellIds(L, c)) = Len(b)
                      /\ \A j \in 1 .. Len(b) : LookupCellIds(L, c)[j] = b[j].id
  BY DEF InCell, IdsOf
<1> DEFINE n == Len(L.cells.rows)
           cells == L.cells.rows
           off == L.offsets.rows
           post == L.postings.rows
           Of(x) == {e \in E : e.cell = x}
<1>1. /\ Grouped(cells, E, bs) /\ Cut(off, n, bs) /\ Listed(post, off, n, bs)
      /\ L.cells.count = n
  BY DEF Written, Column
<1>2. Sound(L, {e.id : e \in E})
  BY WrittenIsSound
<1>3. CASE LookupCellIds(L, c) = <<>> /\ \A k \in 1 .. n : cells[k] # c
  <2>1. Of(c) = {}
    <3>1. c \notin ToSet(cells)
      BY <1>1, <1>3 DEF Grouped, ToSet
    <3> QED BY <1>1, <3>1 DEF Grouped
  <2>2. IsBucket(<<>>, {})
    <3>1. <<>> \in Seq({}) /\ Len(<<>>) = 0 /\ DOMAIN <<>> = {}
      OBVIOUS
    <3>2. ToSet(<<>>) = {} /\ IsInjective(<<>>)
      BY <3>1 DEF IsInjective, ToSet
    <3> QED BY <3>1, <3>2 DEF IsBucket
  <2>3. Len(<<>>) = 0
    OBVIOUS
  <2> HIDE DEF Of
  <2> DEFINE Fits(b) == /\ IsBucket(b, Of(c)) /\ Len(LookupCellIds(L, c)) = Len(b)
                        /\ \A j \in 1 .. Len(b) : LookupCellIds(L, c)[j] = b[j].id
  <2>4. Fits(<<>>)
    BY <1>3, <2>1, <2>2, <2>3
  <2>5. \E b : Fits(b)
    <3> HIDE DEF Fits
    <3> QED BY <2>4
  <2> QED BY <2>5 DEF Of
<1>4. CASE \E k \in 1 .. n : cells[k] = c
               /\ IsSlice(LookupCellIds(L, c), post, off[k], off[k + 1])
  <2>1. PICK k \in 1 .. n : cells[k] = c
               /\ IsSlice(LookupCellIds(L, c), post, off[k], off[k + 1])
    BY <1>4
  <2>2. IsBucket(bs[k], Of(c))
    BY <1>1, <2>1 DEF Grouped
  <2>3. PICK a \in Nat, b \in Nat : /\ a = off[k] /\ b = off[k + 1] /\ a <= b
                                    /\ b <= Len(post) /\ b - a = Len(bs[k])
    <3>1. n \in Nat
      BY <1>1 DEF Grouped
    <3>2. k \in 1 .. n + 1 /\ k + 1 \in 1 .. n + 1
      BY <3>1
    <3> HIDE DEF n, off, post
    <3>3. /\ off[k] \in Nat /\ off[k + 1] \in Nat /\ Len(bs[k]) \in Nat
          /\ off[k + 1] = off[k] + Len(bs[k])
      BY <1>1, <3>2 DEF Cut
    <3>4. off[k] <= off[k + 1] /\ off[k + 1] - off[k] = Len(bs[k])
      BY <3>3
    <3>5. off[k + 1] <= Len(post)
      BY <1>1, <1>2, AdmittedTables DEF n, off, post
    <3> QED BY <3>3, <3>4, <3>5
  <2>4. PICK s : s = LookupCellIds(L, c)
    OBVIOUS
  <2>5. post \in Seq(Nat)
    BY <1>1 DEF Listed
  <2> HIDE DEF n, off, post, cells, Of
  <2>6. IsSlice(s, post, a, b)
    BY <2>1, <2>3, <2>4
  <2>a. a <= b /\ b <= Len(post)
    BY <2>3
  <2>7. /\ s \in Seq(Nat) /\ Len(s) = b - a /\ DOMAIN s = 1 .. b - a
        /\ \A j \in 1 .. b - a : s[j] = post[a + j]
    <3>1. StandsThere(s, post, a, b, Nat)
      BY <2>a, <2>5, <2>6, SliceAt
    <3> QED BY <3>1 DEF StandsThere
  <2>8. \A j \in 1 .. Len(bs[k]) : s[j] = bs[k][j].id
    BY <1>1, <2>1, <2>3, <2>7 DEF Listed
  <2>9. Len(s) = Len(bs[k])
    BY <2>3, <2>7
  <2> QED BY <2>2, <2>4, <2>8, <2>9 DEF Of
<1>5. \/ LookupCellIds(L, c) = <<>> /\ \A k \in 1 .. n : cells[k] # c
      \/ \E k \in 1 .. n : cells[k] = c
               /\ IsSlice(LookupCellIds(L, c), post, off[k], off[k + 1])
  BY <1>1, <1>2, LookupFinds
<1> QED BY <1>3, <1>4, <1>5
-----------------------------------------------------------------------------
(* push_best.                                                              *)

Scored(I) == [score : Nat, id : I]

(* The better one first, and nobody twice.                                 *)
Ordered(list) ==
    \A i, j \in 1 .. Len(list) : i < j =>
        list[i].score >= list[j].score /\ list[i].id # list[j].id

Absent(list, id) == \A j \in 1 .. Len(list) : list[j].id # id

Placed(t, list, e) == t = InsertAt(list, PartitionPoint(list, e.score), e)

(* The list is the best of the first m candidates, at most limit of them,  *)
(* the best first; who is not in it is beaten by everybody in it.          *)
FillsUpTo(list, m, limit) == Len(list) = IF m < limit THEN m ELSE limit
OwnScores(list, sc) == \A j \in 1 .. Len(list) : list[j].score = sc[list[j].id]
Seen(list, cand, m) == \A j \in 1 .. Len(list) : \E k \in 1 .. m : list[j].id = cand[k]
Beaten(list, sc, cand, m, limit) ==
    \A k \in 1 .. m :
        \/ \E j \in 1 .. Len(list) : list[j].id = cand[k]
        \/ Len(list) = limit /\ \A j \in 1 .. Len(list) : list[j].score >= sc[cand[k]]

IsTop(list, sc, cand, m, limit) ==
    /\ FillsUpTo(list, m, limit)
    /\ OwnScores(list, sc)
    /\ Seen(list, cand, m)
    /\ Ordered(list)
    /\ Beaten(list, sc, cand, m, limit)

LEMMA ScoresAreNumbers ==
    ASSUME NEW I, NEW list \in Seq(Scored(I))
    PROVE  Len(list) \in Nat /\ \A n \in 1 .. Len(list) : list[n].score \in Nat
<1>1. Len(list) \in Nat /\ \A n \in 1 .. Len(list) : list[n] \in Scored(I)
  OBVIOUS
<1> QED BY <1>1 DEF Scored

(* The partition point: all before it have better scores.                  *)
LEMMA PartitionPointIs ==
    ASSUME NEW I, NEW list \in Seq(Scored(I)), NEW s \in Nat
    PROVE  /\ PartitionPoint(list, s) \in 1 .. Len(list) + 1
           /\ PartitionPoint(list, s) <= Len(list) => list[PartitionPoint(list, s)].score <= s
           /\ \A n \in 1 .. PartitionPoint(list, s) - 1 :
                  n \in 1 .. Len(list) /\ list[n].score > s
<1> DEFINE T == {n \in 1 .. Len(list) + 1 : n <= Len(list) => list[n].score <= s}
<1>1. Len(list) \in Nat /\ \A n \in 1 .. Len(list) : list[n].score \in Nat
  BY ScoresAreNumbers
<1>2. Len(list) + 1 \in T /\ T \subseteq Nat
  BY <1>1
<1>3. PartitionPoint(list, s) = Min(T)
  BY DEF PartitionPoint
<1>4. Min(T) \in T /\ \A y \in T : Min(T) <= y
  <2> HIDE DEF T
  <2> QED BY <1>2, MinIsLeast
<1>5. PICK p \in T : p = PartitionPoint(list, s) /\ \A y \in T : p <= y
  BY <1>3, <1>4
<1>6. \A n \in 1 .. p - 1 : n \in 1 .. Len(list) /\ list[n].score > s
  <2> SUFFICES ASSUME NEW n \in 1 .. p - 1
               PROVE  n \in 1 .. Len(list) /\ list[n].score > s
    OBVIOUS
  <2>1. n \in 1 .. Len(list) /\ n \in 1 .. Len(list) + 1 /\ ~(p <= n)
    BY <1>1, <1>5
  <2>2. n \notin T
    BY <1>5, <2>1
  <2> QED BY <1>1, <2>1, <2>2
<1> QED BY <1>5, <1>6

(* Inserting where the partition point says keeps a list sorted.           *)
Grown(t, list, e, I) ==
    /\ t \in Seq(Scored(I)) /\ Len(t) = Len(list) + 1 /\ Ordered(t)
    /\ \A j \in 1 .. Len(t) : t[j] = e \/ \E i \in 1 .. Len(list) : t[j] = list[i]
    /\ \A i \in 1 .. Len(list) : \E j \in 1 .. Len(t) : t[j] = list[i]
    /\ \E j \in 1 .. Len(t) : t[j] = e

LEMMA PlacedKeepsOrder ==
    ASSUME NEW I, NEW list \in Seq(Scored(I)), NEW e \in Scored(I),
           Ordered(list), Absent(list, e.id), NEW t, Placed(t, list, e)
    PROVE  Grown(t, list, e, I)
<1>1. PICK s \in Nat : s = e.score
  BY DEF Scored
<1>2. PICK m \in Nat : m = Len(list) /\ \A n \in 1 .. m : list[n].score \in Nat
  BY ScoresAreNumbers
<1>3. PICK p \in 1 .. m + 1 :
          /\ t = InsertAt(list, p, e)
          /\ p <= m => list[p].score <= s
          /\ \A n \in 1 .. p - 1 : n \in 1 .. m /\ list[n].score > s
  BY <1>1, <1>2, PartitionPointIs DEF Placed
<1>4. /\ t \in Seq(Scored(I)) /\ Len(t) = m + 1 /\ t[p] = e
      /\ \A j \in 1 .. p - 1 : t[j] = list[j]
      /\ \A j \in p + 1 .. m + 1 : t[j] = list[j - 1]
  <2>1. list \in Seq(Scored(I)) /\ p \in 1 .. Len(list) + 1
    BY <1>2, <1>3
  <2>2. /\ t \in Seq(Scored(I)) /\ Len(t) = Len(list) + 1 /\ t[p] = e
        /\ \A j \in 1 .. p - 1 : t[j] = list[j]
        /\ \A j \in p + 1 .. Len(list) + 1 : t[j] = list[j - 1]
    BY <1>3, <2>1, Insertion
  <2> QED BY <1>2, <2>2
<1>a. Len(t) = m + 1
  BY <1>4
<1>5. ASSUME NEW j \in 1 .. Len(t)
      PROVE  \/ j = p
             \/ j \in 1 .. p - 1 /\ j \in 1 .. m
             \/ j \in p + 1 .. m + 1 /\ j - 1 \in 1 .. m
  BY <1>a
<1>6. \A n \in p .. m : list[n].score <= s
  <2> SUFFICES ASSUME NEW n \in p .. m PROVE list[n].score <= s
    OBVIOUS
  <2>1. p \in 1 .. m /\ n \in 1 .. m
    OBVIOUS
  <2>2. n = p \/ list[p].score >= list[n].score
    BY <1>2, <2>1 DEF Ordered
  <2> QED BY <1>2, <1>3, <2>1, <2>2
<1>7. ASSUME NEW i \in 1 .. Len(t), NEW j \in 1 .. Len(t), i < j
      PROVE  t[i].score >= t[j].score /\ t[i].id # t[j].id
  <2>1. i \in Nat /\ j \in Nat
    BY <1>4
  <2>2. CASE j = p
    <3>1. i \in 1 .. p - 1 /\ t[i] = list[i] /\ i \in 1 .. m
      BY <1>3, <1>4, <1>7, <2>1, <2>2
    <3>2. list[i].score > s /\ t[j] = e /\ list[i].id # e.id
      BY <1>2, <1>3, <1>4, <2>2, <3>1 DEF Absent
    <3> QED BY <1>1, <1>2, <3>1, <3>2
  <2>3. CASE i = p
    <3>1. j \in p + 1 .. m + 1 /\ j - 1 \in p .. m /\ j - 1 \in 1 .. m
      BY <1>2, <1>4, <1>7, <2>1, <2>3
    <3>2. t[j] = list[j - 1] /\ t[i] = e
      BY <1>4, <2>3, <3>1
    <3>3. list[j - 1].score <= s /\ list[j - 1].id # e.id
      BY <1>2, <1>6, <3>1 DEF Absent
    <3> QED BY <1>1, <1>2, <3>1, <3>2, <3>3
  <2>4. CASE i # p /\ j # p
    <3>1. PICK x \in 1 .. m, y \in 1 .. m :
              x < y /\ t[i] = list[x] /\ t[j] = list[y]
      <4>1. CASE j < p
        <5>1. /\ i \in 1 .. p - 1 /\ i \in 1 .. m
              /\ j \in 1 .. p - 1 /\ j \in 1 .. m
          BY <1>2, <1>7, <2>1, <4>1
        <5> QED BY <1>4, <1>7, <5>1
      <4>2. CASE i > p
        <5>1. /\ i \in p + 1 .. m + 1 /\ i - 1 \in 1 .. m
              /\ j \in p + 1 .. m + 1 /\ j - 1 \in 1 .. m
              /\ i - 1 < j - 1
          BY <1>2, <1>4, <1>7, <2>1, <4>2
        <5> QED BY <1>4, <5>1
      <4>3. CASE i < p /\ j > p
        <5>1. /\ i \in 1 .. p - 1 /\ i \in 1 .. m
              /\ j \in p + 1 .. m + 1 /\ j - 1 \in 1 .. m
              /\ i < j - 1
          BY <1>2, <1>4, <1>7, <2>1, <4>3
        <5> QED BY <1>4, <5>1
      <4> QED BY <1>7, <2>1, <2>4, <4>1, <4>2, <4>3
    <3> QED BY <1>2, <3>1 DEF Ordered
  <2> QED BY <2>2, <2>3, <2>4
<1>8. \A j \in 1 .. Len(t) : t[j] = e \/ \E i \in 1 .. m : t[j] = list[i]
  BY <1>4, <1>5
<1>9. \A i \in 1 .. m : \E j \in 1 .. Len(t) : t[j] = list[i]
  <2> SUFFICES ASSUME NEW i \in 1 .. m
               PROVE  \E j \in 1 .. Len(t) : t[j] = list[i]
    OBVIOUS
  <2>1. CASE i < p
    <3>1. i \in 1 .. p - 1 /\ i \in 1 .. Len(t)
      BY <1>2, <1>4, <2>1
    <3> QED BY <1>4, <3>1
  <2>2. CASE i >= p
    <3>1. i + 1 \in p + 1 .. m + 1 /\ i + 1 \in 1 .. Len(t) /\ (i + 1) - 1 = i
      BY <1>2, <1>4, <2>2
    <3>2. t[i + 1] = list[i]
      BY <1>4, <3>1
    <3> QED BY <3>1, <3>2
  <2> QED BY <1>2, <2>1, <2>2
<1>10. p \in 1 .. Len(t)
  BY <1>4
<1>11. Ordered(t)
  BY <1>7 DEF Ordered
<1> QED BY <1>2, <1>4, <1>8, <1>9, <1>10, <1>11 DEF Grown

(* No element twice.                                                       *)
Apart(q) == \A i, j \in 1 .. Len(q) : i # j => q[i] # q[j]

LEMMA NewIsAbsent ==
    ASSUME NEW list, NEW cand, NEW m \in Nat,
           Seen(list, cand, m), Apart(cand),
           Len(cand) \in Nat, m + 1 <= Len(cand)
    PROVE  Absent(list, cand[m + 1])
<1>1. SUFFICES ASSUME NEW j \in 1 .. Len(list) PROVE list[j].id # cand[m + 1]
  BY DEF Absent
<1>2. PICK k \in 1 .. m : list[j].id = cand[k]
  BY DEF Seen
<1>3. k \in 1 .. Len(cand) /\ m + 1 \in 1 .. Len(cand) /\ k # m + 1
  OBVIOUS
<1> QED BY <1>2, <1>3 DEF Apart

(* A list that has room takes the candidate in.                            *)
LEMMA RoomKeepsTop ==
    ASSUME NEW I, NEW list \in Seq(Scored(I)), NEW sc, NEW cand,
           NEW m \in Nat, NEW limit \in Nat,
           IsTop(list, sc, cand, m, limit), Len(list) < limit,
           NEW t, NEW e \in Scored(I), e.id = cand[m + 1], e.score = sc[cand[m + 1]],
           Absent(list, e.id), Placed(t, list, e)
    PROVE  t \in Seq(Scored(I)) /\ IsTop(t, sc, cand, m + 1, limit)
<1>1. /\ Len(list) = m /\ m < limit
      /\ \A j \in 1 .. m : list[j].score = sc[list[j].id]
      /\ \A j \in 1 .. m : \E k \in 1 .. m : list[j].id = cand[k]
      /\ Ordered(list)
      /\ \A k \in 1 .. m : \E j \in 1 .. m : list[j].id = cand[k]
  <2>1. Len(list) = m /\ m < limit
    BY DEF IsTop, FillsUpTo
  <2>2. OwnScores(list, sc) /\ Seen(list, cand, m) /\ Ordered(list)
    BY DEF IsTop
  <2>3. \A k \in 1 .. m : \E j \in 1 .. m : list[j].id = cand[k]
    BY <2>1 DEF IsTop, Beaten
  <2> QED BY <2>1, <2>2, <2>3 DEF OwnScores, Seen
<1>2. /\ t \in Seq(Scored(I)) /\ Len(t) = m + 1 /\ Ordered(t)
      /\ \A j \in 1 .. m + 1 : t[j] = e \/ \E i \in 1 .. m : t[j] = list[i]
      /\ \A i \in 1 .. m : \E j \in 1 .. m + 1 : t[j] = list[i]
      /\ \E j \in 1 .. m + 1 : t[j] = e
  <2>1. /\ t \in Seq(Scored(I)) /\ Len(t) = Len(list) + 1 /\ Ordered(t)
        /\ \A j \in 1 .. Len(t) : t[j] = e \/ \E i \in 1 .. Len(list) : t[j] = list[i]
        /\ \A i \in 1 .. Len(list) : \E j \in 1 .. Len(t) : t[j] = list[i]
        /\ \E j \in 1 .. Len(t) : t[j] = e
    <3> HIDE DEF Scored
    <3>1. Ordered(list)
      BY <1>1
    <3>2. Grown(t, list, e, I)
      BY <3>1, PlacedKeepsOrder
    <3> QED BY <3>2 DEF Grown
  <2> QED BY <1>1, <2>1
<1>3. ASSUME NEW j \in 1 .. m + 1
      PROVE  /\ t[j].score = sc[t[j].id]
             /\ \E k \in 1 .. m + 1 : t[j].id = cand[k]
  <2>1. CASE t[j] = e
    BY <2>1
  <2>2. CASE \E i \in 1 .. m : t[j] = list[i]
    <3>1. PICK i \in 1 .. m : t[j] = list[i]
      BY <2>2
    <3>2. PICK k \in 1 .. m : list[i].id = cand[k]
      BY <1>1
    <3>3. k \in 1 .. m + 1
      OBVIOUS
    <3>5. list[i].score = sc[list[i].id]
      BY <1>1
    <3>4. t[j].score = sc[t[j].id] /\ t[j].id = cand[k]
      BY <3>1, <3>2, <3>5, Zenon
    <3> QED BY <3>3, <3>4
  <2> QED BY <1>2, <2>1, <2>2
<1>4. ASSUME NEW k \in 1 .. m + 1
      PROVE  \E j \in 1 .. m + 1 : t[j].id = cand[k]
  <2>1. CASE k = m + 1
    BY <1>2, <2>1
  <2>2. CASE k # m + 1
    <3>1. k \in 1 .. m
      BY <2>2
    <3>2. PICK i \in 1 .. m : list[i].id = cand[k]
      BY <1>1, <3>1
    <3> QED BY <1>2, <3>2
  <2> QED BY <2>1, <2>2
<1>5. m + 1 = IF m + 1 < limit THEN m + 1 ELSE limit
  BY <1>1
<1> QED BY <1>2, <1>3, <1>4, <1>5 DEF IsTop, FillsUpTo, OwnScores, Seen, Beaten

LEMMA FrontIs ==
    ASSUME NEW S, NEW list \in Seq(S), Len(list) >= 1
    PROVE  /\ Front(list) \in Seq(S)
           /\ Len(Front(list)) = Len(list) - 1
           /\ \A j \in 1 .. Len(list) - 1 : Front(list)[j] = list[j]
<1>1. PICK n \in Nat : n = Len(list) - 1
  OBVIOUS
<1>2. \A i \in 1 .. n : list[i] \in S /\ 1 + i - 1 = i
  BY <1>1
<1>3. (IF 1 <= n THEN n - 1 + 1 ELSE 0) = n /\ n - 1 + 1 = n
  OBVIOUS
<1>4. Front(list) = SubSeq(list, 1, n)
  BY <1>1 DEF Front
<1>5. /\ SubSeq(list, 1, n) \in Seq(S)
      /\ Len(SubSeq(list, 1, n)) = IF 1 <= n THEN n - 1 + 1 ELSE 0
      /\ \A i \in 1 .. n - 1 + 1 : SubSeq(list, 1, n)[i] = list[1 + i - 1]
  BY <1>2, SubSeqProperties
<1>6. \A i \in 1 .. n : SubSeq(list, 1, n)[i] = list[i]
  BY <1>2, <1>3, <1>5
<1> QED BY <1>1, <1>3, <1>4, <1>5, <1>6

Rated(sc, cand) == \A k \in 1 .. Len(cand) : sc[cand[k]] \in Nat
AllBut(kept, list, n) == Len(kept) = n - 1 /\ \A j \in 1 .. n - 1 : kept[j] = list[j]
Beats(e, list, n) == e.score > list[n].score

(* A full list gives up its last entry to the candidate.                   *)
LEMMA FullKeepsTop ==
    ASSUME NEW I, NEW list \in Seq(Scored(I)), NEW sc, NEW cand,
           Rated(sc, cand), NEW m \in Nat, NEW limit \in Nat \ {0}, m + 1 <= Len(cand), Len(cand) \in Nat,
           IsTop(list, sc, cand, m, limit), Len(list) = limit,
           NEW e \in Scored(I), e.id = cand[m + 1], e.score = sc[cand[m + 1]],
           Beats(e, list, limit), Absent(list, e.id),
           NEW kept \in Seq(Scored(I)), AllBut(kept, list, limit),
           NEW t, Placed(t, kept, e)
    PROVE  t \in Seq(Scored(I)) /\ IsTop(t, sc, cand, m + 1, limit)
<1> HIDE DEF Scored
<1>a. Len(kept) = limit - 1 /\ \A j \in 1 .. limit - 1 : kept[j] = list[j]
  BY DEF AllBut
<1>b. e.score > list[limit].score
  BY DEF Beats
<1>c. \A k \in 1 .. Len(cand) : sc[cand[k]] \in Nat
  BY DEF Rated
<1>1. /\ m >= limit
      /\ \A j \in 1 .. limit : list[j].score = sc[list[j].id]
      /\ \A j \in 1 .. limit : \E k \in 1 .. m : list[j].id = cand[k]
      /\ Ordered(list)
      /\ \A k \in 1 .. m :
             \/ \E j \in 1 .. limit : list[j].id = cand[k]
             \/ \A j \in 1 .. limit : list[j].score >= sc[cand[k]]
  <2>1. m >= limit
    BY DEF IsTop, FillsUpTo
  <2>2. OwnScores(list, sc) /\ Seen(list, cand, m) /\ Ordered(list)
    BY DEF IsTop
  <2>3. \A k \in 1 .. m :
             \/ \E j \in 1 .. limit : list[j].id = cand[k]
             \/ \A j \in 1 .. limit : list[j].score >= sc[cand[k]]
    BY DEF IsTop, Beaten
  <2> QED BY <2>1, <2>2, <2>3 DEF OwnScores, Seen
<1>2. Ordered(kept) /\ Absent(kept, e.id)
  <2>1. \A j \in 1 .. limit - 1 : j \in 1 .. limit /\ kept[j] = list[j]
    BY <1>a
  <2>2. Ordered(kept)
    <3> SUFFICES ASSUME NEW i \in 1 .. limit - 1, NEW j \in 1 .. limit - 1, i < j
                 PROVE  kept[i].score >= kept[j].score /\ kept[i].id # kept[j].id
      BY <1>a DEF Ordered
    <3>1. list[i].score >= list[j].score /\ list[i].id # list[j].id
      BY <1>1, <2>1 DEF Ordered
    <3> QED BY <2>1, <3>1
  <2> QED BY <1>a, <2>1, <2>2 DEF Absent
<1>3. /\ t \in Seq(Scored(I)) /\ Len(t) = limit /\ Ordered(t)
      /\ \A j \in 1 .. limit : t[j] = e \/ \E i \in 1 .. limit - 1 : t[j] = kept[i]
      /\ \A i \in 1 .. limit - 1 : \E j \in 1 .. limit : t[j] = kept[i]
      /\ \E j \in 1 .. limit : t[j] = e
  <2>1. /\ t \in Seq(Scored(I)) /\ Len(t) = Len(kept) + 1 /\ Ordered(t)
        /\ \A j \in 1 .. Len(t) : t[j] = e \/ \E i \in 1 .. Len(kept) : t[j] = kept[i]
        /\ \A i \in 1 .. Len(kept) : \E j \in 1 .. Len(t) : t[j] = kept[i]
        /\ \E j \in 1 .. Len(t) : t[j] = e
    <3>1. Ordered(kept) /\ Absent(kept, e.id) /\ Placed(t, kept, e)
      BY <1>2
    <3>2. Grown(t, kept, e, I)
      BY <3>1, PlacedKeepsOrder
    <3> QED BY <3>2 DEF Grown
  <2>2. Len(t) = limit
    BY <1>a, <2>1
  <2> QED BY <1>a, <2>1, <2>2
<1>4. ASSUME NEW j \in 1 .. limit
      PROVE  t[j] = e \/ \E i \in 1 .. limit - 1 : i \in 1 .. limit /\ t[j] = list[i]
  <2>1. CASE \E i \in 1 .. limit - 1 : t[j] = kept[i]
    <3>1. PICK i \in 1 .. limit - 1 : t[j] = kept[i]
      BY <2>1
    <3>2. i \in 1 .. limit /\ kept[i] = list[i]
      BY <1>a
    <3> QED BY <3>1, <3>2
  <2> QED BY <1>3, <2>1
<1>5. \A i \in 1 .. limit - 1 : \E j \in 1 .. limit : t[j] = list[i]
  BY <1>a, <1>3
<1>6. ASSUME NEW j \in 1 .. limit
      PROVE  /\ t[j].score = sc[t[j].id]
             /\ \E k \in 1 .. m + 1 : t[j].id = cand[k]
  <2>1. CASE t[j] = e
    BY <2>1
  <2>2. CASE \E i \in 1 .. limit - 1 : i \in 1 .. limit /\ t[j] = list[i]
    <3>1. PICK i \in 1 .. limit : t[j] = list[i]
      BY <2>2
    <3>2. PICK k \in 1 .. m : list[i].id = cand[k]
      BY <1>1
    <3>3. k \in 1 .. m + 1
      OBVIOUS
    <3>4. list[i].score = sc[list[i].id]
      BY <1>1
    <3>5. t[j].score = sc[t[j].id] /\ t[j].id = cand[k]
      BY <3>1, <3>2, <3>4, Zenon
    <3> QED BY <3>3, <3>5
  <2> QED BY <1>4, <2>1, <2>2
<1>7. \A i \in 1 .. limit : list[i].score \in Nat /\ list[i].score >= list[limit].score
  <2>1. \A i \in 1 .. limit : list[i].score \in Nat
    BY ScoresAreNumbers
  <2>2. \A i \in 1 .. limit : i < limit => list[i].score >= list[limit].score
    BY <1>1 DEF Ordered
  <2> QED BY <2>1, <2>2
<1>8. ASSUME NEW v \in Nat, list[limit].score >= v, NEW j \in 1 .. limit
      PROVE  t[j].score >= v
  <2>1. CASE t[j] = e
    <3>1. e.score \in Nat
      BY DEF Scored
    <3> QED BY <1>b, <1>7, <1>8, <2>1, <3>1
  <2>2. CASE \E i \in 1 .. limit - 1 : i \in 1 .. limit /\ t[j] = list[i]
    BY <1>7, <1>8, <2>2
  <2> QED BY <1>4, <2>1, <2>2
<1>9. ASSUME NEW k \in 1 .. m + 1
      PROVE  \/ \E j \in 1 .. limit : t[j].id = cand[k]
             \/ \A j \in 1 .. limit : t[j].score >= sc[cand[k]]
  <2>1. CASE k = m + 1
    BY <1>3, <2>1
  <2>2. CASE k # m + 1
    <3>1. k \in 1 .. m /\ k \in 1 .. Len(cand)
      BY <2>2
    <3>2. sc[cand[k]] \in Nat
      BY <1>c, <3>1
    <3>3. CASE \A j \in 1 .. limit : list[j].score >= sc[cand[k]]
      <4>1. list[limit].score >= sc[cand[k]]
        BY <3>3
      <4> QED BY <1>8, <3>2, <4>1
    <3>4. CASE \E j \in 1 .. limit : list[j].id = cand[k]
      <4>1. PICK j \in 1 .. limit : list[j].id = cand[k]
        BY <3>4
      <4>2. CASE j = limit
        <5>1. list[limit].score = sc[cand[k]]
          BY <1>1, <4>1, <4>2
        <5>2. list[limit].score >= sc[cand[k]]
          BY <3>2, <5>1
        <5> QED BY <1>8, <3>2, <5>2
      <4>3. CASE j # limit
        <5>1. j \in 1 .. limit - 1
          BY <4>3
        <5> QED BY <1>5, <4>1, <5>1
      <4> QED BY <4>2, <4>3
    <3> QED BY <1>1, <3>1, <3>3, <3>4
  <2> QED BY <2>1, <2>2
<1>10. FillsUpTo(t, m + 1, limit)
  BY <1>1, <1>3 DEF FillsUpTo
<1>11. OwnScores(t, sc) /\ Seen(t, cand, m + 1)
  BY <1>3, <1>6 DEF OwnScores, Seen
<1>12. Beaten(t, sc, cand, m + 1, limit)
  BY <1>3, <1>9 DEF Beaten
<1> QED BY <1>3, <1>10, <1>11, <1>12 DEF IsTop

(* push_best keeps the list the best of what it has seen.                  *)
LEMMA PushKeepsTop ==
    ASSUME NEW I, NEW sc, NEW cand \in Seq(I), Apart(cand),
           \A id \in I : sc[id] \in Nat,
           NEW m \in Nat, m + 1 <= Len(cand), query.limit \in Nat \ {0},
           NEW list \in Seq(Scored(I)), IsTop(list, sc, cand, m, query.limit),
           NEW t, t = PushBest(list, sc[cand[m + 1]], cand[m + 1])
    PROVE  t \in Seq(Scored(I)) /\ IsTop(t, sc, cand, m + 1, query.limit)
<1> HIDE DEF Scored
<1>1. PICK limit \in Nat \ {0} : limit = query.limit
  OBVIOUS
<1>2. /\ Len(cand) \in Nat /\ Len(list) \in Nat /\ m + 1 \in 1 .. Len(cand)
      /\ \A k \in 1 .. Len(cand) : cand[k] \in I /\ sc[cand[k]] \in Nat
  <2>1. Len(cand) \in Nat /\ Len(list) \in Nat /\ m + 1 \in 1 .. Len(cand)
    OBVIOUS
  <2>2. \A k \in 1 .. Len(cand) : cand[k] \in I
    OBVIOUS
  <2> QED BY <2>1, <2>2
<1>3. PICK x \in I, s \in Nat : x = cand[m + 1] /\ s = sc[x]
  BY <1>2
<1>4. PICK e \in Scored(I) : /\ e = [score |-> s, id |-> x]
                             /\ e.score = s /\ e.id = x
  <2>1. [score |-> s, id |-> x] \in Scored(I)
    BY DEF Scored
  <2> QED BY <2>1
<1>5. IsTop(list, sc, cand, m, limit)
  BY <1>1
<1>6. Absent(list, x)
  <2>1. Seen(list, cand, m)
    BY <1>5 DEF IsTop
  <2> QED BY <1>2, <1>3, <2>1, NewIsAbsent
<1>7. CASE Len(list) # limit
  <2>1. Len(list) < limit
    BY <1>2, <1>5, <1>7 DEF IsTop, FillsUpTo
  <2>2. t = InsertAt(list, PartitionPoint(list, s), e)
    BY <1>1, <1>3, <1>4, <1>7 DEF PushBest
  <2>3. Placed(t, list, e)
    BY <1>4, <2>2 DEF Placed
  <2>4. t \in Seq(Scored(I)) /\ IsTop(t, sc, cand, m + 1, limit)
    BY <1>3, <1>4, <1>5, <1>6, <2>1, <2>3, RoomKeepsTop
  <2> QED BY <1>1, <2>4
<1>8. CASE Len(list) = limit /\ s <= list[limit].score
  <2>1. t = list
    BY <1>1, <1>3, <1>8 DEF PushBest, Last
  <2>2. /\ FillsUpTo(list, m + 1, limit) /\ OwnScores(list, sc)
        /\ Ordered(list) /\ Seen(list, cand, m + 1)
    <3>1. FillsUpTo(list, m, limit) /\ OwnScores(list, sc) /\ Ordered(list) /\ Seen(list, cand, m)
      BY <1>5 DEF IsTop
    <3>2. FillsUpTo(list, m + 1, limit)
      BY <1>8, <3>1 DEF FillsUpTo
    <3>3. \A k \in 1 .. m : k \in 1 .. m + 1
      OBVIOUS
    <3>4. Seen(list, cand, m + 1)
      BY <3>1, <3>3 DEF Seen
    <3> QED BY <3>1, <3>2, <3>4
  <2>3. \A j \in 1 .. limit : list[j].score >= s
    <3>1. \A j \in 1 .. limit : list[j].score \in Nat
      BY <1>8, ScoresAreNumbers
    <3>2. \A j \in 1 .. limit : j < limit => list[j].score >= list[limit].score
      BY <1>8, <2>2 DEF Ordered
    <3> QED BY <1>8, <3>1, <3>2
  <2>4. Beaten(list, sc, cand, m + 1, limit)
    <3>1. SUFFICES ASSUME NEW k \in 1 .. m + 1
                   PROVE  \/ \E j \in 1 .. Len(list) : list[j].id = cand[k]
                          \/ /\ Len(list) = limit
                             /\ \A j \in 1 .. Len(list) : list[j].score >= sc[cand[k]]
      BY DEF Beaten
    <3>2. CASE k = m + 1
      BY <1>3, <1>8, <2>3, <3>2
    <3>3. CASE k # m + 1
      <4>1. k \in 1 .. m
        BY <3>3
      <4>2. Beaten(list, sc, cand, m, limit)
        BY <1>5 DEF IsTop
      <4> QED BY <4>1, <4>2 DEF Beaten
    <3> QED BY <3>2, <3>3
  <2> QED BY <1>1, <2>1, <2>2, <2>4 DEF IsTop
<1>9. CASE Len(list) = limit /\ ~(s <= list[limit].score)
  <2>1. PICK kept : kept = Front(list)
    OBVIOUS
  <2>2. kept \in Seq(Scored(I)) /\ AllBut(kept, list, limit)
    <3>1. Len(list) >= 1
      BY <1>9
    <3> QED BY <1>9, <2>1, <3>1, FrontIs DEF AllBut
  <2>3. t = InsertAt(kept, PartitionPoint(kept, s), e)
    BY <1>1, <1>3, <1>4, <1>9, <2>1 DEF PushBest, Last
  <2>4. Placed(t, kept, e)
    BY <1>4, <2>3 DEF Placed
  <2>5. Beats(e, list, limit)
    <3>1. limit \in 1 .. Len(list)
      BY <1>9
    <3>2. list[limit].score \in Nat
      BY <3>1, ScoresAreNumbers
    <3> QED BY <1>4, <1>9, <3>2 DEF Beats
  <2>6. Rated(sc, cand)
    BY <1>2 DEF Rated
  <2>7. e.id = cand[m + 1] /\ e.score = sc[cand[m + 1]] /\ Absent(list, e.id)
    BY <1>3, <1>4, <1>6
  <2>8. t \in Seq(Scored(I)) /\ IsTop(t, sc, cand, m + 1, limit)
    <3>1. Len(cand) \in Nat /\ Len(list) = limit
      BY <1>2, <1>9
    <3> QED BY <3>1, <1>5, <2>2, <2>4, <2>5, <2>6, <2>7, FullKeepsTop
  <2> QED BY <1>1, <2>8
<1> QED BY <1>7, <1>8, <1>9
-----------------------------------------------------------------------------
(* The candidates.                                                         *)

LEMMA Contained ==
    ASSUME NEW S, NEW s \in Seq(S), NEW n \in 1 .. Len(s) + 1, NEW x
    PROVE  Contains(SubSeq(s, 1, n - 1), x) <=> \E i \in 1 .. n - 1 : s[i] = x
<1>1. PICK m \in Nat : m = n - 1
  OBVIOUS
<1>2. \A i \in 1 .. m : i \in 1 .. Len(s)
  BY <1>1
<1>3. \A i \in 1 .. m : s[i] \in S /\ 1 + i - 1 = i
  BY <1>2
<1>4. (IF 1 <= m THEN m - 1 + 1 ELSE 0) = m /\ m - 1 + 1 = m
  OBVIOUS
<1>5. /\ Len(SubSeq(s, 1, m)) = IF 1 <= m THEN m - 1 + 1 ELSE 0
      /\ \A i \in 1 .. m - 1 + 1 : SubSeq(s, 1, m)[i] = s[1 + i - 1]
  BY <1>3, SubSeqProperties
<1>6. Len(SubSeq(s, 1, m)) = m /\ \A i \in 1 .. m : SubSeq(s, 1, m)[i] = s[i]
  BY <1>3, <1>4, <1>5
<1>7. PICK t : t = SubSeq(s, 1, m)
  OBVIOUS
<1>8. Contains(t, x) <=> \E i \in 1 .. m : s[i] = x
  BY <1>6, <1>7 DEF Contains
<1> QED BY <1>1, <1>7, <1>8

(* Joining two lists without repetition that share nothing.                *)
LEMMA JoinedApart ==
    ASSUME NEW S, NEW p \in Seq(S), NEW q \in Seq(S), IsInjective(p), IsInjective(q),
           ToSet(p) \cap ToSet(q) = {}
    PROVE  IsInjective(p \o q)
<1>1. PICK m \in Nat, n \in Nat : m = Len(p) /\ n = Len(q)
  OBVIOUS
<1>2. /\ DOMAIN p = 1 .. m /\ DOMAIN q = 1 .. n /\ DOMAIN (p \o q) = 1 .. m + n
      /\ \A k \in 1 .. m : (p \o q)[k] = p[k] /\ p[k] \in ToSet(p)
      /\ \A k \in m + 1 .. m + n : (p \o q)[k] = q[k - m] /\ q[k - m] \in ToSet(q)
  <2>1. DOMAIN p = 1 .. m /\ DOMAIN q = 1 .. n /\ DOMAIN (p \o q) = 1 .. m + n
    BY <1>1
  <2>2. \A k \in 1 .. m : (p \o q)[k] = p[k]
    BY <1>1
  <2>3. \A k \in m + 1 .. m + n : (p \o q)[k] = q[k - m] /\ k - m \in 1 .. n
    BY <1>1
  <2> QED BY <2>1, <2>2, <2>3 DEF ToSet
<1>3. PICK r : r = p \o q
  OBVIOUS
<1>4. SUFFICES ASSUME NEW a \in 1 .. m + n, NEW b \in 1 .. m + n, r[a] = r[b]
               PROVE  a = b
  BY <1>2, <1>3 DEF IsInjective
<1>5. ASSUME NEW k \in 1 .. m + n
      PROVE  k \in 1 .. m \/ k \in m + 1 .. m + n
  OBVIOUS
<1>6. CASE a \in 1 .. m /\ b \in 1 .. m
  BY <1>2, <1>3, <1>4, <1>6 DEF IsInjective
<1>7. CASE a \in m + 1 .. m + n /\ b \in m + 1 .. m + n
  <2>a. a - m \in 1 .. n /\ b - m \in 1 .. n
    BY <1>7
  <2>1. q[a - m] = q[b - m] /\ a - m \in 1 .. n /\ b - m \in 1 .. n
    BY <1>2, <1>3, <1>4, <1>7, <2>a
  <2>2. a - m = b - m
    BY <1>2, <2>1 DEF IsInjective
  <2> QED BY <2>2
<1>8. CASE \/ a \in 1 .. m /\ b \in m + 1 .. m + n
           \/ b \in 1 .. m /\ a \in m + 1 .. m + n
  <2>1. \E x : x \in ToSet(p) /\ x \in ToSet(q)
    BY <1>2, <1>3, <1>4, <1>8
  <2> QED BY <2>1
<1> QED BY <1>5, <1>6, <1>7, <1>8

(* Found adds what is new, once.                                           *)
LEMMA FoundElements ==
    ASSUME NEW S, NEW seq \in Seq(S), IsInjective(seq), NEW new \in Seq(S)
    PROVE  /\ Found(seq, new) \in Seq(S) /\ IsInjective(Found(seq, new))
           /\ ToSet(Found(seq, new)) = ToSet(seq) \cup ToSet(new)
<1> DEFINE P == {n \in DOMAIN new : /\ ~Contains(seq, new[n])
                                    /\ ~Contains(SubSeq(new, 1, n - 1), new[n])}
<1>1. PICK m \in Nat : m = Len(new) /\ DOMAIN new = 1 .. m
  OBVIOUS
<1>2. \A x : Contains(seq, x) <=> x \in ToSet(seq)
  BY DEF Contains, ToSet
<1>3. ASSUME NEW n \in 1 .. m
      PROVE  n \in P <=> new[n] \notin ToSet(seq) /\ \A i \in 1 .. n - 1 : new[i] # new[n]
  <2>1. n \in 1 .. Len(new) + 1
    BY <1>1
  <2>2. Contains(SubSeq(new, 1, n - 1), new[n]) <=> \E i \in 1 .. n - 1 : new[i] = new[n]
    BY <2>1, Contained
  <2> QED BY <1>1, <1>2, <2>2
<1>4. P \in SUBSET (DOMAIN new)
  OBVIOUS
<1>5. Found(seq, new) = seq \o Picked(new, P)
  BY DEF Found
<1> HIDE DEF P
<1>6. PICK q : q = Picked(new, P)
  OBVIOUS
<1>7. /\ q \in Seq(S) /\ ToSet(q) = {new[n] : n \in P}
      /\ (\A i, j \in P : new[i] = new[j] => i = j) => IsInjective(q)
  BY <1>4, <1>6, PickedElements
<1>8. IsInjective(q)
  <2>1. SUFFICES ASSUME NEW i \in P, NEW j \in P, new[i] = new[j] PROVE i = j
    BY <1>7
  <2>2. i \in 1 .. m /\ j \in 1 .. m
    BY <1>1, <1>4
  <2>3. ~(i \in 1 .. j - 1) /\ ~(j \in 1 .. i - 1)
    BY <1>3, <2>1, <2>2
  <2> QED BY <2>2, <2>3
<1>9. ToSet(seq) \cap ToSet(q) = {}
  BY <1>1, <1>3, <1>4, <1>7
<1>10. ToSet(seq) \cup ToSet(q) = ToSet(seq) \cup ToSet(new)
  <2>1. ToSet(new) = {new[n] : n \in 1 .. m}
    BY <1>1 DEF ToSet
  <2>2. ASSUME NEW n \in 1 .. m, new[n] \notin ToSet(seq)
        PROVE  new[n] \in ToSet(q)
    <3> DEFINE T == {k \in 1 .. m : new[k] = new[n]}
    <3>1. T \subseteq Nat /\ T # {}
      OBVIOUS
    <3>2. PICK k \in T : \A y \in T : k <= y
      <4> HIDE DEF T
      <4> QED BY <3>1, LeastNatural
    <3>3. k \in 1 .. m /\ new[k] = new[n]
      OBVIOUS
    <3>4. ASSUME NEW i \in 1 .. k - 1 PROVE new[i] # new[k]
      <4>1. i \in 1 .. m /\ ~(k <= i)
        BY <3>3
      <4> QED BY <3>2, <3>3, <4>1
    <3>5. k \in P
      BY <1>3, <2>2, <3>3, <3>4
    <3> QED BY <1>7, <3>3, <3>5
  <2>3. ToSet(q) \subseteq ToSet(new)
    BY <1>1, <1>4, <1>7, <2>1
  <2> QED BY <2>1, <2>2, <2>3
<1>11. ToSet(seq \o q) = ToSet(seq) \cup ToSet(q)
  BY <1>7, ConcatElements
<1>12. IsInjective(seq \o q)
  BY <1>7, <1>8, <1>9, JoinedApart
<1>13. seq \o q \in Seq(S)
  BY <1>7
<1> QED BY <1>5, <1>6, <1>10, <1>11, <1>12, <1>13
-----------------------------------------------------------------------------
(* The entries of a layer.                                                 *)

Place == [cell : Cells, coarse : Nat, importance : Importances]
IdsWith(in, c) == {n - 1 : n \in {m \in DOMAIN places : in[m] = c}}
(* What a posting may hold, one that is wrong included.                    *)
Posted == 0 .. Len(places)

LEMMA PlaceIs ==
    ASSUME places \in Seq(Place)
    PROVE  /\ DOMAIN places = 1 .. Len(places) /\ Len(places) \in Nat
           /\ \A n \in 1 .. Len(places) :
                  /\ places[n].cell \in Cells /\ places[n].coarse \in Nat
                  /\ places[n].importance \in Importances
<1>1. /\ DOMAIN places = 1 .. Len(places) /\ Len(places) \in Nat
      /\ \A n \in 1 .. Len(places) : places[n] \in Place
  <2> HIDE DEF Place
  <2> QED OBVIOUS
<1> QED BY <1>1 DEF Place

LEMMA IdsAre ==
    ASSUME places \in Seq(Place)
    PROVE  /\ Ids = 0 .. Len(places) - 1 /\ Ids \in SUBSET Nat
           /\ Ids \subseteq Posted /\ Posted \in SUBSET Nat /\ Len(places) \in Posted \ Ids
           /\ \A id \in Ids : id + 1 \in DOMAIN places /\ id + 1 \in 1 .. Len(places)
<1>1. PICK n \in Nat : n = Len(places) /\ DOMAIN places = 1 .. n
  BY PlaceIs
<1>2. Ids = {k - 1 : k \in 1 .. n}
  BY <1>1 DEF Ids
<1>3. {k - 1 : k \in 1 .. n} = 0 .. n - 1
  <2>1. ASSUME NEW x \in 0 .. n - 1 PROVE x \in {k - 1 : k \in 1 .. n}
    <3>1. x + 1 \in 1 .. n /\ (x + 1) - 1 = x
      OBVIOUS
    <3> QED BY <3>1
  <2> QED BY <2>1
<1>4. Ids = 0 .. n - 1 /\ Posted = 0 .. n
  BY <1>1, <1>2, <1>3 DEF Posted
<1> QED BY <1>1, <1>4

LEMMA EntriesDistinct ==
    ASSUME places \in Seq(Place), NEW in \in [DOMAIN places -> Nat]
    PROVE  /\ Distinct(Entries(in))
           /\ {e.id : e \in Entries(in)} = Ids
           /\ \A e \in Entries(in) :
                  /\ e.id \in Ids /\ e.cell = in[e.id + 1]
                  /\ e.importance = places[e.id + 1].importance
           /\ \A id \in Ids : \E e \in Entries(in) : e.id = id
<1> DEFINE entry(n) == [id |-> n - 1, cell |-> in[n],
                        importance |-> places[n].importance]
           E == Entries(in)
<1>1. PICK m \in Nat : m = Len(places) /\ DOMAIN places = 1 .. m
  BY PlaceIs
<1>2. E = {entry(n) : n \in 1 .. m}
  BY <1>1 DEF Entries
<1>3. ASSUME NEW e \in E
      PROVE  \E n \in 1 .. m : /\ e = entry(n) /\ e.id = n - 1
                              /\ e.cell = in[n] /\ e.cell \in Nat
                              /\ e.importance = places[n].importance /\ e.importance \in Nat
  <2>1. PICK n \in 1 .. m : e = entry(n)
    BY <1>2
  <2>2. places[n].importance \in Nat
    BY <1>1, PlaceIs, BoundsAssumption
  <2>3. in[n] \in Nat
    BY <1>1
  <2>4. e.id = n - 1 /\ e.cell = in[n] /\ e.importance = places[n].importance
    BY <2>1
  <2> QED BY <2>1, <2>2, <2>3, <2>4
<1>4. IsFiniteSet(E)
  <2> DEFINE f == [n \in 1 .. m |-> entry(n)]
  <2>1. IsFiniteSet(1 .. m)
    BY FS_Interval
  <2>2. f \in Surjection(1 .. m, E)
    <3>1. \A n \in 1 .. m : f[n] \in E
      BY <1>2
    <3>2. \A e \in E : \E n \in 1 .. m : f[n] = e
      BY <1>3
    <3>3. f \in [1 .. m -> E]
      BY <3>1
    <3> HIDE DEF f, E
    <3> QED BY <3>2, <3>3 DEF Surjection
  <2> HIDE DEF f, E
  <2> QED BY <2>1, <2>2, FS_Surjection
<1> HIDE DEF E
<1>5. Distinct(E)
  <2>1. \A e \in E : e.id \in Nat /\ e.cell \in Nat /\ e.importance \in Nat
    <3>1. SUFFICES ASSUME NEW e \in E
                   PROVE  e.id \in Nat /\ e.cell \in Nat /\ e.importance \in Nat
      OBVIOUS
    <3>2. PICK n \in 1 .. m : e.id = n - 1 /\ e.cell \in Nat /\ e.importance \in Nat
      BY <1>3
    <3> QED BY <3>2
  <2>2. ASSUME NEW a \in E, NEW b \in E, a.id = b.id PROVE a = b
    <3>1. PICK i \in 1 .. m : a = entry(i) /\ a.id = i - 1
      BY <1>3
    <3>2. PICK j \in 1 .. m : b = entry(j) /\ b.id = j - 1
      BY <1>3
    <3>3. i = j
      BY <2>2, <3>1, <3>2
    <3> QED BY <3>1, <3>2, <3>3, Zenon
  <2> QED BY <1>4, <2>1, <2>2 DEF Distinct
<1>6. Ids = {n - 1 : n \in 1 .. m}
  BY <1>1 DEF Ids
<1>7. ASSUME NEW e \in E
      PROVE  /\ e.id \in Ids /\ e.cell = in[e.id + 1]
             /\ e.importance = places[e.id + 1].importance
  <2>1. PICK n \in 1 .. m : /\ e.id = n - 1 /\ e.cell = in[n]
                            /\ e.importance = places[n].importance
    BY <1>3
  <2>2. e.id + 1 = n
    BY <2>1
  <2>3. e.id \in Ids
    BY <1>6, <2>1
  <2> QED BY <2>1, <2>2, <2>3, Zenon
<1>8. ASSUME NEW id \in Ids PROVE \E e \in E : e.id = id
  <2>1. PICK n \in 1 .. m : id = n - 1
    BY <1>6
  <2>2. entry(n) \in E /\ entry(n).id = id
    BY <1>2, <2>1
  <2> QED BY <2>2
<1>9. {e.id : e \in E} = Ids
  BY <1>7, <1>8
<1> QED BY <1>5, <1>7, <1>8, <1>9 DEF E

(* A lookup in a layer that was built.                                     *)
LEMMA LookupGives ==
    ASSUME places \in Seq(Place), NEW in \in [DOMAIN places -> Nat],
           NEW L, L = Layer(Entries(in)), Admits(L), NEW c \in Nat,
           NEW found, found = LookupCellIds(L, c)
    PROVE  /\ ToSet(found) = IdsWith(in, c)
           /\ \A i, j \in DOMAIN found : i < j =>
                  places[found[i] + 1].importance >= places[found[j] + 1].importance
<1> DEFINE E == Entries(in)
           S == {e \in E : e.cell = c}
<1>1. Distinct(E) /\ {e.id : e \in E} = Ids
  BY EntriesDistinct
<1>2. PICK bs : Written(L, E, bs)
  BY <1>1, LayerWritten
<1>3. Sound(L, Ids)
  BY <1>1, <1>2, WrittenIsSound
<1>4. found \in Seq(Ids)
  BY <1>3, IdsAre, LookupIsSound
<1>5. PICK b : /\ IsBucket(b, S) /\ Len(found) = Len(b)
               /\ \A j \in 1 .. Len(b) : found[j] = b[j].id
  <2>1. PICK b : IsBucket(b, InCell(E, c)) /\ IdsOf(LookupCellIds(L, c), b)
    <3> HIDE DEF E
    <3> QED BY <1>1, <1>2, LookupIsBucket
  <2> QED BY <2>1 DEF IdsOf, InCell
<1>6. PICK n \in Nat : /\ n = Len(b) /\ DOMAIN b = 1 .. n /\ DOMAIN found = 1 .. n
                      /\ ToSet(b) = S /\ \A j \in 1 .. n : b[j] \in S
  <2> HIDE DEF S
  <2>1. b \in Seq(S) /\ ToSet(b) = S
    BY <1>5 DEF IsBucket
  <2>2. Len(b) \in Nat /\ DOMAIN b = 1 .. Len(b)
    BY <2>1
  <2>3. \A j \in 1 .. Len(b) : b[j] \in S
    BY <2>1
  <2>4. DOMAIN found = 1 .. Len(b)
    BY <1>4, <1>5
  <2> QED BY <2>1, <2>2, <2>3, <2>4
<1>7. \A e \in S : /\ e \in E /\ e.id \in Ids /\ in[e.id + 1] = c
                  /\ e.importance = places[e.id + 1].importance
                  /\ e.importance \in Nat /\ e.id \in Nat
  BY <1>1, EntriesDistinct DEF Distinct
<1>8. IdsWith(in, c) = {id \in Ids : in[id + 1] = c}
  <2>1. ASSUME NEW m \in DOMAIN places PROVE m - 1 + 1 = m
    BY PlaceIs
  <2>2. \A id \in Ids : id + 1 \in DOMAIN places /\ id + 1 - 1 = id
    BY IdsAre
  <2> QED BY <2>1, <2>2 DEF IdsWith, Ids
<1>9. ASSUME NEW id \in IdsWith(in, c) PROVE \E e \in S : e.id = id
  <2>1. PICK e \in E : e.id = id
    BY <1>8, EntriesDistinct
  <2>2. e.cell = in[id + 1]
    BY <2>1, EntriesDistinct
  <2>3. e.cell = c
    BY <1>8, <2>2
  <2> QED BY <2>1, <2>3
<1> HIDE DEF S, E
<1>10. ToSet(found) = {e.id : e \in S}
  <2>1. ToSet(found) = {found[j] : j \in 1 .. n}
    BY <1>6 DEF ToSet
  <2>2. S = {b[j] : j \in 1 .. n}
    BY <1>6 DEF ToSet
  <2>3. \A j \in 1 .. n : found[j] = b[j].id
    BY <1>5, <1>6
  <2> QED BY <2>1, <2>2, <2>3
<1>11. ToSet(found) = IdsWith(in, c)
  BY <1>7, <1>8, <1>9, <1>10
<1>12. ASSUME NEW i \in 1 .. n, NEW j \in 1 .. n, i < j
       PROVE  places[found[i] + 1].importance >= places[found[j] + 1].importance
  <2>1. Before(b[i], b[j])
    BY <1>5, <1>6, <1>12 DEF IsBucket
  <2>2. b[i].importance \in Nat /\ b[j].importance \in Nat
    BY <1>6, <1>7
  <2>3. b[i].importance >= b[j].importance
    BY <2>1, <2>2 DEF Before
  <2>4. /\ b[i].importance = places[found[i] + 1].importance
        /\ b[j].importance = places[found[j] + 1].importance
    BY <1>5, <1>6, <1>7
  <2> QED BY <2>3, <2>4
<1> QED BY <1>6, <1>11, <1>12
-----------------------------------------------------------------------------
(* The inductive invariant.                                                *)

Ranking == {"rank", "hydrate", "answered"}

Typed ==
    /\ phase \in Phases /\ damaged \in BOOLEAN
    /\ places \in Seq(Place)
    /\ phase # "collect" => places # <<>>
    /\ lost \subseteq Ids
    /\ IF phase \in Stages
       THEN query \in [cell : Cells, coarse : Nat, limit : 1 .. MaxLimit]
       ELSE query = NoQuery

BuiltFine == Layer(Entries(FineCells))
BuiltCoarse == Layer(Entries(CoarseCells))

Layers ==
    /\ phase = "collect" => ~damaged
    /\ ~damaged => lost = {}
    /\ phase # "collect" => Sound(fine, Posted) /\ coarse = BuiltCoarse
    /\ phase # "collect" /\ ~damaged => fine = BuiltFine
    /\ phase \in Stages => Admits(fine) /\ Admits(coarse)

(* The cells that have been looked up when the stage begins.               *)
Visited(stage) ==
    {query.cell} \cup (IF stage = "ring 1" THEN {} ELSE ToSet(Ring[query.cell][1]))
                 \cup (IF stage = "coarse" THEN ToSet(Ring[query.cell][2]) ELSE {})

PlacesIn(C) == {n - 1 : n \in {m \in DOMAIN places : places[m].cell \in C}}

Candidates ==
    /\ ids \in Seq(Posted) /\ IsInjective(ids)
    /\ phase \in {"collect", "built", "refused", "own"} => ids = <<>>
    /\ ~damaged =>
           /\ phase \in {"ring 1", "ring 2", "coarse"} => ToSet(ids) = PlacesIn(Visited(phase))
           /\ phase \in Ranking => \/ ToSet(ids) = InReach
                                   \/ ToSet(ids) \subseteq InReach /\ Len(ids) >= query.limit

Scores == [id \in Ids |-> Score(id)]

(* The places among the first m candidates, in their order.                *)
Places(kept, cand, m, I) ==
    /\ kept \in Seq(I) /\ Apart(kept)
    /\ \A x \in I : x \in ToSet(kept) <=> \E k \in 1 .. m : cand[k] = x

Tops ==
    /\ best \in Seq(Scored(Ids))
    /\ ranked \in 0 .. Len(ids)
    /\ phase \notin Ranking => ranked = 0 /\ best = <<>>
    /\ phase \in Ranking => \E kept :
           /\ Places(kept, ids, ranked, Ids)
           /\ IsTop(best, Scores, kept, Len(kept), query.limit)
    /\ phase \in {"hydrate", "answered"} => ranked = Len(ids)

Given == Picked(best, {n \in DOMAIN best : best[n].id \notin lost})

Answers ==
    hits = IF phase = "answered" THEN [n \in DOMAIN Given |-> Given[n].id] ELSE <<>>

IInv == Typed /\ Layers /\ Candidates /\ Tops /\ Answers
-----------------------------------------------------------------------------
LEMMA CellsAre ==
    ASSUME places \in Seq(Place)
    PROVE  FineCells \in [DOMAIN places -> Nat] /\ CoarseCells \in [DOMAIN places -> Nat]
  BY PlaceIs, CellsAssumption DEF FineCells, CoarseCells

(* What was built is written as it should be.                              *)
LEMMA BuiltIsSound ==
    ASSUME places \in Seq(Place), NEW in \in [DOMAIN places -> Nat],
           NEW L, L = Layer(Entries(in))
    PROVE  /\ Sound(L, Ids)
           /\ \E bs : Written(L, Entries(in), bs)
<1>1. PICK E : E = Entries(in)
  OBVIOUS
<1>2. Distinct(E) /\ {e.id : e \in E} = Ids
  BY <1>1, EntriesDistinct
<1>3. PICK bs : Written(L, E, bs)
  BY <1>1, <1>2, LayerWritten
<1>4. Sound(L, Ids)
  BY <1>2, <1>3, WrittenIsSound
<1> QED BY <1>1, <1>3, <1>4

LEMMA EmptyIsTop ==
    ASSUME NEW sc, NEW cand, NEW limit \in Nat
    PROVE  IsTop(<<>>, sc, cand, 0, limit)
<1>1. Len(<<>>) = 0 /\ \A x : x \notin 1 .. 0
  OBVIOUS
<1> QED BY <1>1 DEF IsTop, FillsUpTo, OwnScores, Seen, Ordered, Beaten

LEMMA EmptyIs ==
    ASSUME NEW S
    PROVE  /\ <<>> \in Seq(S) /\ Len(<<>>) = 0
           /\ IsInjective(<<>>) /\ ToSet(<<>>) = {}
<1>1. <<>> \in Seq(S) /\ Len(<<>>) = 0 /\ DOMAIN <<>> = {}
  OBVIOUS
<1>2. IsInjective(<<>>)
  BY <1>1 DEF IsInjective
<1>3. ToSet(<<>>) = {}
  BY <1>1 DEF ToSet
<1> QED BY <1>1, <1>2, <1>3

THEOREM InitIInv == Init => IInv
<1> SUFFICES ASSUME Init PROVE IInv
  OBVIOUS
<1> USE DEF Init
<1>1. phase = "collect" /\ phase \notin Stages /\ phase \notin Ranking
  BY DEF Stages, Ranking
<1>2. Typed
  BY <1>1, EmptyIs DEF Typed, Phases
<1>3. Layers
  BY <1>1 DEF Layers
<1>4. Candidates
  BY <1>1, EmptyIs DEF Candidates
<1>5. Tops
  BY <1>1, EmptyIs DEF Tops
<1>6. Answers
  BY <1>1 DEF Answers
<1> QED BY <1>2, <1>3, <1>4, <1>5, <1>6 DEF IInv

(* What a query leaves alone.                                              *)
LEMMA BuildKept ==
    ASSUME UNCHANGED build
    PROVE  /\ Ids' = Ids /\ Posted' = Posted
           /\ BuiltFine' = BuiltFine /\ BuiltCoarse' = BuiltCoarse
           /\ \A C : PlacesIn(C)' = PlacesIn(C)
  BY DEF build, Ids, Posted, BuiltFine, BuiltCoarse, Entries, FineCells, CoarseCells, PlacesIn

LEMMA QueryKept ==
    ASSUME Typed, Layers, UNCHANGED <<build, query>>, phase \in Stages, phase' \in Stages
    PROVE  Typed' /\ Layers' /\ InReach' = InReach /\ Scores' = Scores
<1>1. phase' \in Phases /\ phase # "collect" /\ phase' # "collect"
  BY DEF Phases, Stages
<1>2. Ids' = Ids
  BY BuildKept
<1>3. Typed'
  BY <1>1, <1>2 DEF Typed, build
<1>4. Layers'
  BY <1>1, BuildKept DEF Layers, build
<1>5. InReach' = InReach
  BY DEF InReach, build
<1>6. Scores' = Scores
  BY <1>2 DEF Scores, Score, build
<1> QED BY <1>3, <1>4, <1>5, <1>6
-----------------------------------------------------------------------------
LEMMA PushKeeps ==
    ASSUME IInv, NEW c \in Cells, NEW w \in Coarse[c], NEW m \in Importances, Push(c, w, m)
    PROVE  IInv'
<1> USE DEF Push
<1>1. Typed /\ Layers /\ Candidates /\ Tops /\ Answers
  BY DEF IInv
<1>2. /\ phase = "collect" /\ phase' = "collect" /\ phase \notin Stages /\ phase' \notin Stages
      /\ phase \notin Ranking /\ phase' \notin Ranking
  BY DEF Stages, Ranking
<1>3. damaged = FALSE /\ lost = {} /\ ids = <<>>
  BY <1>1, <1>2 DEF Layers, Candidates, Typed
<1>4. Typed'
  <2>1. places \in Seq(Place) /\ [cell |-> c, coarse |-> w, importance |-> m] \in Place
    BY <1>1, CoarseAssumption DEF Typed, Place
  <2>2. places' \in Seq(Place)
    <3> HIDE DEF Place
    <3> QED BY <2>1
  <2> QED BY <1>1, <1>2, <1>3, <2>2 DEF Typed
<1>5. Layers'
  BY <1>1, <1>2, <1>3 DEF Layers
<1>6. Candidates'
  BY <1>2, <1>3, EmptyIs DEF Candidates
<1>7. Tops'
  BY <1>1, <1>2, <1>3, EmptyIs DEF Tops
<1>8. Answers'
  BY <1>1, <1>2 DEF Answers
<1> QED BY <1>4, <1>5, <1>6, <1>7, <1>8 DEF IInv

LEMMA BuildKeeps ==
    ASSUME IInv, BuildIndex
    PROVE  IInv'
<1> USE DEF BuildIndex
<1>1. Typed /\ Layers /\ Candidates /\ Tops /\ Answers
  BY DEF IInv
<1>2. /\ phase = "collect" /\ phase' = "built" /\ phase \notin Stages /\ phase' \notin Stages
      /\ phase \notin Ranking /\ phase' \notin Ranking /\ phase' \in Phases
  BY DEF Stages, Ranking, Phases
<1>3. damaged = FALSE /\ lost = {} /\ ids = <<>> /\ places \in Seq(Place)
  BY <1>1, <1>2 DEF Layers, Candidates, Typed
<1>4. Typed'
  BY <1>1, <1>2, <1>3 DEF Typed, Ids
<1>5. Layers'
  <2>1. fine' = BuiltFine' /\ coarse' = BuiltCoarse'
    BY DEF BuiltFine, BuiltCoarse, Entries, FineCells, CoarseCells
  <2>2. Sound(fine', Posted)
    <3>1. Sound(fine', Ids)
      BY <1>3, CellsAre, BuiltIsSound
    <3> QED BY <1>3, <3>1, IdsAre, SoundWider
  <2>3. Posted' = Posted
    BY DEF Posted
  <2> QED BY <1>2, <1>3, <2>1, <2>2, <2>3 DEF Layers
<1>6. Candidates'
  BY <1>2, <1>3, EmptyIs DEF Candidates
<1>7. Tops'
  BY <1>1, <1>2, <1>3, EmptyIs DEF Tops
<1>8. Answers'
  BY <1>1, <1>2 DEF Answers
<1> QED BY <1>4, <1>5, <1>6, <1>7, <1>8 DEF IInv

LEMMA DamageKeeps ==
    ASSUME IInv, DamageFiles
    PROVE  IInv'
<1> USE DEF DamageFiles
<1>1. Typed /\ Layers /\ Candidates /\ Tops /\ Answers
  BY DEF IInv
<1>2. /\ phase = "built" /\ phase' = "built" /\ phase \notin Stages /\ phase' \notin Stages
      /\ phase \notin Ranking /\ phase' \notin Ranking
  BY DEF Stages, Ranking
<1>3. /\ ~damaged /\ damaged' = TRUE /\ ids = <<>> /\ places \in Seq(Place) /\ places # <<>>
      /\ fine = Layer(Entries(FineCells)) /\ Ids' = Ids /\ BuiltCoarse' = BuiltCoarse
      /\ Posted' = Posted
  BY <1>1, <1>2 DEF Layers, Candidates, Typed, BuiltFine, BuiltCoarse, Entries, CoarseCells,
                    Ids, Posted
<1>4. Typed'
  <2>1. lost' \subseteq Ids
    <3>1. 0 \in Ids
      BY <1>3, IdsAre, PlaceIs
    <3> QED BY <3>1
  <2> QED BY <1>1, <1>2, <1>3, <2>1 DEF Typed
<1>5. Layers'
  <2>1. Sound(fine', Posted)
    <3>1. PICK bs : Written(fine, Entries(FineCells), bs)
      BY <1>3, CellsAre, BuiltIsSound
    <3>2. Sound(fine, Ids)
      BY <1>3, CellsAre, BuiltIsSound
    <3>3. Sound(fine, Posted)
      BY <1>1, <1>2 DEF Layers
    <3>4. Len(places) \in Posted \ Ids
      BY <1>3, IdsAre
    <3>5. fine' \in Damages(fine)
      OBVIOUS
    <3> QED BY <3>1, <3>2, <3>3, <3>4, <3>5, DamagedIsSound
  <2> QED BY <1>1, <1>2, <1>3, <2>1 DEF Layers
<1>6. Candidates'
  BY <1>2, <1>3, EmptyIs DEF Candidates
<1>7. Tops'
  BY <1>1, <1>2, <1>3, EmptyIs DEF Tops
<1>8. Answers'
  BY <1>1, <1>2 DEF Answers
<1> QED BY <1>4, <1>5, <1>6, <1>7, <1>8 DEF IInv

LEMMA OpenKeeps ==
    ASSUME IInv, Open
    PROVE  IInv'
<1> USE DEF Open, build
<1>1. Typed /\ Layers /\ Candidates /\ Tops /\ Answers
  BY DEF IInv
<1>2. /\ phase = "built" /\ phase \notin Stages /\ phase \notin Ranking
      /\ phase' \in {"own", "refused"} /\ phase' \in Phases /\ phase' \notin Ranking
      /\ phase' \in Stages <=> phase' = "own"
  BY DEF Stages, Ranking, Phases
<1>3. /\ ids = <<>> /\ Ids' = Ids /\ Posted' = Posted /\ BuiltFine' = BuiltFine /\ BuiltCoarse' = BuiltCoarse
  BY <1>1, <1>2, BuildKept DEF Candidates
<1>4. Typed'
  <2>1. \A c \in Cells : Coarse[c] \subseteq Nat
    BY CoarseAssumption
  <2> QED BY <1>1, <1>2, <1>3, <2>1 DEF Typed
<1>5. Layers'
  BY <1>1, <1>2, <1>3 DEF Layers
<1>6. Candidates'
  BY <1>2, <1>3, EmptyIs DEF Candidates
<1>7. Tops'
  BY <1>1, <1>2, <1>3, EmptyIs DEF Tops
<1>8. Answers'
  BY <1>1, <1>2 DEF Answers
<1> QED BY <1>4, <1>5, <1>6, <1>7, <1>8 DEF IInv
-----------------------------------------------------------------------------
(* The cells a stage looks at.                                             *)
Around(k) == ToSet(Ring[query.cell][k])

LEMMA RingIs ==
    ASSUME query.cell \in Cells, NEW k \in 1 .. 2
    PROVE  /\ Ring[query.cell][k] \in Seq(Cells) /\ Around(k) \subseteq Cells
           /\ DOMAIN Ring[query.cell][k] = 1 .. Len(Ring[query.cell][k])
           /\ Len(Ring[query.cell][k]) \in Nat
<1>1. PICK r : r = Ring[query.cell][k]
  OBVIOUS
<1>2. r \in Seq(Cells)
  BY <1>1, RingAssumption
<1> QED BY <1>1, <1>2 DEF Around, ToSet

LEMMA OneCell ==
    ASSUME places \in Seq(Place), fine = BuiltFine, Admits(fine), NEW c \in Cells
    PROVE  ToSet(LookupCellIds(fine, c)) = PlacesIn({c})
<1>1. c \in Nat
  BY CellsAssumption
<1>2. ToSet(LookupCellIds(fine, c)) = IdsWith(FineCells, c)
  BY <1>1, CellsAre, LookupGives DEF BuiltFine
<1>3. \A m \in DOMAIN places : FineCells[m] = places[m].cell
  BY DEF FineCells
<1> QED BY <1>2, <1>3 DEF IdsWith, PlacesIn

LEMMA RingOfCells ==
    ASSUME places \in Seq(Place), Sound(fine, Posted), Admits(fine), query.cell \in Cells,
           NEW k \in 1 .. 2, NEW list,
           list = FlattenSeq([n \in DOMAIN Ring[query.cell][k] |->
                                 LookupCellIds(fine, Ring[query.cell][k][n])])
    PROVE  /\ list \in Seq(Posted)
           /\ fine = BuiltFine => ToSet(list) = PlacesIn(Around(k))
<1>1. PICK r \in Seq(Cells), n \in Nat :
          r = Ring[query.cell][k] /\ DOMAIN r = 1 .. n /\ Around(k) = ToSet(r)
  BY RingIs DEF Around
<1>2. PICK bs : bs = [i \in 1 .. n |-> LookupCellIds(fine, r[i])]
  OBVIOUS
<1>3. \A i \in 1 .. n : r[i] \in Cells /\ r[i] \in Nat
  <2>1. \A i \in 1 .. n : r[i] \in Cells
    BY <1>1
  <2> QED BY <2>1, CellsAssumption
<1>4. bs \in [1 .. n -> Seq(Posted)]
  <2>1. \A i \in 1 .. n : LookupCellIds(fine, r[i]) \in Seq(Posted)
    BY <1>3, IdsAre, LookupIsSound
  <2> QED BY <1>2, <2>1
<1>5. list = FlattenSeq(bs)
  BY <1>1, <1>2
<1>6. list \in Seq(Posted)
  BY <1>4, <1>5, FlattenElements
<1>7. ASSUME fine = BuiltFine PROVE ToSet(list) = PlacesIn(Around(k))
  <2>1. \A i \in 1 .. n : ToSet(bs[i]) = PlacesIn({r[i]})
    BY <1>2, <1>3, <1>7, OneCell
  <2>2. \A x \in Posted : x \in ToSet(list) <=> \E i \in 1 .. n : x \in PlacesIn({r[i]})
    <3>1. ToSet(list) = Together(bs, n)
      BY <1>4, <1>5, FlattenTogether
    <3> QED BY <2>1, <3>1 DEF Together
  <2>3. ToSet(list) \subseteq Posted
    BY <1>6 DEF ToSet
  <2>4. \A x \in Posted : (\E i \in 1 .. n : x \in PlacesIn({r[i]})) <=> x \in PlacesIn(ToSet(r))
    <3>1. \A y : y \in ToSet(r) <=> \E i \in 1 .. n : y \in {r[i]}
      BY <1>1 DEF ToSet
    <3>2. \A C, x : x \in PlacesIn(C) <=>
              \E m \in DOMAIN places : places[m].cell \in C /\ x = m - 1
      BY DEF PlacesIn
    <3>3. ASSUME NEW x \in Posted
          PROVE  (\E i \in 1 .. n : x \in PlacesIn({r[i]})) <=> x \in PlacesIn(ToSet(r))
      <4>1. ASSUME NEW i \in 1 .. n, x \in PlacesIn({r[i]}) PROVE x \in PlacesIn(ToSet(r))
        <5>1. PICK m \in DOMAIN places : places[m].cell \in {r[i]} /\ x = m - 1
          BY <3>2, <4>1
        <5>2. places[m].cell \in ToSet(r)
          BY <3>1, <5>1
        <5> QED BY <3>2, <5>1, <5>2
      <4>2. ASSUME x \in PlacesIn(ToSet(r)) PROVE \E i \in 1 .. n : x \in PlacesIn({r[i]})
        <5>1. PICK m \in DOMAIN places : places[m].cell \in ToSet(r) /\ x = m - 1
          BY <3>2, <4>2
        <5>2. PICK i \in 1 .. n : places[m].cell \in {r[i]}
          BY <3>1, <5>1
        <5>3. x \in PlacesIn({r[i]})
          BY <3>2, <5>1, <5>2
        <5> QED BY <5>3
      <4> QED BY <4>1, <4>2
    <3> QED BY <3>3
  <2>5. PlacesIn(ToSet(r)) \subseteq Posted
    BY IdsAre DEF PlacesIn, Ids
  <2> QED BY <1>1, <2>2, <2>3, <2>4, <2>5
<1> QED BY <1>6, <1>7

LEMMA LookedUpIs ==
    ASSUME Typed, Layers, phase \in DOMAIN NextStage
    PROVE  /\ LookedUp \in Seq(Posted)
           /\ ~damaged =>
                 /\ phase = "own" => ToSet(LookedUp) = PlacesIn({query.cell})
                 /\ phase = "ring 1" => ToSet(LookedUp) = PlacesIn(Around(1))
                 /\ phase = "ring 2" => ToSet(LookedUp) = PlacesIn(Around(2))
                 /\ phase = "coarse" => ToSet(LookedUp) = IdsWith(CoarseCells, query.coarse)
<1>1. /\ phase \in {"own", "ring 1", "ring 2", "coarse"}
      /\ phase \in Stages /\ phase # "collect"
  BY DEF NextStage, Stages
<1>2. /\ places \in Seq(Place) /\ query.cell \in Cells
      /\ Sound(fine, Posted) /\ Admits(fine) /\ Admits(coarse) /\ coarse = BuiltCoarse
      /\ ~damaged => fine = BuiltFine
  BY <1>1 DEF Typed, Layers
<1>3. Posted \in SUBSET Nat
  BY <1>2, IdsAre
<1>4. CASE phase = "own"
  <2>1. LookedUp = LookupCellIds(fine, query.cell)
    BY <1>4 DEF LookedUp
  <2>2. query.cell \in Nat
    BY <1>2, CellsAssumption
  <2>3. LookedUp \in Seq(Posted)
    BY <1>2, <1>3, <2>1, <2>2, LookupIsSound
  <2>4. ~damaged => ToSet(LookedUp) = PlacesIn({query.cell})
    BY <1>2, <2>1, OneCell
  <2> QED BY <1>4, <2>3, <2>4
<1>5. CASE phase = "ring 1"
  <2>1. LookedUp = FlattenSeq([n \in DOMAIN Ring[query.cell][1] |->
                                  LookupCellIds(fine, Ring[query.cell][1][n])])
    BY <1>5 DEF LookedUp
  <2>2. LookedUp \in Seq(Posted) /\ (fine = BuiltFine => ToSet(LookedUp) = PlacesIn(Around(1)))
    BY <1>2, <2>1, RingOfCells
  <2> QED BY <1>2, <1>5, <2>2
<1>6. CASE phase = "ring 2"
  <2>1. LookedUp = FlattenSeq([n \in DOMAIN Ring[query.cell][2] |->
                                  LookupCellIds(fine, Ring[query.cell][2][n])])
    BY <1>6 DEF LookedUp
  <2>2. LookedUp \in Seq(Posted) /\ (fine = BuiltFine => ToSet(LookedUp) = PlacesIn(Around(2)))
    BY <1>2, <2>1, RingOfCells
  <2> QED BY <1>2, <1>6, <2>2
<1>7. CASE phase = "coarse"
  <2>1. LookedUp = LookupCellIds(coarse, query.coarse)
    BY <1>7 DEF LookedUp
  <2>2. query.coarse \in Nat
    BY <1>1 DEF Typed
  <2>3. Sound(coarse, Posted)
    <3>1. Sound(coarse, Ids)
      BY <1>2, CellsAre, BuiltIsSound DEF BuiltCoarse
    <3> QED BY <1>2, <3>1, IdsAre, SoundWider
  <2>4. LookedUp \in Seq(Posted)
    BY <1>2, <1>3, <2>1, <2>2, <2>3, LookupIsSound
  <2>5. ToSet(LookedUp) = IdsWith(CoarseCells, query.coarse)
    BY <1>2, <2>1, <2>2, CellsAre, LookupGives DEF BuiltCoarse
  <2> QED BY <1>7, <2>4, <2>5
<1> QED BY <1>1, <1>4, <1>5, <1>6, <1>7
-----------------------------------------------------------------------------
LEMMA PlacesJoin ==
    ASSUME NEW C, NEW D
    PROVE  PlacesIn(C \cup D) = PlacesIn(C) \cup PlacesIn(D)
<1>1. \A A : PlacesIn(A) = {n - 1 : n \in {m \in DOMAIN places : places[m].cell \in A}}
  BY DEF PlacesIn
<1>2. \A A, x : x \in PlacesIn(A) <=> \E n \in DOMAIN places : places[n].cell \in A /\ x = n - 1
  BY <1>1
<1> QED BY <1>2

LEMMA InReachIs ==
    InReach = PlacesIn({query.cell} \cup Around(1) \cup Around(2))
                  \cup IdsWith(CoarseCells, query.coarse)
<1>1. PICK near : near = {query.cell} \cup Around(1) \cup Around(2)
  OBVIOUS
<1>2. InReach = {n - 1 : n \in {m \in DOMAIN places :
                    places[m].cell \in near \/ places[m].coarse = query.coarse}}
  BY <1>1 DEF InReach, Around
<1>3. PlacesIn(near) = {n - 1 : n \in {m \in DOMAIN places : places[m].cell \in near}}
  BY DEF PlacesIn
<1>4. IdsWith(CoarseCells, query.coarse)
          = {n - 1 : n \in {m \in DOMAIN places : places[m].coarse = query.coarse}}
  BY DEF IdsWith, CoarseCells
<1>5. InReach = PlacesIn(near) \cup IdsWith(CoarseCells, query.coarse)
  BY <1>2, <1>3, <1>4
<1> QED BY <1>1, <1>5

LEMMA VisitedAre ==
    /\ Visited("ring 1") = {query.cell}
    /\ Visited("ring 2") = {query.cell} \cup Around(1)
    /\ Visited("coarse") = {query.cell} \cup Around(1) \cup Around(2)
  BY DEF Visited, Around

LEMMA QueryIs ==
    ASSUME Typed, phase \in Stages
    PROVE  query.cell \in Cells /\ query.limit \in 1 .. MaxLimit /\ query.limit \in Nat \ {0}
<1>1. query.cell \in Cells /\ query.limit \in 1 .. MaxLimit
  BY DEF Typed
<1> QED BY <1>1, BoundsAssumption

LEMMA CandidatesAre ==
    ASSUME Candidates
    PROVE  ids \in Seq(Posted) /\ IsInjective(ids) /\ Len(ids) \in Nat
<1>1. ids \in Seq(Posted) /\ IsInjective(ids)
  BY DEF Candidates
<1>2. PICK S : S = Posted
  OBVIOUS
<1>3. ids \in Seq(S)
  BY <1>1, <1>2
<1>4. Len(ids) \in Nat
  BY <1>3
<1> QED BY <1>1, <1>4

LEMMA WiderReach == \A C, D : PlacesIn(C) \subseteq PlacesIn(C \cup D)
  BY PlacesJoin

(* A query that has begun to rank has an empty list.                       *)
LEMMA RankingBegins ==
    ASSUME Typed, Candidates, Tops, Candidates', phase \in Stages, phase \notin Ranking,
           UNCHANGED <<query, ranked, best>>,
           phase' \notin {"hydrate", "answered"}
    PROVE  Tops'
<1>1. best = <<>> /\ ranked = 0
  BY DEF Tops
<1>2. query.limit \in Nat
  BY QueryIs
<1>3. ids' \in Seq(Posted') /\ Len(ids') \in Nat
  <2>1. ids' \in Seq(Posted')
    BY DEF Candidates
  <2>2. PICK S : S = Posted'
    OBVIOUS
  <2> QED BY <2>1, <2>2
<1>4. 0 \in 0 .. Len(ids')
  BY <1>3
<1>5. IsTop(<<>>, Scores', <<>>, Len(<<>>), query.limit)
  BY <1>2, EmptyIs, EmptyIsTop
<1>6. <<>> \in Seq(Scored(Ids')) /\ <<>> \in Seq(Ids') /\ ToSet(<<>>) = {}
  BY EmptyIs
<1>7. Places(<<>>, ids', 0, Ids')
  <2>1. Apart(<<>>) /\ \A x : x \notin 1 .. 0
    BY DEF Apart
  <2> QED BY <1>6, <2>1 DEF Places
<1>8. Tops'
  BY <1>1, <1>4, <1>5, <1>6, <1>7 DEF Tops
<1> QED BY <1>8

LEMMA CollectKeeps ==
    ASSUME IInv, Collect
    PROVE  IInv'
<1> USE DEF Collect
<1>1. Typed /\ Layers /\ Candidates /\ Tops /\ Answers
  BY DEF IInv
<1>2. /\ phase \in {"own", "ring 1", "ring 2", "coarse"}
      /\ phase' = CASE phase = "own" -> "ring 1"
                    [] phase = "ring 1" -> "ring 2"
                    [] phase = "ring 2" -> "coarse"
                    [] phase = "coarse" -> "rank"
  BY DEF NextStage
<1>3. /\ phase \in Stages /\ phase' \in Stages /\ phase \notin Ranking
      /\ phase' \in Ranking <=> phase' = "rank"
      /\ phase' \notin {"collect", "built", "refused", "own", "hydrate", "answered"}
  BY <1>2 DEF Stages, Ranking
<1>4. /\ Typed' /\ Layers' /\ InReach' = InReach /\ Posted' = Posted /\ damaged' = damaged
      /\ \A C : PlacesIn(C)' = PlacesIn(C)
  BY <1>1, <1>3, QueryKept, BuildKept DEF build
<1>5. PICK new : new = LookedUp
  OBVIOUS
<1>6. /\ new \in Seq(Posted)
      /\ ~damaged =>
             /\ phase = "own" => ToSet(new) = PlacesIn({query.cell})
             /\ phase = "ring 1" => ToSet(new) = PlacesIn(Around(1))
             /\ phase = "ring 2" => ToSet(new) = PlacesIn(Around(2))
             /\ phase = "coarse" => ToSet(new) = IdsWith(CoarseCells, query.coarse)
  BY <1>1, <1>5, LookedUpIs
<1>7. /\ ids' \in Seq(Posted) /\ IsInjective(ids')
      /\ ToSet(ids') = ToSet(ids) \cup ToSet(new)
  <2>1. ids \in Seq(Posted) /\ IsInjective(ids) /\ ids' = Found(ids, new) /\ new \in Seq(Posted)
    BY <1>1, <1>5, <1>6 DEF Candidates
  <2>2. PICK S : S = Posted
    OBVIOUS
  <2>3. ids \in Seq(S) /\ new \in Seq(S)
    BY <2>1, <2>2
  <2>4. /\ Found(ids, new) \in Seq(S) /\ IsInjective(Found(ids, new))
        /\ ToSet(Found(ids, new)) = ToSet(ids) \cup ToSet(new)
    <3> HIDE DEF Collect
    <3> QED BY <2>1, <2>3, FoundElements
  <2> QED BY <2>1, <2>2, <2>4
<1>8. Candidates'
  <2>1. ~damaged /\ phase = "own" => ToSet(ids') = PlacesIn(Visited("ring 1"))
    <3>1. phase = "own" => ToSet(ids) = {}
      BY <1>1, EmptyIs DEF Candidates
    <3> QED BY <1>6, <1>7, <3>1, VisitedAre
  <2>2. ~damaged /\ phase = "ring 1" => ToSet(ids') = PlacesIn(Visited("ring 2"))
    <3>1. ~damaged /\ phase = "ring 1" => ToSet(ids) = PlacesIn({query.cell})
      BY <1>1, VisitedAre DEF Candidates
    <3>2. PlacesIn(Visited("ring 2")) = PlacesIn({query.cell}) \cup PlacesIn(Around(1))
      BY VisitedAre, PlacesJoin
    <3> QED BY <1>6, <1>7, <3>1, <3>2
  <2>3. ~damaged /\ phase = "ring 2" => ToSet(ids') = PlacesIn(Visited("coarse"))
    <3>1. ~damaged /\ phase = "ring 2" => ToSet(ids) = PlacesIn({query.cell} \cup Around(1))
      BY <1>1, VisitedAre DEF Candidates
    <3>2. PlacesIn(Visited("coarse"))
              = PlacesIn({query.cell} \cup Around(1)) \cup PlacesIn(Around(2))
      BY VisitedAre, PlacesJoin
    <3> QED BY <1>6, <1>7, <3>1, <3>2
  <2>4. ~damaged /\ phase = "coarse" => ToSet(ids') = InReach
    <3>1. ~damaged /\ phase = "coarse" =>
              ToSet(ids) = PlacesIn({query.cell} \cup Around(1) \cup Around(2))
      BY <1>1, VisitedAre DEF Candidates
    <3> QED BY <1>6, <1>7, <3>1, InReachIs
  <2>5. \A s : Visited(s)' = Visited(s)
    BY DEF Visited
  <2>6. ~damaged' /\ phase' \in {"ring 1", "ring 2", "coarse"}
            => ToSet(ids') = PlacesIn(Visited(phase'))
    BY <1>2, <1>4, <2>1, <2>2, <2>3
  <2>7. PlacesIn(Visited(phase))' = PlacesIn(Visited(phase'))
    BY <1>4 DEF PlacesIn, Visited, build
  <2>8. ~damaged' /\ phase' = "rank" => ToSet(ids') = InReach'
    BY <1>2, <1>4, <2>4
  <2> QED BY <1>3, <1>4, <1>7, <2>6, <2>7, <2>8 DEF Candidates
<1>9. Tops'
  BY <1>1, <1>3, <1>8, RankingBegins
<1>10. Answers'
  BY <1>1, <1>2, <1>3 DEF Answers
<1> QED BY <1>4, <1>8, <1>9, <1>10 DEF IInv

LEMMA EnoughKeeps ==
    ASSUME IInv, EnoughFound
    PROVE  IInv'
<1> USE DEF EnoughFound
<1>1. Typed /\ Layers /\ Candidates /\ Tops /\ Answers
  BY DEF IInv
<1>2. /\ phase \in Stages /\ phase' \in Stages /\ phase \notin Ranking /\ phase' \in Ranking
      /\ phase' = "rank"
  BY DEF Stages, Ranking
<1>3. Typed' /\ Layers' /\ InReach' = InReach /\ Posted' = Posted /\ damaged' = damaged
  BY <1>1, <1>2, QueryKept, BuildKept DEF build
<1>4. Candidates'
  <2>1. ~damaged => ToSet(ids) \subseteq InReach
    <3>1. PlacesIn(Visited(phase)) \subseteq
              PlacesIn({query.cell} \cup Around(1) \cup Around(2))
      BY WiderReach, VisitedAre
    <3> QED BY <1>1, <3>1, InReachIs DEF Candidates
  <2> QED BY <1>1, <1>2, <1>3, <2>1 DEF Candidates
<1>5. Tops'
  BY <1>1, <1>2, <1>4, RankingBegins
<1>6. Answers'
  BY <1>1, <1>2 DEF Answers
<1> QED BY <1>3, <1>4, <1>5, <1>6 DEF IInv
-----------------------------------------------------------------------------
LEMMA InjectiveIsApart ==
    ASSUME NEW S, NEW q \in Seq(S), IsInjective(q)
    PROVE  Apart(q)
<1>1. DOMAIN q = 1 .. Len(q)
  OBVIOUS
<1> QED BY <1>1 DEF IsInjective, Apart

LEMMA ScoresAre ==
    ASSUME Typed, phase \in Stages
    PROVE  \A id \in Ids : Scores[id] = Score(id) /\ Scores[id] \in Nat
<1>1. SUFFICES ASSUME NEW id \in Ids PROVE Score(id) \in Nat
  BY DEF Scores
<1>2. places \in Seq(Place) /\ query.cell \in Cells
  BY QueryIs DEF Typed
<1>3. places[id + 1].cell \in Cells /\ places[id + 1].importance \in Nat
  BY <1>2, IdsAre, PlaceIs, BoundsAssumption
<1>4. Nearness[query.cell][places[id + 1].cell] \in Nat
  BY <1>2, <1>3, NearnessAssumption
<1> QED BY <1>3, <1>4 DEF Score

(* One more candidate that is a place: push_best keeps its list the best   *)
(* of all that it has seen.                                                *)
LEMMA PushSeesMore ==
    ASSUME NEW I, NEW kept, NEW cand, Apart(cand), Len(cand) \in Nat,
           NEW m \in Nat, m + 1 \in 1 .. Len(cand),
           Places(kept, cand, m, I), NEW x \in I, x = cand[m + 1],
           NEW sc, \A id \in I : sc[id] \in Nat, query.limit \in Nat \ {0},
           NEW list \in Seq(Scored(I)), IsTop(list, sc, kept, Len(kept), query.limit),
           NEW t, t = PushBest(list, sc[x], x)
    PROVE  t \in Seq(Scored(I)) /\ \E q : /\ Places(q, cand, m + 1, I)
                                         /\ IsTop(t, sc, q, Len(q), query.limit)
<1>1. PICK q : q = Append(kept, x)
  OBVIOUS
<1>2. kept \in Seq(I) /\ q = Append(kept, x)
  BY <1>1 DEF Places
<1>3. PICK n \in Nat : n = Len(kept) /\ DOMAIN kept = 1 .. n
  BY <1>2
<1>4. /\ q \in Seq(I) /\ Len(q) = n + 1 /\ DOMAIN q = 1 .. n + 1
      /\ \A k \in 1 .. n : q[k] = kept[k]
      /\ q[n + 1] = x
  BY <1>2, <1>3
<1>5. \A k \in 1 .. n : kept[k] \in I /\ kept[k] # x
  <2>1. SUFFICES ASSUME NEW k \in 1 .. n PROVE kept[k] \in I /\ kept[k] # x
    OBVIOUS
  <2>2. kept[k] \in I /\ kept[k] \in ToSet(kept)
    BY <1>2, <1>3 DEF ToSet
  <2>3. PICK i \in 1 .. m : cand[i] = kept[k]
    BY <2>2 DEF Places
  <2>4. i \in 1 .. Len(cand) /\ i # m + 1
    OBVIOUS
  <2> QED BY <1>1, <2>2, <2>3, <2>4 DEF Apart
<1>6. Apart(q)
  <2>1. SUFFICES ASSUME NEW i \in 1 .. n + 1, NEW j \in 1 .. n + 1, i # j PROVE q[i] # q[j]
    BY <1>4 DEF Apart
  <2>2. (i \in 1 .. n \/ i = n + 1) /\ (j \in 1 .. n \/ j = n + 1)
    OBVIOUS
  <2>3. i \in 1 .. n /\ j \in 1 .. n => kept[i] # kept[j]
    BY <1>3, <2>1 DEF Places, Apart
  <2> QED BY <1>4, <1>5, <2>1, <2>2, <2>3
<1>7. \A y : y \in ToSet(q) <=> y \in ToSet(kept) \/ y = x
  <2>1. \A y : y \in ToSet(kept) <=> \E k \in 1 .. n : kept[k] = y
    BY <1>3 DEF ToSet
  <2>2. \A y : y \in ToSet(q) <=> \E k \in 1 .. n + 1 : q[k] = y
    BY <1>4 DEF ToSet
  <2>3. n + 1 \in 1 .. n + 1 /\ \A k \in 1 .. n + 1 : k \in 1 .. n \/ k = n + 1
    OBVIOUS
  <2>4. \A k \in 1 .. n : k \in 1 .. n + 1
    OBVIOUS
  <2> QED BY <1>4, <2>1, <2>2, <2>3, <2>4
<1>8. ASSUME NEW y \in I PROVE y \in ToSet(q) <=> \E k \in 1 .. m + 1 : cand[k] = y
  <2>1. y \in ToSet(kept) <=> \E k \in 1 .. m : cand[k] = y
    BY DEF Places
  <2>2. m + 1 \in 1 .. m + 1 /\ \A k \in 1 .. m + 1 : k \in 1 .. m \/ k = m + 1
    OBVIOUS
  <2>3. \A k \in 1 .. m : k \in 1 .. m + 1
    OBVIOUS
  <2> QED BY <1>1, <1>7, <2>1, <2>2, <2>3
<1>9. Places(q, cand, m + 1, I)
  BY <1>4, <1>6, <1>8 DEF Places
<1>10. IsTop(list, sc, kept, n, query.limit)
  BY <1>3
<1>11. IsTop(list, sc, q, n, query.limit)
  <2>1. PICK limit : limit = query.limit
    OBVIOUS
  <2>2. /\ FillsUpTo(list, n, limit) /\ OwnScores(list, sc) /\ Ordered(list)
        /\ Seen(list, kept, n) /\ Beaten(list, sc, kept, n, limit)
    BY <1>10, <2>1 DEF IsTop
  <2>3. \A k \in 1 .. n : q[k] = kept[k]
    BY <1>4
  <2>4. Seen(list, q, n)
    BY <2>2, <2>3 DEF Seen
  <2>5. Beaten(list, sc, q, n, limit)
    BY <2>2, <2>3 DEF Beaten
  <2> QED BY <2>1, <2>2, <2>4, <2>5 DEF IsTop
<1>12. /\ q \in Seq(I) /\ Apart(q) /\ n + 1 <= Len(q)
       /\ t = PushBest(list, sc[q[n + 1]], q[n + 1])
  BY <1>4, <1>6
<1>13. t \in Seq(Scored(I)) /\ IsTop(t, sc, q, n + 1, query.limit)
  BY <1>11, <1>12, PushKeepsTop
<1>14. IsTop(t, sc, q, Len(q), query.limit)
  BY <1>4, <1>13
<1> QED BY <1>9, <1>13, <1>14

LEMMA RankKeeps ==
    ASSUME IInv, Rank
    PROVE  IInv'
<1>1. Typed /\ Layers /\ Candidates /\ Tops /\ Answers
  BY DEF IInv
<1>2. /\ phase = "rank" /\ phase \in Stages /\ phase \in Ranking
      /\ phase' \in {"rank", "hydrate"} /\ phase' \in Stages /\ phase' \in Ranking
      /\ UNCHANGED <<query, ids, hits>> /\ UNCHANGED build
  BY DEF Rank, Stages, Ranking
<1>3. Typed' /\ Layers' /\ InReach' = InReach /\ Ids' = Ids /\ Scores' = Scores
      /\ Posted' = Posted /\ damaged' = damaged
  BY <1>1, <1>2, QueryKept, BuildKept DEF build
<1>4. Candidates'
  BY <1>1, <1>2, <1>3 DEF Candidates
<1>5. Answers'
  BY <1>1, <1>2 DEF Answers
<1>6. Tops'
  <2>1. /\ best \in Seq(Scored(Ids)) /\ ranked \in 0 .. Len(ids)
        /\ query.limit \in Nat \ {0}
    BY <1>1, <1>2, QueryIs DEF Tops
  <2>2. PICK kept : /\ Places(kept, ids, ranked, Ids)
                    /\ IsTop(best, Scores, kept, Len(kept), query.limit)
    BY <1>1, <1>2 DEF Tops
  <2>3. CASE ranked = Len(ids)
    <3>1. UNCHANGED <<ranked, best>>
      BY <2>3 DEF Rank
    <3> QED BY <1>2, <1>3, <2>1, <2>2, <2>3, <3>1 DEF Tops
  <2>4. CASE ranked # Len(ids)
    <3>1. PICK S, sc : S = Ids /\ sc = Scores
      OBVIOUS
    <3>2. PICK P : P = Posted
      OBVIOUS
    <3>3. ids \in Seq(P) /\ IsInjective(ids) /\ Len(ids) \in Nat
      BY <1>1, <3>2, CandidatesAre
    <3>4. PICK m \in Nat : m = ranked /\ m + 1 \in 1 .. Len(ids)
      BY <2>1, <2>4, <3>3
    <3>5. /\ ranked' = m + 1 /\ phase' = "rank"
          /\ best' = IF ids[m + 1] \in Ids
                     THEN PushBest(best, Score(ids[m + 1]), ids[m + 1]) ELSE best
      BY <1>2, <2>4, <3>4 DEF Rank
    <3>6. \A id \in S : sc[id] = Score(id) /\ sc[id] \in Nat
      BY <1>1, <1>2, <3>1, ScoresAre
    <3>7. Apart(ids)
      BY <3>3, InjectiveIsApart
    <3>8. best' \in Seq(Scored(S)) /\ \E q : /\ Places(q, ids, m + 1, S)
                                            /\ IsTop(best', sc, q, Len(q), query.limit)
      <4>1. CASE ids[m + 1] \in Ids
        <5>1. PICK x \in S : x = ids[m + 1]
          BY <3>1, <4>1
        <5>2. PICK t : t = best' /\ t = PushBest(best, sc[x], x)
          BY <3>5, <3>6, <4>1, <5>1
        <5>3. Places(kept, ids, m, S) /\ IsTop(best, sc, kept, Len(kept), query.limit)
              /\ best \in Seq(Scored(S))
          BY <2>1, <2>2, <3>1, <3>4
        <5>4. \A id \in S : sc[id] \in Nat
          BY <3>6
        <5>5. t \in Seq(Scored(S)) /\ \E q : /\ Places(q, ids, m + 1, S)
                                            /\ IsTop(t, sc, q, Len(q), query.limit)
          BY <2>1, <3>3, <3>4, <3>7, <5>1, <5>2, <5>3, <5>4, PushSeesMore
        <5> QED BY <5>2, <5>5
      <4>2. CASE ids[m + 1] \notin Ids
        <5>1. best' = best
          BY <3>5, <4>2
        <5>2. Places(kept, ids, m + 1, S)
          <6>1. Places(kept, ids, m, S) /\ ids[m + 1] \notin S
            BY <2>2, <3>1, <3>4, <4>2
          <6>2. \A k \in 1 .. m + 1 : k \in 1 .. m \/ k = m + 1
            OBVIOUS
          <6>3. \A k \in 1 .. m : k \in 1 .. m + 1
            OBVIOUS
          <6> QED BY <6>1, <6>2, <6>3 DEF Places
        <5> QED BY <2>1, <2>2, <3>1, <5>1, <5>2
      <4> QED BY <4>1, <4>2
    <3>9. Tops'
      BY <1>2, <1>3, <3>1, <3>3, <3>4, <3>5, <3>8 DEF Tops
    <3> QED BY <3>9
  <2> QED BY <2>3, <2>4
<1> QED BY <1>3, <1>4, <1>5, <1>6 DEF IInv

LEMMA HydrateKeeps ==
    ASSUME IInv, Hydrate
    PROVE  IInv'
<1> USE DEF Hydrate
<1>1. Typed /\ Layers /\ Candidates /\ Tops /\ Answers
  BY DEF IInv
<1>2. /\ phase = "hydrate" /\ phase \in Stages /\ phase \in Ranking
      /\ phase' = "answered" /\ phase' \in Stages /\ phase' \in Ranking
      /\ UNCHANGED <<query, ids, ranked, best>> /\ UNCHANGED build
  BY DEF Stages, Ranking
<1>3. Typed' /\ Layers' /\ InReach' = InReach /\ Ids' = Ids /\ Scores' = Scores
      /\ Posted' = Posted /\ damaged' = damaged /\ lost' = lost
  BY <1>1, <1>2, QueryKept, BuildKept DEF build
<1>4. Candidates'
  BY <1>1, <1>2, <1>3 DEF Candidates
<1>5. Tops'
  BY <1>1, <1>2, <1>3 DEF Tops
<1>6. Answers'
  BY <1>2, <1>3 DEF Answers, Given
<1> QED BY <1>3, <1>4, <1>5, <1>6 DEF IInv

(* The layers, the candidates and the list stay what they should be.       *)
THEOREM ReverseSearchInvariant == Spec => []IInv
<1>1. IInv /\ [Next]_vars => IInv'
  <2> SUFFICES ASSUME IInv, [Next]_vars PROVE IInv'
    OBVIOUS
  <2>1. CASE \E c \in Cells, m \in Importances : \E w \in Coarse[c] : Push(c, w, m)
    BY <2>1, PushKeeps
  <2>2. CASE BuildIndex
    BY <2>2, BuildKeeps
  <2>3. CASE DamageFiles
    BY <2>3, DamageKeeps
  <2>4. CASE Open
    BY <2>4, OpenKeeps
  <2>5. CASE Collect
    BY <2>5, CollectKeeps
  <2>6. CASE EnoughFound
    BY <2>6, EnoughKeeps
  <2>7. CASE Rank
    BY <2>7, RankKeeps
  <2>8. CASE Hydrate
    BY <2>8, HydrateKeeps
  <2>9. CASE UNCHANGED vars
    BY <2>9 DEF vars, IInv, Typed, Layers, Candidates, Tops, Answers, Given, Ids,
                Posted, BuiltFine, BuiltCoarse, Entries, FineCells, CoarseCells, PlacesIn,
                Visited, InReach, Scores, Score
  <2> QED BY <2>1, <2>2, <2>3, <2>4, <2>5, <2>6, <2>7, <2>8, <2>9 DEF Next
<1> QED BY <1>1, InitIInv, PTL DEF Spec
-----------------------------------------------------------------------------
(* What the answer is made of.                                             *)
LEMMA GivenIs ==
    ASSUME Tops
    PROVE  /\ Given \in Seq(Scored(Ids))
           /\ lost = {} => /\ Len(Given) = Len(best)
                           /\ \A k \in 1 .. Len(best) : Given[k] = best[k]
<1> DEFINE P == {n \in DOMAIN best : best[n].id \notin lost}
<1>1. PICK S : S = Scored(Ids)
  OBVIOUS
<1>2. best \in Seq(S)
  BY <1>1 DEF Tops
<1>3. P \in SUBSET (DOMAIN best) /\ Given = Picked(best, P)
  BY DEF Given
<1>4. Given \in Seq(S)
  <2> HIDE DEF P
  <2> QED BY <1>2, <1>3, PickedElements
<1>5. ASSUME lost = {}
      PROVE  Len(Given) = Len(best) /\ \A k \in 1 .. Len(best) : Given[k] = best[k]
  <2>1. PICK m \in Nat : m = Len(best) /\ DOMAIN best = 1 .. m
    BY <1>2
  <2>2. P = 1 .. m
    BY <1>5, <2>1
  <2>3. PICK c, f, g : c = Cardinality(P) /\ f = Increasing(P) /\ g = Given
    OBVIOUS
  <2>4. /\ Len(g) = c
        /\ \A k \in 1 .. c : f[k] \in P /\ g[k] = best[f[k]]
        /\ \A j, k \in 1 .. c : j < k => f[j] < f[k]
    <3> HIDE DEF P
    <3> QED BY <1>2, <1>3, <2>3, PickedElements
  <2>5. c = m
    <3>1. Cardinality(1 .. m) = IF 1 > m THEN 0 ELSE m - 1 + 1
      BY FS_Interval
    <3>2. Cardinality(1 .. m) = m
      BY <3>1
    <3> HIDE DEF P
    <3> QED BY <2>2, <2>3, <3>2
  <2>6. \A k \in 1 .. m : f[k] = k
    <3>1. \A k \in 1 .. m : f[k] \in 1 .. m
      BY <2>2, <2>4, <2>5
    <3>2. \A j, k \in 1 .. m : j < k => f[j] < f[k]
      BY <2>4, <2>5
    <3> HIDE DEF P
    <3> QED BY <3>1, <3>2, OnlyOneWay
  <2> QED BY <2>1, <2>3, <2>4, <2>5, <2>6
<1> QED BY <1>1, <1>4, <1>5
-----------------------------------------------------------------------------
LEMMA AnswerTypes ==
    ASSUME Tops, Answers
    PROVE  ToSet(hits) \subseteq Ids /\ \A n \in DOMAIN best : best[n].id \in Ids
<1>1. PICK S : S = Scored(Ids)
  OBVIOUS
<1>2. best \in Seq(S) /\ Given \in Seq(S)
  BY <1>1, GivenIs DEF Tops
<1>3. /\ \A n \in DOMAIN best : best[n] \in S
      /\ \A n \in DOMAIN Given : Given[n] \in S
  BY <1>2
<1>4. \A e \in S : e.id \in Ids
  BY <1>1 DEF Scored
<1>5. ToSet(hits) \subseteq Ids
  <2>1. CASE phase = "answered"
    <3>1. hits = [n \in DOMAIN Given |-> Given[n].id]
      BY <2>1 DEF Answers
    <3>2. \A n \in DOMAIN hits : hits[n] \in Ids
      BY <1>3, <1>4, <3>1
    <3> QED BY <3>2 DEF ToSet
  <2>2. CASE phase # "answered"
    BY <2>2, EmptyIs DEF Answers
  <2> QED BY <2>1, <2>2
<1> QED BY <1>3, <1>4, <1>5

(* Every variable has its type: in particular a query ranks and answers    *)
(* with ids of places only, though a damaged index may list others.        *)
THEOREM ReverseSearchTypes == Spec => []TypeOK
<1>1. IInv => TypeOK
  <2> SUFFICES ASSUME IInv PROVE TypeOK
    OBVIOUS
  <2>1. Typed /\ Candidates /\ Tops /\ Answers
    BY DEF IInv
  <2>2. ToSet(ids) \subseteq 0 .. Len(places)
    <3>1. PICK S : S = Posted
      OBVIOUS
    <3>2. ids \in Seq(S)
      BY <2>1, <3>1, CandidatesAre
    <3>3. ToSet(ids) \subseteq S
      BY <3>2 DEF ToSet
    <3> QED BY <3>1, <3>3 DEF Posted
  <2>3. query.cell \in Cells \cup {0} /\ query.limit \in 0 .. MaxLimit
    <3>1. CASE phase \in Stages
      <4>1. query.cell \in Cells /\ query.limit \in 1 .. MaxLimit
        BY <2>1, <3>1, QueryIs
      <4> QED BY <4>1, BoundsAssumption
    <3>2. CASE phase \notin Stages
      BY <2>1, <3>2, BoundsAssumption DEF Typed, NoQuery
    <3> QED BY <3>1, <3>2
  <2>4. phase \in Phases /\ damaged \in BOOLEAN /\ lost \subseteq Ids
    BY <2>1 DEF Typed
  <2>5. places \in Seq([cell : Cells, coarse : Nat, importance : Importances])
    BY <2>1 DEF Typed, Place
  <2>6. ranked \in 0 .. Len(ids)
    BY <2>1 DEF Tops
  <2>7. ToSet(hits) \subseteq Ids /\ \A n \in DOMAIN best : best[n].id \in Ids
    BY <2>1, AnswerTypes
  <2> QED BY <2>2, <2>3, <2>4, <2>5, <2>6, <2>7 DEF TypeOK
<1> QED BY <1>1, ReverseSearchInvariant, PTL

(* Looking up a cell in an undamaged index gives exactly its places, each  *)
(* once, the most important first, whatever the grid and the places are.   *)
THEOREM ReverseSearchLookup == Spec => []LookupIsExact
<1>1. IInv => LookupIsExact
  <2> SUFFICES ASSUME IInv, phase \in Stages, ~damaged, NEW c \in Cells,
                      NEW found, found = LookupCellIds(fine, c)
               PROVE  /\ ToSet(found) = {n - 1 : n \in {m \in DOMAIN places : places[m].cell = c}}
                      /\ IsInjective(found)
                      /\ \A i, j \in DOMAIN found : i < j =>
                             places[found[i] + 1].importance >= places[found[j] + 1].importance
    BY DEF LookupIsExact
  <2>1. /\ places \in Seq(Place) /\ fine = Layer(Entries(FineCells))
        /\ Sound(fine, Posted) /\ Admits(fine) /\ c \in Nat
    BY CellsAssumption DEF IInv, Typed, Layers, Stages, BuiltFine
  <2>2. ToSet(found) = IdsWith(FineCells, c)
    BY <2>1, CellsAre, LookupGives
  <2>3. \A i, j \in DOMAIN found : i < j =>
            places[found[i] + 1].importance >= places[found[j] + 1].importance
    BY <2>1, CellsAre, LookupGives
  <2>4. IsInjective(found)
    BY <2>1, IdsAre, LookupIsSound
  <2>5. \A m \in DOMAIN places : FineCells[m] = places[m].cell
    BY DEF FineCells
  <2> QED BY <2>2, <2>3, <2>4, <2>5 DEF IdsWith
<1> QED BY <1>1, ReverseSearchInvariant, PTL

(* Whatever the damage, an index that open admits is read inside its       *)
(* columns, and no place is listed under two cells.                        *)
THEOREM ReverseSearchSound == Spec => []AdmittedLayersAreSound
<1>1. IInv => AdmittedLayersAreSound
  <2> SUFFICES ASSUME IInv, phase \in Stages
               PROVE  /\ \A c \in Cells : LookupCellIds(fine, c) # Unreadable
                      /\ \A c, d \in Cells : c # d =>
                             ToSet(LookupCellIds(fine, c)) \cap ToSet(LookupCellIds(fine, d)) = {}
    BY DEF AdmittedLayersAreSound
  <2>1. places \in Seq(Place) /\ Sound(fine, Posted) /\ Admits(fine)
    BY DEF IInv, Typed, Layers, Stages
  <2>2. \A c \in Cells : c \in Nat
    BY CellsAssumption
  <2>3. \A c \in Cells : LookupCellIds(fine, c) # Unreadable
    BY <2>1, <2>2, IdsAre, LookupIsSound
  <2>4. \A c, d \in Cells : c # d =>
            ToSet(LookupCellIds(fine, c)) \cap ToSet(LookupCellIds(fine, d)) = {}
    BY <2>1, <2>2, LookupsApart
  <2> QED BY <2>3, <2>4
<1> QED BY <1>1, ReverseSearchInvariant, PTL
-----------------------------------------------------------------------------
(* A list without repetition is as long as its set of elements is large.   *)
LEMMA ApartCardinality ==
    ASSUME NEW S, NEW q \in Seq(S), IsInjective(q)
    PROVE  IsFiniteSet(ToSet(q)) /\ Cardinality(ToSet(q)) = Len(q)
<1>1. PICK m \in Nat : m = Len(q) /\ DOMAIN q = 1 .. m /\ q \in [1 .. m -> S]
  BY LenProperties
<1>2. q \in [1 .. m -> ToSet(q)]
  <2>1. \A k \in 1 .. m : q[k] \in ToSet(q)
    BY <1>1 DEF ToSet
  <2> QED BY <1>1, <2>1
<1>3. q \in Surjection(1 .. m, ToSet(q)) /\ q \in Injection(1 .. m, ToSet(q))
  <2>1. \A t \in ToSet(q) : \E k \in 1 .. m : q[k] = t
    BY <1>1 DEF ToSet
  <2>2. \A a, b \in 1 .. m : q[a] = q[b] => a = b
    BY <1>1 DEF IsInjective
  <2> QED BY <1>2, <2>1, <2>2 DEF Surjection, Injection
<1>4. IsFiniteSet(1 .. m) /\ Cardinality(1 .. m) = m
  BY FS_Interval
<1>5. PICK T : T = ToSet(q)
  OBVIOUS
<1>6. IsFiniteSet(T) /\ Cardinality(T) = m
  BY <1>3, <1>4, <1>5, FS_Surjection
<1> QED BY <1>1, <1>5, <1>6

(* The places that push_best has seen.                                     *)
Considered == {ids[k] : k \in 1 .. ranked} \cap Ids

LEMMA SeenIs ==
    ASSUME Candidates, ranked \in 0 .. Len(ids)
    PROVE  ToSet(SubSeq(ids, 1, ranked)) \cap Ids = Considered
<1>1. PICK S : S = Posted
  OBVIOUS
<1>2. PICK n \in Nat : n = Len(ids) /\ ids \in [1 .. n -> S]
  BY <1>1, CandidatesAre, LenProperties
<1>3. PICK t : t = SubSeq(ids, 1, ranked)
  OBVIOUS
<1>4. DOMAIN t = 1 .. ranked /\ \A i \in 1 .. ranked : t[i] = ids[i]
  BY <1>2, <1>3, Beginning
<1>5. ToSet(t) = {ids[k] : k \in 1 .. ranked}
  BY <1>4 DEF ToSet
<1> QED BY <1>3, <1>5 DEF Considered

LEMMA BestWhileRanking ==
    ASSUME IInv, phase \in Ranking
    PROVE  /\ Len(best) \in Nat /\ DOMAIN best = 1 .. Len(best)
           /\ IsFiniteSet(Considered) /\ Cardinality(Considered) \in Nat /\ query.limit \in Nat
           /\ Len(best) = Min({query.limit, Cardinality(Considered)})
           /\ \A j \in 1 .. Len(best) : best[j].score = Score(best[j].id)
           /\ \A j \in 1 .. Len(best) : best[j].score \in Nat
           /\ \A j \in 1 .. Len(best) : best[j].id \in Considered
           /\ \A b \in Considered : \/ \E j \in 1 .. Len(best) : best[j].id = b
                                    \/ \A j \in 1 .. Len(best) : best[j].score >= Score(b)
           /\ Ordered(best)
<1>1. Typed /\ Candidates /\ Tops /\ phase \in Stages
  BY DEF IInv, Ranking, Stages
<1>2. PICK S, I : S = Scored(Ids) /\ I = Ids
  OBVIOUS
<1>3. PICK kept : /\ Places(kept, ids, ranked, I)
                  /\ IsTop(best, Scores, kept, Len(kept), query.limit)
  BY <1>1, <1>2 DEF Tops
<1>4. best \in Seq(S)
  BY <1>1, <1>2 DEF Tops
<1>5. Len(best) \in Nat /\ DOMAIN best = 1 .. Len(best) /\ \A j \in 1 .. Len(best) : best[j] \in S
  BY <1>4
<1>6. query.limit \in Nat
  BY <1>1, QueryIs
<1>7. PICK n \in Nat : /\ n = Len(kept) /\ DOMAIN kept = 1 .. n
                       /\ kept \in Seq(I) /\ \A k \in 1 .. n : kept[k] \in I
  BY <1>3 DEF Places
<1>8. ToSet(kept) = {kept[k] : k \in 1 .. n}
  BY <1>7 DEF ToSet
<1>9. ToSet(kept) = Considered
  <2>1. \A x \in I : x \in ToSet(kept) <=> x \in Considered
    BY <1>2, <1>3 DEF Places, Considered
  <2>2. ToSet(kept) \subseteq I /\ Considered \subseteq I
    BY <1>2, <1>7, <1>8 DEF Considered
  <2> QED BY <2>1, <2>2
<1>10. IsFiniteSet(Considered) /\ Cardinality(Considered) = n
  <2>1. IsInjective(kept)
    BY <1>3, <1>7 DEF Places, Apart, IsInjective
  <2> QED BY <1>7, <1>9, <2>1, ApartCardinality
<1>11. Len(best) = Min({query.limit, n})
  <2>1. Len(best) = IF n < query.limit THEN n ELSE query.limit
    BY <1>3, <1>7 DEF IsTop, FillsUpTo
  <2> QED BY <1>6, <2>1, MinOfTwo
<1>12. \A j \in 1 .. Len(best) : best[j].id \in Ids /\ best[j].score \in Nat
  BY <1>2, <1>5 DEF Scored
<1>13. /\ OwnScores(best, Scores) /\ Seen(best, kept, n) /\ Ordered(best)
       /\ Beaten(best, Scores, kept, n, query.limit)
  BY <1>3, <1>7 DEF IsTop
<1>14. \A j \in 1 .. Len(best) : best[j].score = Score(best[j].id)
  BY <1>1, <1>12, <1>13, ScoresAre DEF OwnScores
<1>15. \A j \in 1 .. Len(best) : best[j].id \in Considered
  BY <1>8, <1>9, <1>13 DEF Seen
<1>16. ASSUME NEW b \in Considered
       PROVE  \/ \E j \in 1 .. Len(best) : best[j].id = b
              \/ \A j \in 1 .. Len(best) : best[j].score >= Score(b)
  <2>1. PICK k \in 1 .. n : b = kept[k]
    BY <1>8, <1>9
  <2>2. Scores[b] = Score(b)
    BY <1>1, <1>2, <1>7, <2>1, ScoresAre
  <2> QED BY <1>13, <2>1, <2>2 DEF Beaten
<1> QED BY <1>5, <1>6, <1>10, <1>11, <1>12, <1>13, <1>14, <1>15, <1>16

(* While push_best runs, its list is as long as it may be and holds the    *)
(* best of the places it has seen: nobody left out beats anybody that is   *)
(* in.                                                                     *)
THEOREM ReverseSearchBest == Spec => []BestIsTop
<1>1. IInv => BestIsTop
  <2> SUFFICES ASSUME IInv PROVE BestIsTop
    OBVIOUS
  <2>1. Typed /\ Candidates /\ Tops
    BY DEF IInv
  <2>2. ToSet(SubSeq(ids, 1, ranked)) \cap Ids = Considered
    BY <2>1, SeenIs DEF Tops
  <2>3. CASE phase \in Ranking
    <3>1. PICK n \in Nat : n = Len(best) /\ DOMAIN best = 1 .. n
      BY <2>3, BestWhileRanking
    <3>2. \A a : a \in {best[j].id : j \in DOMAIN best} <=> \E j \in 1 .. n : best[j].id = a
      BY <3>1
    <3>3. \A j \in 1 .. n : best[j].id \in Considered /\ best[j].score = Score(best[j].id)
      BY <2>3, <3>1, BestWhileRanking
    <3>4. \A b \in Considered : \/ \E j \in 1 .. n : best[j].id = b
                               \/ \A j \in 1 .. n : best[j].score >= Score(b)
      BY <2>3, <3>1, BestWhileRanking
    <3>5. n = Min({query.limit, Cardinality(Considered)})
      BY <2>3, <3>1, BestWhileRanking
    <3>6. {best[j].id : j \in DOMAIN best} \subseteq Considered
      BY <3>2, <3>3
    <3>7. ASSUME NEW a \in {best[j].id : j \in DOMAIN best},
                 NEW b \in Considered \ {best[j].id : j \in DOMAIN best}
          PROVE  Score(a) >= Score(b)
      <4>1. PICK j \in 1 .. n : best[j].id = a
        BY <3>2
      <4>2. ~\E i \in 1 .. n : best[i].id = b
        BY <3>2
      <4> QED BY <3>3, <3>4, <4>1, <4>2
    <3> QED BY <2>2, <3>1, <3>5, <3>6, <3>7 DEF BestIsTop
  <2>4. CASE phase \notin Ranking
    <3>1. ranked = 0 /\ best = <<>>
      BY <2>1, <2>4 DEF Tops
    <3>2. query.limit \in Nat
      <4>1. phase \notin Stages => query.limit = 0
        BY <2>1 DEF Typed, NoQuery
      <4> QED BY <2>1, <4>1, QueryIs
    <3>3. Considered = {} /\ Cardinality(Considered) = 0
      <4>1. Considered = {}
        BY <3>1 DEF Considered
      <4> QED BY <4>1, FS_EmptySet
    <3>4. Len(best) = Min({query.limit, Cardinality(Considered)})
      BY <3>1, <3>2, <3>3, EmptyIs, MinOfTwo
    <3>5. {best[n].id : n \in DOMAIN best} = {}
      BY <3>1
    <3> QED BY <2>2, <3>4, <3>5 DEF BestIsTop
  <2> QED BY <2>3, <2>4
<1> QED BY <1>1, ReverseSearchInvariant, PTL

LEMMA ReachIsFinite ==
    ASSUME places \in Seq(Place)
    PROVE  IsFiniteSet(InReach)
<1>1. InReach \subseteq Ids
  <2>1. SUFFICES ASSUME NEW x \in InReach PROVE x \in Ids
    OBVIOUS
  <2>2. PICK n \in DOMAIN places : x = n - 1
    BY <2>1, Zenon DEF InReach
  <2> QED BY <2>2, Zenon DEF Ids
<1>2. IsFiniteSet(0 .. Len(places) - 1)
  <2>1. PICK n \in Nat : n = Len(places)
    BY PlaceIs
  <2>2. IsFiniteSet(0 .. n - 1)
    BY FS_Interval
  <2> QED BY <2>1, <2>2
<1> QED BY <1>1, <1>2, IdsAre, FS_Subset

(* The answer to a query of an undamaged index is full, has no place       *)
(* twice and none out of reach, and the best scores come first.            *)
THEOREM ReverseSearchAnswers == Spec => []AnswerIsFullAndSorted
<1>1. IInv => AnswerIsFullAndSorted
  <2> SUFFICES ASSUME IInv, phase = "answered", ~damaged
               PROVE  /\ Len(hits) = Min({query.limit, Cardinality(InReach)})
                      /\ IsInjective(hits) /\ ToSet(hits) \subseteq InReach
                      /\ \A i, j \in DOMAIN hits : i < j => Score(hits[i]) >= Score(hits[j])
    BY DEF AnswerIsFullAndSorted
  <2>1. /\ Typed /\ Layers /\ Candidates /\ Tops /\ Answers
        /\ phase \in Ranking /\ phase \in Stages
    BY DEF IInv, Ranking, Stages
  <2>2. PICK n \in Nat : /\ n = Len(best)
                         /\ n = Min({query.limit, Cardinality(Considered)})
                         /\ \A j \in 1 .. n : best[j].score = Score(best[j].id)
                         /\ \A j \in 1 .. n : best[j].score \in Nat
                         /\ \A j \in 1 .. n : best[j].id \in Considered
                         /\ Ordered(best)
    BY <2>1, BestWhileRanking
  <2>3. /\ DOMAIN hits = 1 .. n /\ Len(hits) = n
        /\ \A j \in 1 .. n : hits[j] = best[j].id
    <3>1. lost = {}
      BY <2>1 DEF Layers
    <3>2. PICK g, S : g = Given /\ S = Scored(Ids)
      OBVIOUS
    <3>3. g \in Seq(S) /\ Len(g) = n /\ \A k \in 1 .. n : g[k] = best[k]
      BY <2>1, <2>2, <3>1, <3>2, GivenIs
    <3>4. DOMAIN g = 1 .. n
      BY <3>3
    <3>5. hits = [k \in 1 .. n |-> g[k].id]
      BY <2>1, <3>2, <3>4 DEF Answers
    <3>6. Len(hits) = n
      BY <3>5
    <3> QED BY <3>3, <3>5, <3>6
  <2>4. /\ ranked = Len(ids) /\ ranked \in Nat /\ query.limit \in Nat
        /\ ids \in Seq(Posted) /\ IsInjective(ids)
    BY <2>1, BestWhileRanking, CandidatesAre DEF Tops, Candidates
  <2>5. IsFiniteSet(ToSet(ids)) /\ Cardinality(ToSet(ids)) = ranked
    BY <2>4, ApartCardinality
  <2>6. \/ ToSet(ids) = InReach
        \/ ToSet(ids) \subseteq InReach /\ ranked >= query.limit
    BY <2>1, <2>4 DEF Candidates
  <2>11. Considered = ToSet(ids)
    <3>1. PICK S : S = Posted
      OBVIOUS
    <3>2. DOMAIN ids = 1 .. ranked
      BY <2>4, <3>1
    <3>3. ToSet(ids) = {ids[k] : k \in 1 .. ranked}
      BY <3>2 DEF ToSet
    <3>4. ToSet(ids) \subseteq Ids
      BY <2>6 DEF InReach, Ids
    <3> QED BY <3>3, <3>4 DEF Considered
  <2>7. Len(hits) = Min({query.limit, Cardinality(InReach)})
    <3>1. CASE ToSet(ids) = InReach
      BY <2>2, <2>3, <2>11, <3>1
    <3>2. CASE ToSet(ids) \subseteq InReach /\ ranked >= query.limit
      <4>1. IsFiniteSet(InReach)
        BY <2>1, ReachIsFinite DEF Typed
      <4>2. ranked <= Cardinality(InReach) /\ Cardinality(InReach) \in Nat
        BY <2>5, <3>2, <4>1, FS_Subset, FS_CardinalityType
      <4>3. Min({query.limit, Cardinality(InReach)}) = query.limit
        BY <2>4, <3>2, <4>2, MinOfTwo
      <4>4. Min({query.limit, ranked}) = query.limit
        BY <2>4, <3>2, MinOfTwo
      <4> QED BY <2>2, <2>3, <2>5, <2>11, <4>3, <4>4
    <3> QED BY <2>6, <3>1, <3>2
  <2>8. IsInjective(hits)
    <3>1. ASSUME NEW i \in 1 .. n, NEW j \in 1 .. n, i < j PROVE hits[i] # hits[j]
      <4>1. best[i].id # best[j].id
        BY <2>2, <3>1 DEF Ordered
      <4> QED BY <2>3, <4>1
    <3>2. \A i, j \in 1 .. n : hits[i] = hits[j] => i = j
      BY <3>1
    <3> QED BY <2>3, <3>2 DEF IsInjective
  <2>9. ToSet(hits) \subseteq InReach
    <3>2. \A j \in 1 .. n : hits[j] \in ToSet(ids)
      BY <2>2, <2>3, <2>11
    <3> QED BY <2>3, <2>6, <3>2 DEF ToSet
  <2>10. \A i, j \in 1 .. n : i < j => Score(hits[i]) >= Score(hits[j])
    <3>1. SUFFICES ASSUME NEW i \in 1 .. n, NEW j \in 1 .. n, i < j
                   PROVE  Score(hits[i]) >= Score(hits[j])
      OBVIOUS
    <3>2. best[i].score >= best[j].score
      BY <2>2, <3>1 DEF Ordered
    <3>3. Score(hits[i]) = best[i].score /\ Score(hits[j]) = best[j].score
      BY <2>2, <2>3
    <3> QED BY <3>2, <3>3
  <2> QED BY <2>3, <2>7, <2>8, <2>9, <2>10
<1> QED BY <1>1, ReverseSearchInvariant, PTL
=============================================================================
