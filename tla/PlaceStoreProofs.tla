-------------------------- MODULE PlaceStoreProofs --------------------------
(***************************************************************************)
(* The sizes MmapPlaceStore::open computes wrap around, and yet it accepts *)
(* no count that the files do not cover: for every word, every set of      *)
(* places and every damage.  A count whose two column sizes both wrap to   *)
(* something small would have to be a multiple of Word / 8 and of Word /   *)
(* 25 at a time.  A store that is not damaged gives back what was pushed,  *)
(* and a damaged one no strings but those of the place: the offsets of the *)
(* strings are sums that rise, so each belongs to one place, and a blob    *)
(* that lost a block holds too many strings.                               *)
(***************************************************************************)
EXTENDS PlaceStore, ListsProofs

(* The largest file the import can have written.                           *)
Largest == Header + META_STRIDE * MaxPlaces

File(f) == f = [size |-> f.size, count |-> f.count, rows |-> f.rows]

SizesOK ==
    /\ places \in Seq(Places) /\ Count <= MaxPlaces
    /\ File(coords) /\ File(meta) /\ File(strings)
    /\ coords.count \in 0 .. Word - 1
    /\ coords.size \in 0 .. Largest /\ meta.size \in 0 .. Largest

(* What open compares, once it has accepted.                               *)
Measured ==
    phase = "open" =>
        /\ coords.size >= Header /\ meta.size >= Header
        /\ coords.size >= Need(coords.count, COORD_STRIDE)
        /\ meta.size >= Need(coords.count, META_STRIDE)

IInv == SizesOK /\ Measured

(* Multiplying keeps an order: the only products the argument needs.       *)
LEMMA TimesMonotone ==
    ASSUME NEW W \in Nat, NEW a \in Int, NEW b \in Int, a >= b
    PROVE  a * W >= b * W
<1>1. (a - b) * W >= 0
  OBVIOUS
<1>2. (a - b) * W = a * W - b * W
  OBVIOUS
<1> QED BY <1>1, <1>2

LEMMA DivMod ==
    ASSUME NEW W \in Nat \ {0}, NEW x \in Nat
    PROVE  \E q \in Nat : x = q * W + (x % W)
<1>1. x = (x \div W) * W + (x % W) /\ x \div W \in Nat
  OBVIOUS
<1> QED BY <1>1

(* 8 and 25 have no common divisor: q1 and q2 are how often the two sizes  *)
(* wrap, and only not at all is possible for both.                         *)
LEMMA NoCommonWrap ==
    ASSUME NEW c \in 0 .. Word - 1, NEW s \in 0 .. Largest,
           NEW m \in 0 .. Largest,
           s >= Need(c, 8), m >= Need(c, 25)
    PROVE  16 + 8 * c <= s /\ 16 + 25 * c <= m
<1> DEFINE n1 == (16 + c * 8) % Word
           n2 == (16 + c * 25) % Word
<1>1. Word \in Nat /\ Largest \in Nat /\ Largest >= 16 /\ Word > 25 * Largest
  BY WordAssumption, MaxPlacesAssumption DEF Largest, META_STRIDE, Header
<1>2. n1 \in Nat /\ n2 \in Nat /\ n1 <= s /\ n2 <= m
  BY <1>1 DEF Need, Header
<1>3. PICK q1 \in Nat : 16 + c * 8 = q1 * Word + n1
  BY <1>1, DivMod, Word \in Nat \ {0}, 16 + c * 8 \in Nat
<1>4. PICK q2 \in Nat : 16 + c * 25 = q2 * Word + n2
  BY <1>1, DivMod, Word \in Nat \ {0}, 16 + c * 25 \in Nat
<1> HIDE DEF n1, n2
<1>5. (25 * q1 - 8 * q2) * Word = 272 - 25 * n1 + 8 * n2
  <2>1. (25 * q1 - 8 * q2) * Word = 25 * (q1 * Word) - 8 * (q2 * Word)
    BY <1>1
  <2> QED BY <1>1, <1>2, <1>3, <1>4, <2>1
<1>6. 25 * q1 = 8 * q2
  <2> DEFINE d == 25 * q1 - 8 * q2
  <2>1. d \in Int /\ 0 - Word < d * Word /\ d * Word < Word
    BY <1>1, <1>2, <1>5
  <2> HIDE DEF d
  <2>2. ~(d >= 1)
    BY <1>1, <2>1, TimesMonotone
  <2>3. ~(-1 >= d)
    BY <1>1, <2>1, TimesMonotone
  <2> QED BY <2>1, <2>2, <2>3 DEF d
<1>7. q1 * Word < 9 * Word /\ q2 * Word < 25 * Word
  BY <1>1, <1>2, <1>3, <1>4
<1>8. q1 < 9 /\ q2 < 25
  BY <1>1, <1>7, TimesMonotone
<1>9. q1 = 0 /\ q2 = 0
  BY <1>6, <1>8
<1> QED BY <1>1, <1>2, <1>3, <1>4, <1>9

-----------------------------------------------------------------------------
LEMMA Bounds ==
    /\ MaxPlaces \in Nat /\ Word \in Nat /\ Largest \in Nat
    /\ Largest = 16 + 25 * MaxPlaces /\ Word > 25 * Largest
BY WordAssumption, MaxPlacesAssumption DEF Largest, META_STRIDE, Header

LEMMA InitInv == Init => IInv
BY Bounds DEF Init, IInv, SizesOK, Measured, NoFile, File, Count

LEMMA WriterInv ==
    ASSUME IInv, (\E p \in Places : Push(p)) \/ WriteCoords
                     \/ WriteMetaAndStrings
    PROVE  IInv'
<1>1. ASSUME NEW p \in Places, Push(p) PROVE IInv'
  BY <1>1, Bounds DEF Push, IInv, SizesOK, Measured, File, Count
<1>2. CASE WriteCoords
  <2>1. Count \in Nat /\ Count <= MaxPlaces
    BY DEF IInv, SizesOK, Count
  <2>2. /\ coords'.size = 16 + 8 * Count /\ coords'.count = Count
        /\ File(coords)'
    BY <1>2 DEF WriteCoords, Header, COORD_STRIDE, File
  <2> QED BY <1>2, <2>1, <2>2, Bounds
          DEF WriteCoords, IInv, SizesOK, Measured, Count
<1>3. CASE WriteMetaAndStrings
  <2>1. Count \in Nat /\ Count <= MaxPlaces
    BY DEF IInv, SizesOK, Count
  <2>2. PICK done \in 0 .. Count : meta'.size = 16 + 25 * done /\ File(meta)' /\ File(strings)'
    BY <1>3 DEF WriteMetaAndStrings, Header, META_STRIDE, File
  <2>3. phase' \in {"written", "failed"} /\ UNCHANGED <<places, coords>>
    BY <1>3 DEF WriteMetaAndStrings
  <2>4. meta'.size \in 0 .. Largest
    BY <2>1, <2>2, Bounds
  <2> QED BY <2>1, <2>2, <2>3, <2>4, Bounds DEF IInv, SizesOK, Measured, Count, File
<1> QED BY <1>1, <1>2, <1>3

(* What damage leaves of a file: it is not longer, and has its count.      *)
LeftOf(g, f) == File(g) /\ g.count = f.count /\ (g.size = f.size \/ g.size \in 0 .. f.size)

LEMMA CutIs == ASSUME NEW f, File(f), NEW g \in Cuts(f) PROVE LeftOf(g, f) /\ g.rows = f.rows
<1>1. PICK n \in 0 .. f.size : g = [f EXCEPT !.size = n]
  BY DEF Cuts
<1>2. g.size = n /\ g.count = f.count /\ g.rows = f.rows /\ File(g)
  BY <1>1 DEF File
<1> QED BY <1>1, <1>2 DEF LeftOf

LEMMA RowsLeft ==
    ASSUME NEW f, File(f), NEW rows, NEW g, g = [f EXCEPT !.rows = rows]
    PROVE  LeftOf(g, f) /\ g.size = f.size /\ g.rows = rows
BY DEF LeftOf, File

LEMMA LossIs ==
    ASSUME File(coords), File(meta), File(strings), PowerLoss
    PROVE  LeftOf(coords', coords) /\ LeftOf(meta', meta) /\ LeftOf(strings', strings)
<1>1. LeftOf(coords', coords)
  <2>1. \/ coords' \in Cuts(coords)
        \/ \E rows : coords' = [coords EXCEPT !.rows = rows]
    BY DEF PowerLoss, LeftOfCoords
  <2> QED BY <2>1, CutIs, RowsLeft
<1>2. LeftOf(meta', meta)
  <2>1. \/ meta' \in Cuts(meta) \/ meta' = meta
        \/ \E n, row : meta' = [meta EXCEPT !.rows[n] = row]
    BY DEF PowerLoss, LeftOfMeta
  <2>2. ASSUME NEW n, NEW row, meta' = [meta EXCEPT !.rows[n] = row] PROVE LeftOf(meta', meta)
    BY <2>2 DEF LeftOf, File
  <2>3. LeftOf(meta, meta)
    BY DEF LeftOf
  <2> QED BY <2>1, <2>2, <2>3, CutIs
<1>3. LeftOf(strings', strings)
  <2>1. \/ strings' \in Cuts(strings)
        \/ \E rows : strings' = [strings EXCEPT !.rows = rows]
    BY DEF PowerLoss, LeftOfStrings
  <2> QED BY <2>1, CutIs, RowsLeft
<1> QED BY <1>1, <1>2, <1>3

LEMMA DiskInv == ASSUME IInv, PowerLoss \/ HeadersRot PROVE IInv'
<1>1. CASE PowerLoss
  <2>1. LeftOf(coords', coords) /\ LeftOf(meta', meta)
    BY <1>1, LossIs DEF IInv, SizesOK
  <2>2. coords'.size \in 0 .. Largest /\ meta'.size \in 0 .. Largest
    BY <2>1, Bounds DEF LeftOf, IInv, SizesOK
  <2>3. File(coords)' /\ File(meta)' /\ coords'.count = coords.count
    BY <2>1 DEF LeftOf, File
  <2>4. File(strings)'
    BY <1>1, LossIs DEF LeftOf, IInv, SizesOK, File
  <2>5. phase' = "written" /\ UNCHANGED places
    BY <1>1 DEF PowerLoss
  <2>6. SizesOK'
    BY <2>2, <2>3, <2>4, <2>5, Bounds DEF IInv, SizesOK, Count
  <2> QED BY <2>5, <2>6 DEF IInv, Measured
<1>2. CASE HeadersRot
  <2>1. PICK c \in RottenCount :
            /\ coords' = [coords EXCEPT !.count = c]
            /\ meta' \in {meta, [meta EXCEPT !.count = c]}
    BY <1>2 DEF HeadersRot
  <2>2. /\ coords'.count \in 0 .. Word - 1 /\ coords'.size = coords.size
        /\ File(coords)' /\ File(meta)' /\ File(strings)' /\ meta'.size = meta.size
    BY <1>2, <2>1, RottenCountAssumption DEF HeadersRot, IInv, SizesOK, File
  <2> QED BY <1>2, <2>2 DEF HeadersRot, IInv, SizesOK, Measured, Count
<1> QED BY <1>1, <1>2

LEMMA OpenInv == ASSUME IInv, Open PROVE IInv'
BY Bounds DEF Open, Accepts, IInv, SizesOK, Measured, Count, File

LEMMA NextInv == IInv /\ [Next]_vars => IInv'
<1> SUFFICES ASSUME IInv, [Next]_vars PROVE IInv'
  OBVIOUS
<1>1. CASE Next
  BY <1>1, WriterInv, DiskInv, OpenInv DEF Next
<1>2. CASE UNCHANGED vars
  BY <1>2 DEF vars, IInv, SizesOK, Measured, Count, File
<1> QED BY <1>1, <1>2

(* What open accepts it can read: no count in a header, however wrong,     *)
(* makes the columns look longer than they are.                            *)
THEOREM ColumnsAreCovered == Spec => []OpenedColumnsAreCovered
<1>1. IInv => OpenedColumnsAreCovered
  <2> SUFFICES ASSUME IInv, phase = "open" PROVE
          /\ coords.count <= (coords.size - Header) \div COORD_STRIDE
          /\ coords.count <= (meta.size - Header) \div META_STRIDE
    BY DEF OpenedColumnsAreCovered
  <2>1. /\ 16 + 8 * coords.count <= coords.size
        /\ 16 + 25 * coords.count <= meta.size
    BY NoCommonWrap DEF IInv, SizesOK, Measured, COORD_STRIDE, META_STRIDE
  <2>2. coords.count \in Nat /\ coords.size \in Nat /\ meta.size \in Nat
    BY Bounds DEF IInv, SizesOK
  <2>3. coords.count <= (coords.size - 16) \div 8
    BY <2>1, <2>2
  <2>4. coords.count <= (meta.size - 16) \div 25
    BY <2>1, <2>2
  <2> QED BY <2>3, <2>4 DEF Header, COORD_STRIDE, META_STRIDE
<1> QED BY <1>1, InitInv, NextInv, PTL DEF Spec
-----------------------------------------------------------------------------
(* The cursor of the strings file.                                         *)

Advances(g, first, m) ==
    g = [k \in 0 .. m |-> IF k = 0 THEN first ELSE g[k - 1] + places[k].bytes]

LEMMA CursorExists ==
    ASSUME NEW first, NEW m \in Nat
    PROVE  \E g : Advances(g, first, m)
<1> DEFINE T == {k \in Nat : \E g : Advances(g, first, k)}
<1>1. 0 \in T
  <2> DEFINE g == [k \in 0 .. 0 |-> first]
  <2>1. g = [k \in 0 .. 0 |-> IF k = 0 THEN first ELSE g[k - 1] + places[k].bytes]
    OBVIOUS
  <2> QED BY <2>1 DEF Advances
<1>2. ASSUME NEW n \in 0 .. m - 1, n \in T PROVE n + 1 \in T
  <2>1. PICK g : Advances(g, first, n)
    BY <1>2
  <2> DEFINE next(k) == IF k = 0 THEN first ELSE g[k - 1] + places[k].bytes
             h == [k \in 0 .. n + 1 |-> next(k)]
  <2>2. \A k \in 0 .. n : g[k] = next(k)
    BY <2>1 DEF Advances
  <2>3. \A k \in 0 .. n + 1 : k # 0 => k - 1 \in 0 .. n
    BY <1>2
  <2>4. \A k \in 0 .. n + 1 : k # 0 => h[k - 1] = g[k - 1]
    BY <2>2, <2>3
  <2>5. h = [k \in 0 .. n + 1 |-> IF k = 0 THEN first ELSE h[k - 1] + places[k].bytes]
    BY <2>4
  <2>6. Advances(h, first, n + 1)
    BY <2>5 DEF Advances
  <2> HIDE DEF h
  <2>7. n + 1 \in Nat
    OBVIOUS
  <2> QED BY <2>6, <2>7
<1> HIDE DEF T
<1>3. m \in T
  BY <1>1, <1>2, InductionUpTo
<1> QED BY <1>3 DEF T

LEMMA CursorSteps ==
    ASSUME Count \in Nat, NEW first
    PROVE  /\ Cursor(first, 0) = first
           /\ \A k \in 1 .. Count : Cursor(first, k) = Cursor(first, k - 1) + places[k].bytes
<1> DEFINE g == CHOOSE f : f = [k \in 0 .. Count |->
                                   IF k = 0 THEN first ELSE f[k - 1] + places[k].bytes]
<1>1. \E f : f = [k \in 0 .. Count |-> IF k = 0 THEN first ELSE f[k - 1] + places[k].bytes]
  BY CursorExists DEF Advances
<1>2. g = [k \in 0 .. Count |-> IF k = 0 THEN first ELSE g[k - 1] + places[k].bytes]
  BY <1>1
<1>3. \A n : Cursor(first, n) = g[n]
  BY DEF Cursor
<1> HIDE DEF g
<1>4. g[0] = first /\ \A k \in 1 .. Count : g[k] = g[k - 1] + places[k].bytes
  <2>1. 0 \in 0 .. Count
    OBVIOUS
  <2>2. \A k \in 1 .. Count : k \in 0 .. Count /\ k # 0
    OBVIOUS
  <2> QED BY <1>2, <2>1, <2>2
<1> QED BY <1>3, <1>4

LEMMA PlaceIs ==
    ASSUME places \in Seq(Places)
    PROVE  /\ Count \in Nat /\ DOMAIN places = 1 .. Count
           /\ \A k \in 1 .. Count : places[k] \in Places
           /\ \A k \in 1 .. Count : places[k].bytes \in Nat /\ places[k].bytes >= 8
<1>1. /\ Count \in Nat /\ DOMAIN places = 1 .. Count
      /\ \A k \in 1 .. Count : places[k] \in Places
  BY DEF Count
<1>2. \A p \in Places : p.bytes \in Nat /\ p.bytes >= 8
  BY PlacesAssumption, BytesAssumption
<1> QED BY <1>1, <1>2

(* Every place takes its bytes, so that no two cursors agree.              *)
LEMMA CursorRises ==
    ASSUME places \in Seq(Places), NEW first \in Nat
    PROVE  /\ \A k \in 0 .. Count : Cursor(first, k) \in Nat /\ Cursor(first, k) >= first + 8 * k
           /\ \A i, j \in 0 .. Count : i < j => Cursor(first, i) < Cursor(first, j)
<1> DEFINE T == {k \in Nat : Cursor(first, k) \in Nat /\ Cursor(first, k) >= first + 8 * k}
<1>1. PICK n \in Nat : n = Count
  BY PlaceIs
<1>2. /\ Cursor(first, 0) = first
      /\ \A k \in 1 .. n : Cursor(first, k) = Cursor(first, k - 1) + places[k].bytes
  BY <1>1, CursorSteps
<1>3. \A k \in 1 .. n : places[k].bytes \in Nat /\ places[k].bytes >= 8
  BY <1>1, PlaceIs
<1>4. 0 .. n \subseteq T
  <2>1. 0 \in T
    BY <1>2
  <2>2. ASSUME NEW k \in 0 .. n - 1, k \in T PROVE k + 1 \in T
    <3>1. k + 1 \in 1 .. n /\ (k + 1) - 1 = k
      OBVIOUS
    <3>2. Cursor(first, k + 1) = Cursor(first, k) + places[k + 1].bytes
      BY <1>2, <3>1
    <3> QED BY <1>3, <2>2, <3>1, <3>2
  <2> HIDE DEF T
  <2> QED BY <2>1, <2>2, InductionUpTo
<1>5. \A k \in 0 .. n : Cursor(first, k) \in Nat /\ Cursor(first, k) >= first + 8 * k
  BY <1>4
<1>6. \A i, j \in 0 .. n : i < j => Cursor(first, i) < Cursor(first, j)
  <2>1. PICK N \in Nat : N = n + 1
    OBVIOUS
  <2>2. PICK f : f = [k \in 1 .. N |-> Cursor(first, k - 1) - k]
    OBVIOUS
  <2>3. ASSUME NEW k \in 1 .. N
        PROVE  k - 1 \in 0 .. n /\ f[k] = Cursor(first, k - 1) - k /\ f[k] \in Int
    <3>1. k - 1 \in 0 .. n
      BY <2>1
    <3> QED BY <1>5, <2>2, <3>1
  <2>4. f \in [1 .. N -> Int]
    BY <2>2, <2>3
  <2>5. ASSUME NEW k \in 1 .. N - 1 PROVE f[k] <= f[k + 1]
    <3>1. /\ k \in 1 .. N /\ k + 1 \in 1 .. N /\ (k + 1) - 1 = k
          /\ k \in 1 .. n /\ k \in 0 .. n /\ k - 1 \in 0 .. n
      BY <2>1
    <3>2. Cursor(first, k) = Cursor(first, k - 1) + places[k].bytes
      BY <1>2, <3>1
    <3>3. f[k] = Cursor(first, k - 1) - k /\ f[k + 1] = Cursor(first, k) - (k + 1)
      BY <2>3, <3>1
    <3>4. /\ Cursor(first, k) \in Nat /\ Cursor(first, k - 1) \in Nat
          /\ places[k].bytes \in Nat /\ places[k].bytes >= 8
      BY <1>3, <1>5, <3>1
    <3>5. PICK u \in Nat, v \in Nat : u = Cursor(first, k - 1) /\ v = Cursor(first, k)
      BY <3>4
    <3>6. v >= u + 8
      BY <3>2, <3>4, <3>5
    <3>7. f[k] = u - k /\ f[k + 1] = v - (k + 1)
      BY <3>3, <3>5
    <3> QED BY <3>6, <3>7
  <2>6. \A i, j \in 1 .. N : i <= j => f[i] <= f[j]
    BY <2>4, <2>5, Monotone
  <2>7. SUFFICES ASSUME NEW i \in 0 .. n, NEW j \in 0 .. n, i < j
                 PROVE  Cursor(first, i) < Cursor(first, j)
    OBVIOUS
  <2>8. i + 1 \in 1 .. N /\ j + 1 \in 1 .. N /\ (i + 1) - 1 = i /\ (j + 1) - 1 = j
        /\ i + 1 <= j + 1
    BY <2>1, <2>7
  <2>9. f[i + 1] <= f[j + 1]
    BY <2>6, <2>8
  <2>10. f[i + 1] = Cursor(first, i) - (i + 1) /\ f[j + 1] = Cursor(first, j) - (j + 1)
    BY <2>3, <2>8
  <2>11. Cursor(first, i) \in Nat /\ Cursor(first, j) \in Nat
    BY <1>5
  <2> QED BY <2>7, <2>9, <2>10, <2>11
<1> QED BY <1>1, <1>5, <1>6

LEMMA BlobsApart ==
    ASSUME places \in Seq(Places),
           NEW i \in 1 .. Count, NEW j \in 1 .. Count,
           Blob(StringsHeader, i) = Blob(StringsHeader, j)
    PROVE  i = j
<1>1. PICK n \in Nat : n = Count
  BY PlaceIs
<1>2. i \in 0 .. n /\ j \in 0 .. n /\ i \in Nat /\ j \in Nat
  BY <1>1
<1>3. Cursor(StringsHeader, i) = Cursor(StringsHeader, j)
  BY DEF Blob
<1>4. \A k \in 0 .. n : Cursor(StringsHeader, k) \in Nat
  BY <1>1, CursorRises DEF StringsHeader
<1>5. \A a, b \in 0 .. n : a < b => Cursor(StringsHeader, a) < Cursor(StringsHeader, b)
  BY <1>1, CursorRises DEF StringsHeader
<1>6. ~(i < j) /\ ~(j < i)
  BY <1>2, <1>3, <1>4, <1>5
<1> QED BY <1>2, <1>6
-----------------------------------------------------------------------------
(* What is in the files once they are written, and what damage changes.    *)

Written == {"written", "open", "refused"}
CoordRows == [n \in 1 .. Count |-> to_e7(places[n].deg)]
MetaRows == [n \in 1 .. Count |-> MetaRow(n)]
BlobRows == [n \in 1 .. Count |-> StringsRow(n)]
End == Cursor(StringsHeader, Count)

(* A row of meta.bin points at the strings of its place, at nothing, or is *)
(* torn; a blob stands where it was written and is whole or holds too many *)
(* strings.                                                                *)
MetaLeft(rows) ==
    /\ rows = [n \in 1 .. Count |-> rows[n]]
    /\ \A n \in 1 .. Count : \/ rows[n].str = StringsOf(n)
                             \/ rows[n].str.to = rows[n].str.from
                             \/ rows[n].str.from # StringsOf(n).from
BlobsLeft(rows) ==
    /\ rows = [n \in 1 .. Count |-> rows[n]]
    /\ \A n \in 1 .. Count : /\ rows[n].at = Blob(StringsHeader, n)
                             /\ rows[n].fields = Strings => rows[n] = StringsRow(n)

Rows ==
    /\ phase \in Phases /\ damaged \in BOOLEAN
    /\ strings.size \in Bytes /\ meta.count \in Bytes
    /\ phase \notin Written => ~damaged /\ Len(meta.rows) = Len(strings.rows)
    /\ phase = "columns" => coords.rows = CoordRows
    /\ phase \in Written =>
           /\ \A n \in 1 .. Count : ~places[n].nul
           /\ MetaLeft(meta.rows) /\ BlobsLeft(strings.rows)
           /\ ~damaged => /\ coords.rows = CoordRows
                          /\ meta.rows = MetaRows /\ strings.rows = BlobRows

Whole ==
    ~damaged =>
        /\ phase \in Written \cup {"columns"} =>
               coords.size = Header + COORD_STRIDE * Count /\ coords.count = Count
        /\ phase \in Written =>
               /\ meta.size = Header + META_STRIDE * Count /\ meta.count = Count
               /\ strings.size = End

Verdict == (phase = "open" => Accepts) /\ (phase = "refused" => ~Accepts)

StoreInv == IInv /\ Rows /\ Whole /\ Verdict

LEMMA EndIs ==
    ASSUME places \in Seq(Places), Count <= MaxPlaces
    PROVE  End \in Nat /\ End < Word /\ End >= StringsHeader + 8 * Count
<1>1. PICK n \in Nat : n = Count /\ n <= MaxPlaces
  BY PlaceIs
<1>2. PICK b \in Nat : /\ \A p \in Places : p.bytes <= b
                      /\ Word > 8 + MaxPlaces * b
  BY WordAssumption DEF StringsHeader
<1>3. PICK c : c = [k \in 0 .. n |-> Cursor(8, k)]
  OBVIOUS
<1>4. /\ \A k \in 0 .. n : c[k] \in Nat /\ c[k] >= 8 + 8 * k
      /\ c[0] = 8
      /\ \A k \in 1 .. n : k - 1 \in 0 .. n /\ c[k] = c[k - 1] + places[k].bytes
  <2>1. \A k \in 0 .. n : Cursor(8, k) \in Nat /\ Cursor(8, k) >= 8 + 8 * k
    BY <1>1, CursorRises
  <2>2. Cursor(8, 0) = 8 /\ \A k \in 1 .. n : Cursor(8, k) = Cursor(8, k - 1) + places[k].bytes
    BY <1>1, CursorSteps
  <2>3. \A k \in 1 .. n : k \in 0 .. n /\ k - 1 \in 0 .. n
    OBVIOUS
  <2>4. 0 \in 0 .. n
    OBVIOUS
  <2> QED BY <1>3, <2>1, <2>2, <2>3, <2>4
<1>5. \A k \in 1 .. n : places[k].bytes \in Nat /\ places[k].bytes <= b
  BY <1>1, <1>2, PlaceIs
<1> DEFINE T == {k \in Nat : c[k] <= 8 + k * b}
<1>6. 0 .. n \subseteq T
  <2>1. 0 \in T
    BY <1>4
  <2>2. ASSUME NEW k \in 0 .. n - 1, k \in T PROVE k + 1 \in T
    <3>1. k + 1 \in 1 .. n /\ (k + 1) - 1 = k /\ k \in 0 .. n
      OBVIOUS
    <3>2. c[k + 1] = c[k] + places[k + 1].bytes /\ c[k] \in Nat
      BY <1>4, <3>1
    <3>3. places[k + 1].bytes \in Nat /\ places[k + 1].bytes <= b
      BY <1>5, <3>1
    <3>4. (k + 1) * b = k * b + b /\ k * b \in Nat
      OBVIOUS
    <3>5. c[k] <= 8 + k * b
      BY <2>2
    <3> HIDE DEF T
    <3>6. c[k + 1] <= 8 + (k + 1) * b
      BY <3>2, <3>3, <3>4, <3>5
    <3> QED BY <3>6 DEF T
  <2> HIDE DEF T
  <2> QED BY <2>1, <2>2, InductionUpTo
<1>7. c[n] <= 8 + n * b
  BY <1>6
<1>8. MaxPlaces * b >= n * b /\ n * b \in Nat /\ MaxPlaces * b \in Nat
  BY <1>1, MaxPlacesAssumption, TimesMonotone
<1>9. End = c[n]
  BY <1>1, <1>3 DEF End, StringsHeader
<1>10. c[n] \in Nat /\ c[n] >= 8 + 8 * n
  BY <1>4
<1> HIDE DEF T
<1>11. c[n] < Word
  <2>1. PICK most \in Nat, used \in Nat : most = MaxPlaces * b /\ used = n * b
    BY <1>8
  <2>2. Word > 8 + most /\ c[n] <= 8 + used /\ most >= used
    BY <1>2, <1>7, <1>8, <2>1
  <2>3. Word \in Nat /\ c[n] \in Nat
    BY <1>10, Bounds
  <2> QED BY <2>2, <2>3
<1> QED BY <1>1, <1>9, <1>10, <1>11 DEF StringsHeader

LEMMA PlacesKept ==
    ASSUME UNCHANGED places
    PROVE  /\ Count' = Count /\ CoordRows' = CoordRows /\ MetaRows' = MetaRows
           /\ BlobRows' = BlobRows /\ End' = End
           /\ \A rows : MetaLeft(rows)' = MetaLeft(rows) /\ BlobsLeft(rows)' = BlobsLeft(rows)
  BY DEF CoordRows, MetaRows, BlobRows, End, Count, MetaRow, StringsRow, StringsOf, Blob,
         Cursor, MetaLeft, BlobsLeft, Encoded

(* What was written is what is left of it.                                 *)
LEMMA WholeIsLeft ==
    ASSUME Count \in Nat
    PROVE  MetaLeft(MetaRows) /\ BlobsLeft(BlobRows)
<1>1. \A n \in 1 .. Count : MetaRows[n].str = StringsOf(n)
  BY DEF MetaRows, MetaRow
<1>2. \A n \in 1 .. Count : BlobRows[n] = StringsRow(n) /\ BlobRows[n].at = Blob(StringsHeader, n)
  BY DEF BlobRows, StringsRow
<1>3. MetaRows = [n \in 1 .. Count |-> MetaRows[n]] /\ BlobRows = [n \in 1 .. Count |-> BlobRows[n]]
  BY DEF MetaRows, BlobRows
<1> QED BY <1>1, <1>2, <1>3 DEF MetaLeft, BlobsLeft

LEMMA ListOf ==
    ASSUME NEW n \in Nat, NEW f, f = [k \in 1 .. n |-> f[k]]
    PROVE  Len(f) = n
<1>1. PICK S : S = {f[k] : k \in 1 .. n}
  OBVIOUS
<1>2. f \in [1 .. n -> S]
  BY <1>1
<1> QED BY <1>2

LEMMA StoreInit == Init => StoreInv
<1> SUFFICES ASSUME Init PROVE StoreInv
  OBVIOUS
<1>1. IInv
  BY InitInv
<1>2. phase = "collect" /\ phase \in Phases /\ phase \notin Written
  BY DEF Init, Written, Phases
<1>3. NoFile.size \in Bytes /\ NoFile.count \in Bytes
  BY Bounds DEF NoFile, Bytes
<1>4. Rows
  BY <1>2, <1>3 DEF Init, Rows
<1>5. Whole /\ Verdict
  BY <1>2 DEF Whole, Verdict, Written
<1> QED BY <1>1, <1>4, <1>5 DEF StoreInv

LEMMA StorePush == ASSUME StoreInv, NEW p \in Places, Push(p) PROVE StoreInv'
<1>1. IInv' /\ Rows
  BY WriterInv DEF StoreInv
<1>2. /\ phase = "collect" /\ UNCHANGED <<phase, coords, meta, strings, damaged>>
      /\ phase \notin Written
  BY DEF Push, Written
<1>3. Rows'
  BY <1>1, <1>2 DEF Rows, File
<1>4. Whole' /\ Verdict'
  BY <1>2 DEF Whole, Verdict, Written
<1> QED BY <1>1, <1>3, <1>4 DEF StoreInv

LEMMA StoreCoords == ASSUME StoreInv, WriteCoords PROVE StoreInv'
<1>1. IInv' /\ Rows
  BY WriterInv DEF StoreInv
<1>2. /\ phase = "collect" /\ phase' = "columns" /\ UNCHANGED <<places, meta, strings, damaged>>
      /\ coords'.size = Header + COORD_STRIDE * Count /\ coords'.count = Count
      /\ coords'.rows = CoordRows
      /\ phase \notin Written /\ phase' \notin Written
  BY DEF WriteCoords, Written, CoordRows
<1>3. Rows'
  BY <1>1, <1>2, PlacesKept DEF Rows, File, Phases
<1>4. Whole' /\ Verdict'
  BY <1>2, PlacesKept DEF Whole, Verdict
<1> QED BY <1>1, <1>3, <1>4 DEF StoreInv

LEMMA StoreMeta == ASSUME StoreInv, WriteMetaAndStrings PROVE StoreInv'
<1>1. IInv' /\ Rows /\ Whole /\ IInv
  BY WriterInv DEF StoreInv
<1>2. /\ phase = "columns" /\ phase \notin Written /\ UNCHANGED <<places, coords, damaged>>
      /\ ~damaged /\ places \in Seq(Places) /\ Count <= MaxPlaces
  BY <1>1 DEF WriteMetaAndStrings, Written, Rows, IInv, SizesOK
<1>3. PICK n \in Nat : n = Count /\ n <= MaxPlaces
  BY <1>2, PlaceIs
<1>4. PICK done \in 0 .. n :
          /\ done < n => ~EncodableUpTo(done + 1)
          /\ EncodableUpTo(done)
          /\ meta' = [size |-> Header + META_STRIDE * done, count |-> Count,
                      rows |-> [k \in 1 .. done |-> MetaRow(k)]]
          /\ strings' = [size |-> Cursor(StringsHeader, done), count |-> 0,
                         rows |-> [k \in 1 .. done |-> StringsRow(k)]]
  BY <1>3 DEF WriteMetaAndStrings
<1>5. /\ meta'.count = Count /\ meta'.size = Header + META_STRIDE * done
      /\ meta'.rows = [k \in 1 .. done |-> MetaRow(k)]
      /\ strings'.size = Cursor(StringsHeader, done)
      /\ strings'.rows = [k \in 1 .. done |-> StringsRow(k)]
      /\ meta'.count \in Bytes
  <2>1. meta'.count = n /\ n \in Bytes
    BY <1>3, <1>4, Bounds DEF Bytes
  <2>2. /\ meta'.count = Count /\ meta'.size = Header + META_STRIDE * done
        /\ meta'.rows = [k \in 1 .. done |-> MetaRow(k)]
    BY <1>4
  <2>3. /\ strings'.size = Cursor(StringsHeader, done)
        /\ strings'.rows = [k \in 1 .. done |-> StringsRow(k)]
    BY <1>4
  <2> QED BY <2>1, <2>2, <2>3
<1>6. strings'.size \in Bytes
  <2>1. /\ Cursor(StringsHeader, done) \in Nat /\ Cursor(StringsHeader, n) \in Nat
        /\ done < n => Cursor(StringsHeader, done) < Cursor(StringsHeader, n)
    <3>1. StringsHeader \in Nat
      BY DEF StringsHeader
    <3>2. /\ \A k \in 0 .. n : Cursor(StringsHeader, k) \in Nat
          /\ \A i, j \in 0 .. n : i < j => Cursor(StringsHeader, i) < Cursor(StringsHeader, j)
      BY <1>2, <1>3, <3>1, CursorRises
    <3>3. done \in 0 .. n /\ n \in 0 .. n
      BY <1>4
    <3> QED BY <3>2, <3>3
  <2>2. Cursor(StringsHeader, n) < Word
    BY <1>2, <1>3, EndIs DEF End
  <2> QED BY <1>5, <2>1, <2>2, Bounds DEF Bytes
<1>7. CASE EncodableUpTo(Count)
  <2>1. done = n
    BY <1>3, <1>4, <1>7 DEF EncodableUpTo
  <2>2. /\ phase' = "written" /\ phase' \in Written /\ phase' \in Phases
        /\ \A k \in 1 .. Count : ~places[k].nul
    BY <1>7 DEF WriteMetaAndStrings, Written, Phases, EncodableUpTo, Encodable
  <2>3. meta'.rows = MetaRows /\ strings'.rows = BlobRows
    BY <1>3, <1>5, <2>1 DEF MetaRows, BlobRows
  <2>4. Rows'
    BY <1>1, <1>2, <1>3, <1>5, <1>6, <2>2, <2>3, PlacesKept, WholeIsLeft DEF Rows
  <2>5. Whole' /\ Verdict'
    BY <1>1, <1>2, <1>3, <1>5, <2>1, <2>2, PlacesKept DEF Whole, Verdict, End
  <2> QED BY <1>1, <2>4, <2>5 DEF StoreInv
<1>8. CASE ~EncodableUpTo(Count)
  <2>1. phase' = "failed" /\ phase' \notin Written /\ phase' \in Phases
    BY <1>8 DEF WriteMetaAndStrings, Written, Phases
  <2>2. Len(meta'.rows) = Len(strings'.rows)
    <3>1. Len([k \in 1 .. done |-> MetaRow(k)]) = Len([k \in 1 .. done |-> StringsRow(k)])
      OBVIOUS
    <3> QED BY <1>5, <3>1
  <2>3. Rows'
    BY <1>1, <1>2, <1>5, <1>6, <2>1, <2>2 DEF Rows
  <2>4. Whole' /\ Verdict'
    BY <2>1 DEF Whole, Verdict, Written
  <2> QED BY <1>1, <2>3, <2>4 DEF StoreInv
<1> QED BY <1>7, <1>8

(* A loss of power zeroes a part of a row of meta.bin ...                  *)
LEMMA MetaLoss ==
    ASSUME Count \in Nat, File(meta), meta.rows = MetaRows, PowerLoss,
           \A n \in 1 .. Count : StringsOf(n).from \in Nat /\ StringsOf(n).to \in Nat
                                 /\ StringsOf(n) = [from |-> StringsOf(n).from,
                                                    to |-> StringsOf(n).to]
    PROVE  MetaLeft(meta'.rows)
<1>1. MetaLeft(MetaRows)
  BY WholeIsLeft
<1>2. CASE meta' \in Cuts(meta) \/ meta' = meta
  BY <1>1, <1>2, CutIs
<1>3. CASE meta' \notin Cuts(meta) /\ meta' # meta
  <2>1. PICK k \in DOMAIN meta.rows : \E row \in LeftOfMetaRow(meta.rows[k]) :
            meta' = [meta EXCEPT !.rows[k] = row]
    BY <1>3 DEF PowerLoss, LeftOfMeta
  <2>2. PICK row \in LeftOfMetaRow(meta.rows[k]) : meta' = [meta EXCEPT !.rows[k] = row]
    BY <2>1
  <2>3. k \in 1 .. Count /\ meta.rows[k].str = StringsOf(k)
    BY <2>1 DEF MetaRows, MetaRow
  <2>4. PICK from \in 0 .. StringsOf(k).from, n \in {StringsOf(k).to - StringsOf(k).from, 0} :
            row.str = [from |-> from, to |-> from + n]
    BY <2>2, <2>3 DEF LeftOfMetaRow
  <2>5. row.str.from = from /\ row.str.to = from + n
    BY <2>4
  <2>6. StringsOf(k).from \in Nat /\ StringsOf(k).to \in Nat
    BY <2>3
  <2>7. \/ row.str = StringsOf(k) \/ row.str.to = row.str.from
        \/ row.str.from # StringsOf(k).from
    <3>1. CASE n = 0
      BY <2>4, <2>5, <2>6, <3>1
    <3>2. CASE n # 0 /\ from = StringsOf(k).from
      <4>1. from + n = StringsOf(k).to
        BY <2>4, <2>6, <3>2
      <4> QED BY <2>3, <2>4, <3>2, <4>1
    <3> QED BY <2>4, <2>5, <3>1, <3>2
  <2>8. meta'.rows = [meta.rows EXCEPT ![k] = row]
    BY <2>2 DEF File
  <2>9. /\ meta'.rows = [i \in 1 .. Count |-> meta'.rows[i]]
        /\ meta'.rows[k] = row
        /\ \A i \in 1 .. Count : i # k => meta'.rows[i] = MetaRows[i]
    <3>1. DOMAIN meta.rows = 1 .. Count /\ k \in 1 .. Count
      BY <2>3 DEF MetaRows
    <3>2. \A i \in 1 .. Count : i # k => meta'.rows[i] = meta.rows[i]
      BY <2>8, <3>1
    <3>3. /\ meta'.rows = [i \in 1 .. Count |-> meta'.rows[i]]
          /\ meta'.rows[k] = row
      BY <2>8, <3>1
    <3> QED BY <2>3, <3>2, <3>3
  <2> QED BY <1>1, <2>7, <2>9 DEF MetaLeft
<1> QED BY <1>2, <1>3

(* ... and of some blobs.                                                  *)
LEMMA StringsLoss ==
    ASSUME Count \in Nat, File(strings), strings.rows = BlobRows, PowerLoss
    PROVE  BlobsLeft(strings'.rows)
<1>1. BlobsLeft(BlobRows)
  BY WholeIsLeft
<1>2. CASE strings' \in Cuts(strings)
  BY <1>1, <1>2, CutIs
<1>3. CASE strings' \notin Cuts(strings)
  <2>1. PICK rows :
            /\ strings' = [strings EXCEPT !.rows = rows]
            /\ rows = [n \in DOMAIN strings.rows |-> rows[n]]
            /\ \A n \in DOMAIN rows : rows[n] \in LeftOfBlob(strings.rows[n])
    BY <1>3 DEF PowerLoss, LeftOfStrings
  <2>2. strings'.rows = rows
    BY <2>1, RowsLeft
  <2>3. rows = [n \in 1 .. Count |-> rows[n]]
    BY <2>1 DEF BlobRows
  <2>4. ASSUME NEW n \in 1 .. Count
        PROVE  /\ rows[n].at = Blob(StringsHeader, n)
               /\ rows[n].fields = Strings => rows[n] = StringsRow(n)
    <3>1. rows[n] \in LeftOfBlob(StringsRow(n))
      BY <2>1, <2>3 DEF BlobRows
    <3>2. rows[n] = StringsRow(n) \/ \E name \in Names :
              rows[n] = [StringsRow(n) EXCEPT !.name = name, !.fields = Strings + 1]
      BY <3>1 DEF LeftOfBlob
    <3>3. StringsRow(n) = [at |-> Blob(StringsHeader, n), name |-> Encoded(places[n]),
                           fields |-> Strings]
      BY DEF StringsRow
    <3>4. ASSUME NEW name, rows[n] = [StringsRow(n) EXCEPT !.name = name, !.fields = Strings + 1]
          PROVE  rows[n].at = Blob(StringsHeader, n) /\ rows[n].fields # Strings
      BY <3>3, <3>4 DEF Strings
    <3>5. CASE rows[n] = StringsRow(n)
      BY <3>3, <3>5
    <3> QED BY <3>2, <3>4, <3>5
  <2> QED BY <2>2, <2>3, <2>4 DEF BlobsLeft
<1> QED BY <1>2, <1>3

LEMMA StoreDisk == ASSUME StoreInv, PowerLoss \/ HeadersRot PROVE StoreInv'
<1>1. IInv' /\ Rows /\ IInv
  BY DiskInv DEF StoreInv
<1>2. /\ phase = "written" /\ phase \in Written /\ UNCHANGED <<phase, places>>
      /\ damaged = FALSE /\ damaged' = TRUE /\ phase' = "written" /\ phase' \in Written
  BY <1>1 DEF PowerLoss, HeadersRot, Written, Rows
<1>3. /\ File(coords) /\ File(meta) /\ File(strings) /\ strings.size \in Bytes
      /\ places \in Seq(Places) /\ meta.rows = MetaRows /\ strings.rows = BlobRows
      /\ meta.count \in Bytes
  BY <1>1, <1>2 DEF IInv, SizesOK, Rows
<1>4. Count \in Nat
  BY <1>3, PlaceIs
<1>5. /\ MetaLeft(meta'.rows) /\ BlobsLeft(strings'.rows)
      /\ strings'.size \in Bytes /\ meta'.count \in Bytes
  <2>1. CASE PowerLoss
    <3>1. \A n \in 1 .. Count : StringsOf(n).from \in Nat /\ StringsOf(n).to \in Nat
                                /\ StringsOf(n) = [from |-> StringsOf(n).from,
                                                   to |-> StringsOf(n).to]
      <4> SUFFICES ASSUME NEW n \in 1 .. Count
                   PROVE  StringsOf(n).from \in Nat /\ StringsOf(n).to \in Nat
                          /\ StringsOf(n) = [from |-> StringsOf(n).from,
                                             to |-> StringsOf(n).to]
        OBVIOUS
      <4>1. n \in 0 .. Count /\ n - 1 \in 0 .. Count
        BY <1>4
      <4>2. Cursor(StringsHeader, n) \in Nat /\ Cursor(StringsHeader, n - 1) \in Nat
        BY <1>3, <4>1, CursorRises DEF StringsHeader
      <4> QED BY <4>2 DEF StringsOf, Blob
    <3>2. MetaLeft(meta'.rows) /\ BlobsLeft(strings'.rows)
      BY <1>3, <1>4, <2>1, <3>1, MetaLoss, StringsLoss
    <3>3. LeftOf(meta', meta) /\ LeftOf(strings', strings)
      BY <1>3, <2>1, LossIs
    <3> QED BY <1>3, <3>2, <3>3, Bounds DEF LeftOf, Bytes
  <2>2. CASE HeadersRot
    <3>1. PICK c \in RottenCount : meta' \in {meta, [meta EXCEPT !.count = c]}
      BY <2>2 DEF HeadersRot
    <3>2. c \in Bytes
      BY RottenCountAssumption DEF Bytes
    <3>3. meta'.rows = meta.rows /\ meta'.count \in {meta.count, c}
      BY <1>3, <3>1 DEF File
    <3>4. strings' = strings
      BY <2>2 DEF HeadersRot
    <3> QED BY <1>3, <1>4, <3>2, <3>3, <3>4, WholeIsLeft
  <2> QED BY <2>1, <2>2
<1>6. Rows'
  BY <1>1, <1>2, <1>5, PlacesKept DEF Rows
<1>7. Whole' /\ Verdict'
  BY <1>2 DEF Whole, Verdict
<1> QED BY <1>1, <1>6, <1>7 DEF StoreInv

LEMMA StoreOpen == ASSUME StoreInv, Open PROVE StoreInv'
<1>1. IInv' /\ Rows /\ Whole
  BY OpenInv DEF StoreInv
<1>2. /\ phase = "written" /\ phase \in Written /\ phase' = IF Accepts THEN "open" ELSE "refused"
      /\ UNCHANGED <<places, coords, meta, strings, damaged>>
      /\ phase' \in Written /\ phase' \in Phases /\ phase' # "columns"
  BY DEF Open, Written, Phases
<1>3. Rows' /\ Whole'
  BY <1>1, <1>2, PlacesKept DEF Rows, Whole, File
<1>4. Verdict'
  BY <1>2 DEF Verdict, Accepts
<1> QED BY <1>1, <1>3, <1>4 DEF StoreInv

(* The files hold what was pushed, whole unless they are damaged.          *)
THEOREM StoreInvariant == Spec => []StoreInv
<1>1. StoreInv /\ [Next]_vars => StoreInv'
  <2> SUFFICES ASSUME StoreInv, [Next]_vars PROVE StoreInv'
    OBVIOUS
  <2>1. CASE Next
    BY <2>1, StorePush, StoreCoords, StoreMeta, StoreDisk, StoreOpen DEF Next
  <2>2. CASE UNCHANGED vars
    <3>1. IInv'
      BY <2>2, NextInv DEF StoreInv
    <3> QED BY <2>2, <3>1, PlacesKept
            DEF vars, StoreInv, Rows, Whole, Verdict, Accepts, File
  <2> QED BY <2>1, <2>2
<1> QED BY <1>1, StoreInit, PTL DEF Spec

-----------------------------------------------------------------------------
(* What get reads.                                                         *)

LEMMA PlaceAt ==
    ASSUME StoreInv, NEW id \in 0 .. Count - 1
    PROVE  /\ id + 1 \in 1 .. Count /\ places[id + 1] \in Places
           /\ Decoded(Encoded(places[id + 1])) = Decoded(places[id + 1].name)
<1>1. places \in Seq(Places)
  BY DEF StoreInv, IInv, SizesOK
<1>2. id + 1 \in 1 .. Count /\ places[id + 1] \in Places
  BY <1>1, PlaceIs
<1> QED BY <1>2, NamesAssumption DEF Decoded, Encoded

(* A blob that is still whole is that of the place it was written for.     *)
LEMMA WholeBlob ==
    ASSUME StoreInv, phase \in Written, NEW k \in 1 .. Count,
           NEW b \in BlobsAt(StringsOf(k)), b.fields = Strings
    PROVE  b = StringsRow(k)
<1>1. places \in Seq(Places) /\ BlobsLeft(strings.rows)
  BY DEF StoreInv, IInv, SizesOK, Rows
<1>2. PICK n \in 1 .. Count : b = strings.rows[n] /\ strings.rows[n].at = StringsOf(k)
  BY <1>1 DEF BlobsAt, BlobsLeft
<1>3. strings.rows[n].at = Blob(StringsHeader, n) /\ strings.rows[n] = StringsRow(n)
  BY <1>1, <1>2 DEF BlobsLeft
<1>4. Blob(StringsHeader, n) = Blob(StringsHeader, k)
  BY <1>2, <1>3 DEF StringsOf
<1>5. n = k
  BY <1>1, <1>4, BlobsApart
<1> QED BY <1>2, <1>3, <1>5

(* No place has a blob of no bytes.                                        *)
LEMMA NoEmptyBlob ==
    ASSUME StoreInv, phase \in Written, NEW str, str.to = str.from
    PROVE  BlobsAt(str) = {}
<1>1. places \in Seq(Places) /\ BlobsLeft(strings.rows) /\ Count \in Nat
  BY PlaceIs DEF StoreInv, IInv, SizesOK, Rows
<1>2. SUFFICES ASSUME NEW n \in 1 .. Count, strings.rows[n].at = str PROVE FALSE
  BY <1>1 DEF BlobsAt, BlobsLeft
<1>3. Cursor(StringsHeader, n - 1) = Cursor(StringsHeader, n)
  <2>1. str = Blob(StringsHeader, n)
    BY <1>1, <1>2 DEF BlobsLeft
  <2> QED BY <2>1 DEF Blob
<1>4. n \in 0 .. Count /\ n - 1 \in 0 .. Count /\ n - 1 < n
  BY <1>1
<1>5. /\ Cursor(StringsHeader, n - 1) < Cursor(StringsHeader, n)
      /\ Cursor(StringsHeader, n) \in Nat
  BY <1>1, <1>4, CursorRises DEF StringsHeader
<1> QED BY <1>3, <1>5

(* What get answers with when it gives a place.                            *)
Whole5(str) == {b \in BlobsAt(str) : b.fields = Strings}
Given(id) ==
    [what |-> "place", osm |-> meta.rows[id + 1].osm, deg |-> from_e7(coords.rows[id + 1]),
     name |-> Decoded((CHOOSE b \in Whole5(meta.rows[id + 1].str) : TRUE).name)]

LEMMA GetIs ==
    ASSUME NEW id
    PROVE  Get(id) =
             IF ~KnownId(id) THEN [what |-> "not found"]
             ELSE IF ~Readable(coords, COORD_STRIDE, id) \/ ~Readable(meta, META_STRIDE, id)
             THEN [what |-> "storage error"]
             ELSE IF \/ meta.rows[id + 1].str.to > strings.size
                     \/ Whole5(meta.rows[id + 1].str) = {}
             THEN [what |-> "storage error"]
             ELSE Given(id)
BY DEF Get, Whole5, Given

LEMMA GivenIs ==
    ASSUME NEW id, Get(id).what = "place"
    PROVE  Get(id) = Given(id) /\ Whole5(meta.rows[id + 1].str) # {}
<1>1. [what |-> "not found"].what # "place" /\ [what |-> "storage error"].what # "place"
  OBVIOUS
<1>2. Get(id) # [what |-> "not found"] /\ Get(id) # [what |-> "storage error"]
  BY <1>1, Zenon
<1> QED BY <1>2, GetIs

-----------------------------------------------------------------------------
(* The counts and sizes of a file fit into a usize, and every row of       *)
(* meta.bin has its blob.                                                  *)
THEOREM PlaceStoreTypes == Spec => []TypeOK
<1>1. StoreInv => TypeOK
  <2> SUFFICES ASSUME StoreInv PROVE TypeOK
    OBVIOUS
  <2>1. IInv /\ Rows
    BY DEF StoreInv
  <2>2. phase \in Phases /\ damaged \in BOOLEAN /\ places \in Seq(Places)
    BY <2>1 DEF IInv, SizesOK, Rows
  <2>3. {coords.size, meta.size, strings.size} \subseteq Bytes
    BY <2>1, Bounds DEF IInv, SizesOK, Rows, Bytes
  <2>4. {coords.count, meta.count} \subseteq Bytes
    BY <2>1 DEF IInv, SizesOK, Rows, Bytes
  <2>5. Len(meta.rows) = Len(strings.rows)
    <3>1. CASE phase \in Written
      <4>1. Count \in Nat /\ MetaLeft(meta.rows) /\ BlobsLeft(strings.rows)
        BY <2>1, <2>2, <3>1, PlaceIs DEF Rows
      <4>2. Len(meta.rows) = Count /\ Len(strings.rows) = Count
        BY <4>1, ListOf DEF MetaLeft, BlobsLeft
      <4> QED BY <4>2
    <3>2. CASE phase \notin Written
      BY <2>1, <3>2 DEF Rows
    <3> QED BY <3>1, <3>2
  <2> QED BY <2>2, <2>3, <2>4, <2>5 DEF TypeOK
<1> QED BY <1>1, StoreInvariant, PTL

(* Files that are short, have zeros for some of their rows, or other       *)
(* counts: the strings that get gives under an id are those pushed with    *)
(* it, unless their very offset is torn.                                   *)
THEOREM PlaceStoreOwnStrings == Spec => []OwnStringsOrNone
<1>1. StoreInv => OwnStringsOrNone
  <2> SUFFICES ASSUME StoreInv, phase = "open", NEW id \in 0 .. Count - 1,
                      Get(id).what = "place", ~Torn(id + 1)
               PROVE  Get(id).name = Decoded(places[id + 1].name)
    BY DEF OwnStringsOrNone
  <2>1. PICK k \in 1 .. Count : k = id + 1
    BY PlaceAt
  <2>2. PICK str : str = meta.rows[k].str
    OBVIOUS
  <2>3. phase \in Written /\ MetaLeft(meta.rows)
    BY DEF Written, StoreInv, Rows
  <2>4. Get(id) = Given(id) /\ Whole5(str) # {}
    BY <2>1, <2>2, GivenIs
  <2>5. str = StringsOf(k)
    <3>1. \/ str = StringsOf(k) \/ str.to = str.from \/ str.from # StringsOf(k).from
      BY <2>2, <2>3 DEF MetaLeft
    <3>2. str.from = StringsOf(k).from \/ str.to = str.from
      BY <2>1, <2>2 DEF Torn
    <3>3. str.to # str.from
      BY <2>3, <2>4, NoEmptyBlob DEF Whole5
    <3> QED BY <3>1, <3>2, <3>3
  <2>6. PICK b : b = (CHOOSE x \in Whole5(str) : TRUE)
    OBVIOUS
  <2>7. b \in BlobsAt(StringsOf(k)) /\ b.fields = Strings
    BY <2>4, <2>5, <2>6 DEF Whole5
  <2>8. b.name = Encoded(places[k])
    BY <2>3, <2>7, WholeBlob DEF StringsRow
  <2>9. Given(id).name = Decoded(b.name)
    BY <2>1, <2>2, <2>6 DEF Given
  <2> QED BY <2>1, <2>4, <2>8, <2>9, PlaceAt
<1> QED BY <1>1, StoreInvariant, PTL

(* Without a wrap, the columns of an undamaged store are as long as open   *)
(* wants them.                                                             *)
LEMMA NeedIs ==
    ASSUME Count \in Nat, Count <= MaxPlaces
    PROVE  /\ Need(Count, COORD_STRIDE) = Header + COORD_STRIDE * Count
           /\ Need(Count, META_STRIDE) = Header + META_STRIDE * Count
<1>1. \A x \in Nat : x < Word => x % Word = x
  BY Bounds
<1>2. 16 + Count * 8 < Word /\ 16 + Count * 25 < Word
  BY Bounds
<1> QED BY <1>1, <1>2 DEF Need, Header, COORD_STRIDE, META_STRIDE

LEMMA WholeIsAccepted ==
    ASSUME StoreInv, phase \in Written, ~damaged, Count # 0
    PROVE  Accepts
<1>1. /\ places \in Seq(Places) /\ Count <= MaxPlaces
      /\ coords.size = Header + COORD_STRIDE * Count /\ coords.count = Count
      /\ meta.size = Header + META_STRIDE * Count /\ meta.count = Count
      /\ strings.size = End
  BY DEF StoreInv, IInv, SizesOK, Whole
<1>2. Count \in Nat /\ End \in Nat /\ End >= StringsHeader + 8 * Count
  BY <1>1, PlaceIs, EndIs
<1>3. /\ coords.size >= Header /\ meta.size >= Header /\ strings.size >= Header
      /\ strings.size >= StringsHeader
  BY <1>1, <1>2 DEF Header, StringsHeader, COORD_STRIDE, META_STRIDE
<1>4. /\ coords.size >= Need(coords.count, COORD_STRIDE)
      /\ meta.size >= Need(coords.count, META_STRIDE)
  BY <1>1, <1>2, NeedIs DEF Header, COORD_STRIDE, META_STRIDE
<1> QED BY <1>1, <1>3, <1>4 DEF Accepts

(* A store that nothing happened to opens, unless it is empty, and gives   *)
(* back what was pushed under the id that push gave it.                    *)
THEOREM PlaceStoreGivesBack == Spec => []GivesBackWhatWasPushed
<1>1. StoreInv => GivesBackWhatWasPushed
  <2> SUFFICES ASSUME StoreInv, ~damaged PROVE GivesBackWhatWasPushed
    BY DEF GivesBackWhatWasPushed
  <2>1. phase = "refused" => Count = 0
    BY WholeIsAccepted DEF StoreInv, Verdict, Written
  <2>2. ASSUME phase = "open", NEW id \in 0 .. Count + 1
        PROVE  Get(id) = IF id < Count THEN AsStored(places[id + 1])
                         ELSE [what |-> "not found"]
    <3>1. phase \in Written
      BY <2>2 DEF Written
    <3>2. /\ places \in Seq(Places) /\ Count <= MaxPlaces
          /\ coords.size = Header + COORD_STRIDE * Count /\ coords.count = Count
          /\ meta.size = Header + META_STRIDE * Count
          /\ strings.size = End
      BY <3>1 DEF StoreInv, IInv, SizesOK, Whole
    <3>3. Count \in Nat
      BY <3>2, PlaceIs
    <3>4. CASE id < Count
      <4>1. id \in 0 .. Count - 1 /\ id + 1 \in 0 .. Count /\ Count \in 0 .. Count
        BY <2>2, <3>3, <3>4
      <4>2. KnownId(id) /\ Readable(coords, COORD_STRIDE, id) /\ Readable(meta, META_STRIDE, id)
        BY <3>2, <3>3, <4>1 DEF KnownId, Readable, Header, COORD_STRIDE, META_STRIDE
      <4>3. PICK k \in 1 .. Count : k = id + 1
        BY <4>1, PlaceAt
      <4>4. /\ meta.rows[k].osm = places[k].osm /\ meta.rows[k].str = StringsOf(k)
            /\ coords.rows[k] = to_e7(places[k].deg) /\ strings.rows[k] = StringsRow(k)
        <5>1. meta.rows[k] = MetaRow(k) /\ coords.rows[k] = to_e7(places[k].deg)
              /\ strings.rows[k] = StringsRow(k)
          BY <3>1 DEF StoreInv, Rows, MetaRows, CoordRows, BlobRows
        <5> QED BY <5>1 DEF MetaRow
      <4>5. ~(meta.rows[k].str.to > strings.size)
        <5>1. \A i, j \in 0 .. Count : i < j =>
                  Cursor(StringsHeader, i) < Cursor(StringsHeader, j)
          BY <3>2, CursorRises DEF StringsHeader
        <5>2. /\ Cursor(StringsHeader, k) \in Nat
              /\ Cursor(StringsHeader, Count) \in Nat
          BY <3>2, <4>1, <4>3, CursorRises DEF StringsHeader
        <5>3. k = Count \/ k < Count
          BY <3>3, <4>3
        <5>4. meta.rows[k].str.to = Cursor(StringsHeader, k)
          BY <4>4 DEF StringsOf, Blob
        <5>5. Cursor(StringsHeader, k) <= Cursor(StringsHeader, Count)
          BY <4>1, <4>3, <5>1, <5>2, <5>3
        <5> QED BY <3>2, <5>2, <5>4, <5>5 DEF End
      <4>6. PICK whole : whole = Whole5(meta.rows[k].str)
        OBVIOUS
      <4>7. StringsRow(k) \in whole
        <5>1. k \in DOMAIN strings.rows
          BY <3>1, <4>3 DEF StoreInv, Rows, BlobRows
        <5>2. StringsRow(k).at = StringsOf(k) /\ StringsRow(k).fields = Strings
          BY DEF StringsRow, StringsOf
        <5> QED BY <4>4, <4>6, <5>1, <5>2 DEF Whole5, BlobsAt
      <4>8. \A b \in whole : b = StringsRow(k)
        BY <3>1, <4>4, <4>6, WholeBlob DEF Whole5
      <4>9. (CHOOSE b \in whole : TRUE) = StringsRow(k)
        BY <4>7, <4>8
      <4>10. Given(id) = AsStored(places[k])
        <5>1. StringsRow(k).name = Encoded(places[k])
          BY DEF StringsRow
        <5>2. Decoded(Encoded(places[k])) = Decoded(places[k].name)
          BY <4>1, <4>3, PlaceAt
        <5>3. Given(id) = [what |-> "place", osm |-> places[k].osm,
                           deg |-> from_e7(to_e7(places[k].deg)),
                           name |-> Decoded(places[k].name)]
          BY <4>3, <4>4, <4>6, <4>9, <5>1, <5>2 DEF Given
        <5> QED BY <5>3 DEF AsStored
      <4>11. Get(id) = Given(id)
        BY <4>2, <4>3, <4>5, <4>6, <4>7, GetIs
      <4> QED BY <3>4, <4>3, <4>10, <4>11
    <3>5. CASE ~(id < Count)
      BY <3>2, <3>5 DEF Get, KnownId
    <3> QED BY <3>4, <3>5
  <2> QED BY <2>1, <2>2 DEF GivesBackWhatWasPushed
<1> QED BY <1>1, StoreInvariant, PTL
=============================================================================
