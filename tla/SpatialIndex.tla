---------------------------- MODULE SpatialIndex ----------------------------
(***************************************************************************)
(* One layer of the H3 index (hexplace-engine/src/spatial.rs): the places  *)
(* of an import grouped by cell in three columns, the checks with which    *)
(* CsrLayer::open admits the files, and the lookup of a cell in them.      *)
(* A cell is a number.  A column is its size in bytes, the count in its    *)
(* header and the values that were written to it.                          *)
(***************************************************************************)
EXTENDS Lists

Header == 16
Wide == 8    \* bytes of a cell or an offset
Narrow == 4  \* bytes of a posting

Column(rows, stride) ==
    [size |-> Header + stride * Len(rows), count |-> Len(rows), rows |-> rows]

(* Reading the i-th value, counted from 0.                                 *)
Readable(col, stride, i) ==
    i < Len(col.rows) /\ Header + stride * (i + 1) <= col.size
-----------------------------------------------------------------------------
(* build_csr_layer: entries is the set of [id, cell, importance].          *)

(* Within a cell the more important place comes first, then the older id.  *)
Before(a, b) ==
    \/ a.importance > b.importance
    \/ a.importance = b.importance /\ a.id < b.id

Layer(entries) ==
    LET cells == Increasing({e.cell : e \in entries})
        buckets == [k \in 1 .. Len(cells) |->
                       Listing({e \in entries : e.cell = cells[k]}, Before)]
        upTo(k) == FlattenSeq(SubSeq(buckets, 1, k))
        all == upTo(Len(cells))
    IN  [cells    |-> Column(cells, Wide),
         offsets  |-> Column([k \in 1 .. Len(cells) + 1 |-> Len(upTo(k - 1))], Wide),
         postings |-> Column([n \in 1 .. Len(all) |-> all[n].id], Narrow)]
-----------------------------------------------------------------------------
(* CsrLayer::open                                                          *)

(* header_count, checked_add, column_byte_len: sizes that do not fit a     *)
(* usize are refused, so the arithmetic is exact.                          *)
Covered(col, stride) == col.size >= Header /\ col.size >= Header + stride * col.count

(* validate_offset_table reads the table through its own header count.     *)
(* Mutant: the order of the entries is not looked at.                      *)
ValidOffsets_EndsOnly(L) ==
    /\ L.offsets.rows[1] = 0
    /\ L.offsets.rows[L.offsets.count] = L.postings.count
ValidOffsets(L) ==
    /\ L.offsets.rows[1] = 0
    /\ L.offsets.rows[L.offsets.count] = L.postings.count
    /\ \A k \in 2 .. L.offsets.count :
           L.offsets.rows[k] \in L.offsets.rows[k - 1] .. L.postings.count

Admits(L) ==
    /\ L.offsets.count = L.cells.count + 1
    /\ Covered(L.cells, Wide) /\ Covered(L.offsets, Wide)
    /\ Covered(L.postings, Narrow)
    /\ ValidOffsets(L)
-----------------------------------------------------------------------------
(* lookup_cell_ids                                                         *)

(* The first index, in 0 .. count, whose cell is not below c; r is the     *)
(* range <<lo, hi>> the loop has left.                                     *)
(* Mutant: the search goes right on an equal cell too.                     *)
FirstNotBelow_SkipsEqual(L, c) ==
    LET n == L.cells.count
        f[r \in (0 .. n) \X (0 .. n)] ==
            LET mid == (r[1] + r[2]) \div 2
            IN  IF r[1] >= r[2] THEN r[1]
                ELSE IF L.cells.rows[mid + 1] <= c THEN f[<<mid + 1, r[2]>>]
                ELSE f[<<r[1], mid>>]
    IN  f[<<0, n>>]

FirstNotBelow(L, c) ==
    LET n == L.cells.count
        f[r \in (0 .. n) \X (0 .. n)] ==
            LET mid == (r[1] + r[2]) \div 2
            IN  IF r[1] >= r[2] THEN r[1]
                ELSE IF L.cells.rows[mid + 1] < c THEN f[<<mid + 1, r[2]>>]
                ELSE f[<<r[1], mid>>]
    IN  f[<<0, n>>]

Unreadable == <<-1>>

(* The ids of cell c; the code gives none at all when it cannot read one.  *)
LookupCellIds(L, c) ==
    LET lo == FirstNotBelow(L, c)
    IN  IF lo >= L.cells.count \/ L.cells.rows[lo + 1] # c THEN <<>>
        ELSE LET from == L.offsets.rows[lo + 1]
                 to == L.offsets.rows[lo + 2]
             IN  IF \A i \in from .. to - 1 : Readable(L.postings, Narrow, i)
                 THEN SubSeq(L.postings.rows, from + 1, to)
                 ELSE Unreadable
=============================================================================
