----------------------------- MODULE PlaceStore -----------------------------
(***************************************************************************)
(* The columnar place store (hexplace-engine/src/store.rs, read through    *)
(* binio.rs): PlaceStoreWriter gives places dense ids and writes three     *)
(* files, MmapPlaceStore maps them and reads a place by its id.            *)
(*                                                                         *)
(* Nothing forces the files to the disk before they are published, so a    *)
(* loss of power may leave any of them short, or with blocks that read as  *)
(* zeros, and a bad disk may change the counts in their headers: open and  *)
(* get have to cope.  A file is its size in bytes, the count in its header *)
(* and its rows; a read succeeds when the bytes it needs are there.  Word  *)
(* stands for 2^64: the sizes that open computes from a count wrap around  *)
(* it.                                                                     *)
(***************************************************************************)
EXTENDS Integers, Sequences

CONSTANTS
    Names,       \* what a name may be
    Absent,      \* no name
    Empty,       \* the name without a letter
    Places,      \* places an import may push
    MaxPlaces,   \* bound on their number
    Word,        \* number of values of a usize
    RottenCount  \* the counts a damaged header may hold

COORD_STRIDE == 8
META_STRIDE == 25
Header == 16
StringsHeader == 8

ASSUME NamesAssumption == Empty \in Names /\ Absent \notin Names
ASSUME PlacesAssumption ==
    Places \subseteq [osm : Nat, deg : Int, name : Names \cup {Absent},
                      bytes : Nat, nul : BOOLEAN]
ASSUME MaxPlacesAssumption == MaxPlaces \in Nat
ASSUME RottenCountAssumption == RottenCount \subseteq 0 .. Word - 1

(* Files are far smaller than the address space, and every place has a     *)
(* display name, a closing NUL for each of five fields and "{}" for its    *)
(* address.                                                                *)
ASSUME WordAssumption ==
    /\ Word \in Nat
    /\ Word > META_STRIDE * (Header + META_STRIDE * MaxPlaces)
    /\ \E longest \in 0 .. Word :
           /\ \A p \in Places : p.bytes <= longest
           /\ Word > StringsHeader + MaxPlaces * longest
ASSUME BytesAssumption == \A p \in Places : p.bytes >= 8

Phases == {"collect", "columns", "failed", "written", "open", "refused"}
NoFile == [size |-> 0, count |-> 0, rows |-> <<>>]

VARIABLES
    phase,    \* where the import that writes, and the open, have got to
    places,   \* the buffered places; the id of places[n] is n - 1
    coords,   \* coords.bin
    meta,     \* meta.bin
    strings,  \* strings.bin: its rows are the blobs, and it has no count;
              \* a blob is its stretch, its first string and how many it holds
    damaged   \* something happened to the files after they were written

vars == <<phase, places, coords, meta, strings, damaged>>

Count == Len(places)

(* Coordinates come in units of 1e-8 degrees, the store keeps units of     *)
(* 1e-7, and round() takes halves away from zero.                          *)
to_e7(v) == IF v >= 0 THEN (v + 5) \div 10 ELSE -((5 - v) \div 10)
from_e7(v) == 10 * v
-----------------------------------------------------------------------------
(* PlaceStoreWriter                                                        *)

Push(p) ==
    /\ phase = "collect" /\ Count < MaxPlaces
    /\ places' = Append(places, p)
    /\ UNCHANGED <<phase, coords, meta, strings, damaged>>

WriteCoords ==
    /\ phase = "collect"
    /\ phase' = "columns"
    /\ coords' = [size |-> Header + COORD_STRIDE * Count, count |-> Count,
                  rows |-> [n \in 1 .. Count |-> to_e7(places[n].deg)]]
    /\ UNCHANGED <<places, meta, strings, damaged>>

(* Where the cursor is after n places when it starts at byte first, and    *)
(* the bytes that the n-th place so gets.                                  *)
Cursor(first, n) ==
    LET after[k \in 0 .. Count] ==
            IF k = 0 THEN first ELSE after[k - 1] + places[k].bytes
    IN  after[n]
Blob(first, n) == [from |-> Cursor(first, n - 1), to |-> Cursor(first, n)]

(* The cursor the rows take their offsets from starts after the header.    *)
(* Mutants: it starts at the beginning of the file; it never advances.     *)
StringsOf_NoHeader(n) == Blob(0, n)
StringsOf_Stuck(n) ==
    [from |-> StringsHeader, to |-> StringsHeader + places[n].bytes]
StringsOf(n) == Blob(StringsHeader, n)

(* push_cstring ends a field with a NUL, so no field may hold one; the     *)
(* writer stops at the first place that has one.                           *)
Encodable(p) == ~p.nul
EncodableUpTo(n) == \A k \in 1 .. n : Encodable(places[k])

(* A missing name is written like an empty one.                            *)
Encoded(p) == IF p.name = Absent THEN Empty ELSE p.name
Strings == 5

MetaRow(n) == [osm |-> places[n].osm, str |-> StringsOf(n)]
StringsRow(n) ==
    [at |-> Blob(StringsHeader, n), name |-> Encoded(places[n]), fields |-> Strings]

(* Mutant: the row of a place is written before its strings are encoded.   *)
WriteMetaAndStrings_RowFirst ==
    /\ phase = "columns"
    /\ phase' = IF EncodableUpTo(Count) THEN "written" ELSE "failed"
    /\ \E done \in 0 .. Count :
         /\ EncodableUpTo(done) /\ (done < Count => ~EncodableUpTo(done + 1))
         /\ LET rows == IF done < Count THEN done + 1 ELSE done
            IN  meta' = [size |-> Header + META_STRIDE * rows, count |-> Count,
                         rows |-> [n \in 1 .. rows |-> MetaRow(n)]]
         /\ strings' = [size |-> Cursor(StringsHeader, done), count |-> 0,
                        rows |-> [n \in 1 .. done |-> StringsRow(n)]]
    /\ UNCHANGED <<places, coords, damaged>>

(* The buffers of both files are flushed when the writer gives up, so that *)
(* the places before the one it failed on are in them.                     *)
WriteMetaAndStrings ==
    /\ phase = "columns"
    /\ phase' = IF EncodableUpTo(Count) THEN "written" ELSE "failed"
    /\ \E done \in 0 .. Count :
         /\ EncodableUpTo(done) /\ (done < Count => ~EncodableUpTo(done + 1))
         /\ meta' = [size |-> Header + META_STRIDE * done, count |-> Count,
                     rows |-> [n \in 1 .. done |-> MetaRow(n)]]
         /\ strings' = [size |-> Cursor(StringsHeader, done), count |-> 0,
                        rows |-> [n \in 1 .. done |-> StringsRow(n)]]
    /\ UNCHANGED <<places, coords, damaged>>
-----------------------------------------------------------------------------
(* The disk.                                                               *)

(* What may be left of each file: it is short, or rows of it lie in blocks *)
(* that read as zeros.  A header that does has no magic number, and open   *)
(* refuses it like one that is cut.                                        *)
Cuts(f) == {[f EXCEPT !.size = n] :
               n \in {0, StringsHeader, Header, f.size - 1} \cap (0 .. f.size)}

LeftOfCoords ==
    Cuts(coords) \cup
    {[coords EXCEPT !.rows = [n \in DOMAIN coords.rows |->
                                 IF n \in zeroed THEN 0 ELSE coords.rows[n]]] :
        zeroed \in SUBSET (DOMAIN coords.rows)}

(* A block may begin or end within a row, and even within its offset,      *)
(* which then is smaller.  (One damaged row will do: get reads no other.)  *)
LeftOfMetaRow(row) ==
    LET length == row.str.to - row.str.from
    IN  {[osm |-> osm, str |-> [from |-> from, to |-> from + n]] :
            osm \in {row.osm, 0}, from \in 0 .. row.str.from, n \in {length, 0}}
Torn(n) ==
    LET str == meta.rows[n].str
    IN  str.from # StringsOf(n).from /\ str.to # str.from

LeftOfMeta ==
    Cuts(meta) \cup {meta} \cup
    UNION {{[meta EXCEPT !.rows[n] = row] : row \in LeftOfMetaRow(meta.rows[n])} :
              n \in DOMAIN meta.rows}

(* A zero in the middle of a string ends it and begins another.            *)
LeftOfBlob(blob) ==
    {blob} \cup {[blob EXCEPT !.name = n, !.fields = Strings + 1] : n \in Names}
LeftOfStrings ==
    Cuts(strings) \cup
    LET blobs == UNION {LeftOfBlob(strings.rows[n]) : n \in DOMAIN strings.rows}
        left == {rows \in [DOMAIN strings.rows -> blobs] :
                    \A n \in DOMAIN rows : rows[n] \in LeftOfBlob(strings.rows[n])}
    IN  {[strings EXCEPT !.rows = rows] : rows \in left}

PowerLoss ==
    /\ phase = "written" /\ ~damaged
    /\ damaged' = TRUE
    /\ coords' \in LeftOfCoords /\ meta' \in LeftOfMeta /\ strings' \in LeftOfStrings
    /\ UNCHANGED <<phase, places>>

HeadersRot ==
    /\ phase = "written" /\ ~damaged
    /\ damaged' = TRUE
    /\ \E c \in RottenCount :
         /\ coords' = [coords EXCEPT !.count = c]
         /\ meta' \in {meta, [meta EXCEPT !.count = c]}
    /\ UNCHANGED <<phase, places, strings>>
-----------------------------------------------------------------------------
(* MmapPlaceStore::open                                                    *)

(* The bytes of a column, as computed in a usize.                          *)
Need(count, stride) == (Header + count * stride) % Word

(* Mutant: only the coordinate column is measured.                         *)
Accepts_CoordsOnly ==
    /\ \A n \in {coords.size, meta.size, strings.size} : n >= Header
    /\ coords.count = meta.count
    /\ coords.size >= Need(coords.count, COORD_STRIDE)

(* map_file wants 16 bytes of every file, also of strings.bin, whose       *)
(* header has only eight.                                                  *)
Accepts ==
    /\ \A n \in {coords.size, meta.size, strings.size} : n >= Header
    /\ coords.count = meta.count
    /\ coords.size >= Need(coords.count, COORD_STRIDE)
    /\ meta.size >= Need(coords.count, META_STRIDE)
    /\ strings.size >= StringsHeader

Open ==
    /\ phase = "written"
    /\ phase' = IF Accepts THEN "open" ELSE "refused"
    /\ UNCHANGED <<places, coords, meta, strings, damaged>>

(* MmapPlaceStore::get: the place with this id, or why there is none.      *)

KnownId(id) == id < coords.count

Readable(f, stride, id) == Header + stride * (id + 1) <= f.size

(* An empty name comes back as no name, and coordinates come back rounded. *)
Decoded(name) == IF name = Empty THEN Absent ELSE name
AsStored(p) ==
    [what |-> "place", osm |-> p.osm, deg |-> from_e7(to_e7(p.deg)), name |-> Decoded(p.name)]

(* The blobs, or what is left of them, that stand where a row of meta.bin  *)
(* says.  No other stretch is read as strings: it holds fewer, or does not *)
(* end with an address.  (One from the middle of a name to the end of its  *)
(* blob does; only an offset that is Torn leads there.)                    *)
BlobsAt(str) == {strings.rows[n] : n \in {k \in DOMAIN strings.rows :
                                            strings.rows[k].at = str}}

(* Mutant: the number of strings is not looked at.                         *)
Get_AnyNumber(id) ==
    IF ~KnownId(id) THEN [what |-> "not found"]
    ELSE IF ~Readable(coords, COORD_STRIDE, id) \/ ~Readable(meta, META_STRIDE, id)
    THEN [what |-> "storage error"]
    ELSE LET row == meta.rows[id + 1]
         IN  IF row.str.to > strings.size \/ BlobsAt(row.str) = {}
             THEN [what |-> "storage error"]
             ELSE LET blob == CHOOSE b \in BlobsAt(row.str) : TRUE
                  IN  [what |-> "place", osm |-> row.osm,
                       deg |-> from_e7(coords.rows[id + 1]), name |-> Decoded(blob.name)]

Get(id) ==
    IF ~KnownId(id) THEN [what |-> "not found"]
    ELSE IF ~Readable(coords, COORD_STRIDE, id) \/ ~Readable(meta, META_STRIDE, id)
    THEN [what |-> "storage error"]
    ELSE LET row == meta.rows[id + 1]
             whole == {b \in BlobsAt(row.str) : b.fields = Strings}
         IN  IF row.str.to > strings.size \/ whole = {}
             THEN [what |-> "storage error"]
             ELSE LET blob == CHOOSE b \in whole : TRUE
                  IN  [what |-> "place", osm |-> row.osm,
                       deg |-> from_e7(coords.rows[id + 1]), name |-> Decoded(blob.name)]
-----------------------------------------------------------------------------
Init ==
    /\ phase = "collect" /\ places = <<>> /\ damaged = FALSE
    /\ coords = NoFile /\ meta = NoFile /\ strings = NoFile

Next ==
    \/ \E p \in Places : Push(p)
    \/ WriteCoords \/ WriteMetaAndStrings
    \/ PowerLoss \/ HeadersRot
    \/ Open

Spec == Init /\ [][Next]_vars
-----------------------------------------------------------------------------
Bytes == 0 .. Word - 1
TypeOK ==
    /\ phase \in Phases /\ damaged \in BOOLEAN
    /\ places \in Seq(Places)
    /\ {coords.size, meta.size, strings.size} \subseteq Bytes
    /\ {coords.count, meta.count} \subseteq Bytes
    /\ Len(meta.rows) = Len(strings.rows)

(* A store that was written opens and gives back every place under the id  *)
(* push gave it, and nothing under any other id.  One with a NUL in a      *)
(* field is never written to the end.                                      *)
GivesBackWhatWasPushed ==
    /\ phase = "refused" /\ ~damaged => Count = 0
    /\ phase = "open" /\ ~damaged =>
         \A id \in 0 .. Count + 1 :
             Get(id) = IF id < Count THEN AsStored(places[id + 1])
                       ELSE [what |-> "not found"]

(* What open accepts it can read, whatever the headers say: the row of     *)
(* every id below the count is in both columns, though the sizes it        *)
(* compares with wrap around.                                              *)
OpenedColumnsAreCovered ==
    phase = "open" =>
        /\ coords.count <= (coords.size - Header) \div COORD_STRIDE
        /\ coords.count <= (meta.size - Header) \div META_STRIDE

(* A damaged store may fail to give a place, or give it without its        *)
(* coordinates or its OSM id, which read as zeros; but the strings it      *)
(* gives are those of the place, never a part of them nor another place's. *)
(* Nothing guards the offset of the strings, so a Torn one is not covered. *)
OwnStringsOrNone ==
    phase = "open" => \A id \in 0 .. Count - 1 :
        Get(id).what = "place" /\ ~Torn(id + 1) =>
            Get(id).name = Decoded(places[id + 1].name)
=============================================================================
