---------------------------- MODULE MCPlaceStore ----------------------------
(* Stores of at most two places.  A word of 2^11 is the smallest power of  *)
(* two above META_STRIDE times the largest file, and every count is tried. *)
EXTENDS PlaceStore

SomePlaces == {
    [osm |-> 1, deg |-> 14, name |-> "A", bytes |-> 12, nul |-> FALSE],
    [osm |-> 2, deg |-> -15, name |-> Empty, bytes |-> 8, nul |-> FALSE],
    [osm |-> 3, deg |-> 5, name |-> Absent, bytes |-> 12, nul |-> FALSE],
    [osm |-> 4, deg |-> 0, name |-> "A", bytes |-> 9, nul |-> TRUE]}
EveryCount == 0 .. Word - 1
=============================================================================
