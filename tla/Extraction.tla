----------------------------- MODULE Extraction -----------------------------
(***************************************************************************)
(* What `hexplace import` reads from an OpenStreetMap file                 *)
(* (hexplace-engine/src/import/mod.rs, node_store.rs and osm_place.rs):    *)
(* a first pass collects node coordinates, a second one turns nodes and    *)
(* ways into places, and a third one takes the hash for the manifest.      *)
(*                                                                         *)
(* Each pass opens the path anew, so a download that renames a newer file  *)
(* over it may come between two passes; within a pass the open file stays  *)
(* the same.  A FILE is the sequence of its elements.  One number stands   *)
(* for a latitude and a longitude, and for what the tags say an element    *)
(* has a name, or an address (house number and street), or neither.        *)
(***************************************************************************)
EXTENDS Lists

CONSTANTS
    Sources,       \* the files an import may start from
    Replacements,  \* the files that may take the place of one
    Word           \* number of values of a u64; an id is signed

Kinds == {"node", "way", "relation"}
Elements == [kind : Kinds, id : Int, at : Nat, refs : Seq(Int),
             named : BOOLEAN, address : BOOLEAN]

ASSUME FilesAssumption == Sources \cup Replacements \subseteq Seq(Elements)
ASSUME WordAssumption == Word \in Nat \ {0}

Unread == <<>>
Steps == {"nodes", "finalize", "places", "hash", "done", "failed"}

VARIABLES
    source,    \* the file the path names now
    pc,        \* which pass is next
    readFrom,  \* readFrom[pass]: the file that pass read, or Unread
    coords,    \* SparseNodeStore: its entries, and whether they are sorted
    places,    \* the extracted places, in the order of their ids
    hash       \* the file the manifest's source_hash is taken from

vars == <<source, pc, readFrom, coords, places, hash>>
-----------------------------------------------------------------------------
(* SparseNodeStore                                                         *)

(* One insert after the other, which leaves the entries unsorted.          *)
insert(store, nodes) ==
    [entries |-> store.entries \o
                 [k \in DOMAIN nodes |-> [id |-> nodes[k].id, at |-> nodes[k].at]],
     sorted |-> store.sorted /\ nodes = <<>>]

(* A stable sort: equal ids keep the order in which they were inserted.    *)
SortedById(entries) ==
    LET earlier(i, j) ==
            \/ entries[i].id < entries[j].id
            \/ entries[i].id = entries[j].id /\ i < j
        positions == Listing(DOMAIN entries, earlier)
    IN  [k \in DOMAIN entries |-> entries[positions[k]]]

(* dedup_by copies the coordinates of an entry it drops into the one it    *)
(* keeps: what is left of a run of equal ids is its last entry.  Mutant:   *)
(* it only drops, and leaves the first.                                    *)
Dedup_KeepsFirst(entries) ==
    Picked(entries, {k \in DOMAIN entries :
                         k > 1 => entries[k - 1].id # entries[k].id})
Dedup(entries) ==
    Picked(entries, {k \in DOMAIN entries :
                         k < Len(entries) => entries[k + 1].id # entries[k].id})

finalize(store) == [entries |-> Dedup(SortedById(store.entries)), sorted |-> TRUE]

(* Binary search finds an entry of this id in a sorted array if any.       *)
Unknown == -1
get(store, id) ==
    LET found == {n \in DOMAIN store.entries : store.entries[n].id = id}
    IN  IF store.sorted /\ found # {}
        THEN store.entries[CHOOSE n \in found : TRUE].at ELSE Unknown
-----------------------------------------------------------------------------
(* Places.                                                                 *)

has_searchable_name(e) == e.named
searchable(e) == has_searchable_name(e) \/ e.address

(* `as u64`: the id of an element an editor made is negative.              *)
as_u64(id) == id % Word

Total(f) == FoldFunction(+, 0, f)

(* The mean, as a sum and a number, of the nodes the store knows.  A node  *)
(* that closes a ring counts twice.  Mutant: unknown nodes count as well.  *)
Known(refs, store) == {n \in DOMAIN refs : get(store, refs[n]) # Unknown}
centroid_CountsUnknown(refs, store) ==
    [sum |-> Total([n \in Known(refs, store) |-> get(store, refs[n])]),
     n |-> Len(refs)]
centroid(refs, store) ==
    [sum |-> Total([n \in Known(refs, store) |-> get(store, refs[n])]),
     n |-> Cardinality(Known(refs, store))]

Place(e, at) == [type |-> e.kind, osm |-> as_u64(e.id), at |-> at]

(* What one element adds.  A way needs a name, an address is not enough,   *)
(* and a node the first pass saw; relations are not imported.              *)
PlacesOf(e, store) ==
    IF e.kind = "node" /\ searchable(e) THEN <<Place(e, [sum |-> e.at, n |-> 1])>>
    ELSE IF e.kind = "way" /\ has_searchable_name(e) /\ centroid(e.refs, store).n > 0
    THEN <<Place(e, centroid(e.refs, store))>>
    ELSE <<>>
-----------------------------------------------------------------------------
(* import_pbf                                                              *)

CollectNodes ==
    /\ pc = "nodes"
    /\ pc' = "finalize"
    /\ readFrom' = [readFrom EXCEPT !.nodes = source]
    /\ coords' = insert(coords, Picked(source, {n \in DOMAIN source :
                                                   source[n].kind = "node"}))
    /\ UNCHANGED <<source, places, hash>>

(* Mutant: the store is left as the first pass filled it.                  *)
Finalize_Skipped ==
    /\ pc = "finalize"
    /\ pc' = "places"
    /\ UNCHANGED <<source, readFrom, coords, places, hash>>

Finalize ==
    /\ pc = "finalize"
    /\ pc' = "places"
    /\ coords' = finalize(coords)
    /\ UNCHANGED <<source, readFrom, places, hash>>

ExtractPlaces ==
    /\ pc = "places"
    /\ readFrom' = [readFrom EXCEPT !.places = source]
    /\ places' = FlattenSeq([n \in DOMAIN source |-> PlacesOf(source[n], coords)])
    /\ pc' = IF places' = <<>> THEN "failed" ELSE "hash"
    /\ UNCHANGED <<source, coords, hash>>

HashSource ==
    /\ pc = "hash"
    /\ pc' = "done"
    /\ hash' = source
    /\ UNCHANGED <<source, readFrom, coords, places>>

(* The path is gone, or the file breaks off: the import has an error.      *)
ReadFails ==
    /\ pc \in {"nodes", "places", "hash"}
    /\ pc' = "failed"
    /\ UNCHANGED <<source, readFrom, coords, places, hash>>

Replaced ==
    /\ pc \notin {"done", "failed"}
    /\ source' \in Replacements
    /\ UNCHANGED <<pc, readFrom, coords, places, hash>>

Init ==
    /\ source \in Sources
    /\ pc = "nodes"
    /\ readFrom = [nodes |-> Unread, places |-> Unread]
    /\ coords = [entries |-> <<>>, sorted |-> FALSE]
    /\ places = <<>> /\ hash = Unread

Next ==
    \/ CollectNodes \/ Finalize \/ ExtractPlaces \/ HashSource \/ ReadFails
    \/ Replaced

Spec == Init /\ [][Next]_vars
-----------------------------------------------------------------------------
TypeOK ==
    /\ source \in Sources \cup Replacements
    /\ pc \in Steps
    /\ {readFrom.nodes, readFrom.places, hash} \subseteq
           Sources \cup Replacements \cup {Unread}
    /\ pc \in {"nodes", "finalize"} => places = <<>>
    /\ pc \in {"places", "hash", "done"} => coords.sorted
    /\ \A n \in DOMAIN places : places[n].osm \in 0 .. Word - 1

(* What a file says, whatever the order of its elements: the coordinates   *)
(* of a node are those of its last occurrence, and a way lies in the middle *)
(* of those of its nodes that occur at all, also if they come after it.    *)
Occurrences(file, id) ==
    {n \in DOMAIN file : file[n].kind = "node" /\ file[n].id = id}
Located(file, id) == file[Max(Occurrences(file, id))].at
Middle(file, refs) ==
    LET met == {n \in DOMAIN refs : Occurrences(file, refs[n]) # {}}
    IN  [sum |-> Total([n \in met |-> Located(file, refs[n])]),
         n |-> Cardinality(met)]

(* After the first pass every node of the file is found where its last     *)
(* occurrence put it, and no other node is found.                          *)
NodesAreWhereLastSeen ==
    pc \in {"places", "hash", "done"} =>
        \A id \in UNION {{e.id} \cup ToSet(e.refs) : e \in ToSet(source)} :
            get(coords, id) = IF Occurrences(readFrom.nodes, id) = {} THEN Unknown
                              ELSE Located(readFrom.nodes, id)

(* The places are those of the file the second pass read, in its order:    *)
(* every node with a name or an address and every named way with a known   *)
(* node, once and where it lies; a way is placed by the nodes of the file  *)
(* the first pass read.  This is what the code does: ARCHITECTURE.md:106   *)
(* and the import skill of the repository ask for ways that have only an   *)
(* address as well, which has_searchable_name leaves out.                  *)
PlacesAreThoseOfTheFile ==
    pc \in {"hash", "done"} =>
        LET file == readFrom.places
            middle(e) == Middle(readFrom.nodes, e.refs)
            wanted(e) == \/ e.kind = "node" /\ (e.named \/ e.address)
                         \/ e.kind = "way" /\ e.named /\ middle(e).n # 0
            kept == Picked(file, {n \in DOMAIN file : wanted(file[n])})
        IN  places = [k \in DOMAIN kept |->
                         Place(kept[k], IF kept[k].kind = "way" THEN middle(kept[k])
                                        ELSE [sum |-> kept[k].at, n |-> 1])]
=============================================================================
