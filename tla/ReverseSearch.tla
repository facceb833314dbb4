--------------------------- MODULE ReverseSearch ---------------------------
(***************************************************************************)
(* Reverse geocoding: the two-layer H3 index is built from the places of   *)
(* an import and opened (spatial.rs), a query collects candidates cell by  *)
(* cell, and Engine::reverse keeps the best of them (service.rs).          *)
(*                                                                         *)
(* The H3 grid is external: Coarse and Ring stand for it.  The coarse cell *)
(* of a point is computed from the point and not from its fine cell: fine  *)
(* cells at a border reach into several coarse ones.  Scores are small     *)
(* integers, so that ties happen; Nearness stands for the distance.        *)
(***************************************************************************)
EXTENDS SpatialIndex, FiniteSets

CONSTANTS
    Cells,          \* the fine cells, numbers
    Coarse,         \* Coarse[c]: the coarse cells that points of c lie in
    Ring,           \* Ring[c][k]: the cells at grid distance k from c, in order
    Nearness,       \* Nearness[c][d]: the distance part of a score
    Importances,    \* importance of a place
    MaxPlaces, MaxLimit,
    MaxDamaged      \* damage is looked at in indexes of up to so many places

ASSUME CellsAssumption == Cells \subseteq Nat
ASSUME CoarseAssumption == Coarse \in [Cells -> SUBSET Nat]
ASSUME RingAssumption == Ring \in [Cells -> [1 .. 2 -> Seq(Cells)]]
ASSUME NearnessAssumption == Nearness \in [Cells -> [Cells -> Nat]]
ASSUME BoundsAssumption ==
    /\ Importances \subseteq Nat /\ MaxPlaces \in Nat /\ MaxDamaged \in Nat
    /\ MaxLimit \in Nat \ {0}

Stages == {"own", "ring 1", "ring 2", "coarse", "rank", "hydrate", "answered"}
Phases == {"collect", "built", "refused"} \cup Stages

NoLayer == Layer({})
NoQuery == [cell |-> 0, coarse |-> 0, limit |-> 0]

VARIABLES
    phase,
    places,   \* places[n]: cells and importance of the place with id n - 1
    fine, coarse,
    damaged,  \* the files were damaged before they were opened
    lost,     \* ids whose strings the damage took
    query,
    ids,      \* the candidates, in the order they were found
    ranked,   \* how many of them push_best has seen
    best,     \* its list of [score, id]
    hits      \* the ids of the answer

vars == <<phase, places, fine, coarse, damaged, lost, query, ids, ranked, best, hits>>
build == <<places, fine, coarse, damaged, lost>>

Ids == {n - 1 : n \in DOMAIN places}
Entries(in) == {[id |-> n - 1, cell |-> in[n],
                 importance |-> places[n].importance] : n \in DOMAIN places}
FineCells == [n \in DOMAIN places |-> places[n].cell]
CoarseCells == [n \in DOMAIN places |-> places[n].coarse]
-----------------------------------------------------------------------------
(* Import, disk and open.                                                  *)

Push(c, w, m) ==
    /\ phase = "collect" /\ Len(places) < MaxPlaces
    /\ places' = Append(places, [cell |-> c, coarse |-> w, importance |-> m])
    /\ UNCHANGED <<phase, fine, coarse, damaged, lost, query, ids, ranked, best, hits>>

BuildIndex ==
    /\ phase = "collect" /\ places # <<>>
    /\ phase' = "built"
    /\ fine' = Layer(Entries(FineCells))
    /\ coarse' = Layer(Entries(CoarseCells))
    /\ UNCHANGED <<places, damaged, lost, query, ids, ranked, best, hits>>

(* A column loses its end, or the offset table or the postings a value, or *)
(* both headers that must agree are wrong together; and a place may lose   *)
(* its strings.  Len(places) stands for every id that no place has.        *)
Shorter(col) == {[col EXCEPT !.size = n] : n \in {0, Header, col.size - 1}}
ShorterFile(L) ==
    {[L EXCEPT !.cells = f] : f \in Shorter(L.cells)}
    \cup {[L EXCEPT !.offsets = f] : f \in Shorter(L.offsets)}
    \cup {[L EXCEPT !.postings = f] : f \in Shorter(L.postings)}
WrongOffset(L) ==
    {[L EXCEPT !.offsets.rows[k] = v] :
         k \in 1 .. L.offsets.count, v \in 0 .. L.postings.count + 1}
WrongCounts(L) ==
    {[L EXCEPT !.cells.count = n, !.offsets.count = n + 1] : n \in 0 .. L.cells.count + 1}
WrongPosting(L) ==
    {[L EXCEPT !.postings.rows[k] = Len(places)] : k \in 1 .. L.postings.count}
Damages(L) == ShorterFile(L) \cup WrongOffset(L) \cup WrongCounts(L) \cup WrongPosting(L)

DamageFiles ==
    /\ phase = "built" /\ ~damaged /\ Len(places) <= MaxDamaged
    /\ damaged' = TRUE
    /\ lost' \in {{}, {0}}
    /\ fine' \in Damages(fine)
    /\ UNCHANGED <<phase, places, coarse, query, ids, ranked, best, hits>>

Open ==
    /\ phase = "built"
    /\ IF Admits(fine) /\ Admits(coarse)
       THEN /\ phase' = "own"
            /\ \E c \in Cells, n \in 1 .. MaxLimit : \E w \in Coarse[c] :
                   query' = [cell |-> c, coarse |-> w, limit |-> n]
       ELSE phase' = "refused" /\ UNCHANGED query
    /\ UNCHANGED <<build, ids, ranked, best, hits>>
-----------------------------------------------------------------------------
(* H3SpatialIndex::candidates                                              *)

(* A place that has been seen is not listed again.                         *)
Found(seq, new) ==
    seq \o Picked(new, {n \in DOMAIN new :
                           /\ ~Contains(seq, new[n])
                           /\ ~Contains(SubSeq(new, 1, n - 1), new[n])})

(* Mutant: one ring only.                                                  *)
NextStage_OneRing ==
    [s \in {"own", "ring 1", "ring 2", "coarse"} |->
        CASE s = "own" -> "ring 1"
          [] s \in {"ring 1", "ring 2"} -> "coarse"
          [] s = "coarse" -> "rank"]
NextStage ==
    [s \in {"own", "ring 1", "ring 2", "coarse"} |->
        CASE s = "own" -> "ring 1"
          [] s = "ring 1" -> "ring 2"
          [] s = "ring 2" -> "coarse"
          [] s = "coarse" -> "rank"]

LookedUp ==
    LET own == query.cell
        around(k) == FlattenSeq([n \in DOMAIN Ring[own][k] |->
                                    LookupCellIds(fine, Ring[own][k][n])])
    IN  CASE phase = "own"    -> LookupCellIds(fine, own)
          [] phase = "ring 1" -> around(1)
          [] phase = "ring 2" -> around(2)
          [] phase = "coarse" -> LookupCellIds(coarse, query.coarse)

(* Every stage after the first runs only while candidates are missing.     *)
Collect ==
    /\ phase \in DOMAIN NextStage
    /\ phase = "own" \/ Len(ids) < query.limit
    /\ ids' = Found(ids, LookedUp)
    /\ phase' = NextStage[phase]
    /\ UNCHANGED <<build, query, ranked, best, hits>>

EnoughFound ==
    /\ phase \in {"ring 1", "ring 2", "coarse"} /\ Len(ids) >= query.limit
    /\ phase' = "rank"
    /\ UNCHANGED <<build, query, ids, ranked, best, hits>>
-----------------------------------------------------------------------------
(* Engine::reverse                                                         *)

Score(id) == Nearness[query.cell][places[id + 1].cell] + places[id + 1].importance

(* The first position whose entry has no better score than s.              *)
PartitionPoint(list, s) ==
    Min({n \in 1 .. Len(list) + 1 : n <= Len(list) => list[n].score <= s})

(* push_best: a full list gives up its last entry to a better one only.    *)
(* Mutant: the entry that is dropped is not the worst but the newest.      *)
PushBest_DropsNew(list, s, id) ==
    IF Len(list) = query.limit THEN list
    ELSE InsertAt(list, PartitionPoint(list, s), [score |-> s, id |-> id])

PushBest(list, s, id) ==
    LET full == Len(list) = query.limit
        kept == IF full THEN Front(list) ELSE list
    IN  IF full /\ s <= Last(list).score THEN list
        ELSE InsertAt(kept, PartitionPoint(kept, s), [score |-> s, id |-> id])

(* A candidate without coordinates or importance is skipped: the store     *)
(* gives neither for an id it does not have.                               *)
Rank ==
    /\ phase = "rank"
    /\ IF ranked = Len(ids)
       THEN phase' = "hydrate" /\ UNCHANGED <<ranked, best>>
       ELSE /\ ranked' = ranked + 1
            /\ best' = IF ids[ranked'] \in Ids
                       THEN PushBest(best, Score(ids[ranked']), ids[ranked'])
                       ELSE best
            /\ UNCHANGED phase
    /\ UNCHANGED <<build, query, ids, hits>>

(* Mutant: the answer has positions in the list for ids.                   *)
Hydrate_Positions ==
    /\ phase = "hydrate"
    /\ phase' = "answered"
    /\ hits' = [n \in DOMAIN best |-> n]
    /\ UNCHANGED <<build, query, ids, ranked, best>>

(* A place the store cannot give is left out of the answer.                *)
Hydrate ==
    /\ phase = "hydrate"
    /\ phase' = "answered"
    /\ hits' = LET given == Picked(best, {n \in DOMAIN best : best[n].id \notin lost})
               IN  [n \in DOMAIN given |-> given[n].id]
    /\ UNCHANGED <<build, query, ids, ranked, best>>
-----------------------------------------------------------------------------
Init ==
    /\ phase = "collect" /\ places = <<>>
    /\ fine = NoLayer /\ coarse = NoLayer /\ damaged = FALSE /\ lost = {}
    /\ query = NoQuery /\ ids = <<>> /\ ranked = 0 /\ best = <<>> /\ hits = <<>>

Next ==
    \/ \E c \in Cells, m \in Importances : \E w \in Coarse[c] : Push(c, w, m)
    \/ BuildIndex \/ DamageFiles \/ Open
    \/ Collect \/ EnoughFound \/ Rank \/ Hydrate

Spec == Init /\ [][Next]_vars
-----------------------------------------------------------------------------
TypeOK ==
    /\ phase \in Phases /\ damaged \in BOOLEAN
    /\ places \in Seq([cell : Cells, coarse : Nat, importance : Importances])
    /\ ToSet(ids) \subseteq 0 .. Len(places)
    /\ lost \subseteq Ids /\ ToSet(hits) \subseteq Ids
    /\ query.cell \in Cells \cup {0} /\ query.limit \in 0 .. MaxLimit
    /\ ranked \in 0 .. Len(ids)
    /\ \A n \in DOMAIN best : best[n].id \in Ids

(* Looking up any cell in a layer that was built gives the ids of exactly  *)
(* the places in it, the most important first.                             *)
LookupIsExact ==
    phase \in Stages /\ ~damaged => \A c \in Cells :
        LET found == LookupCellIds(fine, c)
        IN  /\ ToSet(found) = {n - 1 : n \in {m \in DOMAIN places : places[m].cell = c}}
            /\ IsInjective(found)
            /\ \A i, j \in DOMAIN found : i < j =>
                   places[found[i] + 1].importance >= places[found[j] + 1].importance

(* A layer that open admits never leads a lookup outside its columns, and  *)
(* no posting is listed under two cells.                                   *)
AdmittedLayersAreSound ==
    phase \in Stages =>
        /\ \A c \in Cells : LookupCellIds(fine, c) # Unreadable
        /\ \A c, d \in Cells : c # d =>
               ToSet(LookupCellIds(fine, c)) \cap ToSet(LookupCellIds(fine, d)) = {}

(* The places a query may see: those of its own cell, of two rings and of  *)
(* its coarse cell.                                                        *)
InReach ==
    LET own == query.cell
        near == {own} \cup ToSet(Ring[own][1]) \cup ToSet(Ring[own][2])
    IN  {n - 1 : n \in {m \in DOMAIN places :
             places[m].cell \in near \/ places[m].coarse = query.coarse}}

(* The answer is full: as many places as asked for when so many are in     *)
(* reach, else all of them, each once, and the best scores come first.     *)
(* This is what the code does: the score adds the importance of a place to *)
(* its nearness (ranking.rs:25), where ARCHITECTURE.md:170 of the          *)
(* repository has candidates ranked by distance from coords.bin only.      *)
AnswerIsFullAndSorted ==
    phase = "answered" /\ ~damaged =>
        /\ Len(hits) = Min({query.limit, Cardinality(InReach)})
        /\ IsInjective(hits) /\ ToSet(hits) \subseteq InReach
        /\ \A i, j \in DOMAIN hits : i < j => Score(hits[i]) >= Score(hits[j])

(* While push_best runs its list is the top of the places it has seen:     *)
(* nobody that was left out beats anybody that is in, and a candidate that *)
(* is no place takes nobody's room.                                        *)
BestIsTop ==
    LET seen == ToSet(SubSeq(ids, 1, ranked)) \cap Ids
        in == {best[n].id : n \in DOMAIN best}
    IN  /\ Len(best) = Min({query.limit, Cardinality(seen)})
        /\ in \subseteq seen
        /\ \A a \in in, b \in seen \ in : Score(a) >= Score(b)
=============================================================================
