-------------------------- MODULE ExtractionProofs --------------------------
(***************************************************************************)
(* What the import extracts is what the files say, for files of any length *)
(* and of any order: the coordinates kept after sorting and removing       *)
(* duplicates are those of the last occurrence of each node, and the places *)
(* are the wanted elements of the file the second pass read.               *)
(***************************************************************************)
EXTENDS Extraction, ListsProofs

-----------------------------------------------------------------------------
(* finalize                                                                *)

(* P is a stable order by ids of the positions 1 .. n.                     *)
Stable(ids, P, n) ==
    /\ \A k \in 1 .. n : P[k] \in 1 .. n
    /\ \A i \in 1 .. n : \E k \in 1 .. n : P[k] = i
    /\ \A j, k \in 1 .. n : j < k =>
           ids[P[j]] < ids[P[k]] \/ (ids[P[j]] = ids[P[k]] /\ P[j] < P[k])

LEMMA StableExists ==
    ASSUME NEW n \in Nat, NEW ids \in [1 .. n -> Int]
    PROVE  \E P \in Bijection(1 .. n, 1 .. n) : Stable(ids, P, n)
<1>1. PICK f : f = [k \in 1 .. n |-> 0 - ids[k]]
  OBVIOUS
<1>2. f \in [1 .. n -> Int] /\ \A k \in 1 .. n : f[k] = 0 - ids[k]
  BY <1>1
<1>3. PICK P \in Bijection(1 .. n, 1 .. n) :
          \A j, k \in 1 .. n : j < k => Higher(f, P[j], P[k])
  BY <1>2, PositionsRank
<1>4. /\ \A k \in 1 .. n : P[k] \in 1 .. n
      /\ \A i \in 1 .. n : \E k \in 1 .. n : P[k] = i
  BY <1>3 DEF Bijection, Injection, Surjection
<1>5. ASSUME NEW i \in 1 .. n, NEW j \in 1 .. n, Higher(f, i, j)
      PROVE  ids[i] < ids[j] \/ (ids[i] = ids[j] /\ i < j)
  <2>1. f[i] = 0 - ids[i] /\ f[j] = 0 - ids[j] /\ ids[i] \in Int /\ ids[j] \in Int
    BY <1>2
  <2> QED BY <1>5, <2>1 DEF Higher
<1>6. Stable(ids, P, n)
  BY <1>3, <1>4, <1>5 DEF Stable
<1> QED BY <1>3, <1>6

LEMMA SortedByIdIsStable ==
    ASSUME NEW X, NEW entries \in Seq(X), \A x \in X : x.id \in Int,
           NEW n \in Nat, n = Len(entries)
    PROVE  \E P : /\ SortedById(entries) = [k \in 1 .. n |-> entries[P[k]]]
                  /\ Stable([k \in 1 .. n |-> entries[k].id], P, n)
<1>1. DOMAIN entries = 1 .. n /\ \A k \in 1 .. n : entries[k] \in X
  OBVIOUS
<1>2. PICK S : S = DOMAIN entries
  OBVIOUS
<1>3. S = 1 .. n /\ IsFiniteSet(S) /\ Cardinality(S) = n
  BY <1>1, <1>2, UpTo
<1> DEFINE Earlier(i, j) == \/ entries[i].id < entries[j].id
                            \/ entries[i].id = entries[j].id /\ i < j
           InOrder(h) == \A i, j \in 1 .. Len(h) : i < j => Earlier(h[i], h[j])
           P == CHOOSE h \in Bijection(1 .. Cardinality(S), S) : InOrder(h)
<1>4. SortedById(entries) = [k \in S |-> entries[P[k]]]
  BY <1>2 DEF SortedById, Listing, IsSorted
<1>5. PICK ids : ids = [k \in 1 .. n |-> entries[k].id]
  OBVIOUS
<1>6. ids \in [1 .. n -> Int] /\ \A k \in 1 .. n : ids[k] = entries[k].id
  BY <1>1, <1>5
<1>7. PICK g \in Bijection(1 .. n, 1 .. n) : Stable(ids, g, n)
  <2>1. \E g \in Bijection(1 .. n, 1 .. n) : Stable(ids, g, n)
    BY <1>6, StableExists
  <2> QED BY <2>1
<1>8. ASSUME NEW h \in Bijection(1 .. Cardinality(S), S)
      PROVE  /\ Len(h) = n /\ \A k \in 1 .. n : h[k] \in 1 .. n
             /\ \A i \in 1 .. n : \E k \in 1 .. n : h[k] = i
  <2>1. Len(h) = Cardinality(S)
    <3> HIDE DEF Earlier, InOrder, P
    <3> QED BY <1>3, BijectionIsList
  <2>2. h \in Bijection(1 .. n, 1 .. n)
    BY <1>3
  <2>3. /\ \A k \in 1 .. n : h[k] \in 1 .. n
        /\ \A i \in 1 .. n : \E k \in 1 .. n : h[k] = i
    BY <2>2 DEF Bijection, Injection, Surjection
  <2> QED BY <1>3, <2>1, <2>3
<1>9. g \in Bijection(1 .. Cardinality(S), S) /\ InOrder(g)
  <2>1. g \in Bijection(1 .. Cardinality(S), S)
    BY <1>3, <1>7
  <2>2. Len(g) = n /\ \A k \in 1 .. n : g[k] \in 1 .. n
    BY <1>3, <1>8, <2>1
  <2>3. \A j, k \in 1 .. n : j < k =>
            ids[g[j]] < ids[g[k]] \/ (ids[g[j]] = ids[g[k]] /\ g[j] < g[k])
    BY <1>7 DEF Stable
  <2> QED BY <1>6, <2>1, <2>2, <2>3
<1>10. P \in Bijection(1 .. Cardinality(S), S) /\ InOrder(P)
  <2> HIDE DEF InOrder
  <2> QED BY <1>9
<1> HIDE DEF P, InOrder
<1>11. /\ Len(P) = n /\ \A k \in 1 .. n : P[k] \in 1 .. n
       /\ \A i \in 1 .. n : \E k \in 1 .. n : P[k] = i
  BY <1>8, <1>10
<1>12. \A j, k \in 1 .. n : j < k => Earlier(P[j], P[k])
  BY <1>10, <1>11 DEF InOrder
<1>13. Stable(ids, P, n)
  <2>1. \A j, k \in 1 .. n : j < k =>
            ids[P[j]] < ids[P[k]] \/ (ids[P[j]] = ids[P[k]] /\ P[j] < P[k])
    <3>1. ASSUME NEW j \in 1 .. n, NEW k \in 1 .. n, j < k
          PROVE  ids[P[j]] < ids[P[k]] \/ (ids[P[j]] = ids[P[k]] /\ P[j] < P[k])
      <4>1. ids[P[j]] = entries[P[j]].id /\ ids[P[k]] = entries[P[k]].id
        BY <1>6, <1>11
      <4>2. Earlier(P[j], P[k])
        BY <1>12, <3>1
      <4> QED BY <4>1, <4>2
    <3> QED BY <3>1
  <2> QED BY <1>11, <2>1 DEF Stable
<1> QED BY <1>3, <1>4, <1>5, <1>13

(* Of a run of equal ids the entry that comes last in the sorted array is  *)
(* the one that was inserted last.                                         *)
RunEnds(ids, P, n) == {k \in 1 .. n : k < n => ids[P[k + 1]] # ids[P[k]]}

LEMMA RunEndsAreLast ==
    ASSUME NEW n \in Nat, NEW ids \in [1 .. n -> Int], NEW P, Stable(ids, P, n),
           NEW k \in RunEnds(ids, P, n), NEW i \in 1 .. n, ids[i] = ids[P[k]]
    PROVE  i <= P[k]
<1>1. /\ \A j \in 1 .. n : P[j] \in 1 .. n /\ ids[P[j]] \in Int
      /\ \A j, m \in 1 .. n : j < m =>
             ids[P[j]] < ids[P[m]] \/ (ids[P[j]] = ids[P[m]] /\ P[j] < P[m])
  BY DEF Stable
<1>2. k \in 1 .. n /\ (k < n => ids[P[k + 1]] # ids[P[k]])
  BY DEF RunEnds
<1>3. PICK m \in 1 .. n : P[m] = i
  BY DEF Stable
<1>4. ids[P[m]] = ids[P[k]]
  BY <1>3
<1>5. CASE m = k
  BY <1>1, <1>3, <1>5
<1>6. CASE m < k
  <2>1. P[m] < P[k]
    BY <1>1, <1>2, <1>4, <1>6
  <2> QED BY <1>1, <1>2, <1>3, <2>1
<1>7. CASE m > k
  <2>1. k < n /\ k + 1 \in 1 .. n /\ k < k + 1
    BY <1>2, <1>7
  <2>2. ids[P[k]] < ids[P[k + 1]]
    BY <1>1, <1>2, <2>1
  <2>3. ids[P[k + 1]] <= ids[P[m]]
    <3>1. CASE m = k + 1
      BY <1>1, <2>1, <3>1
    <3>2. CASE k + 1 < m
      <4>1. ids[P[k + 1]] < ids[P[m]] \/ ids[P[k + 1]] = ids[P[m]]
        BY <1>1, <2>1, <3>2
      <4>2. ids[P[k + 1]] \in Int /\ ids[P[m]] \in Int
        BY <1>1, <2>1
      <4> QED BY <4>1, <4>2
    <3> QED BY <1>2, <1>7, <3>1, <3>2
  <2> QED BY <1>1, <1>2, <1>4, <2>1, <2>2, <2>3
<1> QED BY <1>2, <1>5, <1>6, <1>7

Represented(ids, P, n, i) == \E k \in RunEnds(ids, P, n) : ids[P[k]] = ids[i]

LEMMA RunsEnd ==
    ASSUME NEW n \in Nat, NEW ids \in [1 .. n -> Int], NEW P, Stable(ids, P, n),
           NEW i \in 1 .. n
    PROVE  Represented(ids, P, n, i)
<1> DEFINE T == {d \in 0 .. n : d < n /\ ids[P[n - d]] = ids[i]}
<1>1. PICK m \in 1 .. n : P[m] = i
  BY DEF Stable
<1>2. n - m \in T
  BY <1>1
<1>3. PICK d \in T : \A e \in T : d <= e
  <2>1. T \subseteq Nat
    OBVIOUS
  <2> HIDE DEF T
  <2>2. T # {}
    BY <1>2
  <2> QED BY <2>1, <2>2, LeastNatural
<1>4. n - d \in 1 .. n /\ ids[P[n - d]] = ids[i]
  BY <1>3
<1>5. ASSUME n - d < n, ids[P[(n - d) + 1]] = ids[P[n - d]] PROVE FALSE
  <2>1. d - 1 \in 0 .. n /\ d - 1 < n /\ n - (d - 1) = (n - d) + 1
    BY <1>3, <1>5
  <2>2. d - 1 \in T
    BY <1>4, <1>5, <2>1
  <2>3. d <= d - 1
    BY <1>3, <2>2
  <2> QED BY <1>3, <2>3
<1>6. n - d \in RunEnds(ids, P, n)
  BY <1>4, <1>5 DEF RunEnds
<1> QED BY <1>4, <1>6 DEF Represented
-----------------------------------------------------------------------------
(* The store after the first pass.                                         *)

NodesOf(file) == {n \in DOMAIN file : file[n].kind = "node"}
Nodes(file) == Picked(file, NodesOf(file))
Emptied == [entries |-> <<>>, sorted |-> FALSE]
Inserted(file) == insert(Emptied, Nodes(file))

LEMMA ElementFields ==
    ASSUME NEW e \in Elements
    PROVE  /\ e.id \in Int /\ e.at \in Nat /\ e.refs \in Seq(Int)
           /\ e.kind \in Kinds /\ e.named \in BOOLEAN /\ e.address \in BOOLEAN
  BY DEF Elements

Stored == [id : Int, at : Nat]

LEMMA StoredEntries ==
    ASSUME NEW i \in Int, NEW a \in Nat
    PROVE  [id |-> i, at |-> a] \in Stored
  BY DEF Stored

(* Entry k is what occurrence at[k] of the file says.                      *)
Enters(entries, file, at, n) ==
    /\ entries \in [1 .. n -> Stored]
    /\ \A k \in 1 .. n : at[k] \in NodesOf(file)
    /\ \A k \in 1 .. n : entries[k] = [id |-> file[at[k]].id, at |-> file[at[k]].at]
    /\ \A m \in NodesOf(file) : \E k \in 1 .. n : at[k] = m
    /\ \A j, k \in 1 .. n : j < k => at[j] < at[k]

LEMMA InsertedEntries ==
    ASSUME NEW file \in Seq(Elements)
    PROVE  \E n \in Nat : \E at : Enters(Inserted(file).entries, file, at, n)
<1>1. PICK P : P = NodesOf(file)
  OBVIOUS
<1>2. P \in SUBSET (DOMAIN file)
  BY <1>1 DEF NodesOf
<1>3. PICK n \in Nat : n = Cardinality(P)
  BY <1>2, PickedElements
<1>4. PICK nodes : nodes = Picked(file, P)
  OBVIOUS
<1>5. PICK at : at = Increasing(P)
  OBVIOUS
<1>6. /\ DOMAIN nodes = 1 .. n
      /\ \A k \in 1 .. n : at[k] \in P /\ nodes[k] = file[at[k]]
      /\ \A j, k \in 1 .. n : j < k => at[j] < at[k]
  <2>1. DOMAIN nodes = 1 .. n
    BY <1>2, <1>3, <1>4, PickedElements
  <2>2. \A k \in 1 .. n : at[k] \in P /\ nodes[k] = file[at[k]]
    BY <1>2, <1>3, <1>4, <1>5, PickedElements
  <2>3. \A j, k \in 1 .. n : j < k => at[j] < at[k]
    BY <1>2, <1>3, <1>5, PickedElements
  <2> QED BY <2>1, <2>2, <2>3
<1>7. \A m \in P : \E k \in 1 .. n : at[k] = m
  <2>1. IsFiniteSet(P) /\ P \in SUBSET Int
    BY <1>2, PickedElements
  <2>2. at \in Bijection(1 .. n, P)
    BY <1>3, <1>5, <2>1, IncreasingLists
  <2> QED BY <2>2 DEF Bijection, Injection, Surjection
<1>8. PICK added : added = [k \in 1 .. n |-> [id |-> nodes[k].id, at |-> nodes[k].at]]
  OBVIOUS
<1>9. \A k \in 1 .. n : added[k] = [id |-> file[at[k]].id, at |-> file[at[k]].at]
  BY <1>6, <1>8
<1>10. added \in [1 .. n -> Stored]
  <2>1. \A m \in P : file[m].id \in Int /\ file[m].at \in Nat
    <3>1. \A m \in P : file[m] \in Elements
      BY <1>2
    <3> QED BY <3>1, ElementFields
  <2>2. \A k \in 1 .. n : added[k] \in Stored
    BY <1>6, <1>9, <2>1, StoredEntries
  <2> QED BY <1>8, <2>2
<1>11. Inserted(file).entries = added
  <2>1. Inserted(file).entries = <<>> \o added
    BY <1>1, <1>4, <1>6, <1>8 DEF Inserted, insert, Nodes, Emptied
  <2>2. added \in Seq(Stored)
    BY <1>10
  <2> QED BY <2>1, <2>2
<1>12. Enters(added, file, at, n)
  BY <1>1, <1>6, <1>7, <1>9, <1>10 DEF Enters
<1> QED BY <1>11, <1>12

(* What sorting and removing duplicates leaves: the ends of the runs.      *)
Leaves(final, entries, ids, P, n) ==
    /\ \A m \in DOMAIN final : \E k \in RunEnds(ids, P, n) : final[m] = entries[P[k]]
    /\ \A k \in RunEnds(ids, P, n) : \E m \in DOMAIN final : final[m] = entries[P[k]]

LEMMA FinalEntries ==
    ASSUME NEW n \in Nat, NEW entries \in [1 .. n -> Stored],
           NEW ids, ids = [k \in 1 .. n |-> entries[k].id]
    PROVE  \E P : /\ Stable(ids, P, n)
                  /\ Leaves(Dedup(SortedById(entries)), entries, ids, P, n)
<1>1. entries \in Seq(Stored) /\ Len(entries) = n
  OBVIOUS
<1>2. \A e \in Stored : e.id \in Int
  BY DEF Stored
<1>3. PICK P : SortedById(entries) = [k \in 1 .. n |-> entries[P[k]]] /\ Stable(ids, P, n)
  BY <1>1, <1>2, SortedByIdIsStable
<1>4. PICK sorted : sorted = [k \in 1 .. n |-> entries[P[k]]]
  OBVIOUS
<1>5. \A k \in 1 .. n : P[k] \in 1 .. n
  BY <1>3 DEF Stable
<1>6. \A k \in 1 .. n : sorted[k] = entries[P[k]] /\ sorted[k] \in Stored
  BY <1>4, <1>5
<1>7. sorted \in [1 .. n -> Stored]
  BY <1>4, <1>6
<1>8. sorted \in Seq(Stored) /\ Len(sorted) = n /\ DOMAIN sorted = 1 .. n
  BY <1>7
<1>9. PICK W : W = {k \in DOMAIN sorted :
                       k < Len(sorted) => sorted[k + 1].id # sorted[k].id}
  OBVIOUS
<1>10. W = RunEnds(ids, P, n)
  <2>1. \A k \in 1 .. n : sorted[k].id = ids[P[k]]
    BY <1>5, <1>6
  <2>2. \A k \in 1 .. n : k < n => k + 1 \in 1 .. n
    OBVIOUS
  <2>3. \A k \in 1 .. n : k \in W <=> (k < n => ids[P[k + 1]] # ids[P[k]])
    BY <1>8, <1>9, <2>1, <2>2
  <2>4. W \subseteq 1 .. n
    BY <1>8, <1>9
  <2> QED BY <2>3, <2>4 DEF RunEnds
<1>11. PICK final : final = Picked(sorted, W)
  OBVIOUS
<1>12. Dedup(SortedById(entries)) = final
  BY <1>3, <1>4, <1>9, <1>11 DEF Dedup
<1>13. W \in SUBSET (DOMAIN sorted)
  BY <1>9
<1>14. /\ final \in Seq(Stored)
       /\ ToSet(final) = {sorted[k] : k \in W}
  BY <1>8, <1>11, <1>13, PickedElements
<1>15. {final[m] : m \in DOMAIN final} = {sorted[k] : k \in W}
  BY <1>14 DEF ToSet
<1>16. \A k \in W : sorted[k] = entries[P[k]]
  BY <1>6, <1>8, <1>13
<1>17. \A m \in DOMAIN final : \E k \in W : final[m] = entries[P[k]]
  <2>1. \A m \in DOMAIN final : final[m] \in {sorted[k] : k \in W}
    BY <1>15
  <2> QED BY <1>16, <2>1
<1>18. \A k \in W : \E m \in DOMAIN final : final[m] = entries[P[k]]
  <2>1. \A k \in W : sorted[k] \in {final[m] : m \in DOMAIN final}
    BY <1>15
  <2> QED BY <1>16, <2>1
<1>19. Leaves(final, entries, ids, P, n)
  BY <1>10, <1>17, <1>18 DEF Leaves
<1> QED BY <1>3, <1>12, <1>19

LEMMA MaxIs ==
    ASSUME NEW T, T \subseteq Int, NEW m \in T, \A y \in T : y <= m
    PROVE  Max(T) = m
<1>1. \E x \in T : \A y \in T : x >= y
  OBVIOUS
<1>2. Max(T) \in T /\ \A y \in T : Max(T) >= y
  <2> DEFINE Tops(x) == \A y \in T : x >= y
  <2>1. \E x \in T : Tops(x)
    BY <1>1
  <2>2. Max(T) = CHOOSE x \in T : Tops(x)
    BY DEF Max
  <2> HIDE DEF Tops
  <2>3. Max(T) \in T /\ Tops(Max(T))
    BY <2>1, <2>2
  <2> QED BY <2>3 DEF Tops
<1>3. PICK t : t = Max(T)
  OBVIOUS
<1>4. t \in T /\ t >= m /\ t <= m
  BY <1>2, <1>3
<1>5. t \in Int /\ m \in Int
  BY <1>4
<1> QED BY <1>3, <1>4, <1>5

(* The store gives every node of the file where its last occurrence put    *)
(* it, and no other node.                                                  *)
FinalStore(file) == finalize(Inserted(file))
Knows(store, file) ==
    \A id \in Int :
        /\ get(store, id) = IF Occurrences(file, id) = {} THEN Unknown
                            ELSE Located(file, id)
        /\ Occurrences(file, id) # {} => Located(file, id) \in Nat

LEMMA StoreKnows ==
    ASSUME NEW file \in Seq(Elements)
    PROVE  Knows(FinalStore(file), file)
<1>1. PICK entries : entries = Inserted(file).entries
  OBVIOUS
<1>2. PICK n \in Nat : \E at : Enters(entries, file, at, n)
  BY <1>1, InsertedEntries
<1>a. PICK at : Enters(entries, file, at, n)
  BY <1>2
<1>3. /\ entries \in [1 .. n -> Stored]
      /\ \A k \in 1 .. n : entries[k].id = file[at[k]].id /\ entries[k].at = file[at[k]].at
      /\ \A k \in 1 .. n : at[k] \in NodesOf(file)
      /\ \A m \in NodesOf(file) : \E k \in 1 .. n : at[k] = m
      /\ \A j, k \in 1 .. n : j < k => at[j] < at[k]
  BY <1>a DEF Enters
<1>4. PICK ids : ids = [k \in 1 .. n |-> entries[k].id]
  OBVIOUS
<1>5. ids \in [1 .. n -> Int] /\ \A k \in 1 .. n : ids[k] = file[at[k]].id
  <2>1. \A k \in 1 .. n : entries[k].id \in Int
    BY <1>3 DEF Stored
  <2> QED BY <1>3, <1>4, <2>1
<1>6. PICK final : final = Dedup(SortedById(entries))
  OBVIOUS
<1>7. PICK P : Stable(ids, P, n) /\ Leaves(final, entries, ids, P, n)
  BY <1>3, <1>4, <1>6, FinalEntries
<1>8. FinalStore(file).entries = final /\ FinalStore(file).sorted
  BY <1>1, <1>6 DEF FinalStore, finalize
<1>9. SUFFICES ASSUME NEW id \in Int
               PROVE  /\ get(FinalStore(file), id)
                             = IF Occurrences(file, id) = {} THEN Unknown
                               ELSE Located(file, id)
                      /\ Occurrences(file, id) # {} => Located(file, id) \in Nat
  BY DEF Knows
<1>10. PICK seen : seen = Occurrences(file, id)
  OBVIOUS
<1>11. PICK found : found = {m \in DOMAIN final : final[m].id = id}
  OBVIOUS
<1>12. \A m : m \in seen <=> m \in NodesOf(file) /\ file[m].id = id
  BY <1>10 DEF Occurrences, NodesOf
<1>13. get(FinalStore(file), id)
           = IF found # {} THEN final[CHOOSE m \in found : TRUE].at ELSE Unknown
  BY <1>8, <1>11 DEF get
<1>14. ASSUME NEW m \in found
       PROVE  /\ seen # {} /\ final[m].at = file[Max(seen)].at
              /\ final[m].at \in Nat
  <2>1. m \in DOMAIN final /\ final[m].id = id
    BY <1>11
  <2>2. PICK k \in RunEnds(ids, P, n) : final[m] = entries[P[k]]
    BY <1>7, <2>1 DEF Leaves
  <2>3. k \in 1 .. n /\ P[k] \in 1 .. n
    BY <1>7 DEF RunEnds, Stable
  <2>4. PICK l \in 1 .. n : l = P[k] /\ ids[l] = id /\ final[m].at = file[at[l]].at
    <3>1. PICK l \in 1 .. n : l = P[k]
      BY <2>3
    <3>2. /\ entries[l].id = file[at[l]].id /\ entries[l].at = file[at[l]].at
          /\ ids[l] = file[at[l]].id
      BY <1>3, <1>5, <3>1
    <3>3. final[m] = entries[l]
      BY <2>2, <3>1
    <3> QED BY <2>1, <3>1, <3>2, <3>3
  <2>5. at[l] \in seen
    BY <1>3, <1>5, <1>12, <2>4
  <2>6. \A m1 \in seen : m1 <= at[l]
    <3>1. ASSUME NEW m1 \in seen PROVE m1 <= at[l]
      <4>1. PICK i \in 1 .. n : at[i] = m1
        BY <1>3, <1>12
      <4>2. ids[i] = id
        BY <1>5, <1>12, <4>1
      <4>3. i <= l
        BY <1>5, <1>7, <2>4, <4>2, RunEndsAreLast
      <4>4. at[i] \in Int /\ at[l] \in Int
        BY <1>3 DEF NodesOf
      <4>5. at[i] <= at[l]
        <5>1. i = l \/ i < l
          BY <4>3
        <5>2. i < l => at[i] < at[l]
          BY <1>3
        <5> QED BY <4>4, <5>1, <5>2
      <4> QED BY <4>1, <4>5
    <3> QED BY <3>1
  <2>7. seen \subseteq Int
    BY <1>12 DEF NodesOf
  <2>8. Max(seen) = at[l]
    BY <2>5, <2>6, <2>7, MaxIs
  <2>9. final[m].at \in Nat
    <3>1. \A e \in Stored : e.at \in Nat
      BY DEF Stored
    <3> QED BY <1>3, <2>2, <2>3, <3>1
  <2> QED BY <2>4, <2>5, <2>8, <2>9
<1>15. seen # {} => found # {}
  <2>1. ASSUME NEW m1 \in seen PROVE found # {}
    <3>1. PICK i \in 1 .. n : at[i] = m1
      BY <1>3, <1>12
    <3>2. ids[i] = id
      BY <1>5, <1>12, <3>1
    <3>3. PICK k \in RunEnds(ids, P, n) : ids[P[k]] = ids[i]
      <4>1. Represented(ids, P, n, i)
        BY <1>5, <1>7, RunsEnd
      <4> QED BY <4>1 DEF Represented
    <3>4. PICK m \in DOMAIN final : final[m] = entries[P[k]]
      BY <1>7 DEF Leaves
    <3>5. P[k] \in 1 .. n
      BY <1>7 DEF RunEnds, Stable
    <3>6. final[m].id = id
      BY <1>3, <1>5, <3>2, <3>3, <3>4, <3>5
    <3> QED BY <1>11, <3>6
  <2> QED BY <2>1
<1>16. CASE seen = {}
  <2>1. found = {}
    BY <1>14, <1>16
  <2> QED BY <1>10, <1>13, <1>16, <2>1
<1>17. CASE seen # {}
  <2>1. found # {}
    BY <1>15, <1>17
  <2>2. PICK m : m = CHOOSE x \in found : TRUE
    OBVIOUS
  <2>3. m \in found
    BY <2>1, <2>2
  <2>4. final[m].at = file[Max(seen)].at /\ final[m].at \in Nat
    BY <1>14, <2>3
  <2>5. get(FinalStore(file), id) = final[m].at
    BY <1>13, <2>1, <2>2
  <2> QED BY <1>10, <1>17, <2>4, <2>5 DEF Located
<1> QED BY <1>16, <1>17
-----------------------------------------------------------------------------
(* The places of one element, and of a file.                               *)

Wanted(nodes, e) ==
    \/ e.kind = "node" /\ (e.named \/ e.address)
    \/ e.kind = "way" /\ e.named /\ Middle(nodes, e.refs).n # 0
Wants(nodes, file) == {n \in DOMAIN file : Wanted(nodes, file[n])}
PlaceAt(nodes, e) ==
    Place(e, IF e.kind = "way" THEN Middle(nodes, e.refs) ELSE [sum |-> e.at, n |-> 1])
Extracted(nodes, file) ==
    LET kept == Picked(file, Wants(nodes, file))
    IN  [k \in DOMAIN kept |-> PlaceAt(nodes, kept[k])]

(* A way lies in the middle of its nodes that are in the file.             *)
LEMMA CentroidIsMiddle ==
    ASSUME NEW store, NEW nodes, Knows(store, nodes), NEW refs \in Seq(Int)
    PROVE  centroid(refs, store) = Middle(nodes, refs) /\ Middle(nodes, refs).n \in Nat
<1>1. PICK met : met = {n \in DOMAIN refs : Occurrences(nodes, refs[n]) # {}}
  OBVIOUS
<1>2. ASSUME NEW n \in DOMAIN refs
      PROVE  /\ get(store, refs[n]) # Unknown <=> n \in met
             /\ n \in met => get(store, refs[n]) = Located(nodes, refs[n])
  <2>1. PICK id \in Int : id = refs[n]
    OBVIOUS
  <2>2. /\ get(store, id) = IF Occurrences(nodes, id) = {} THEN Unknown
                            ELSE Located(nodes, id)
        /\ Occurrences(nodes, id) # {} => Located(nodes, id) \in Nat
    BY DEF Knows
  <2>3. n \in met <=> Occurrences(nodes, id) # {}
    BY <1>1, <2>1
  <2>4. Unknown \notin Nat
    BY DEF Unknown
  <2>5. CASE Occurrences(nodes, id) = {}
    BY <2>1, <2>2, <2>3, <2>5
  <2>6. CASE Occurrences(nodes, id) # {}
    <3>1. get(store, id) = Located(nodes, id) /\ get(store, id) # Unknown
      BY <2>2, <2>4, <2>6
    <3> QED BY <2>1, <2>3, <2>6, <3>1
  <2> QED BY <2>5, <2>6
<1>3. Known(refs, store) = met
  <2>1. met \subseteq DOMAIN refs
    BY <1>1
  <2> QED BY <1>2, <2>1 DEF Known
<1>4. [n \in met |-> get(store, refs[n])] = [n \in met |-> Located(nodes, refs[n])]
  <2>1. \A n \in met : get(store, refs[n]) = Located(nodes, refs[n])
    BY <1>1, <1>2
  <2> QED BY <2>1
<1>5. centroid(refs, store) = [sum |-> Total([n \in met |-> get(store, refs[n])]),
                               n |-> Cardinality(met)]
  BY <1>3 DEF centroid
<1>6. Middle(nodes, refs) = [sum |-> Total([n \in met |-> Located(nodes, refs[n])]),
                             n |-> Cardinality(met)]
  BY <1>1 DEF Middle
<1>7. Cardinality(met) \in Nat
  <2>1. met \in SUBSET (DOMAIN refs)
    BY <1>1
  <2> QED BY <2>1, PickedElements
<1>8. Middle(nodes, refs).n = Cardinality(met)
  BY <1>6
<1> QED BY <1>4, <1>5, <1>6, <1>7, <1>8

LEMMA PlacesOfElement ==
    ASSUME NEW store, NEW nodes, Knows(store, nodes), NEW e \in Elements
    PROVE  PlacesOf(e, store) = IF Wanted(nodes, e) THEN <<PlaceAt(nodes, e)>> ELSE <<>>
<1>1. e.refs \in Seq(Int)
  BY ElementFields
<1>2. PICK c : c = centroid(e.refs, store)
  OBVIOUS
<1>3. c = Middle(nodes, e.refs) /\ c.n \in Nat
  BY <1>1, <1>2, CentroidIsMiddle
<1>4. c.n > 0 <=> c.n # 0
  BY <1>3
<1>5. CASE e.kind = "node"
  <2>1. e.kind # "way"
    BY <1>5
  <2> QED BY <1>5, <2>1
          DEF PlacesOf, Wanted, PlaceAt, searchable, has_searchable_name
<1>6. CASE e.kind # "node"
  <2>1. PlacesOf(e, store) = IF e.kind = "way" /\ e.named /\ c.n > 0
                             THEN <<Place(e, c)>> ELSE <<>>
    BY <1>2, <1>6 DEF PlacesOf, has_searchable_name
  <2>2. Wanted(nodes, e) <=> e.kind = "way" /\ e.named /\ c.n # 0
    BY <1>3, <1>6 DEF Wanted
  <2>3. e.kind = "way" => PlaceAt(nodes, e) = Place(e, c)
    BY <1>3 DEF PlaceAt
  <2> QED BY <1>4, <2>1, <2>2, <2>3
<1> QED BY <1>5, <1>6

LEMMA PlacesOfFile ==
    ASSUME NEW store, NEW nodes, Knows(store, nodes), NEW file \in Seq(Elements)
    PROVE  FlattenSeq([n \in DOMAIN file |-> PlacesOf(file[n], store)])
               = Extracted(nodes, file)
<1>1. PICK W : W = Wants(nodes, file)
  OBVIOUS
<1>2. W \in SUBSET (DOMAIN file)
  BY <1>1 DEF Wants
<1>3. PICK v : v = [n \in DOMAIN file |-> PlaceAt(nodes, file[n])]
  OBVIOUS
<1>4. PICK S : S = {PlaceAt(nodes, e) : e \in Elements}
  OBVIOUS
<1>5. \A n \in DOMAIN file : file[n] \in Elements
  OBVIOUS
<1>6. PICK m \in Nat : DOMAIN file = 1 .. m
  OBVIOUS
<1>7. v \in Seq(S) /\ DOMAIN v = DOMAIN file
  <2>1. \A n \in DOMAIN file : v[n] \in S
    BY <1>3, <1>4, <1>5
  <2>2. v \in [1 .. m -> S]
    BY <1>3, <1>6, <2>1
  <2> QED BY <1>3, <2>2
<1>8. [n \in DOMAIN file |-> PlacesOf(file[n], store)] = Singles(v, W)
  <2>1. \A n \in DOMAIN file : PlacesOf(file[n], store)
                                   = IF n \in W THEN <<v[n]>> ELSE <<>>
    <3>1. ASSUME NEW n \in DOMAIN file
          PROVE  PlacesOf(file[n], store) = IF n \in W THEN <<v[n]>> ELSE <<>>
      <4>1. PICK e \in Elements : e = file[n]
        BY <1>5
      <4>2. PlacesOf(e, store) = IF Wanted(nodes, e) THEN <<PlaceAt(nodes, e)>> ELSE <<>>
        BY PlacesOfElement
      <4>3. (n \in W <=> Wanted(nodes, e)) /\ v[n] = PlaceAt(nodes, e)
        BY <1>1, <1>3, <4>1 DEF Wants
      <4> QED BY <4>1, <4>2, <4>3
    <3> QED BY <3>1
  <2>2. DOMAIN v = DOMAIN file
    BY <1>3
  <2> QED BY <2>1, <2>2 DEF Singles
<1>9. FlattenSeq(Singles(v, W)) = Picked(v, W)
  BY <1>2, <1>7, FlattenPicked
<1>10. PICK kept : kept = Picked(file, W)
  OBVIOUS
<1>11. PICK c : c = Cardinality(W)
  OBVIOUS
<1>12. DOMAIN kept = 1 .. c
  BY <1>2, <1>10, <1>11, PickedElements
<1>13. \A k \in 1 .. c : /\ Increasing(W)[k] \in DOMAIN file
                         /\ kept[k] = file[Increasing(W)[k]]
  BY <1>2, <1>10, <1>11, PickedElements
<1>14. Picked(v, W) = [k \in 1 .. c |-> v[Increasing(W)[k]]]
  BY <1>11 DEF Picked
<1>15. \A k \in 1 .. c : v[Increasing(W)[k]] = PlaceAt(nodes, kept[k])
  BY <1>3, <1>13
<1>16. Picked(v, W) = [k \in 1 .. c |-> PlaceAt(nodes, kept[k])]
  BY <1>14, <1>15
<1>17. Extracted(nodes, file) = [k \in 1 .. c |-> PlaceAt(nodes, kept[k])]
  BY <1>1, <1>10, <1>12 DEF Extracted
<1> QED BY <1>8, <1>9, <1>16, <1>17
-----------------------------------------------------------------------------
(* The inductive invariant.                                                *)

Files == Sources \cup Replacements

(* What the passes may have read.                                          *)
Opened ==
    /\ source \in Files /\ pc \in Steps /\ hash \in Files \cup {Unread}
    /\ readFrom \in [nodes : Files \cup {Unread}, places : Files \cup {Unread}]
    /\ pc \in Steps \ {"nodes", "failed"} => readFrom.nodes \in Files

(* The store holds the nodes of the file the first pass read, sorted and   *)
(* each once when the second pass starts.                                  *)
Filled ==
    /\ pc = "nodes" => coords = Emptied
    /\ pc = "finalize" => coords = Inserted(readFrom.nodes)
    /\ pc \in {"places", "hash", "done"} => coords = FinalStore(readFrom.nodes)

(* There are no places, or they are those of the file the second pass read. *)
Found ==
    /\ pc \in {"nodes", "finalize", "places"} => places = <<>>
    /\ pc \in {"hash", "done"} => places # <<>>
    /\ places # <<>> => /\ readFrom.nodes \in Files /\ readFrom.places \in Files
                        /\ places = Extracted(readFrom.nodes, readFrom.places)

IInv == Opened /\ Filled /\ Found

LEMMA InitIInv == Init => IInv
<1> SUFFICES ASSUME Init PROVE IInv
  OBVIOUS
<1>1. Opened
  BY DEF Init, Opened, Files, Steps
<1>2. Filled
  BY DEF Init, Filled, Emptied
<1>3. Found
  BY DEF Init, Found
<1> QED BY <1>1, <1>2, <1>3 DEF IInv

LEMMA CollectNodesKeeps == ASSUME IInv, CollectNodes PROVE IInv'
<1>1. /\ pc = "nodes" /\ pc' = "finalize" /\ source' = source /\ hash' = hash
      /\ places' = places /\ readFrom' = [readFrom EXCEPT !.nodes = source]
  BY DEF CollectNodes
<1>2. readFrom'.nodes = source /\ source \in Files
  BY <1>1 DEF IInv, Opened
<1>3. Opened'
  BY <1>1, <1>2 DEF IInv, Opened, Steps
<1>4. coords' = Inserted(source)
  BY <1>1 DEF IInv, Filled, CollectNodes, Inserted, Nodes, NodesOf
<1>5. Filled'
  BY <1>1, <1>2, <1>4 DEF Filled
<1>6. Found'
  BY <1>1 DEF IInv, Found
<1> QED BY <1>3, <1>5, <1>6 DEF IInv

LEMMA FinalizeKeeps == ASSUME IInv, Finalize PROVE IInv'
<1>1. /\ pc = "finalize" /\ pc' = "places" /\ coords' = finalize(coords)
      /\ source' = source /\ hash' = hash /\ places' = places /\ readFrom' = readFrom
  BY DEF Finalize
<1>2. Opened'
  BY <1>1 DEF IInv, Opened, Steps
<1>3. Filled'
  BY <1>1 DEF IInv, Filled, FinalStore
<1>4. Found'
  BY <1>1 DEF IInv, Found
<1> QED BY <1>2, <1>3, <1>4 DEF IInv

LEMMA ExtractPlacesKeeps == ASSUME IInv, ExtractPlaces PROVE IInv'
<1>1. /\ pc = "places" /\ pc' = IF places' = <<>> THEN "failed" ELSE "hash"
      /\ source' = source /\ hash' = hash /\ coords' = coords
      /\ readFrom' = [readFrom EXCEPT !.places = source]
      /\ places' = FlattenSeq([n \in DOMAIN source |-> PlacesOf(source[n], coords)])
  BY DEF ExtractPlaces
<1>2. PICK nodes : nodes = readFrom.nodes
  OBVIOUS
<1>3. /\ nodes \in Files /\ source \in Files
      /\ readFrom'.nodes = nodes /\ readFrom'.places = source
  BY <1>1, <1>2 DEF IInv, Opened, Steps
<1>4. Opened'
  BY <1>1, <1>2, <1>3 DEF IInv, Opened, Steps
<1>5. coords = FinalStore(nodes)
  BY <1>1, <1>2 DEF IInv, Filled
<1>6. Filled'
  BY <1>1, <1>3, <1>5 DEF Filled
<1>7. places' = Extracted(nodes, source)
  <2>1. nodes \in Seq(Elements) /\ source \in Seq(Elements)
    BY <1>3, FilesAssumption DEF Files
  <2>2. Knows(coords, nodes)
    BY <1>5, <2>1, StoreKnows
  <2> QED BY <1>1, <2>1, <2>2, PlacesOfFile
<1>8. Found'
  BY <1>1, <1>3, <1>7 DEF Found
<1> QED BY <1>4, <1>6, <1>8 DEF IInv

LEMMA NextIInv == IInv /\ [Next]_vars => IInv'
<1> SUFFICES ASSUME IInv, [Next]_vars PROVE IInv'
  OBVIOUS
<1>1. CASE CollectNodes
  BY <1>1, CollectNodesKeeps
<1>2. CASE Finalize
  BY <1>2, FinalizeKeeps
<1>3. CASE ExtractPlaces
  BY <1>3, ExtractPlacesKeeps
<1>4. CASE HashSource
  <2>1. /\ pc = "hash" /\ pc' = "done" /\ hash' = source /\ source' = source
        /\ readFrom' = readFrom /\ coords' = coords /\ places' = places
    BY <1>4 DEF HashSource
  <2>2. Opened'
    BY <2>1 DEF IInv, Opened, Steps
  <2>3. Filled'
    BY <2>1 DEF IInv, Filled
  <2>4. Found'
    BY <2>1 DEF IInv, Found
  <2> QED BY <2>2, <2>3, <2>4 DEF IInv
<1>5. CASE ReadFails
  <2>1. /\ pc' = "failed" /\ hash' = hash /\ source' = source
        /\ readFrom' = readFrom /\ coords' = coords /\ places' = places
    BY <1>5 DEF ReadFails
  <2>2. Opened'
    BY <2>1 DEF IInv, Opened, Steps
  <2>3. Filled'
    BY <2>1 DEF Filled
  <2>4. Found'
    BY <2>1 DEF IInv, Found
  <2> QED BY <2>2, <2>3, <2>4 DEF IInv
<1>6. CASE Replaced
  <2>1. /\ pc' = pc /\ hash' = hash /\ source' \in Files
        /\ readFrom' = readFrom /\ coords' = coords /\ places' = places
    BY <1>6 DEF Replaced, Files
  <2>2. Opened'
    BY <2>1 DEF IInv, Opened
  <2>3. Filled'
    BY <2>1 DEF IInv, Filled
  <2>4. Found'
    BY <2>1 DEF IInv, Found
  <2> QED BY <2>2, <2>3, <2>4 DEF IInv
<1>7. CASE UNCHANGED vars
  BY <1>7 DEF vars, IInv, Opened, Filled, Found
<1> QED BY <1>1, <1>2, <1>3, <1>4, <1>5, <1>6, <1>7 DEF Next

(* The store and the places are those of the files the passes read, also   *)
(* when the file is replaced between two passes.                           *)
THEOREM ExtractionInvariant == Spec => []IInv
  BY InitIInv, NextIInv, PTL DEF Spec
-----------------------------------------------------------------------------
(* The properties of the run.                                              *)

(* A place has the coordinates of its element and the id a u64 can hold.   *)
LEMMA IdsFit ==
    ASSUME NEW nodes, NEW file \in Seq(Elements), NEW k \in DOMAIN Extracted(nodes, file)
    PROVE  Extracted(nodes, file)[k].osm \in 0 .. Word - 1
<1>1. PICK W : W = Wants(nodes, file)
  OBVIOUS
<1>2. W \in SUBSET (DOMAIN file)
  BY <1>1 DEF Wants
<1>3. PICK kept : kept = Picked(file, W)
  OBVIOUS
<1>4. kept \in Seq(Elements)
  BY <1>2, <1>3, PickedElements
<1>5. Extracted(nodes, file) = [j \in DOMAIN kept |-> PlaceAt(nodes, kept[j])]
  BY <1>1, <1>3 DEF Extracted
<1>6. k \in DOMAIN kept /\ Extracted(nodes, file)[k] = PlaceAt(nodes, kept[k])
  BY <1>5
<1>7. PICK e \in Elements : e = kept[k]
  BY <1>4, <1>6
<1>8. PlaceAt(nodes, e).osm = as_u64(e.id)
  BY DEF PlaceAt, Place
<1>9. as_u64(e.id) \in 0 .. Word - 1
  <2>1. PICK id \in Int : id = e.id
    BY ElementFields
  <2>2. id % Word \in 0 .. Word - 1
    BY WordAssumption
  <2> QED BY <2>1, <2>2 DEF as_u64
<1> QED BY <1>6, <1>7, <1>8, <1>9

(* Every pass reads a file there is, no place exists before the second     *)
(* pass, which finds the nodes sorted, and every id fits a u64.            *)
THEOREM ExtractionTypes == Spec => []TypeOK
<1>1. IInv => TypeOK
  <2> SUFFICES ASSUME IInv PROVE TypeOK
    OBVIOUS
  <2>1. /\ source \in Sources \cup Replacements /\ pc \in Steps
        /\ {readFrom.nodes, readFrom.places, hash} \subseteq
               Sources \cup Replacements \cup {Unread}
    BY DEF IInv, Opened, Files
  <2>2. pc \in {"nodes", "finalize"} => places = <<>>
    BY DEF IInv, Found
  <2>3. pc \in {"places", "hash", "done"} => coords.sorted
    BY DEF IInv, Filled, FinalStore, finalize
  <2>4. ASSUME NEW k \in DOMAIN places PROVE places[k].osm \in 0 .. Word - 1
    <3>1. places # <<>>
      OBVIOUS
    <3>2. PICK nodes, file : file \in Files /\ places = Extracted(nodes, file)
      BY <3>1 DEF IInv, Found
    <3>3. file \in Seq(Elements)
      BY <3>2, FilesAssumption DEF Files
    <3> QED BY <3>2, <3>3, IdsFit
  <2> QED BY <2>1, <2>2, <2>3, <2>4 DEF TypeOK
<1> QED BY <1>1, ExtractionInvariant, PTL

(* However the occurrences of a node lie in the file, the second pass      *)
(* finds it where the last one put it, and finds no node that is not there. *)
THEOREM ExtractionNodes == Spec => []NodesAreWhereLastSeen
<1>1. IInv => NodesAreWhereLastSeen
  <2> SUFFICES ASSUME IInv, pc \in {"places", "hash", "done"},
                      NEW id \in UNION {{e.id} \cup ToSet(e.refs) : e \in ToSet(source)}
               PROVE  get(coords, id) = IF Occurrences(readFrom.nodes, id) = {}
                                        THEN Unknown ELSE Located(readFrom.nodes, id)
    BY DEF NodesAreWhereLastSeen
  <2>1. source \in Seq(Elements) /\ readFrom.nodes \in Seq(Elements)
    BY FilesAssumption DEF IInv, Opened, Files, Steps
  <2>2. id \in Int
    <3>1. PICK e \in ToSet(source) : id = e.id \/ id \in ToSet(e.refs)
      OBVIOUS
    <3>2. e \in Elements
      BY <2>1, <3>1 DEF ToSet
    <3>3. e.id \in Int /\ e.refs \in Seq(Int)
      BY <3>2, ElementFields
    <3>4. ToSet(e.refs) \subseteq Int
      BY <3>3 DEF ToSet
    <3> QED BY <3>1, <3>3, <3>4
  <2>3. Knows(coords, readFrom.nodes)
    <3>1. coords = FinalStore(readFrom.nodes)
      BY DEF IInv, Filled
    <3> QED BY <2>1, <3>1, StoreKnows
  <2> QED BY <2>2, <2>3 DEF Knows
<1> QED BY <1>1, ExtractionInvariant, PTL

(* The places are the wanted elements of the file the second pass read, in *)
(* its order and each once, ways where the nodes of the first pass's file  *)
(* put them.                                                               *)
THEOREM ExtractionPlaces == Spec => []PlacesAreThoseOfTheFile
<1>1. IInv => PlacesAreThoseOfTheFile
  <2> SUFFICES ASSUME IInv, pc \in {"hash", "done"} PROVE PlacesAreThoseOfTheFile
    BY DEF PlacesAreThoseOfTheFile
  <2>1. places = Extracted(readFrom.nodes, readFrom.places)
    BY DEF IInv, Found
  <2> QED BY <2>1 DEF PlacesAreThoseOfTheFile, Extracted, Wants, Wanted, PlaceAt
<1> QED BY <1>1, ExtractionInvariant, PTL
=============================================================================
