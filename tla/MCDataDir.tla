----------------------------- MODULE MCDataDir -----------------------------
(* Small instances of DataDir: at most two imports and two engines.  Every  *)
(* tree holds the same number of places, so that the place_count check of   *)
(* Engine::open never hides a mix of generations.                           *)
EXTENDS DataDir, TLC

CONSTANTS i1, i2, e1, e2

SamePlaceCount == [t \in Trees |-> 1]

(* A directory made by hand, an index never opened, one already served, and *)
(* one with the leftover of the pre-columnar store.                         *)
AnyStart == {{}, IndexParts, IndexParts \cup {".lock"},
             IndexParts \cup {".lock", "places.bin"}}
EmptyStart == {{}}

ServedStart == {IndexParts \cup {".lock"}}

AnyOrder == {}
OneOrder == LET rank == [places |-> 1, text |-> 2, spatial |-> 3] @@
                        ("manifest" :> 4) @@ (".lock" :> 5) @@ ("places.bin" :> 6)
            IN  {o \in Parts \X Parts : rank[o[1]] < rank[o[2]]}

NoFaults == {}
ReturnedErrors == {"build", "aside", "swap"}
OnlyCrashes == {"crash"}
ErrorsAndCrashes == ReturnedErrors \cup {"crash", "parent", "rollback"}
OnlyRemovalFaults == {"removal"}

Interchangeable == Permutations(Importers) \cup Permutations(Engines)
=============================================================================
