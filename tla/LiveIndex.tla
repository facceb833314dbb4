----------------------------- MODULE LiveIndex -----------------------------
(***************************************************************************)
(* What the data directory promises to those who read it: the live path    *)
(* names a whole tree or nothing, a tree leaves it only when no reader has  *)
(* it pinned, and it is then replaced by a whole tree or put back.  The    *)
(* promise of hexplace-engine/src/import/publish.rs and of the shared      *)
(* flock of Engine::open; DataDir implements it.                           *)
(***************************************************************************)
CONSTANTS Trees, Readers, None

VARIABLES
    live,     \* the tree the live path names, or None
    retired,  \* the trees taken away from it that can still be put back
    whole,    \* the trees that hold every part of an index
    pins      \* the readers that keep the live tree in place

vars == <<live, retired, whole, pins>>

(* An operator's hand-made directory may be live and not whole.            *)
Init ==
    /\ live \in Trees \cup {None}
    /\ retired = {}
    /\ whole \in SUBSET Trees
    /\ pins = {}

Build(t) == t # live /\ whole' = whole \cup {t} /\ UNCHANGED <<live, retired, pins>>

Scrap(t) ==
    /\ t # live /\ t \notin retired
    /\ whole' = whole \ {t}
    /\ UNCHANGED <<live, retired, pins>>

Pin(r) == live # None /\ pins' = pins \cup {r} /\ UNCHANGED <<live, retired, whole>>

Unpin(r) == pins' = pins \ {r} /\ UNCHANGED <<live, retired, whole>>

Retire ==
    /\ live # None /\ pins = {}
    /\ live' = None /\ retired' = {live}
    /\ UNCHANGED <<whole, pins>>

Install(t) ==
    /\ live = None /\ t \in whole
    /\ live' = t /\ retired' = {}
    /\ UNCHANGED <<whole, pins>>

Restore ==
    /\ live = None
    /\ live' \in retired /\ retired' = {}
    /\ UNCHANGED <<whole, pins>>

(* The publisher died, or gave up, between the two renames.                *)
Forget == retired' = {} /\ UNCHANGED <<live, whole, pins>>

Next ==
    \/ \E t \in Trees : Build(t) \/ Scrap(t) \/ Install(t)
    \/ \E r \in Readers : Pin(r) \/ Unpin(r)
    \/ Retire \/ Restore \/ Forget

Spec == Init /\ [][Next]_vars
=============================================================================
