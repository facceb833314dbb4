------------------------------ MODULE DataDir ------------------------------
(***************************************************************************)
(* The life of a Hexplace data directory: `hexplace import` builds a tree  *)
(* in a staging directory beside the live path and publishes it with two   *)
(* renames (hexplace-engine/src/import/publish.rs and import/mod.rs), while *)
(* engines (`serve` and the one-shot query commands) open the live path    *)
(* part by part under a shared flock (service.rs).  Importers and engines  *)
(* are separate processes: the file system is all they share.              *)
(*                                                                         *)
(* A TREE is a directory inode with its content: Old is the one the live   *)
(* path may hold at the start, tree i is the one importer i builds.  A     *)
(* PATH names at most one tree.  A PART stands for a group of files that   *)
(* the code writes, maps or removes together.                              *)
(***************************************************************************)
EXTENDS Naturals, FiniteSets

CONSTANTS
    Importers,           \* import processes; each one runs once
    Engines,             \* processes that open and close the data directory
    Old,                 \* the tree at the live path at the start, if any
    None,                \* "no tree"
    InitialParts,        \* the part sets Old may start with
    PlaceCount,          \* PlaceCount[t]: the number of places in tree t
    OverlappingImports,  \* FALSE: the operator runs one import at a time
    ParentListable,      \* FALSE: `--data-dir data`, whose parent path is ""
    UnlinkOrder,         \* <<x, y>>: a directory lists part x before part y
    Faults               \* the failures the environment may inject

Trees == Importers \cup {Old}
Procs == Importers \cup Engines

FaultKinds == {"crash", "build", "aside", "parent", "swap", "rollback",
               "removal"}

ASSUME ProcsAssumption ==
    /\ Importers \cap Engines = {}
    /\ Old \notin Procs
    /\ None \notin Procs \cup {Old}
ASSUME PlaceCountAssumption == PlaceCount \in [Trees -> Nat]
ASSUME ModeAssumption ==
    /\ OverlappingImports \in BOOLEAN
    /\ ParentListable \in BOOLEAN
    /\ Faults \subseteq FaultKinds

(***************************************************************************)
(* Names.  Every import process has its own staging and obsolete sibling:  *)
(* the names carry its pid and a time stamp.                               *)
(***************************************************************************)
Live == <<"live", Old>>
Staging(i) == <<"staging", i>>
Obsolete(i) == <<"obsolete", i>>
Siblings == {"staging", "obsolete"} \X Importers
Paths == Siblings \cup {Live}

IndexParts == {"places", "text", "spatial", "manifest"}
Parts == IndexParts \cup {".lock", "places.bin"}

ImporterPcs == {"idle", "cleanup", "extract", "places", "text", "spatial",
                "manifest", "check", "open", "trylock", "recheck", "aside",
                "swap", "rollback", "dropobs", "exit", "discard", "fail",
                "done", "failed", "crashed"}
EnginePcs == {"idle", "lock", "serving"} \cup IndexParts
Ended == {"done", "failed", "crashed"}

(* Old was published by an import, and perhaps served since, or it is a    *)
(* directory that never held an index; it may hold the file of the         *)
(* pre-columnar store.                                                     *)
ASSUME InitialPartsAssumption ==
    /\ InitialParts \subseteq SUBSET Parts
    /\ \A P \in InitialParts : IndexParts \subseteq P \/ P \cap IndexParts = {}
ASSUME UnlinkOrderAssumption == UnlinkOrder \subseteq Parts \X Parts

VARIABLES
    dir,     \* dir[p]: the tree at path p, or None
    parts,   \* parts[t]: the parts tree t holds
    lockNo,  \* lockNo[t]: how many .lock inodes tree t has had
    pc,      \* control point of every process
    fd,      \* fd[p]: the .lock inode process p has open, or NoFd
    todo,    \* todo[i]: siblings the orphan cleanup has still to visit
    rm,      \* rm[i]: the remove_dir_all in progress, or NoRemoval
    seen     \* seen[e][x]: the tree engine e opened part x from, or None

vars == <<dir, parts, lockNo, pc, fd, todo, rm, seen>>

NoFd == [tree |-> None, ino |-> 0]
NoRemoval == [path |-> Live, tree |-> None, left |-> {}]
NothingSeen == [x \in IndexParts |-> None]

Importing(i) == pc[i] \notin Ended \cup {"idle"}

(* flock state: a process that has the lock file open holds the lock once  *)
(* it is past the step that acquires it.                                   *)
Holds(p) == fd[p] # NoFd /\ pc[p] \notin {"lock", "trylock"}
HeldBy(S, f) == \E p \in S : Holds(p) /\ fd[p] = f

Goto(p, from, to) == pc[p] = from /\ pc' = [pc EXCEPT ![p] = to]
DropFd(p) == fd' = [fd EXCEPT ![p] = NoFd]

(* A rename or an open of the live path sees one tree; a directory can be  *)
(* renamed over a missing or an empty one.                                 *)
LiveReplaceable == dir[Live] # None => parts[dir[Live]] = {}

-----------------------------------------------------------------------------
(* Removal of a directory: remove_dir_all opens the tree, lists it, unlinks *)
(* what it listed (a name that is gone by then is skipped) and removes the *)
(* directory it was given, which fails when the directory holds a new      *)
(* entry.  The file system decides the order; UnlinkOrder = {} allows any. *)

Opened(p) ==
    IF dir[p] = None THEN NoRemoval
    ELSE [path |-> p, tree |-> dir[p], left |-> parts[dir[p]]]

RemoveEntry(i) ==
    /\ rm[i].tree # None
    /\ \E x \in rm[i].left :
           /\ \A y \in rm[i].left : <<y, x>> \notin UnlinkOrder
           /\ parts' = [parts EXCEPT ![rm[i].tree] = @ \ {x}]
           /\ rm' = [rm EXCEPT ![i].left = @ \ {x}]
    /\ UNCHANGED <<dir, lockNo, pc, fd, todo, seen>>

RemoveRoot(i) ==
    /\ rm[i].tree # None /\ rm[i].left = {}
    /\ dir' = IF dir[rm[i].path] = rm[i].tree /\ parts[rm[i].tree] = {}
              THEN [dir EXCEPT ![rm[i].path] = None] ELSE dir
    /\ rm' = [rm EXCEPT ![i] = NoRemoval]
    /\ UNCHANGED <<parts, lockNo, pc, fd, todo, seen>>

(* Every caller ignores the error of a removal that stops half way.        *)
RemovalStops(i) ==
    /\ "removal" \in Faults
    /\ rm[i].tree # None
    /\ rm' = [rm EXCEPT ![i] = NoRemoval]
    /\ UNCHANGED <<dir, parts, lockNo, pc, fd, todo, seen>>

Removal(i) == RemoveEntry(i) \/ RemoveRoot(i) \/ RemovalStops(i)
-----------------------------------------------------------------------------
(* import_pbf / import_places: orphan cleanup, then extraction.            *)

(* Mutants: the name test is so loose that the live directory passes for a *)
(* sibling; the cleanup looks for staging siblings only.                   *)
ImportBegins_MatchesLive(i) ==
    /\ OverlappingImports \/ \A j \in Importers : ~Importing(j)
    /\ Goto(i, "idle", IF ParentListable THEN "cleanup" ELSE "extract")
    /\ todo' = [todo EXCEPT ![i] = IF ParentListable
                                   THEN {p \in Paths : dir[p] # None}
                                   ELSE {}]
    /\ UNCHANGED <<dir, parts, lockNo, fd, rm, seen>>
ImportBegins_StagingOnly(i) ==
    /\ OverlappingImports \/ \A j \in Importers : ~Importing(j)
    /\ Goto(i, "idle", "cleanup")
    /\ todo' = [todo EXCEPT ![i] = {p \in Siblings : p[1] = "staging" /\ dir[p] # None}]
    /\ UNCHANGED <<dir, parts, lockNo, fd, rm, seen>>

(* Listing the parent of a bare relative path fails with NotFound, and the *)
(* whole cleanup returns early.                                            *)
ImportBegins(i) ==
    /\ OverlappingImports \/ \A j \in Importers : ~Importing(j)
    /\ Goto(i, "idle", IF ParentListable THEN "cleanup" ELSE "extract")
    /\ todo' = [todo EXCEPT ![i] = IF ParentListable
                                   THEN {p \in Siblings : dir[p] # None}
                                   ELSE {}]
    /\ UNCHANGED <<dir, parts, lockNo, fd, rm, seen>>

CleanupVisits(i) ==
    /\ pc[i] = "cleanup" /\ rm[i].tree = None
    /\ \E p \in todo[i] :
           /\ todo' = [todo EXCEPT ![i] = @ \ {p}]
           /\ rm' = [rm EXCEPT ![i] = Opened(p)]
    /\ UNCHANGED <<dir, parts, lockNo, pc, fd, seen>>

CleanupEnds(i) ==
    /\ todo[i] = {} /\ rm[i].tree = None
    /\ Goto(i, "cleanup", "extract")
    /\ parts' = [t \in Trees |-> IF t = dir[Live] THEN parts[t] \ {"places.bin"}
                                 ELSE parts[t]]
    /\ UNCHANGED <<dir, lockNo, fd, todo, rm, seen>>

(* A cleanup that cannot list the parent, an input that cannot be read, or *)
(* one without any place: the import fails before it has a staging tree.   *)
ImportRejected(i) ==
    /\ "build" \in Faults
    /\ pc[i] \in {"cleanup", "extract"} /\ rm[i].tree = None
    /\ pc' = [pc EXCEPT ![i] = "failed"]
    /\ todo' = [todo EXCEPT ![i] = {}]
    /\ UNCHANGED <<dir, parts, lockNo, fd, rm, seen>>

-----------------------------------------------------------------------------
(* finish_import: the staging tree.                                        *)

(* extract_places reads the input and touches nothing shared; then         *)
(* create_staging_dir and ensure_layout make the empty tree.               *)
CreateStaging(i) ==
    /\ Goto(i, "extract", "places")
    /\ dir' = [dir EXCEPT ![Staging(i)] = i]
    /\ UNCHANGED <<parts, lockNo, fd, todo, rm, seen>>

(* Mutant: publishing before the manifest is saved.                        *)
NextStage_NoManifest == [places |-> "text", text |-> "spatial",
                         spatial |-> "check", manifest |-> "check"]

NextStage == [places |-> "text", text |-> "spatial", spatial |-> "manifest",
              manifest |-> "check"]

(* Every index writer starts with create_dir_all, which makes a staging    *)
(* root again that somebody removed; saving the manifest does not.         *)
WritePart(i) ==
    /\ pc[i] \in IndexParts
    /\ pc[i] = "manifest" => dir[Staging(i)] # None
    /\ dir' = [dir EXCEPT ![Staging(i)] = i]
    /\ parts' = [parts EXCEPT ![i] = @ \cup {pc[i]}]
    /\ pc' = [pc EXCEPT ![i] = NextStage[pc[i]]]
    /\ UNCHANGED <<lockNo, fd, todo, rm, seen>>

(* Any error between ensure_layout and the lock discards the staging tree; *)
(* "open" fails without a fault when the live directory went away.         *)
BuildFails(i) ==
    /\ \/ "build" \in Faults /\ pc[i] \in IndexParts \cup {"open"}
       \/ pc[i] = "manifest" /\ dir[Staging(i)] = None
       \/ pc[i] = "open" /\ dir[Live] = None
    /\ pc' = [pc EXCEPT ![i] = "discard"]
    /\ UNCHANGED <<dir, parts, lockNo, fd, todo, rm, seen>>
-----------------------------------------------------------------------------
(* The lock file: open it in the tree at the live path, creating it there. *)

OpenLock(p) ==
    LET t == dir[Live]
        n == IF ".lock" \in parts[t] THEN lockNo[t] ELSE lockNo[t] + 1
    IN  /\ parts' = [parts EXCEPT ![t] = @ \cup {".lock"}]
        /\ lockNo' = [lockNo EXCEPT ![t] = n]
        /\ fd' = [fd EXCEPT ![p] = [tree |-> t, ino |-> n]]

(* publish_data_dir                                                        *)
(* Mutant: the exclusive lock is never asked for.                          *)
CheckTarget_NoLock(i) ==
    /\ Goto(i, "check", "recheck")
    /\ UNCHANGED <<dir, parts, lockNo, fd, todo, rm, seen>>

CheckTarget(i) ==
    /\ Goto(i, "check", IF dir[Live] = None THEN "recheck" ELSE "open")
    /\ UNCHANGED <<dir, parts, lockNo, fd, todo, rm, seen>>

OpenExclusive(i) ==
    /\ dir[Live] # None
    /\ Goto(i, "open", "trylock")
    /\ OpenLock(i)
    /\ UNCHANGED <<dir, todo, rm, seen>>

(* Mutant: a shared lock does not refuse the exclusive one.                *)
TryLock_IgnoresReaders(i) ==
    /\ ~HeldBy(Importers \ {i}, fd[i])
    /\ Goto(i, "trylock", "recheck")
    /\ UNCHANGED <<dir, parts, lockNo, fd, todo, rm, seen>>

TryLock(i) ==
    /\ ~HeldBy(Procs \ {i}, fd[i])
    /\ Goto(i, "trylock", "recheck")
    /\ UNCHANGED <<dir, parts, lockNo, fd, todo, rm, seen>>

(* Mutant: lock() where the code has try_lock(): the import waits.         *)
TryLockRefused_Waits(i) == FALSE /\ UNCHANGED vars

TryLockRefused(i) ==
    /\ HeldBy(Procs \ {i}, fd[i])
    /\ Goto(i, "trylock", "discard")
    /\ DropFd(i)
    /\ UNCHANGED <<dir, parts, lockNo, todo, rm, seen>>

Recheck(i) ==
    /\ Goto(i, "recheck", IF dir[Live] = None THEN "swap" ELSE "aside")
    /\ UNCHANGED <<dir, parts, lockNo, fd, todo, rm, seen>>

MoveAside(i) ==
    /\ dir[Live] # None
    /\ Goto(i, "aside", "swap")
    /\ dir' = [dir EXCEPT ![Live] = None, ![Obsolete(i)] = dir[Live]]
    /\ UNCHANGED <<parts, lockNo, fd, todo, rm, seen>>

MoveAsideFails(i) ==
    /\ "aside" \in Faults \/ dir[Live] = None
    /\ Goto(i, "aside", "discard")
    /\ DropFd(i)
    /\ UNCHANGED <<dir, parts, lockNo, todo, rm, seen>>

(* The early return between the two renames: nothing is rolled back.       *)
ParentFails(i) ==
    /\ "parent" \in Faults
    /\ Goto(i, "swap", "discard")
    /\ DropFd(i)
    /\ UNCHANGED <<dir, parts, lockNo, todo, rm, seen>>

CanSwap(i) == dir[Staging(i)] # None /\ LiveReplaceable

Swap(i) ==
    /\ CanSwap(i)
    /\ Goto(i, "swap", "dropobs")
    /\ dir' = [dir EXCEPT ![Staging(i)] = None, ![Live] = i]
    /\ UNCHANGED <<parts, lockNo, fd, todo, rm, seen>>

SwapFails(i) ==
    /\ "swap" \in Faults \/ ~CanSwap(i)
    /\ Goto(i, "swap", "rollback")
    /\ UNCHANGED <<dir, parts, lockNo, fd, todo, rm, seen>>

(* When nothing was moved aside there is nothing to rename back, and the   *)
(* rename's own error is ignored.                                          *)
CanRollback(i) == dir[Obsolete(i)] # None /\ LiveReplaceable

(* Mutant: the error path returns without the second rename back.          *)
Rollback_Forgotten(i) ==
    /\ Goto(i, "rollback", "discard")
    /\ DropFd(i)
    /\ UNCHANGED <<dir, parts, lockNo, todo, rm, seen>>

Rollback(i) ==
    /\ CanRollback(i)
    /\ Goto(i, "rollback", "discard")
    /\ dir' = [dir EXCEPT ![Obsolete(i)] = None, ![Live] = dir[Obsolete(i)]]
    /\ DropFd(i)
    /\ UNCHANGED <<parts, lockNo, todo, rm, seen>>

RollbackFails(i) ==
    /\ "rollback" \in Faults \/ ~CanRollback(i)
    /\ Goto(i, "rollback", "discard")
    /\ DropFd(i)
    /\ UNCHANGED <<dir, parts, lockNo, todo, rm, seen>>

DropObsolete(i) ==
    /\ Goto(i, "dropobs", "exit")
    /\ rm' = [rm EXCEPT ![i] = Opened(Obsolete(i))]
    /\ UNCHANGED <<dir, parts, lockNo, fd, todo, seen>>

(* Mutant: the lock file leaks out of publish_data_dir.                    *)
ImportSucceeds_KeepsLock(i) ==
    /\ rm[i].tree = None
    /\ Goto(i, "exit", "done")
    /\ UNCHANGED <<dir, parts, lockNo, fd, todo, rm, seen>>

ImportSucceeds(i) ==
    /\ rm[i].tree = None
    /\ Goto(i, "exit", "done")
    /\ DropFd(i)
    /\ UNCHANGED <<dir, parts, lockNo, todo, rm, seen>>

(* Mutants: an error returns without discarding the staging tree; it       *)
(* discards what was moved aside instead.                                  *)
DiscardStaging_Forgotten(i) ==
    /\ Goto(i, "discard", "fail")
    /\ UNCHANGED <<dir, parts, lockNo, fd, todo, rm, seen>>
DiscardStaging_TheObsolete(i) ==
    /\ Goto(i, "discard", "fail")
    /\ rm' = [rm EXCEPT ![i] = Opened(Obsolete(i))]
    /\ UNCHANGED <<dir, parts, lockNo, fd, todo, seen>>

DiscardStaging(i) ==
    /\ Goto(i, "discard", "fail")
    /\ rm' = [rm EXCEPT ![i] = Opened(Staging(i))]
    /\ UNCHANGED <<dir, parts, lockNo, fd, todo, seen>>

ImportFails(i) ==
    /\ rm[i].tree = None
    /\ Goto(i, "fail", "failed")
    /\ UNCHANGED <<dir, parts, lockNo, fd, todo, rm, seen>>

(* The process dies: the kernel closes its lock file, its files stay.      *)
ImportCrashes(i) ==
    /\ "crash" \in Faults
    /\ Importing(i)
    /\ pc' = [pc EXCEPT ![i] = "crashed"]
    /\ DropFd(i)
    /\ todo' = [todo EXCEPT ![i] = {}]
    /\ rm' = [rm EXCEPT ![i] = NoRemoval]
    /\ UNCHANGED <<dir, parts, lockNo, seen>>
-----------------------------------------------------------------------------
(* Engine::open, one part after the other, each one by path.               *)

OpenShared(e) ==
    /\ dir[Live] # None
    /\ Goto(e, "idle", "lock")
    /\ OpenLock(e)
    /\ UNCHANGED <<dir, todo, rm, seen>>

(* lock_shared blocks while an importer holds the same inode exclusively.  *)
LockShared(e) ==
    /\ ~HeldBy(Importers, fd[e])
    /\ Goto(e, "lock", "manifest")
    /\ UNCHANGED <<dir, parts, lockNo, fd, todo, rm, seen>>

NextPart == [manifest |-> "places", places |-> "text", text |-> "spatial",
             spatial |-> "serving"]

CanOpenPart(e) ==
    /\ dir[Live] # None
    /\ pc[e] \in parts[dir[Live]]
    /\ pc[e] = "places" =>
           PlaceCount[dir[Live]] = PlaceCount[seen[e]["manifest"]]

OpenPart(e) ==
    /\ pc[e] \in IndexParts
    /\ CanOpenPart(e)
    /\ seen' = [seen EXCEPT ![e][pc[e]] = dir[Live]]
    /\ pc' = [pc EXCEPT ![e] = NextPart[pc[e]]]
    /\ UNCHANGED <<dir, parts, lockNo, fd, todo, rm>>

(* Mutant: what was opened survives into the next Engine::open.            *)
EngineCloses_KeepsParts(e) ==
    /\ pc[e] # "idle"
    /\ pc' = [pc EXCEPT ![e] = "idle"]
    /\ DropFd(e)
    /\ UNCHANGED <<dir, parts, lockNo, todo, rm, seen>>

(* An error of Engine::open, the end of the command, a shutdown or a kill: *)
(* the process closes its files, and so gives up the lock.                 *)
EngineCloses(e) ==
    /\ pc[e] # "idle"
    /\ pc' = [pc EXCEPT ![e] = "idle"]
    /\ DropFd(e)
    /\ seen' = [seen EXCEPT ![e] = NothingSeen]
    /\ UNCHANGED <<dir, parts, lockNo, todo, rm>>
-----------------------------------------------------------------------------
Init ==
    /\ \E t \in {None, Old} :
           dir = [p \in Paths |-> IF p = Live THEN t ELSE None]
    /\ \E P \in InitialParts :
           /\ parts = [t \in Trees |-> IF t = dir[Live] THEN P ELSE {}]
           /\ lockNo = [t \in Trees |->
                            IF ".lock" \in parts[t] THEN 1 ELSE 0]
    /\ pc = [p \in Procs |-> "idle"]
    /\ fd = [p \in Procs |-> NoFd]
    /\ todo = [i \in Importers |-> {}]
    /\ rm = [i \in Importers |-> NoRemoval]
    /\ seen = [e \in Engines |-> NothingSeen]

Publish(i) ==
    \/ CheckTarget(i) \/ OpenExclusive(i) \/ TryLock(i) \/ TryLockRefused(i)
    \/ Recheck(i) \/ MoveAside(i) \/ MoveAsideFails(i) \/ ParentFails(i)
    \/ Swap(i) \/ SwapFails(i) \/ Rollback(i) \/ RollbackFails(i)
    \/ DropObsolete(i)

ImporterStep(i) ==
    \/ Removal(i)
    \/ CleanupVisits(i) \/ CleanupEnds(i) \/ ImportRejected(i)
    \/ CreateStaging(i) \/ WritePart(i) \/ BuildFails(i)
    \/ Publish(i)
    \/ DiscardStaging(i) \/ ImportSucceeds(i) \/ ImportFails(i)

EngineStep(e) == LockShared(e) \/ OpenPart(e)

Next ==
    \/ \E i \in Importers : ImportBegins(i) \/ ImporterStep(i) \/ ImportCrashes(i)
    \/ \E e \in Engines : OpenShared(e) \/ EngineStep(e) \/ EngineCloses(e)

Spec == Init /\ [][Next]_vars

(* A process that can run does run, and the kernel wakes a waiter of a     *)
(* free lock.  Nothing makes an operator start an import or stop a server. *)
Fairness ==
    /\ \A i \in Importers : WF_vars(ImporterStep(i))
    /\ \A e \in Engines : WF_vars(EngineStep(e))

FairSpec == Spec /\ Fairness
-----------------------------------------------------------------------------
(***************************************************************************)
(* Properties                                                              *)
(***************************************************************************)
TypeOK ==
    /\ dir \in [Paths -> Trees \cup {None}]
    /\ parts \in [Trees -> SUBSET Parts]
    /\ lockNo \in [Trees -> Nat]
    /\ pc \in [Procs -> ImporterPcs \cup EnginePcs]
    /\ \A i \in Importers : pc[i] \in ImporterPcs
    /\ \A e \in Engines : pc[e] \in EnginePcs
    /\ fd \in [Procs -> [tree : Trees \cup {None}, ino : Nat]]
    /\ todo \in [Importers -> SUBSET Siblings]
    /\ rm \in [Importers -> [path : Paths, tree : Trees \cup {None},
                         left : SUBSET Parts]]
    /\ seen \in [Engines -> [IndexParts -> Trees \cup {None}]]

(* The live path never names a torn index: what it names holds all four    *)
(* parts, or it is a directory that never held any of them.  The staging   *)
(* tree must be complete before the second rename, and no removal (of an   *)
(* orphan, of staging, of the retired tree) may reach the published tree.  *)
LiveWhole ==
    \/ dir[Live] = None
    \/ IndexParts \subseteq parts[dir[Live]]
    \/ dir[Live] = Old /\ parts[Old] \cap IndexParts = {}

(* An engine guards the live path while its shared flock is on the lock    *)
(* file of the very tree the path names.                                   *)
Guards(e) == Holds(e) /\ dir[Live] # None /\ fd[e].tree = dir[Live]

(* No step of any process takes a guarded tree away from the live path:    *)
(* publish_data_dir gets its exclusive flock first.                        *)
GuardedTreeStays ==
    [][\A e \in Engines : Guards(e) => dir'[Live] = dir[Live]]_vars

(* Whatever an engine that guards the live path has opened so far, part by *)
(* part and by path, comes from that one tree.                             *)
GuardedEngineReadsOneTree ==
    \A e \in Engines : Guards(e) =>
        \A x \in IndexParts : seen[e][x] \in {None, dir[Live]}

(* The data directory keeps the promise of LiveIndex.  The retired tree is *)
(* the one a running import moved aside and may still rename back.         *)
MovedAside(i) == pc[i] \in {"swap", "rollback"} /\ dir[Obsolete(i)] # None
Retired == {dir[Obsolete(i)] : i \in {j \in Importers : MovedAside(j)}}
WholeTrees == {t \in Trees : IndexParts \subseteq parts[t]}
Promise == INSTANCE LiveIndex WITH
    Readers <- Engines, live <- dir[Live], retired <- Retired,
    whole <- WholeTrees, pins <- {e \in Engines : Guards(e)}
ImplementsLiveIndex == Promise!Spec

(* An engine that is up has mapped one generation of the index.            *)
OneGeneration ==
    \A e \in Engines : pc[e] = "serving" =>
        \A x, y \in IndexParts : seen[e][x] = seen[e][y]

(* While an engine serves, the live path keeps naming the same tree.       *)
ServedTreeStays ==
    [][\A e \in Engines : pc[e] = "serving" => dir'[Live] = dir[Live]]_vars

(* Once cleanup_orphans is over, no staging or obsolete sibling of an      *)
(* earlier import, crashed or not, is left.                                *)
CleanupRemovesOrphans ==
    \A i \in Importers : pc[i] = "extract" =>
        \A p \in Siblings : dir[p] = None

(* When no import runs, an obsolete sibling is never the only copy of the  *)
(* index: there is a tree at the live path.                                *)
OrphansAreNotLiveData ==
    (\A i \in Importers : ~Importing(i)) =>
        \A i \in Importers : dir[Obsolete(i)] # None => dir[Live] # None

(* Whatever fails and wherever an import dies, also between the renames,   *)
(* the last whole index stays at the live path or at an obsolete one: only *)
(* the cleanup of a later import takes it away.                            *)
WholeAt(p) == dir[p] # None /\ IndexParts \subseteq parts[dir[p]]
IndexIsLeft == WholeAt(Live) \/ \E i \in Importers : WholeAt(Obsolete(i))
OnlyCleanupLosesTheIndex ==
    [][IndexIsLeft => IndexIsLeft' \/ \E i \in Importers : pc[i] = "cleanup"]_vars

(* An import that returned, with success or with an error, has left neither *)
(* its staging tree nor the tree it moved aside.                           *)
EndedImportLeavesNoSibling ==
    \A i \in Importers : pc[i] \in {"done", "failed"} =>
        dir[Staging(i)] = None /\ dir[Obsolete(i)] = None

(* The live path is empty between the two renames only for a while: the    *)
(* new tree or the rolled back one takes the place.                        *)
LiveReturns ==
    \A i \in Importers :
        (dir[Obsolete(i)] # None /\ dir[Live] = None) ~> dir[Live] # None

(* An import that started ends by itself, also when a server keeps the     *)
(* data directory locked for ever or another import runs beside it.        *)
ImportEnds == \A i \in Importers : Importing(i) ~> pc[i] \in Ended

(* An engine that waits for the shared flock is not left waiting.          *)
LockWaitEnds == \A e \in Engines : pc[e] = "lock" ~> pc[e] # "lock"
=============================================================================
