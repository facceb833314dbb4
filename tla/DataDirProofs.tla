--------------------------- MODULE DataDirProofs ---------------------------
(***************************************************************************)
(* Proofs about DataDir for any number of importers and engines, under any *)
(* faults and for any unlink order.  Those that need one import at a time  *)
(* assume it: the inductive invariant of sequential imports, then that every*)
(* step of theirs is a step of LiveIndex or leaves what LiveIndex sees     *)
(* alone, and that no step takes a guarded tree away.  Then what a single  *)
(* import promises beyond that: every engine that is up has opened one     *)
(* generation, and the tree it serves stays at the live path; a second     *)
(* import breaks both.  And what cleanup_orphans leaves.  Last, for any    *)
(* imports at once, why each of them comes to an end.                      *)
(***************************************************************************)
EXTENDS DataDir, TLAPS

(***************************************************************************)
(* The strengthening.  Apart from TypeOK every conjunct speaks of          *)
(* sequential imports.                                                     *)
(***************************************************************************)
LockPcs == {"trylock", "recheck", "aside", "swap", "rollback", "dropobs", "exit"}
RemovalPcs == {"cleanup", "exit", "fail"}
Published == {"dropobs", "exit", "done", "crashed"}
BuiltPcs == {"check", "open", "trylock", "recheck", "aside", "swap", "rollback"}
AsidePcs == {"swap", "rollback", "dropobs", "exit", "discard", "fail",
             "done", "failed", "crashed"}

OneImporter ==
    \A i, j \in Importers : Importing(i) /\ Importing(j) => i = j

(* An importer has a lock file or a removal open only where the code has.  *)
Handles ==
    \A i \in Importers :
        /\ fd[i].tree # None => pc[i] \in LockPcs
        /\ pc[i] = "trylock" => fd[i].tree # None
        /\ rm[i].tree # None => pc[i] \in RemovalPcs /\ rm[i].path \in Siblings
        /\ rm[i].tree # None => rm[i].tree # dir[Live]

TreeAtOnePath ==
    \A p, q \in Paths : dir[p] # None /\ dir[p] = dir[q] => p = q

(* A tree that was not published yet is nowhere but in its staging         *)
(* directory, and nobody has opened its lock file.                         *)
Unpublished(i) == dir[Staging(i)] # None \/ pc[i] \notin Published
FreshTrees ==
    \A i \in Importers :
        /\ dir[Staging(i)] \in {None, i}
        /\ Unpublished(i) => /\ \A p \in Paths : dir[p] = i => p = Staging(i)
                             /\ \A q \in Procs : fd[q].tree # i
        /\ pc[i] \notin AsidePcs => dir[Obsolete(i)] = None

(* What the staging tree holds at each stage of the build.                 *)
Written ==
    \A i \in Importers :
        /\ pc[i] = "text" => "places" \in parts[i]
        /\ pc[i] = "spatial" => {"places", "text"} \subseteq parts[i]
        /\ pc[i] = "manifest" => {"places", "text", "spatial"} \subseteq parts[i]
        /\ pc[i] \in BuiltPcs => IndexParts \subseteq parts[i]

(* The trees that are, or may become again, the live one.                  *)
InPlay(t) ==
    t = dir[Live] \/ \E i \in Importers : MovedAside(i) /\ t = dir[Obsolete(i)]

InPlayWhole ==
    \A t \in Trees : InPlay(t) =>
        \/ IndexParts \subseteq parts[t]
        \/ t = Old /\ parts[t] \cap IndexParts = {}

(* A lock file opened in such a tree is still the one in the tree.         *)
LockCurrent ==
    \A p \in Procs : fd[p].tree # None /\ InPlay(fd[p].tree) =>
        ".lock" \in parts[fd[p].tree] /\ fd[p].ino = lockNo[fd[p].tree]

ExclusiveAlone ==
    \A i \in Importers, p \in Procs :
        Holds(i) /\ Holds(p) /\ fd[i] = fd[p] => i = p

(* From the first exists() of publish_data_dir to the swap.                *)
PublishWindow ==
    \A i \in Importers :
        /\ pc[i] = "trylock" => fd[i].tree = dir[Live]
        /\ pc[i] \in {"recheck", "aside"} => fd[i].tree = dir[Live]
        /\ pc[i] \in {"swap", "rollback"} =>
               dir[Live] = None /\ fd[i].tree = dir[Obsolete(i)]

SeenNothing ==
    \A e \in Engines : pc[e] \in {"idle", "lock"} => seen[e] = NothingSeen

IInv ==
    /\ TypeOK /\ OneImporter /\ Handles /\ TreeAtOnePath /\ FreshTrees
    /\ Written /\ InPlayWhole /\ LockCurrent /\ ExclusiveAlone /\ PublishWindow
    /\ SeenNothing /\ GuardedEngineReadsOneTree
-----------------------------------------------------------------------------
USE ProcsAssumption

(* The names of a data directory and its siblings are all different.       *)
LEMMA Names ==
    /\ Live \in Paths /\ Live \notin Siblings /\ Siblings \subseteq Paths
    /\ \A p \in Paths : p # Live => p \in Siblings
    /\ \A i \in Importers : Staging(i) \in Siblings /\ Obsolete(i) \in Siblings
    /\ \A i, j \in Importers :
           /\ Staging(i) # Obsolete(j)
           /\ Staging(i) = Staging(j) => i = j
           /\ Obsolete(i) = Obsolete(j) => i = j
    /\ \A p \in Siblings : \E i \in Importers : p = Staging(i) \/ p = Obsolete(i)
<1>1. Live \in Paths /\ Siblings \subseteq Paths
    BY DEF Paths, Live
<1>2. Live \notin Siblings
    BY DEF Siblings, Live
<1>3. \A p \in Paths : p # Live => p \in Siblings
    BY DEF Paths
<1>4. \A i \in Importers : Staging(i) \in Siblings /\ Obsolete(i) \in Siblings
    BY DEF Siblings, Staging, Obsolete
<1>5. \A i, j \in Importers : /\ Staging(i) # Obsolete(j)
                              /\ Staging(i) = Staging(j) => i = j
                              /\ Obsolete(i) = Obsolete(j) => i = j
    BY DEF Staging, Obsolete
<1>6. \A p \in Siblings : \E i \in Importers : p = Staging(i) \/ p = Obsolete(i)
    BY DEF Siblings, Staging, Obsolete
<1> QED
    BY <1>1, <1>2, <1>3, <1>4, <1>5, <1>6

(* An idle data directory: no process runs, nothing is staged.             *)
LEMMA InitInv == Init => IInv
<1> SUFFICES ASSUME Init PROVE IInv
    OBVIOUS
<1> USE InitialPartsAssumption DEF Init, Trees, Procs, NoFd, NoRemoval
<1>1. TypeOK
    BY Names DEF TypeOK, NothingSeen, ImporterPcs, EnginePcs
<1>2. OneImporter /\ Handles /\ ExclusiveAlone /\ PublishWindow
    BY DEF OneImporter, Importing, Handles, ExclusiveAlone, Holds, PublishWindow
<1>3. TreeAtOnePath /\ FreshTrees
    BY Names DEF TreeAtOnePath, FreshTrees, Unpublished
<1>4. Written /\ InPlayWhole
    BY Names DEF Written, BuiltPcs, InPlayWhole, InPlay, MovedAside
<1>5. LockCurrent /\ SeenNothing /\ GuardedEngineReadsOneTree
    BY Names
    DEF LockCurrent, SeenNothing, GuardedEngineReadsOneTree, Guards, Holds
<1> QED
    BY <1>1, <1>2, <1>3, <1>4, <1>5 DEF IInv

(* Every step of every process, one import at a time or not, keeps the     *)
(* types.                                                                  *)
LEMMA TypeStep == TypeOK /\ [Next]_vars => TypeOK'
<1> SUFFICES ASSUME TypeOK, [Next]_vars PROVE TypeOK'
    OBVIOUS
<1> USE DEF TypeOK, Trees, Procs, Goto, DropFd
<1>1. ASSUME NEW p \in Importers, RemoveEntry(p) PROVE TypeOK'
    <2>1. PICK x \in rm[p].left : /\ parts' = [parts EXCEPT ![rm[p].tree] = @ \ {x}]
                                  /\ rm' = [rm EXCEPT ![p].left = @ \ {x}]
        BY <1>1 DEF RemoveEntry
    <2>2. parts' \in [Trees -> SUBSET Parts]
        BY <2>1
    <2>3. rm[p].left \ {x} \in SUBSET Parts
        OBVIOUS
    <2>4. rm' \in [Importers -> [path : Paths, tree : Trees \cup {None}, left : SUBSET Parts]]
        BY <2>1, <2>3
    <2> QED
        BY <1>1, <2>2, <2>4 DEF RemoveEntry
<1>2. ASSUME NEW p \in Importers, RemoveRoot(p) PROVE TypeOK'
    BY <1>2, Names
    DEF RemoveRoot, ImporterPcs, EnginePcs, NoFd, NoRemoval, Opened
<1>3. ASSUME NEW p \in Importers, RemovalStops(p) PROVE TypeOK'
    BY <1>3, Names
    DEF RemovalStops, ImporterPcs, EnginePcs, NoFd, NoRemoval, Opened
<1>4. ASSUME NEW p \in Importers, ImportBegins(p) PROVE TypeOK'
    BY <1>4, Names
    DEF ImportBegins, ImporterPcs, EnginePcs, NoFd, NoRemoval, Opened
<1>5. ASSUME NEW p \in Importers, CleanupVisits(p) PROVE TypeOK'
    BY <1>5, Names
    DEF CleanupVisits, ImporterPcs, EnginePcs, NoFd, NoRemoval, Opened
<1>6. ASSUME NEW p \in Importers, CleanupEnds(p) PROVE TypeOK'
    BY <1>6, Names
    DEF CleanupEnds, ImporterPcs, EnginePcs, NoFd, NoRemoval, Opened
<1>7. ASSUME NEW p \in Importers, ImportRejected(p) PROVE TypeOK'
    BY <1>7, Names
    DEF ImportRejected, ImporterPcs, EnginePcs, NoFd, NoRemoval, Opened
<1>8. ASSUME NEW p \in Importers, CreateStaging(p) PROVE TypeOK'
    BY <1>8, Names
    DEF CreateStaging, ImporterPcs, EnginePcs, NoFd, NoRemoval, Opened
<1>9. ASSUME NEW p \in Importers, WritePart(p) PROVE TypeOK'
    BY <1>9, Names
    DEF WritePart, ImporterPcs, EnginePcs, NoFd, NoRemoval, Opened, IndexParts,
        NextStage, Parts
<1>10. ASSUME NEW p \in Importers, BuildFails(p) PROVE TypeOK'
    BY <1>10, Names
    DEF BuildFails, ImporterPcs, EnginePcs, NoFd, NoRemoval, Opened
<1>11. ASSUME NEW p \in Importers, CheckTarget(p) PROVE TypeOK'
    BY <1>11, Names
    DEF CheckTarget, ImporterPcs, EnginePcs, NoFd, NoRemoval, Opened
<1>12. ASSUME NEW p \in Importers, OpenExclusive(p) PROVE TypeOK'
    BY <1>12, Names
    DEF OpenExclusive, ImporterPcs, EnginePcs, NoFd, NoRemoval, Opened, Parts,
        OpenLock
<1>13. ASSUME NEW p \in Importers, TryLock(p) PROVE TypeOK'
    BY <1>13, Names DEF TryLock, ImporterPcs, EnginePcs, NoFd, NoRemoval, Opened
<1>14. ASSUME NEW p \in Importers, TryLockRefused(p) PROVE TypeOK'
    BY <1>14, Names
    DEF TryLockRefused, ImporterPcs, EnginePcs, NoFd, NoRemoval, Opened
<1>15. ASSUME NEW p \in Importers, Recheck(p) PROVE TypeOK'
    BY <1>15, Names DEF Recheck, ImporterPcs, EnginePcs, NoFd, NoRemoval, Opened
<1>16. ASSUME NEW p \in Importers, MoveAside(p) PROVE TypeOK'
    <2>1. dir' \in [Paths -> Trees \cup {None}]
        BY <1>16, Names DEF MoveAside
    <2>2. pc' \in [Procs -> ImporterPcs \cup EnginePcs]
        BY <1>16 DEF MoveAside, ImporterPcs, EnginePcs
    <2>3. /\ \A i \in Importers : pc'[i] \in ImporterPcs
          /\ \A e \in Engines : pc'[e] \in EnginePcs
        BY <1>16 DEF MoveAside, ImporterPcs, EnginePcs
    <2> QED
        BY <1>16, <2>1, <2>2, <2>3 DEF MoveAside
<1>17. ASSUME NEW p \in Importers, MoveAsideFails(p) PROVE TypeOK'
    BY <1>17, Names
    DEF MoveAsideFails, ImporterPcs, EnginePcs, NoFd, NoRemoval, Opened
<1>18. ASSUME NEW p \in Importers, ParentFails(p) PROVE TypeOK'
    BY <1>18, Names
    DEF ParentFails, ImporterPcs, EnginePcs, NoFd, NoRemoval, Opened
<1>19. ASSUME NEW p \in Importers, Swap(p) PROVE TypeOK'
    BY <1>19, Names
    DEF Swap, ImporterPcs, EnginePcs, NoFd, NoRemoval, Opened, CanSwap,
        LiveReplaceable
<1>20. ASSUME NEW p \in Importers, SwapFails(p) PROVE TypeOK'
    BY <1>20, Names
    DEF SwapFails, ImporterPcs, EnginePcs, NoFd, NoRemoval, Opened, CanSwap
<1>21. ASSUME NEW p \in Importers, Rollback(p) PROVE TypeOK'
    BY <1>21, Names
    DEF Rollback, ImporterPcs, EnginePcs, NoFd, NoRemoval, Opened, CanRollback,
        LiveReplaceable
<1>22. ASSUME NEW p \in Importers, RollbackFails(p) PROVE TypeOK'
    BY <1>22, Names
    DEF RollbackFails, ImporterPcs, EnginePcs, NoFd, NoRemoval, Opened,
        CanRollback
<1>23. ASSUME NEW p \in Importers, DropObsolete(p) PROVE TypeOK'
    BY <1>23, Names
    DEF DropObsolete, ImporterPcs, EnginePcs, NoFd, NoRemoval, Opened
<1>24. ASSUME NEW p \in Importers, ImportSucceeds(p) PROVE TypeOK'
    BY <1>24, Names
    DEF ImportSucceeds, ImporterPcs, EnginePcs, NoFd, NoRemoval, Opened
<1>25. ASSUME NEW p \in Importers, DiscardStaging(p) PROVE TypeOK'
    BY <1>25, Names
    DEF DiscardStaging, ImporterPcs, EnginePcs, NoFd, NoRemoval, Opened
<1>26. ASSUME NEW p \in Importers, ImportFails(p) PROVE TypeOK'
    BY <1>26, Names
    DEF ImportFails, ImporterPcs, EnginePcs, NoFd, NoRemoval, Opened
<1>27. ASSUME NEW p \in Importers, ImportCrashes(p) PROVE TypeOK'
    BY <1>27, Names
    DEF ImportCrashes, ImporterPcs, EnginePcs, NoFd, NoRemoval, Opened
<1>28. ASSUME NEW p \in Engines, OpenShared(p) PROVE TypeOK'
    BY <1>28, Names
    DEF OpenShared, ImporterPcs, EnginePcs, NoFd, NoRemoval, Opened, Parts,
        OpenLock
<1>29. ASSUME NEW p \in Engines, LockShared(p) PROVE TypeOK'
    BY <1>29, Names
    DEF LockShared, ImporterPcs, EnginePcs, NoFd, NoRemoval, Opened, IndexParts
<1>30. ASSUME NEW p \in Engines, OpenPart(p) PROVE TypeOK'
    BY <1>30, Names
    DEF OpenPart, ImporterPcs, EnginePcs, NoFd, NoRemoval, Opened, IndexParts,
        NextPart, CanOpenPart
<1>31. ASSUME NEW p \in Engines, EngineCloses(p) PROVE TypeOK'
    BY <1>31, Names
    DEF EngineCloses, ImporterPcs, EnginePcs, NoFd, NoRemoval, Opened,
        NothingSeen
<1>32. CASE UNCHANGED vars
    BY <1>32 DEF vars
<1> QED
    BY <1>1, <1>2, <1>3, <1>4, <1>5, <1>6, <1>7, <1>8, <1>9, <1>10, <1>11,
       <1>12, <1>13, <1>14, <1>15, <1>16, <1>17, <1>18, <1>19, <1>20, <1>21,
       <1>22, <1>23, <1>24, <1>25, <1>26, <1>27, <1>28, <1>29, <1>30, <1>31,
       <1>32
    DEF Next, ImporterStep, Removal, Publish, EngineStep

(* The steps that give up the exclusive lock without a rename.             *)
Unlocks(i) ==
    /\ pc[i] \in {"trylock", "aside", "swap", "rollback", "exit"}
    /\ rm[i].tree = None
    /\ pc' = [pc EXCEPT ![i] = IF pc[i] = "exit" THEN "done" ELSE "discard"]
    /\ fd' = [fd EXCEPT ![i] = NoFd]
    /\ UNCHANGED <<dir, parts, lockNo, todo, rm, seen>>

(* The failures before the lock, and the end of a failed import.           *)
GivesUp(i) ==
    /\ pc[i] \in {"cleanup", "extract", "open", "fail"} \cup IndexParts
    /\ rm[i].tree = None
    /\ \E x \in {"discard", "failed"} : pc' = [pc EXCEPT ![i] = x]
    /\ UNCHANGED <<dir, parts, lockNo, fd, rm, seen>>

(* An import begins only when no other runs.                               *)
LEMMA ImportBeginsInv ==
    ASSUME ~OverlappingImports, IInv, TypeOK', NEW p \in Importers,
           ImportBegins(p)
    PROVE  IInv'
<1> USE Names DEF IInv, Goto, DropFd, ImportBegins
<1>1. OneImporter'
    BY DEF OneImporter, Importing
<1>2. Handles'
    BY DEF Handles, LockPcs, RemovalPcs
<1>3. TreeAtOnePath'
    BY DEF TreeAtOnePath
<1>4. FreshTrees'
    BY DEF FreshTrees, Unpublished, Published, AsidePcs
<1>5. Written'
    BY DEF Written, BuiltPcs
<1>6. InPlayWhole'
    BY DEF InPlayWhole, InPlay, MovedAside
<1>7. LockCurrent'
    BY DEF LockCurrent, InPlay, MovedAside
<1>8. ExclusiveAlone'
    BY DEF ExclusiveAlone, Holds
<1>9. PublishWindow'
    BY DEF PublishWindow
<1>10. SeenNothing'
    BY DEF SeenNothing
<1>11. GuardedEngineReadsOneTree'
    BY DEF GuardedEngineReadsOneTree, Guards, Holds
<1> QED
    BY <1>1, <1>2, <1>3, <1>4, <1>5, <1>6, <1>7, <1>8, <1>9, <1>10, <1>11

(* Giving up before the lock is taken, or returning the error.             *)
LEMMA GivesUpInv ==
    ASSUME ~OverlappingImports, IInv, TypeOK', NEW p \in Importers,
           GivesUp(p)
    PROVE  IInv'
<1> USE Names DEF IInv, Goto, GivesUp
<1>1. OneImporter'
    BY DEF OneImporter, Importing, Ended, IndexParts
<1>2. Handles'
    BY DEF Handles, LockPcs, IndexParts
<1>3. TreeAtOnePath'
    BY DEF TreeAtOnePath
<1>4. FreshTrees'
    BY DEF FreshTrees, Unpublished, Published, AsidePcs, IndexParts
<1>5. Written'
    BY DEF Written, BuiltPcs
<1>6. InPlayWhole'
    BY DEF InPlayWhole, InPlay, MovedAside
<1>7. LockCurrent'
    BY DEF LockCurrent, InPlay, MovedAside
<1>8. ExclusiveAlone'
    BY DEF ExclusiveAlone, Holds, TypeOK, Procs, IndexParts
<1>9. PublishWindow'
    BY DEF PublishWindow
<1>10. SeenNothing'
    BY DEF SeenNothing
<1>11. GuardedEngineReadsOneTree'
    BY DEF GuardedEngineReadsOneTree, Guards, Holds, TypeOK, Procs, IndexParts
<1> QED
    BY <1>1, <1>2, <1>3, <1>4, <1>5, <1>6, <1>7, <1>8, <1>9, <1>10, <1>11

(* The first exists() of publish_data_dir.                                 *)
LEMMA CheckTargetInv ==
    ASSUME ~OverlappingImports, IInv, TypeOK', NEW p \in Importers,
           CheckTarget(p)
    PROVE  IInv'
<1> USE Names DEF IInv, Goto, DropFd, CheckTarget
<1>1. OneImporter'
    BY DEF OneImporter, Importing, Ended
<1>2. Handles'
    BY DEF Handles, LockPcs, RemovalPcs
<1>3. TreeAtOnePath'
    BY DEF TreeAtOnePath
<1>4. FreshTrees'
    BY DEF FreshTrees, Unpublished, Published, AsidePcs
<1>5. Written'
    BY DEF Written, BuiltPcs
<1>6. InPlayWhole'
    BY DEF InPlayWhole, InPlay, MovedAside
<1>7. LockCurrent'
    BY DEF LockCurrent, InPlay, MovedAside
<1>8. ExclusiveAlone'
    BY DEF ExclusiveAlone, Holds
<1>9. PublishWindow'
    BY DEF PublishWindow, Handles, LockPcs
<1>10. SeenNothing'
    BY DEF SeenNothing
<1>11. GuardedEngineReadsOneTree'
    BY DEF GuardedEngineReadsOneTree, Guards, Holds
<1> QED
    BY <1>1, <1>2, <1>3, <1>4, <1>5, <1>6, <1>7, <1>8, <1>9, <1>10, <1>11

(* The second exists(): nobody else can have changed the live path.        *)
LEMMA RecheckInv ==
    ASSUME ~OverlappingImports, IInv, TypeOK', NEW p \in Importers,
           Recheck(p)
    PROVE  IInv'
<1> USE Names DEF IInv, Goto, DropFd, Recheck
<1>1. OneImporter'
    BY DEF OneImporter, Importing, Ended
<1>2. Handles'
    BY DEF Handles, LockPcs, RemovalPcs
<1>3. TreeAtOnePath'
    BY DEF TreeAtOnePath
<1>4. FreshTrees'
    BY DEF FreshTrees, Unpublished, Published, AsidePcs
<1>5. Written'
    BY DEF Written, BuiltPcs
<1>6. InPlayWhole'
    BY DEF InPlayWhole, InPlay, MovedAside, FreshTrees, AsidePcs
<1>7. LockCurrent'
    BY DEF LockCurrent, InPlay, MovedAside, Ended, FreshTrees, AsidePcs
<1>8. ExclusiveAlone'
    BY DEF ExclusiveAlone, Holds
<1>9. PublishWindow'
    BY DEF PublishWindow, FreshTrees, AsidePcs
<1>10. SeenNothing'
    BY DEF SeenNothing
<1>11. GuardedEngineReadsOneTree'
    BY DEF GuardedEngineReadsOneTree, Guards, Holds
<1> QED
    BY <1>1, <1>2, <1>3, <1>4, <1>5, <1>6, <1>7, <1>8, <1>9, <1>10, <1>11

(* The second rename fails; the tree moved aside is still at its name.     *)
LEMMA SwapFailsInv ==
    ASSUME ~OverlappingImports, IInv, TypeOK', NEW p \in Importers,
           SwapFails(p)
    PROVE  IInv'
<1> USE Names DEF IInv, Goto, DropFd, SwapFails, CanSwap
<1>1. OneImporter'
    BY DEF OneImporter, Importing, Ended
<1>2. Handles'
    BY DEF Handles, LockPcs, RemovalPcs
<1>3. TreeAtOnePath'
    BY DEF TreeAtOnePath
<1>4. FreshTrees'
    BY DEF FreshTrees, Unpublished, Published, AsidePcs
<1>5. Written'
    BY DEF Written, BuiltPcs
<1>6. InPlayWhole'
    BY DEF InPlayWhole, InPlay, MovedAside
<1>7. LockCurrent'
    BY DEF LockCurrent, InPlay, MovedAside
<1>8. ExclusiveAlone'
    BY DEF ExclusiveAlone, Holds
<1>9. PublishWindow'
    BY DEF PublishWindow
<1>10. SeenNothing'
    BY DEF SeenNothing
<1>11. GuardedEngineReadsOneTree'
    BY DEF GuardedEngineReadsOneTree, Guards, Holds
<1> QED
    BY <1>1, <1>2, <1>3, <1>4, <1>5, <1>6, <1>7, <1>8, <1>9, <1>10, <1>11

(* The lock is granted only when no one else holds the inode.              *)
LEMMA TryLockInv ==
    ASSUME ~OverlappingImports, IInv, TypeOK', NEW p \in Importers,
           TryLock(p)
    PROVE  IInv'
<1> USE Names DEF IInv, Goto, DropFd, TryLock
<1>1. OneImporter'
    BY DEF OneImporter, Importing, Ended
<1>2. Handles'
    BY DEF Handles, LockPcs, RemovalPcs
<1>3. TreeAtOnePath'
    BY DEF TreeAtOnePath
<1>4. FreshTrees'
    BY DEF FreshTrees, Unpublished, Published, AsidePcs
<1>5. Written'
    BY DEF Written, BuiltPcs
<1>6. InPlayWhole'
    BY DEF InPlayWhole, InPlay, MovedAside
<1>7. LockCurrent'
    BY DEF LockCurrent, InPlay, MovedAside
<1>8. ExclusiveAlone'
    BY DEF Procs, ExclusiveAlone, Holds, HeldBy
<1>9. PublishWindow'
    BY DEF PublishWindow
<1>10. SeenNothing'
    BY DEF SeenNothing
<1>11. GuardedEngineReadsOneTree'
    BY DEF GuardedEngineReadsOneTree, Guards, Holds
<1> QED
    BY <1>1, <1>2, <1>3, <1>4, <1>5, <1>6, <1>7, <1>8, <1>9, <1>10, <1>11

(* Publishing gives up: nothing is renamed, the exclusive lock is dropped. *)
LEMMA UnlocksInv ==
    ASSUME ~OverlappingImports, IInv, TypeOK', NEW p \in Importers,
           Unlocks(p)
    PROVE  IInv'
<1> USE Names DEF IInv, Goto, DropFd, Unlocks
<1>1. OneImporter'
    BY DEF OneImporter, Importing, Ended
<1>2. Handles'
    BY DEF TypeOK, Handles, NoFd
<1>3. TreeAtOnePath'
    BY DEF TreeAtOnePath
<1>4. FreshTrees'
    BY DEF Procs, FreshTrees, Unpublished, Published, AsidePcs, NoFd
<1>5. Written'
    BY DEF Written, BuiltPcs
<1>6. InPlayWhole'
    BY DEF InPlayWhole, InPlay, MovedAside
<1>7. LockCurrent'
    BY DEF LockCurrent, InPlay, MovedAside, NoFd
<1>8. ExclusiveAlone'
    BY DEF ExclusiveAlone, Holds, TypeOK
<1>9. PublishWindow'
    BY DEF PublishWindow, TypeOK
<1>10. SeenNothing'
    BY DEF SeenNothing
<1>11. GuardedEngineReadsOneTree'
    BY DEF GuardedEngineReadsOneTree, Guards, Holds
<1> QED
    BY <1>1, <1>2, <1>3, <1>4, <1>5, <1>6, <1>7, <1>8, <1>9, <1>10, <1>11

(* A dead importer holds nothing; its tree stays where it is.              *)
LEMMA ImportCrashesInv ==
    ASSUME ~OverlappingImports, IInv, TypeOK', NEW p \in Importers,
           ImportCrashes(p)
    PROVE  IInv'
<1> USE Names DEF IInv, Goto, DropFd, ImportCrashes
<1>1. OneImporter'
    BY DEF OneImporter, Importing
<1>2. Handles'
    BY DEF TypeOK, Handles, NoFd, NoRemoval
<1>3. TreeAtOnePath'
    BY DEF TreeAtOnePath
<1>4. FreshTrees'
    BY DEF Procs, FreshTrees, Unpublished, Published, AsidePcs, NoFd
<1>5. Written'
    BY DEF Written, BuiltPcs
<1>6. InPlayWhole'
    BY DEF InPlayWhole, InPlay, MovedAside
<1>7. LockCurrent'
    BY DEF LockCurrent, InPlay, MovedAside, NoFd
<1>8. ExclusiveAlone'
    BY DEF ExclusiveAlone, Holds, TypeOK
<1>9. PublishWindow'
    BY DEF PublishWindow, TypeOK
<1>10. SeenNothing'
    BY DEF SeenNothing
<1>11. GuardedEngineReadsOneTree'
    BY DEF GuardedEngineReadsOneTree, Guards, Holds
<1> QED
    BY <1>1, <1>2, <1>3, <1>4, <1>5, <1>6, <1>7, <1>8, <1>9, <1>10, <1>11

(* A removal is opened on a sibling, whose tree is not the live one.       *)
LEMMA BeginsRemovalInv ==
    ASSUME ~OverlappingImports, IInv, TypeOK', NEW p \in Importers,
           \/ CleanupVisits(p) \/ DropObsolete(p) \/ DiscardStaging(p)
    PROVE  IInv'
<1> USE Names DEF IInv, Goto, CleanupVisits, DropObsolete, DiscardStaging
<1>1. OneImporter'
    BY DEF TypeOK, Procs, OneImporter, Importing, Ended
<1>2. Handles'
    BY SMTT(20) DEF TypeOK, Procs, Importing, Handles, LockPcs, RemovalPcs, NoRemoval,
           Opened, IndexParts, TreeAtOnePath, FreshTrees, Unpublished
<1>3. TreeAtOnePath'
    BY DEF TreeAtOnePath
<1>4. FreshTrees'
    BY DEF TypeOK, Procs, FreshTrees, Unpublished, Published, AsidePcs
<1>5. Written'
    BY DEF TypeOK, Procs, Written, BuiltPcs
<1>6. InPlayWhole'
    BY DEF InPlayWhole, InPlay, MovedAside, TypeOK, Procs, IndexParts
<1>7. LockCurrent'
    BY ZenonT(30) DEF LockCurrent, InPlay, MovedAside, TypeOK, Procs, IndexParts
<1>8. ExclusiveAlone'
    BY DEF ExclusiveAlone, Holds, TypeOK, Procs, IndexParts
<1>9. PublishWindow'
    BY DEF PublishWindow, TypeOK, Procs, IndexParts
<1>10. SeenNothing'
    BY DEF SeenNothing, TypeOK, Procs, IndexParts
<1>11. GuardedEngineReadsOneTree'
    BY DEF GuardedEngineReadsOneTree, Guards, Holds, TypeOK, Procs, IndexParts
<1> QED
    BY <1>1, <1>2, <1>3, <1>4, <1>5, <1>6, <1>7, <1>8, <1>9, <1>10, <1>11

(* A removal that stops leaves a sibling behind.                           *)
LEMMA RemovalStopsInv ==
    ASSUME ~OverlappingImports, IInv, TypeOK', NEW p \in Importers,
           RemovalStops(p)
    PROVE  IInv'
<1> USE Names DEF IInv, Goto, RemovalStops
<1>1. OneImporter'
    BY DEF OneImporter, Importing
<1>2. Handles'
    BY DEF Handles, NoRemoval
<1>3. TreeAtOnePath'
    BY DEF TreeAtOnePath
<1>4. FreshTrees'
    BY DEF FreshTrees, Unpublished
<1>5. Written'
    BY DEF Written
<1>6. InPlayWhole'
    BY DEF InPlayWhole, InPlay, MovedAside
<1>7. LockCurrent'
    BY DEF LockCurrent, InPlay, MovedAside
<1>8. ExclusiveAlone'
    BY DEF ExclusiveAlone, Holds
<1>9. PublishWindow'
    BY DEF PublishWindow
<1>10. SeenNothing'
    BY DEF SeenNothing
<1>11. GuardedEngineReadsOneTree'
    BY DEF GuardedEngineReadsOneTree, Guards, Holds
<1> QED
    BY <1>1, <1>2, <1>3, <1>4, <1>5, <1>6, <1>7, <1>8, <1>9, <1>10, <1>11

(* A removal takes parts only from a tree that is not in play.             *)
LEMMA RemoveEntryInv ==
    ASSUME ~OverlappingImports, IInv, TypeOK', NEW p \in Importers,
           RemoveEntry(p)
    PROVE  IInv'
<1> USE Names DEF IInv, Goto, RemoveEntry
<1>a. pc[p] \in RemovalPcs /\ rm[p].tree # dir[Live]
    BY DEF Handles
<1>b. \A t \in Trees : InPlay(t)' => InPlay(t) /\ t # rm[p].tree
    BY <1>a
    DEF InPlay, MovedAside, OneImporter, Importing, Ended, RemovalPcs,
        TreeAtOnePath, TypeOK, PublishWindow, Trees
<1>c. \A t \in Trees : t # rm[p].tree => parts'[t] = parts[t]
    BY DEF TypeOK, Trees
<1>1. OneImporter'
    BY DEF OneImporter, Importing
<1>2. Handles'
    BY DEF Handles
<1>3. TreeAtOnePath'
    BY DEF TreeAtOnePath
<1>4. FreshTrees'
    BY DEF FreshTrees, Unpublished
<1>5. Written'
    BY DEF Written, BuiltPcs, OneImporter, Importing, Ended, Handles, RemovalPcs
<1>6. InPlayWhole'
    BY <1>b, <1>c DEF InPlayWhole
<1>7. LockCurrent'
    BY <1>b, <1>c DEF LockCurrent, TypeOK, Trees
<1>8. ExclusiveAlone'
    BY DEF ExclusiveAlone, Holds
<1>9. PublishWindow'
    BY DEF PublishWindow
<1>10. SeenNothing'
    BY DEF SeenNothing
<1>11. GuardedEngineReadsOneTree'
    BY DEF GuardedEngineReadsOneTree, Guards, Holds
<1> QED
    BY <1>1, <1>2, <1>3, <1>4, <1>5, <1>6, <1>7, <1>8, <1>9, <1>10, <1>11

(* No other import is in its publish window, so the name removed matters   *)
(* to none.                                                                *)
LEMMA RemoveRootInv ==
    ASSUME ~OverlappingImports, IInv, TypeOK', NEW p \in Importers,
           RemoveRoot(p)
    PROVE  IInv'
<1> USE Names DEF IInv, Goto, RemoveRoot
<1>a. pc[p] \in RemovalPcs /\ dir'[Live] = dir[Live]
    BY DEF Handles, TypeOK
<1>b. \A j \in Importers : pc[j] \notin {"swap", "rollback"}
    BY <1>a DEF OneImporter, Importing, Ended, RemovalPcs
<1>1. OneImporter'
    BY DEF OneImporter, Importing
<1>2. Handles'
    BY DEF Handles, NoRemoval
<1>3. TreeAtOnePath'
    BY DEF TreeAtOnePath
<1>4. FreshTrees'
    BY DEF FreshTrees, Unpublished, TypeOK, Procs, IndexParts
<1>5. Written'
    BY DEF Written
<1>6. InPlayWhole'
    BY DEF Trees, Procs, InPlayWhole, InPlay, MovedAside, Published,
           PublishWindow
<1>7. LockCurrent'
    BY DEF LockCurrent, InPlay, MovedAside
<1>8. ExclusiveAlone'
    BY DEF ExclusiveAlone, Holds
<1>9. PublishWindow'
    BY <1>a, <1>b DEF PublishWindow, TypeOK
<1>10. SeenNothing'
    BY DEF SeenNothing
<1>11. GuardedEngineReadsOneTree'
    BY DEF GuardedEngineReadsOneTree, Guards, Holds
<1> QED
    BY <1>1, <1>2, <1>3, <1>4, <1>5, <1>6, <1>7, <1>8, <1>9, <1>10, <1>11

(* The new staging directory is the first name of the tree.                *)
LEMMA CreateStagingInv ==
    ASSUME ~OverlappingImports, IInv, TypeOK', NEW p \in Importers,
           CreateStaging(p)
    PROVE  IInv'
<1> USE Names DEF IInv, Goto, DropFd, CreateStaging
<1>1. OneImporter'
    BY DEF OneImporter, Importing, Ended
<1>2. Handles'
    BY DEF Handles, LockPcs, RemovalPcs
<1>3. TreeAtOnePath'
    BY DEF TreeAtOnePath, FreshTrees, Unpublished, Published
<1>4. FreshTrees'
    BY DEF FreshTrees, Unpublished, Published, AsidePcs
<1>5. Written'
    BY DEF Written, BuiltPcs
<1>6. InPlayWhole'
    BY DEF InPlayWhole, InPlay, MovedAside
<1>7. LockCurrent'
    BY DEF LockCurrent, InPlay, MovedAside
<1>8. ExclusiveAlone'
    BY DEF ExclusiveAlone, Holds
<1>9. PublishWindow'
    BY DEF PublishWindow
<1>10. SeenNothing'
    BY DEF SeenNothing
<1>11. GuardedEngineReadsOneTree'
    BY DEF GuardedEngineReadsOneTree, Guards, Holds
<1> QED
    BY <1>1, <1>2, <1>3, <1>4, <1>5, <1>6, <1>7, <1>8, <1>9, <1>10, <1>11

(* One more part of a tree nobody else can see.                            *)
LEMMA WritePartInv ==
    ASSUME ~OverlappingImports, IInv, TypeOK', NEW p \in Importers,
           WritePart(p)
    PROVE  IInv'
<1> USE Names DEF IInv, Goto, DropFd, WritePart
<1>1. OneImporter'
    BY DEF OneImporter, Importing, Ended, IndexParts
<1>2. Handles'
    BY DEF Handles, LockPcs, RemovalPcs, IndexParts, NextStage
<1>3. TreeAtOnePath'
    BY DEF TreeAtOnePath, FreshTrees, Unpublished, Published, IndexParts
<1>4. FreshTrees'
    BY DEF FreshTrees, Unpublished, Published, AsidePcs, IndexParts
<1>5. Written'
    BY DEF TypeOK, Written, BuiltPcs, IndexParts, NextStage
<1>6. InPlayWhole'
    BY DEF Trees, InPlayWhole, InPlay, MovedAside, BuiltPcs, IndexParts,
           RemovalPcs, OneImporter, Importing, Ended, TreeAtOnePath, FreshTrees,
           Unpublished, Published, AsidePcs
<1>7. LockCurrent'
    BY DEF LockCurrent, InPlay, MovedAside, RemovalPcs, OneImporter, Importing,
           Ended, FreshTrees, Unpublished, Published, AsidePcs, TreeAtOnePath,
           IndexParts
<1>8. ExclusiveAlone'
    BY DEF ExclusiveAlone, Holds, TypeOK, Procs, IndexParts
<1>9. PublishWindow'
    BY DEF PublishWindow, IndexParts, NextStage
<1>10. SeenNothing'
    BY DEF SeenNothing
<1>11. GuardedEngineReadsOneTree'
    BY DEF GuardedEngineReadsOneTree, Guards, Holds
<1> QED
    BY <1>1, <1>2, <1>3, <1>4, <1>5, <1>6, <1>7, <1>8, <1>9, <1>10, <1>11

(* places.bin is not a part of an index.                                   *)
LEMMA CleanupEndsInv ==
    ASSUME ~OverlappingImports, IInv, TypeOK', NEW p \in Importers,
           CleanupEnds(p)
    PROVE  IInv'
<1> USE Names DEF IInv, Goto, DropFd, CleanupEnds
<1>1. OneImporter'
    BY DEF OneImporter, Importing, Ended
<1>2. Handles'
    BY DEF Handles, LockPcs
<1>3. TreeAtOnePath'
    BY DEF TreeAtOnePath
<1>4. FreshTrees'
    BY DEF FreshTrees, Unpublished, Published, AsidePcs
<1>5. Written'
    BY DEF Trees, Written, BuiltPcs, IndexParts
<1>6. InPlayWhole'
    BY DEF InPlayWhole, InPlay, MovedAside, TypeOK, Procs, IndexParts
<1>7. LockCurrent'
    BY DEF LockCurrent, InPlay, MovedAside, TypeOK
<1>8. ExclusiveAlone'
    BY DEF ExclusiveAlone, Holds
<1>9. PublishWindow'
    BY DEF PublishWindow
<1>10. SeenNothing'
    BY DEF SeenNothing
<1>11. GuardedEngineReadsOneTree'
    BY DEF GuardedEngineReadsOneTree, Guards, Holds
<1> QED
    BY <1>1, <1>2, <1>3, <1>4, <1>5, <1>6, <1>7, <1>8, <1>9, <1>10, <1>11

(* An engine opens the lock file of the live tree.                         *)
LEMMA OpenSharedInv ==
    ASSUME ~OverlappingImports, IInv, TypeOK', NEW p \in Engines,
           OpenShared(p)
    PROVE  IInv'
<1> USE Names DEF IInv, Goto, DropFd, OpenShared, OpenLock
<1>1. OneImporter'
    BY DEF OneImporter, Importing
<1>2. Handles'
    BY DEF Handles
<1>3. TreeAtOnePath'
    BY DEF TreeAtOnePath
<1>4. FreshTrees'
    BY DEF FreshTrees, Unpublished
<1>5. Written'
    BY DEF Written
<1>6. InPlayWhole'
    BY DEF InPlayWhole, InPlay, MovedAside, TypeOK, Procs, IndexParts
<1>7. LockCurrent'
    BY DEF LockCurrent, InPlay, MovedAside, TypeOK
<1>8. ExclusiveAlone'
    BY DEF ExclusiveAlone, Holds, TypeOK
<1>9. PublishWindow'
    BY DEF PublishWindow
<1>10. SeenNothing'
    BY DEF SeenNothing
<1>11. GuardedEngineReadsOneTree'
    BY DEF GuardedEngineReadsOneTree, Guards, Holds, TypeOK
<1> QED
    BY <1>1, <1>2, <1>3, <1>4, <1>5, <1>6, <1>7, <1>8, <1>9, <1>10, <1>11

(* The importer opens the lock file of the live tree.                      *)
LEMMA OpenExclusiveInv ==
    ASSUME ~OverlappingImports, IInv, TypeOK', NEW p \in Importers,
           OpenExclusive(p)
    PROVE  IInv'
<1> USE Names DEF IInv, Goto, DropFd, OpenExclusive, OpenLock
<1>1. OneImporter'
    BY DEF OneImporter, Importing, Ended
<1>2. Handles'
    BY DEF TypeOK, Handles, LockPcs, RemovalPcs
<1>3. TreeAtOnePath'
    BY DEF TreeAtOnePath
<1>4. FreshTrees'
    BY DEF FreshTrees, Unpublished, Published, AsidePcs
<1>5. Written'
    BY DEF Written, BuiltPcs
<1>6. InPlayWhole'
    BY DEF InPlayWhole, InPlay, MovedAside, TypeOK, Procs, IndexParts
<1>7. LockCurrent'
    BY DEF LockCurrent, InPlay, MovedAside, TypeOK
<1>8. ExclusiveAlone'
    BY DEF ExclusiveAlone, Holds, TypeOK
<1>9. PublishWindow'
    BY DEF PublishWindow, TypeOK
<1>10. SeenNothing'
    BY DEF SeenNothing
<1>11. GuardedEngineReadsOneTree'
    BY DEF GuardedEngineReadsOneTree, Guards, Holds
<1> QED
    BY <1>1, <1>2, <1>3, <1>4, <1>5, <1>6, <1>7, <1>8, <1>9, <1>10, <1>11

(* The live tree, locked by this importer, becomes the one it may put      *)
(* back.                                                                   *)
LEMMA MoveAsideInv ==
    ASSUME ~OverlappingImports, IInv, TypeOK', NEW p \in Importers,
           MoveAside(p)
    PROVE  IInv'
<1> USE Names DEF IInv, Goto, DropFd, MoveAside
<1>1. OneImporter'
    BY DEF OneImporter, Importing, Ended
<1>2. Handles'
    BY DEF TypeOK, Handles, LockPcs, RemovalPcs
<1>3. TreeAtOnePath'
    BY DEF TreeAtOnePath, TypeOK
<1>4. FreshTrees'
    BY SMTT(20) DEF TypeOK, FreshTrees, Unpublished, Published, AsidePcs
<1>5. Written'
    BY DEF Written, BuiltPcs
<1>6. InPlayWhole'
    BY DEF TypeOK, Trees, Procs, InPlayWhole, InPlay, MovedAside
<1>7. LockCurrent'
    BY DEF LockCurrent, InPlay, MovedAside, TypeOK
<1>8. ExclusiveAlone'
    BY DEF ExclusiveAlone, Holds
<1>a. /\ pc'[p] = "swap" /\ dir'[Live] = None
      /\ dir'[Obsolete(p)] = dir[Live] /\ fd[p].tree = dir[Live]
    BY DEF TypeOK, Procs, PublishWindow
<1>b. \A i \in Importers \ {p} : ~Importing(i) /\ pc'[i] = pc[i]
    BY DEF TypeOK, Procs, OneImporter, Importing, Ended
<1>9. PublishWindow'
    BY <1>a, <1>b DEF PublishWindow, Importing, Ended
<1>10. SeenNothing'
    BY DEF SeenNothing
<1>11. GuardedEngineReadsOneTree'
    BY DEF GuardedEngineReadsOneTree, Guards, Holds, TypeOK
<1> QED
    BY <1>1, <1>2, <1>3, <1>4, <1>5, <1>6, <1>7, <1>8, <1>9, <1>10, <1>11

(* The tree published is complete and nobody has its lock file open.       *)
LEMMA SwapInv ==
    ASSUME ~OverlappingImports, IInv, TypeOK', NEW p \in Importers,
           Swap(p)
    PROVE  IInv'
<1> USE Names DEF IInv, Goto, DropFd, Swap, CanSwap, LiveReplaceable
<1>1. OneImporter'
    BY DEF OneImporter, Importing, Ended
<1>2. Handles'
    BY DEF Procs, OneImporter, Importing, Ended, Handles, LockPcs, RemovalPcs
<1>3. TreeAtOnePath'
    BY DEF TypeOK, TreeAtOnePath, FreshTrees
<1>4. FreshTrees'
    BY DEF TypeOK, Procs, FreshTrees, Unpublished, Published, AsidePcs
<1>5. Written'
    BY DEF Written, BuiltPcs
<1>6. InPlayWhole'
    BY DEF TypeOK, InPlayWhole, InPlay, MovedAside, Written, BuiltPcs
<1>7. LockCurrent'
    BY DEF TypeOK, LockCurrent, InPlay, MovedAside, Handles, RemovalPcs,
           FreshTrees, Unpublished
<1>8. ExclusiveAlone'
    BY DEF ExclusiveAlone, Holds
<1>9. PublishWindow'
    BY DEF TypeOK, Procs, PublishWindow, OneImporter, Importing, Ended
<1>10. SeenNothing'
    BY DEF SeenNothing
<1>11. GuardedEngineReadsOneTree'
    BY DEF TypeOK, Procs, GuardedEngineReadsOneTree, Guards, FreshTrees,
           Unpublished
<1> QED
    BY <1>1, <1>2, <1>3, <1>4, <1>5, <1>6, <1>7, <1>8, <1>9, <1>10, <1>11

(* The tree put back is the one this importer still has locked.            *)
LEMMA RollbackInv ==
    ASSUME ~OverlappingImports, IInv, TypeOK', NEW p \in Importers,
           Rollback(p)
    PROVE  IInv'
<1> USE Names DEF IInv, Goto, DropFd, Rollback, CanRollback, LiveReplaceable
<1>a. /\ MovedAside(p) /\ InPlay(dir[Obsolete(p)])
      /\ dir[Obsolete(p)] \in Trees
    BY DEF MovedAside, InPlay, TypeOK
<1>b. \A t \in Trees : InPlay(t)' => t = dir[Obsolete(p)]
    BY <1>a DEF InPlay, MovedAside, TypeOK, Procs, OneImporter, Importing, Ended
<1>1. OneImporter'
    BY DEF OneImporter, Importing, Ended
<1>2. Handles'
    BY DEF TypeOK, Procs, OneImporter, Importing, Ended, Handles, RemovalPcs,
           NoFd
<1>3. TreeAtOnePath'
    BY DEF TreeAtOnePath, TypeOK
<1>4. FreshTrees'
    BY DEF TypeOK, Procs, FreshTrees, Unpublished, Published, NoFd
<1>5. Written'
    BY DEF Written, BuiltPcs
<1>6. InPlayWhole'
    BY <1>a, <1>b DEF InPlayWhole
<1>7. LockCurrent'
    BY DEF TypeOK, LockCurrent, InPlay, MovedAside, NoFd
<1>8. ExclusiveAlone'
    BY DEF ExclusiveAlone, Holds
<1>9. PublishWindow'
    BY DEF TypeOK, Procs, PublishWindow, OneImporter, Importing, Ended
<1>10. SeenNothing'
    BY DEF SeenNothing
<1>11. GuardedEngineReadsOneTree'
    BY DEF TypeOK, Procs, GuardedEngineReadsOneTree, Guards, Holds, NoFd,
           SeenNothing, FreshTrees, Unpublished, PublishWindow, LockCurrent,
           InPlay, MovedAside, ExclusiveAlone
<1> QED
    BY <1>1, <1>2, <1>3, <1>4, <1>5, <1>6, <1>7, <1>8, <1>9, <1>10, <1>11

(* The shared lock is granted only when no importer holds the inode.       *)
LEMMA LockSharedInv ==
    ASSUME ~OverlappingImports, IInv, TypeOK', NEW p \in Engines,
           LockShared(p)
    PROVE  IInv'
<1> USE Names DEF IInv, Goto, DropFd, LockShared
<1>1. OneImporter'
    BY DEF OneImporter, Importing
<1>2. Handles'
    BY DEF Handles
<1>3. TreeAtOnePath'
    BY DEF TreeAtOnePath
<1>4. FreshTrees'
    BY DEF FreshTrees, Unpublished
<1>5. Written'
    BY DEF Written
<1>6. InPlayWhole'
    BY DEF InPlayWhole, InPlay, MovedAside
<1>7. LockCurrent'
    BY DEF LockCurrent, InPlay, MovedAside
<1>8. ExclusiveAlone'
    BY DEF ExclusiveAlone, Holds, HeldBy
<1>9. PublishWindow'
    BY DEF PublishWindow
<1>10. SeenNothing'
    BY DEF SeenNothing
<1>11. GuardedEngineReadsOneTree'
    BY DEF GuardedEngineReadsOneTree, Guards, Holds, NothingSeen, SeenNothing
<1> QED
    BY <1>1, <1>2, <1>3, <1>4, <1>5, <1>6, <1>7, <1>8, <1>9, <1>10, <1>11

(* What the live path names while the engine guards it is what it opens.   *)
LEMMA OpenPartInv ==
    ASSUME ~OverlappingImports, IInv, TypeOK', NEW p \in Engines,
           OpenPart(p)
    PROVE  IInv'
<1> USE Names DEF IInv, Goto, DropFd, OpenPart
<1>1. OneImporter'
    BY DEF OneImporter, Importing
<1>2. Handles'
    BY DEF Handles
<1>3. TreeAtOnePath'
    BY DEF TreeAtOnePath
<1>4. FreshTrees'
    BY DEF FreshTrees, Unpublished
<1>5. Written'
    BY DEF Written
<1>6. InPlayWhole'
    BY DEF InPlayWhole, InPlay, MovedAside
<1>7. LockCurrent'
    BY DEF LockCurrent, InPlay, MovedAside
<1>8. ExclusiveAlone'
    BY DEF ExclusiveAlone, Holds, TypeOK, Procs, IndexParts
<1>9. PublishWindow'
    BY DEF PublishWindow
<1>10. SeenNothing'
    BY DEF SeenNothing, IndexParts, NextPart
<1>11. GuardedEngineReadsOneTree'
    BY DEF GuardedEngineReadsOneTree, Guards, Holds, TypeOK, Procs, IndexParts
<1> QED
    BY <1>1, <1>2, <1>3, <1>4, <1>5, <1>6, <1>7, <1>8, <1>9, <1>10, <1>11

(* A closed engine guards nothing.                                         *)
LEMMA EngineClosesInv ==
    ASSUME ~OverlappingImports, IInv, TypeOK', NEW p \in Engines,
           EngineCloses(p)
    PROVE  IInv'
<1> USE Names DEF IInv, Goto, DropFd, EngineCloses
<1>1. OneImporter'
    BY DEF OneImporter, Importing
<1>2. Handles'
    BY DEF Handles
<1>3. TreeAtOnePath'
    BY DEF TreeAtOnePath
<1>4. FreshTrees'
    BY DEF Procs, FreshTrees, Unpublished, NoFd
<1>5. Written'
    BY DEF Written
<1>6. InPlayWhole'
    BY DEF InPlayWhole, InPlay, MovedAside
<1>7. LockCurrent'
    BY DEF LockCurrent, InPlay, MovedAside, NoFd
<1>8. ExclusiveAlone'
    BY DEF ExclusiveAlone, Holds, TypeOK
<1>9. PublishWindow'
    BY DEF PublishWindow
<1>10. SeenNothing'
    BY DEF SeenNothing, TypeOK
<1>11. GuardedEngineReadsOneTree'
    BY DEF GuardedEngineReadsOneTree, Guards, Holds, TypeOK
<1> QED
    BY <1>1, <1>2, <1>3, <1>4, <1>5, <1>6, <1>7, <1>8, <1>9, <1>10, <1>11

(* The invariant speaks of the variables of DataDir and of nothing else.  *)
LEMMA StutterInv == ASSUME IInv, UNCHANGED vars PROVE IInv'
<1>1. TypeOK'
    BY DEF IInv, vars, TypeOK
<1>2. OneImporter'
    BY DEF IInv, vars, OneImporter, Importing
<1>3. Handles'
    BY DEF IInv, vars, Handles
<1>4. TreeAtOnePath'
    BY DEF IInv, vars, TreeAtOnePath
<1>5. FreshTrees'
    BY DEF IInv, vars, FreshTrees, Unpublished
<1>6. Written'
    BY DEF IInv, vars, Written
<1>7. InPlayWhole'
    BY DEF IInv, vars, InPlayWhole, InPlay, MovedAside
<1>8. LockCurrent'
    BY DEF IInv, vars, LockCurrent, InPlay, MovedAside
<1>9. ExclusiveAlone'
    BY DEF IInv, vars, ExclusiveAlone, Holds
<1>10. PublishWindow'
    BY DEF IInv, vars, PublishWindow
<1>11. SeenNothing'
    BY DEF IInv, vars, SeenNothing
<1>12. GuardedEngineReadsOneTree'
    BY DEF IInv, vars, GuardedEngineReadsOneTree, Guards, Holds
<1> QED
    BY <1>1, <1>2, <1>3, <1>4, <1>5, <1>6, <1>7, <1>8, <1>9, <1>10, <1>11,
       <1>12
    DEF IInv

(* Every step of sequential imports keeps the invariant.                   *)
LEMMA NextInv == ~OverlappingImports /\ IInv /\ [Next]_vars => IInv'
<1> SUFFICES ASSUME ~OverlappingImports, IInv, [Next]_vars PROVE IInv'
    OBVIOUS
<1>1. TypeOK'
    BY TypeStep DEF IInv
<1>2. ASSUME NEW i \in Importers,
             ImportBegins(i) \/ ImporterStep(i) \/ ImportCrashes(i)
      PROVE  IInv'
    <2>1. CASE Removal(i)
        BY <1>1, <2>1, RemoveEntryInv, RemoveRootInv, RemovalStopsInv
        DEF Removal
    <2>2. CASE \/ ImportRejected(i) \/ BuildFails(i) \/ ImportFails(i)
        <3>1. GivesUp(i)
            BY <2>2 DEF ImportRejected, BuildFails, ImportFails, GivesUp, Goto,
                        IInv, Handles, RemovalPcs, IndexParts
        <3> QED
            BY <1>1, <3>1, GivesUpInv
    <2>3. CASE \/ TryLockRefused(i) \/ MoveAsideFails(i) \/ ParentFails(i)
               \/ RollbackFails(i) \/ ImportSucceeds(i)
        <3>1. Unlocks(i)
            BY <2>3
            DEF TryLockRefused, MoveAsideFails, ParentFails, RollbackFails,
                        ImportSucceeds, Unlocks, Goto, DropFd, IInv, Handles, RemovalPcs
        <3> QED
            BY <1>1, <3>1, UnlocksInv
    <2>4. CASE ImportBegins(i) \/ ImportCrashes(i)
        BY <1>1, <2>4, ImportBeginsInv, ImportCrashesInv
    <2>5. CASE CleanupVisits(i) \/ DropObsolete(i) \/ DiscardStaging(i)
        BY <1>1, <2>5, BeginsRemovalInv
    <2>6. CASE CleanupEnds(i) \/ CreateStaging(i) \/ WritePart(i)
        BY <1>1, <2>6, CleanupEndsInv, CreateStagingInv, WritePartInv
    <2>7. CASE \/ CheckTarget(i) \/ OpenExclusive(i) \/ TryLock(i) \/ Recheck(i)
               \/ SwapFails(i)
        BY <1>1, <2>7, CheckTargetInv, OpenExclusiveInv, TryLockInv, RecheckInv,
           SwapFailsInv
    <2>8. CASE MoveAside(i) \/ Swap(i) \/ Rollback(i)
        BY <1>1, <2>8, MoveAsideInv, SwapInv, RollbackInv
    <2> QED
        BY <1>2, <2>1, <2>2, <2>3, <2>4, <2>5, <2>6, <2>7, <2>8
        DEF ImporterStep, Publish
<1>3. ASSUME NEW e \in Engines, OpenShared(e) \/ EngineStep(e) \/ EngineCloses(e)
      PROVE  IInv'
    BY <1>1, <1>3, OpenSharedInv, LockSharedInv, OpenPartInv, EngineClosesInv
    DEF EngineStep
<1> QED
    BY <1>2, <1>3, StutterInv DEF Next

(* The types hold with and without overlapping imports, whatever fails.    *)
THEOREM TypeCorrect == Spec => []TypeOK
<1>1. Init => TypeOK
    BY InitInv DEF IInv
<1> QED
    BY <1>1, TypeStep, PTL DEF Spec

(* With one import at a time the invariant holds for ever: any number of   *)
(* imports one after the other, of engines, of crashes and of failures.    *)
THEOREM SequentialInv == ~OverlappingImports => (Spec => []IInv)
<1> SUFFICES ASSUME ~OverlappingImports PROVE Spec => []IInv
    OBVIOUS
<1>1. Init => IInv
    BY InitInv
<1>2. IInv /\ [Next]_vars => IInv'
    BY NextInv
<1> QED
    BY <1>1, <1>2, PTL DEF Spec

(* No import, failed, killed or successful, leaves a torn index at the     *)
(* live path, as the README promises of finish_import.                     *)
THEOREM LiveIsWhole == ~OverlappingImports => (Spec => []LiveWhole)
<1> SUFFICES ASSUME ~OverlappingImports PROVE Spec => []LiveWhole
    OBVIOUS
<1>1. IInv => LiveWhole
    BY Names DEF IInv, InPlayWhole, InPlay, LiveWhole, TypeOK
<1> QED
    BY <1>1, SequentialInv, PTL

(* An engine whose shared flock is on the live tree has opened every part  *)
(* so far from that tree.                                                  *)
THEOREM GuardsReadOneTree == ~OverlappingImports => (Spec => []GuardedEngineReadsOneTree)
<1> SUFFICES ASSUME ~OverlappingImports PROVE Spec => []GuardedEngineReadsOneTree
    OBVIOUS
<1>1. IInv => GuardedEngineReadsOneTree
    BY DEF IInv
<1> QED
    BY <1>1, SequentialInv, PTL
-----------------------------------------------------------------------------
(* Imports one at a time implement LiveIndex.                              *)

Step == Promise!Next \/ UNCHANGED Promise!vars

-----------------------------------------------------------------------------

(* While importer p runs, or when none runs, only p may have moved a tree  *)
(* aside.                                                                  *)
LEMMA RetiredOf ==
    ASSUME NEW p \in Importers, \A j \in Importers \ {p} : ~MovedAside(j)
    PROVE  Retired = IF MovedAside(p) THEN {dir[Obsolete(p)]} ELSE {}
    BY DEF Retired

(* The same of the next state.                                             *)
LEMMA RetiredNext ==
    ASSUME NEW p \in Importers, \A j \in Importers \ {p} : ~MovedAside(j)'
    PROVE  Retired' = IF MovedAside(p)' THEN {dir'[Obsolete(p)]} ELSE {}
    BY DEF Retired

(* A step of importer p leaves the other importers where they are, and     *)
(* they are not at work.                                                   *)
LEMMA OthersIdle ==
    ASSUME IInv, NEW p \in Importers, Importing(p),
           \A j \in Importers \ {p} : pc'[j] = pc[j]
    PROVE  \A j \in Importers \ {p} : ~MovedAside(j) /\ ~MovedAside(j)'
    BY DEF IInv, OneImporter, Importing, Ended, MovedAside

(* What an importer does to parts other than index parts, to trees that    *)
(* are neither live nor retired, and to its own program counter does not   *)
(* show.                                                                   *)
LEMMA ImporterStutters ==
    ASSUME NEW p \in Importers,
           dir'[Live] = dir[Live],
           MovedAside(p) => dir'[Obsolete(p)] = dir[Obsolete(p)],
           WholeTrees' = WholeTrees,
           \A q \in Engines : pc'[q] = pc[q] /\ fd'[q] = fd[q],
           \A j \in Importers \ {p} : ~MovedAside(j) /\ ~MovedAside(j)',
           MovedAside(p)' = MovedAside(p)
    PROVE  UNCHANGED Promise!vars
<1>1. Retired' = Retired
    BY RetiredOf, RetiredNext
<1>2. \A e \in Engines : Guards(e)' = Guards(e)
    BY DEF Guards, Holds
<1> QED
    BY <1>1, <1>2 DEF Promise!vars

(* A tree that no path can bring back loses a part.                        *)
LEMMA RemoveEntryStep ==
    ASSUME IInv, NEW p \in Importers, RemoveEntry(p)
    PROVE  Step
<1> DEFINE t == rm[p].tree
<1>1. PICK x \in rm[p].left : parts' = [parts EXCEPT ![t] = @ \ {x}]
    BY DEF RemoveEntry
<1>2. /\ t \in Trees /\ t # dir[Live]
      /\ pc[p] \in RemovalPcs /\ ~MovedAside(p) /\ Importing(p)
    BY DEF RemoveEntry, IInv, TypeOK, Handles, RemovalPcs, MovedAside, Importing,
           Ended
<1>3. Retired = {} /\ Retired' = Retired
    BY <1>2, OthersIdle, RetiredOf DEF RemoveEntry, Retired, MovedAside
<1>4. WholeTrees' = WholeTrees \/ WholeTrees' = WholeTrees \ {t}
    BY <1>1, <1>2 DEF WholeTrees, IInv, TypeOK
<1>5. {e \in Engines : Guards(e)}' = {e \in Engines : Guards(e)}
    BY DEF RemoveEntry, Guards, Holds
<1>6. CASE WholeTrees' = WholeTrees
    BY <1>3, <1>5, <1>6 DEF RemoveEntry, Step, Promise!vars
<1>7. CASE WholeTrees' = WholeTrees \ {t}
    <2>1. Promise!Scrap(t)
        BY <1>2, <1>3, <1>5, <1>7 DEF RemoveEntry, Promise!Scrap
    <2> QED
        BY <1>2, <2>1 DEF Step, Promise!Next
<1> QED
    BY <1>4, <1>6, <1>7

(* The build of a staging tree: it becomes whole before it is published.   *)
LEMMA WritePartStep ==
    ASSUME IInv, NEW p \in Importers, WritePart(p)
    PROVE  Step
<1>1. /\ p \in Trees /\ p # dir[Live] /\ Importing(p)
      /\ ~MovedAside(p) /\ ~MovedAside(p)'
    <2>1. pc[p] \in IndexParts
        BY DEF WritePart
    <2>2. pc'[p] \in IndexParts \cup {"check"}
        BY <2>1 DEF WritePart, NextStage, IndexParts, IInv, TypeOK, Procs
    <2>3. p # dir[Live]
        BY <2>1, Names DEF IInv, FreshTrees, Unpublished, Published, IndexParts
    <2> QED
        BY <2>1, <2>2, <2>3 DEF Importing, Ended, MovedAside, IndexParts, Trees
<1>2. \A j \in Importers \ {p} : ~MovedAside(j) /\ ~MovedAside(j)'
    <2>1. \A j \in Importers \ {p} : pc'[j] = pc[j]
        BY DEF WritePart, IInv, TypeOK, Procs
    <2> QED
        BY <1>1, <2>1, OthersIdle
<1>3. Retired = {} /\ Retired' = {}
    <2>1. \A j \in Importers : ~MovedAside(j) /\ ~MovedAside(j)'
        BY <1>1, <1>2
    <2> HIDE DEF MovedAside
    <2> QED
        BY <2>1 DEF Retired
<1>4. {e \in Engines : Guards(e)}' = {e \in Engines : Guards(e)}
    BY Names DEF WritePart, Guards, Holds, IInv, TypeOK
<1>5. dir'[Live] = dir[Live]
    BY Names DEF WritePart, IInv, TypeOK
<1>6. WholeTrees' = WholeTrees \/ WholeTrees' = WholeTrees \cup {p}
    BY <1>1 DEF WritePart, WholeTrees, IInv, TypeOK
<1>7. CASE WholeTrees' = WholeTrees
    BY <1>3, <1>4, <1>5, <1>7 DEF Step, Promise!vars
<1>8. CASE WholeTrees' = WholeTrees \cup {p}
    <2>1. Promise!Build(p)
        BY <1>1, <1>3, <1>4, <1>5, <1>8 DEF Promise!Build
    <2> QED
        BY <1>1, <2>1 DEF Step, Promise!Next
<1> QED
    BY <1>6, <1>7, <1>8

(* The steps of an importer that LiveIndex does not see: what they change  *)
(* is neither live nor retired.                                            *)
LEMMA HiddenImporterStep ==
    ASSUME IInv, NEW p \in Importers,
           \/ RemoveRoot(p) \/ RemovalStops(p) \/ CleanupVisits(p)
           \/ CleanupEnds(p) \/ GivesUp(p) \/ CreateStaging(p)
           \/ CheckTarget(p) \/ OpenExclusive(p) \/ TryLock(p) \/ Recheck(p)
           \/ SwapFails(p) \/ DropObsolete(p) \/ DiscardStaging(p)
    PROVE  Step
<1> USE DEF Goto
<1>1. Importing(p) /\ \A q \in Procs \ {p} : pc'[q] = pc[q] /\ fd'[q] = fd[q]
    <2>1. CASE RemoveRoot(p) \/ RemovalStops(p) \/ CleanupVisits(p)
        BY <2>1 DEF RemoveRoot, RemovalStops, CleanupVisits, IInv, Handles,
                    RemovalPcs, Importing, Ended
    <2>2. CASE CleanupEnds(p) \/ GivesUp(p) \/ CreateStaging(p) \/ CheckTarget(p)
        BY <2>2 DEF CleanupEnds, GivesUp, CreateStaging, CheckTarget, IInv,
                    TypeOK, IndexParts, Importing, Ended
    <2>3. CASE \/ OpenExclusive(p) \/ TryLock(p) \/ Recheck(p) \/ SwapFails(p)
               \/ DropObsolete(p) \/ DiscardStaging(p)
        BY <2>3 DEF OpenExclusive, OpenLock, TryLock, Recheck, SwapFails,
                    DropObsolete, DiscardStaging, IInv, TypeOK, Importing, Ended
    <2> QED
        BY <2>1, <2>2, <2>3
<1>2. \A q \in Engines : q \in Procs \ {p}
    BY DEF Procs
<1>3. \A j \in Importers \ {p} : ~MovedAside(j) /\ ~MovedAside(j)'
    BY <1>1, OthersIdle DEF Procs
<1>4. pc[p] \notin {"swap", "rollback"} \/ SwapFails(p)
    BY DEF RemoveRoot, RemovalStops, CleanupVisits, CleanupEnds, GivesUp,
           CreateStaging, CheckTarget, OpenExclusive, TryLock, Recheck,
           DropObsolete, DiscardStaging, IInv, Handles, RemovalPcs, IndexParts
<1>5. dir'[Live] = dir[Live]
    <2>1. CASE RemoveRoot(p)
        BY <2>1, Names DEF RemoveRoot, IInv, TypeOK, Handles
    <2>2. CASE CreateStaging(p)
        BY <2>2, Names DEF CreateStaging, IInv, TypeOK
    <2> QED
        BY <2>1, <2>2
        DEF RemovalStops, CleanupVisits, CleanupEnds, GivesUp, CheckTarget,
            OpenExclusive, TryLock, Recheck, SwapFails, DropObsolete,
            DiscardStaging
<1>6. WholeTrees' = WholeTrees
    <2>1. CASE CleanupEnds(p)
        BY <2>1 DEF CleanupEnds, WholeTrees, IndexParts, IInv, TypeOK
    <2>2. CASE OpenExclusive(p)
        BY <2>2 DEF OpenExclusive, OpenLock, WholeTrees, IndexParts, IInv, TypeOK
    <2> QED
        BY <2>1, <2>2
        DEF WholeTrees, RemoveRoot, RemovalStops, CleanupVisits, GivesUp,
            CreateStaging, CheckTarget, TryLock, Recheck, SwapFails,
            DropObsolete, DiscardStaging
<1>7. MovedAside(p)' = MovedAside(p)
    <2>1. CASE SwapFails(p)
        BY <2>1 DEF SwapFails, MovedAside, IInv, TypeOK, Procs
    <2>2. CASE Recheck(p)
        BY <2>2 DEF Recheck, MovedAside, IInv, TypeOK, FreshTrees, AsidePcs, Procs
    <2>3. CASE RemoveRoot(p) \/ RemovalStops(p) \/ CleanupVisits(p)
        BY <2>3 DEF RemoveRoot, RemovalStops, CleanupVisits, MovedAside, IInv,
                    Handles, RemovalPcs
    <2>4. CASE CleanupEnds(p) \/ GivesUp(p) \/ CreateStaging(p) \/ CheckTarget(p)
        BY <2>4 DEF CleanupEnds, GivesUp, CreateStaging, CheckTarget, MovedAside,
                    IInv, TypeOK, IndexParts, Procs
    <2>5. CASE OpenExclusive(p) \/ TryLock(p) \/ DropObsolete(p) \/ DiscardStaging(p)
        BY <2>5 DEF OpenExclusive, TryLock, DropObsolete, DiscardStaging,
                    MovedAside, IInv, TypeOK, Procs
    <2> QED
        BY <2>1, <2>2, <2>3, <2>4, <2>5
<1>8. MovedAside(p) => dir'[Obsolete(p)] = dir[Obsolete(p)]
    BY <1>4 DEF MovedAside, SwapFails
<1> QED
    BY <1>1, <1>2, <1>3, <1>5, <1>6, <1>7, <1>8, ImporterStutters DEF Step

(* An import begins only when no other runs, with nothing moved aside.     *)
LEMMA ImportBeginsStep ==
    ASSUME ~OverlappingImports, IInv, NEW p \in Importers, ImportBegins(p)
    PROVE  Step
<1>1. /\ \A q \in Procs \ {p} : pc'[q] = pc[q]
      /\ pc[p] = "idle" /\ pc'[p] \in {"cleanup", "extract"}
    BY DEF ImportBegins, Goto, IInv, TypeOK, Procs
<1>2. \A j \in Importers : ~MovedAside(j) /\ ~MovedAside(j)'
    BY <1>1 DEF ImportBegins, MovedAside, Importing, Ended, Procs
<1>3. \A q \in Engines : pc'[q] = pc[q] /\ fd'[q] = fd[q]
    BY <1>1 DEF Procs, ImportBegins
<1>4. dir' = dir /\ WholeTrees' = WholeTrees
    BY DEF ImportBegins, WholeTrees
<1>5. MovedAside(p)' = MovedAside(p)
    BY <1>1, <1>4 DEF MovedAside
<1> QED
    BY <1>2, <1>3, <1>4, <1>5, ImporterStutters DEF Step

(* Giving up the lock, or dying, forgets a tree that was moved aside.      *)
LEMMA UnlocksStep ==
    ASSUME IInv, NEW p \in Importers, Unlocks(p) \/ ImportCrashes(p)
    PROVE  Step
<1>1. /\ Importing(p) /\ \A q \in Procs \ {p} : pc'[q] = pc[q] /\ fd'[q] = fd[q]
      /\ pc'[p] \in {"done", "discard", "crashed"}
    <2>1. CASE Unlocks(p)
        BY <2>1 DEF Unlocks, IInv, TypeOK, Procs, Importing, Ended
    <2>2. CASE ImportCrashes(p)
        BY <2>2 DEF ImportCrashes, DropFd, IInv, TypeOK, Procs
    <2> QED
        BY <2>1, <2>2
<1>2. \A j \in Importers \ {p} : ~MovedAside(j)'
    BY <1>1, OthersIdle DEF Procs
<1>3. Retired' = {}
    BY <1>1, <1>2 DEF Retired, MovedAside
<1>4. \A q \in Engines : pc'[q] = pc[q] /\ fd'[q] = fd[q]
    BY <1>1 DEF Procs
<1>5. dir' = dir /\ WholeTrees' = WholeTrees
    BY DEF Unlocks, ImportCrashes, WholeTrees
<1>6. Promise!Forget
    BY <1>3, <1>4, <1>5 DEF Promise!Forget, Guards, Holds
<1> QED
    BY <1>6 DEF Step, Promise!Next

(* The first rename: the exclusive flock was got, so no engine guards the  *)
(* tree that is moved aside.                                               *)
LEMMA MoveAsideUnguarded ==
    ASSUME IInv, NEW p \in Importers, MoveAside(p), NEW e \in Engines
    PROVE  ~Guards(e)
<1>1. /\ Holds(p) /\ fd[p].tree = dir[Live] /\ dir[Live] # None
      /\ InPlay(dir[Live])
    BY DEF MoveAside, Goto, IInv, PublishWindow, Holds, NoFd, InPlay
<1> SUFFICES ASSUME Guards(e) PROVE FALSE
    OBVIOUS
<1>2. Holds(e) /\ fd[e].tree = dir[Live]
    BY DEF Guards
<1>3. fd[e] = fd[p]
    BY <1>1, <1>2 DEF IInv, TypeOK, LockCurrent, Procs
<1> QED
    BY <1>1, <1>2, <1>3 DEF IInv, ExclusiveAlone, Procs

(* The first rename retires the live tree.                                 *)
LEMMA MoveAsideStep ==
    ASSUME IInv, NEW p \in Importers, MoveAside(p)
    PROVE  Step
<1>1. /\ dir[Live] # None /\ dir'[Live] = None /\ dir'[Obsolete(p)] = dir[Live]
      /\ pc'[p] = "swap" /\ Importing(p)
      /\ \A q \in Procs \ {p} : pc'[q] = pc[q]
    BY Names DEF MoveAside, Goto, IInv, TypeOK, Importing, Ended, Procs
<1>2. Retired' = {dir[Live]}
    BY <1>1, OthersIdle, RetiredNext DEF MovedAside, Procs
<1>3. {e \in Engines : Guards(e)} = {} /\ {e \in Engines : Guards(e)}' = {}
    BY <1>1, MoveAsideUnguarded DEF Guards
<1>4. Promise!Retire
    BY <1>1, <1>2, <1>3 DEF Promise!Retire, MoveAside, WholeTrees
<1> QED
    BY <1>4 DEF Step, Promise!Next

(* The second rename, of either kind, puts a tree at the empty live path.  *)
(* No engine can have the lock of that tree: of a new tree nobody has      *)
(* opened the lock file, and of the retired one the importer holds it.     *)
LEMMA SwapStep ==
    ASSUME IInv, NEW p \in Importers, Swap(p)
    PROVE  Step
<1>1. /\ dir[Live] = None /\ dir'[Live] = p /\ p \in Trees
      /\ pc[p] = "swap" /\ pc'[p] = "dropobs" /\ Importing(p)
      /\ \A q \in Procs \ {p} : pc'[q] = pc[q]
    BY Names DEF Swap, Goto, IInv, TypeOK, PublishWindow, Importing, Ended,
       Procs, Trees
<1>2. Retired' = {}
    BY <1>1, OthersIdle DEF Retired, MovedAside, Procs
<1>3. \A q \in Procs : fd[q].tree # p
    BY <1>1, Names DEF IInv, FreshTrees, Unpublished, Swap, CanSwap, Published
<1>4. {e \in Engines : Guards(e)} = {} /\ {e \in Engines : Guards(e)}' = {}
    BY <1>1, <1>3 DEF Guards, Swap, Procs
<1>5. p \in WholeTrees
    BY <1>1 DEF WholeTrees, IInv, Written, BuiltPcs
<1>6. Promise!Install(p)
    BY <1>1, <1>2, <1>4, <1>5 DEF Promise!Install, Swap, WholeTrees
<1> QED
    BY <1>1, <1>6 DEF Step, Promise!Next

(* The rollback gives the retired tree back.                               *)
LEMMA RollbackStep ==
    ASSUME IInv, NEW p \in Importers, Rollback(p)
    PROVE  Step
<1> DEFINE t == dir[Obsolete(p)]
<1>1. /\ dir[Live] = None /\ dir'[Live] = t /\ t \in Trees
      /\ MovedAside(p) /\ Importing(p)
      /\ pc[p] = "rollback" /\ pc'[p] = "discard"
      /\ \A q \in Procs \ {p} : pc'[q] = pc[q] /\ fd'[q] = fd[q]
    <2>1. /\ pc[p] = "rollback" /\ pc'[p] = "discard"
          /\ \A q \in Procs \ {p} : pc'[q] = pc[q] /\ fd'[q] = fd[q]
        BY DEF Rollback, Goto, DropFd, IInv, TypeOK, Procs
    <2>2. dir[Live] = None /\ dir'[Live] = t /\ t \in Trees
        BY <2>1, Names DEF Rollback, CanRollback, IInv, TypeOK, PublishWindow
    <2> QED
        BY <2>1, <2>2 DEF Rollback, CanRollback, Importing, Ended, MovedAside
<1>2. Retired = {t} /\ Retired' = {}
    BY <1>1, OthersIdle, RetiredOf DEF Retired, MovedAside, Procs
<1>3. Holds(p) /\ fd[p].tree = t /\ InPlay(t)
    <2>1. fd[p].tree = t /\ t # None
        BY <1>1 DEF IInv, PublishWindow, Rollback, CanRollback
    <2> QED
        BY <1>1, <2>1 DEF Holds, NoFd, InPlay
<1>4. ASSUME NEW e \in Engines, Holds(e), fd[e].tree = t PROVE FALSE
    <2>1. fd[e] = fd[p]
        BY <1>1, <1>3, <1>4 DEF IInv, TypeOK, LockCurrent, Procs, Trees
    <2> QED
        BY <1>3, <1>4, <2>1 DEF IInv, ExclusiveAlone, Procs
<1>5. {e \in Engines : Guards(e)} = {} /\ {e \in Engines : Guards(e)}' = {}
    BY <1>1, <1>4 DEF Guards, Holds, Procs
<1>6. Promise!Restore
    BY <1>1, <1>2, <1>5 DEF Promise!Restore, Rollback, WholeTrees
<1> QED
    BY <1>6 DEF Step, Promise!Next

(* An engine pins the live tree when it gets the flock of its lock file,   *)
(* and unpins it when it closes the file.                                  *)
LEMMA EngineRefines ==
    ASSUME IInv, NEW p \in Engines,
           OpenShared(p) \/ EngineStep(p) \/ EngineCloses(p)
    PROVE  Step
<1>1. /\ dir' = dir
      /\ \A q \in Procs \ {p} : pc'[q] = pc[q] /\ fd'[q] = fd[q]
    BY DEF OpenShared, OpenLock, EngineStep, LockShared, OpenPart, EngineCloses,
           Goto, DropFd, IInv, TypeOK
<1>2. Retired' = Retired
    BY <1>1 DEF Retired, MovedAside, Procs
<1>3. WholeTrees' = WholeTrees
    <2>1. CASE OpenShared(p)
        <3>1. \A t \in Trees :
                  IndexParts \subseteq parts'[t] <=> IndexParts \subseteq parts[t]
            BY <2>1 DEF OpenShared, OpenLock, IInv, TypeOK, IndexParts
        <3> QED
            BY <3>1 DEF WholeTrees
    <2>2. CASE EngineStep(p) \/ EngineCloses(p)
        <3>1. parts' = parts
            BY <2>2 DEF EngineStep, LockShared, OpenPart, EngineCloses
        <3> QED
            BY <3>1 DEF WholeTrees
    <2> QED
        BY <2>1, <2>2
<1>4. \A e \in Engines \ {p} : Guards(e)' = Guards(e)
    BY <1>1 DEF Guards, Holds, Procs
<1> DEFINE pinned == {e \in Engines : Guards(e)}
<1>5. CASE Guards(p)' = Guards(p)
    <2>1. pinned' = pinned
        BY <1>4, <1>5
    <2> QED
        BY <1>1, <1>2, <1>3, <2>1 DEF Step, Promise!vars
<1>6. CASE Guards(p)' /\ ~Guards(p)
    <2>1. dir[Live] # None /\ pinned' = pinned \cup {p}
        BY <1>1, <1>4, <1>6 DEF Guards
    <2>2. Promise!Pin(p)
        BY <1>1, <1>2, <1>3, <2>1 DEF Promise!Pin
    <2> QED
        BY <2>2 DEF Step, Promise!Next
<1>7. CASE ~Guards(p)' /\ Guards(p)
    <2>1. pinned' = pinned \ {p}
        BY <1>4, <1>7
    <2>2. Promise!Unpin(p)
        BY <1>1, <1>2, <1>3, <2>1 DEF Promise!Unpin
    <2> QED
        BY <2>2 DEF Step, Promise!Next
<1> QED
    BY <1>5, <1>6, <1>7 DEF Guards, Holds

(* Every step of sequential imports refines LiveIndex.                     *)
LEMMA NextRefines ==
    ASSUME ~OverlappingImports, IInv, [Next]_vars
    PROVE  Step
<1>1. ASSUME NEW i \in Importers,
             ImportBegins(i) \/ ImporterStep(i) \/ ImportCrashes(i)
      PROVE  Step
    <2>1. CASE \/ ImportRejected(i) \/ BuildFails(i) \/ ImportFails(i)
        <3>1. GivesUp(i)
            BY <2>1 DEF ImportRejected, BuildFails, ImportFails, GivesUp, Goto,
                        IInv, Handles, RemovalPcs, IndexParts
        <3> QED
            BY <3>1, HiddenImporterStep
    <2>2. CASE \/ TryLockRefused(i) \/ MoveAsideFails(i) \/ ParentFails(i)
               \/ RollbackFails(i) \/ ImportSucceeds(i)
        <3>1. Unlocks(i)
            BY <2>2
            DEF TryLockRefused, MoveAsideFails, ParentFails, RollbackFails,
                ImportSucceeds, Unlocks, Goto, DropFd, IInv, Handles, RemovalPcs
        <3> QED
            BY <3>1, UnlocksStep
    <2>3. CASE \/ RemoveRoot(i) \/ RemovalStops(i) \/ CleanupVisits(i)
               \/ CleanupEnds(i) \/ CreateStaging(i) \/ CheckTarget(i)
               \/ OpenExclusive(i) \/ TryLock(i) \/ Recheck(i) \/ SwapFails(i)
               \/ DropObsolete(i) \/ DiscardStaging(i)
        BY <2>3, HiddenImporterStep
    <2>4. CASE \/ RemoveEntry(i) \/ WritePart(i) \/ MoveAside(i) \/ Swap(i)
               \/ Rollback(i) \/ ImportBegins(i) \/ ImportCrashes(i)
        BY <2>4, RemoveEntryStep, WritePartStep, MoveAsideStep, SwapStep,
           RollbackStep, ImportBeginsStep, UnlocksStep
    <2> QED
        BY <1>1, <2>1, <2>2, <2>3, <2>4 DEF ImporterStep, Publish, Removal
<1>2. ASSUME NEW e \in Engines, OpenShared(e) \/ EngineStep(e) \/ EngineCloses(e)
      PROVE  Step
    BY <1>2, EngineRefines
<1>3. CASE UNCHANGED vars
    BY <1>3 DEF vars, Step, Promise!vars, Retired, MovedAside, WholeTrees,
                Guards, Holds
<1> QED
    BY <1>1, <1>2, <1>3 DEF Next

(* The initial state is one of LiveIndex.                                  *)
LEMMA InitRefines == Init => Promise!Init
<1> SUFFICES ASSUME Init PROVE Promise!Init
    OBVIOUS
<1>1. dir[Live] \in Trees \cup {None}
    BY InitInv, Names DEF IInv, TypeOK
<1>2. Retired = {} /\ {e \in Engines : Guards(e)} = {}
    BY DEF Init, Retired, MovedAside, Guards, Holds, Procs
<1>3. WholeTrees \in SUBSET Trees
    BY DEF WholeTrees
<1> QED
    BY <1>1, <1>2, <1>3 DEF Promise!Init

(* With one import at a time the data directory keeps the promise of       *)
(* LiveIndex: a live tree is left alone while anybody has it pinned, what  *)
(* is put at the live path is whole, and what is retired is given back or  *)
(* replaced.                                                               *)
THEOREM Refinement == ~OverlappingImports => (Spec => ImplementsLiveIndex)
<1> SUFFICES ASSUME ~OverlappingImports PROVE Spec => ImplementsLiveIndex
    OBVIOUS
<1>1. IInv /\ [Next]_vars => [Promise!Next]_Promise!vars
    BY NextRefines DEF Step
<1> QED
    BY <1>1, InitRefines, SequentialInv, PTL
    DEF ImplementsLiveIndex, Promise!Spec, Spec

(* A step of LiveIndex that replaces the live tree needs all pins gone.    *)
LEMMA GuardedStep ==
    ASSUME ~OverlappingImports, IInv, [Next]_vars, NEW e \in Engines, Guards(e)
    PROVE  dir'[Live] = dir[Live]
    BY NextRefines
    DEF Step, Promise!Next, Promise!vars, Promise!Build, Promise!Scrap,
        Promise!Install, Promise!Pin, Promise!Unpin, Promise!Retire,
        Promise!Restore, Promise!Forget, Guards

(* No step of any process takes a tree away from the live path while an    *)
(* engine has its shared flock on it.                                      *)
THEOREM GuardedStays == ~OverlappingImports => (Spec => GuardedTreeStays)
<1> SUFFICES ASSUME ~OverlappingImports PROVE Spec => GuardedTreeStays
    OBVIOUS
<1>1. IInv /\ [Next]_vars =>
        [\A e \in Engines : Guards(e) => dir'[Live] = dir[Live]]_vars
    BY GuardedStep
<1> QED
    BY <1>1, SequentialInv, PTL DEF GuardedTreeStays, Spec
-----------------------------------------------------------------------------
(* A single import.                                                        *)

AtMostOneImport == \A i, j \in Importers : i = j

(* From here on an import does not touch the live path any more.           *)
SettledPcs == {"dropobs", "exit", "discard", "fail", "done", "failed", "crashed"}
Settled == \A i \in Importers : pc[i] \in SettledPcs

(* Until then an engine that has begun to open has its lock file in a tree *)
(* that is, or may become again, the live one; with its flock it guards it. *)
LockInPlay ==
    \A e \in Engines : pc[e] # "idle" /\ ~Settled =>
        fd[e].tree # None /\ InPlay(fd[e].tree)

GuardsUntilSettled ==
    \A e \in Engines : pc[e] \notin {"idle", "lock"} => Guards(e) \/ Settled

SeesLiveOnly ==
    \A e \in Engines : pc[e] \notin {"idle", "lock"} =>
        \A x \in IndexParts : seen[e][x] \in {None, dir[Live]}

(* The parts are opened in the order of Engine::open.                      *)
OpenedInOrder ==
    \A e \in Engines :
        /\ pc[e] \in {"places", "text", "spatial", "serving"} =>
               seen[e]["manifest"] # None
        /\ pc[e] \in {"text", "spatial", "serving"} => seen[e]["places"] # None
        /\ pc[e] \in {"spatial", "serving"} => seen[e]["text"] # None
        /\ pc[e] = "serving" => seen[e]["spatial"] # None

OInv == LockInPlay /\ GuardsUntilSettled /\ SeesLiveOnly /\ OpenedInOrder
-----------------------------------------------------------------------------

(* What a step of the import does to the engines and to the live path.     *)
Effect ==
    /\ seen' = seen
    /\ \A e \in Engines : pc'[e] = pc[e] /\ fd'[e] = fd[e]
    /\ Settled => Settled' /\ dir'[Live] = dir[Live]
    /\ ~Settled' => \A t \in Trees : InPlay(t) => InPlay(t)'

LEMMA OnlyImport ==
    ASSUME AtMostOneImport, NEW i \in Importers
    PROVE  /\ Settled <=> pc[i] \in SettledPcs
           /\ Settled' <=> pc'[i] \in SettledPcs
           /\ \A t : InPlay(t) <=> t = dir[Live] \/ (MovedAside(i) /\ t = dir[Obsolete(i)])
           /\ \A t : InPlay(t)' <=> \/ t = dir'[Live]
                                    \/ MovedAside(i)' /\ t = dir'[Obsolete(i)]
<1>1. \A j \in Importers : j = i
  BY DEF AtMostOneImport
<1>2. (Settled <=> pc[i] \in SettledPcs) /\ (Settled' <=> pc'[i] \in SettledPcs)
  BY <1>1, Zenon DEF Settled
<1>3. \A t : InPlay(t) <=> t = dir[Live] \/ (MovedAside(i) /\ t = dir[Obsolete(i)])
  BY <1>1, Zenon DEF InPlay
<1>4. \A t : InPlay(t)' <=> \/ t = dir'[Live]
                            \/ MovedAside(i)' /\ t = dir'[Obsolete(i)]
  BY <1>1, Zenon DEF InPlay
<1> QED BY <1>2, <1>3, <1>4

(* Before the renames and after them an import keeps the live path.        *)
LEMMA QuietEffect ==
    ASSUME AtMostOneImport, NEW i \in Importers,
           seen' = seen, \A e \in Engines : pc'[e] = pc[e] /\ fd'[e] = fd[e],
           dir'[Live] = dir[Live], pc[i] \notin {"swap", "rollback"},
           pc[i] \in SettledPcs => pc'[i] \in SettledPcs
    PROVE  Effect
BY OnlyImport DEF Effect, MovedAside

LEMMA ImporterEffect ==
    ASSUME AtMostOneImport, ~OverlappingImports, IInv, NEW i \in Importers,
           ImportBegins(i) \/ ImporterStep(i) \/ ImportCrashes(i)
    PROVE  Effect
<1> USE Names DEF Goto
<1>1. CASE Removal(i)
  <2>1. /\ UNCHANGED <<seen, pc, fd>> /\ rm[i].tree # None
        /\ pc[i] \in RemovalPcs /\ rm[i].path \in Siblings
    BY <1>1 DEF Removal, RemoveEntry, RemoveRoot, RemovalStops, IInv, Handles
  <2>2. dir'[Live] = dir[Live]
    BY <1>1, <2>1 DEF Removal, RemoveEntry, RemoveRoot, RemovalStops, IInv, TypeOK
  <2> QED BY <2>1, <2>2, QuietEffect DEF RemovalPcs
<1>2. CASE \/ ImportBegins(i) \/ CleanupVisits(i) \/ CleanupEnds(i)
           \/ ImportRejected(i) \/ BuildFails(i) \/ CheckTarget(i) \/ TryLock(i)
           \/ Recheck(i) \/ DropObsolete(i) \/ DiscardStaging(i) \/ ImportFails(i)
  <2>1. UNCHANGED <<seen, fd, dir>> /\ \A e \in Engines : pc'[e] = pc[e]
    BY <1>2 DEF ImportBegins, CleanupVisits, CleanupEnds, ImportRejected, BuildFails,
       CheckTarget, TryLock, Recheck, DropObsolete, DiscardStaging, ImportFails,
       IInv, TypeOK, Procs
  <2>2. /\ pc[i] \notin {"swap", "rollback"}
        /\ pc[i] \in SettledPcs => pc'[i] \in SettledPcs
    BY <1>2 DEF ImportBegins, CleanupVisits, CleanupEnds, ImportRejected, BuildFails,
       CheckTarget, TryLock, Recheck, DropObsolete, DiscardStaging, ImportFails,
       IInv, TypeOK, Procs, SettledPcs, IndexParts
  <2> QED BY <2>1, <2>2, QuietEffect
<1>3. CASE CreateStaging(i) \/ WritePart(i) \/ OpenExclusive(i)
  <2>1. /\ seen' = seen /\ dir'[Live] = dir[Live]
        /\ \A e \in Engines : pc'[e] = pc[e] /\ fd'[e] = fd[e]
    BY <1>3 DEF CreateStaging, WritePart, OpenExclusive, OpenLock, IInv, TypeOK, Procs
  <2>2. pc[i] \notin {"swap", "rollback"} \cup SettledPcs
    BY <1>3 DEF CreateStaging, WritePart, OpenExclusive, SettledPcs, IndexParts
  <2> QED BY <2>1, <2>2, QuietEffect
<1>4. CASE \/ TryLockRefused(i) \/ MoveAsideFails(i) \/ ParentFails(i)
           \/ RollbackFails(i) \/ ImportSucceeds(i) \/ ImportCrashes(i)
  <2>1. /\ seen' = seen /\ dir' = dir
        /\ \A e \in Engines : pc'[e] = pc[e] /\ fd'[e] = fd[e]
    BY <1>4 DEF TryLockRefused, MoveAsideFails, ParentFails, RollbackFails,
       ImportSucceeds, ImportCrashes, DropFd, IInv, TypeOK, Procs
  <2>2. pc'[i] \in SettledPcs
    BY <1>4 DEF TryLockRefused, MoveAsideFails, ParentFails, RollbackFails,
       ImportSucceeds, ImportCrashes, IInv, TypeOK, Procs, SettledPcs
  <2> QED BY <2>1, <2>2, OnlyImport DEF Effect
<1>5. CASE SwapFails(i)
  <2>1. /\ UNCHANGED <<seen, fd, dir>> /\ \A e \in Engines : pc'[e] = pc[e]
        /\ pc[i] = "swap" /\ pc'[i] = "rollback"
    BY <1>5 DEF SwapFails, IInv, TypeOK, Procs
  <2> QED BY <2>1, OnlyImport DEF Effect, MovedAside, SettledPcs
<1>6. CASE MoveAside(i)
  <2>1. /\ UNCHANGED <<seen, fd>> /\ \A e \in Engines : pc'[e] = pc[e]
        /\ pc[i] = "aside" /\ pc'[i] = "swap" /\ dir[Live] # None
        /\ dir'[Live] = None /\ dir'[Obsolete(i)] = dir[Live]
    BY <1>6 DEF MoveAside, IInv, TypeOK, Procs
  <2>2. \A t \in Trees : InPlay(t) => InPlay(t)'
    BY <2>1, OnlyImport DEF MovedAside
  <2> QED BY <2>1, <2>2, OnlyImport DEF Effect, SettledPcs
<1>7. CASE Swap(i) \/ Rollback(i)
  <2>1. /\ seen' = seen /\ pc[i] \in {"swap", "rollback"} /\ pc'[i] \in SettledPcs
        /\ \A e \in Engines : pc'[e] = pc[e] /\ fd'[e] = fd[e]
    BY <1>7 DEF Swap, Rollback, DropFd, IInv, TypeOK, Procs, SettledPcs
  <2> QED BY <2>1, OnlyImport DEF Effect, SettledPcs
<1> QED
    BY <1>1, <1>2, <1>3, <1>4, <1>5, <1>6, <1>7 DEF ImporterStep, Publish

LEMMA ImporterKeepsOInv ==
    ASSUME AtMostOneImport, ~OverlappingImports, IInv, OInv, [Next]_vars,
           NEW i \in Importers,
           ImportBegins(i) \/ ImporterStep(i) \/ ImportCrashes(i)
    PROVE  OInv'
<1>1. Effect
  BY ImporterEffect
<1>2. LockInPlay'
  BY <1>1 DEF OInv, LockInPlay, Effect, IInv, TypeOK, Procs
<1>3. ASSUME NEW e \in Engines, pc[e] \notin {"idle", "lock"}
      PROVE  dir'[Live] = dir[Live] /\ (Guards(e)' \/ Settled')
  <2>1. CASE Guards(e)
    BY <1>1, <2>1, GuardedStep DEF Guards, Holds, Effect
  <2>2. CASE Settled
    BY <1>1, <2>2 DEF Effect
  <2> QED BY <1>3, <2>1, <2>2 DEF OInv, GuardsUntilSettled
<1>4. GuardsUntilSettled' /\ SeesLiveOnly'
  BY <1>1, <1>3 DEF OInv, GuardsUntilSettled, SeesLiveOnly, Effect
<1>5. OpenedInOrder'
  BY <1>1 DEF OInv, OpenedInOrder, Effect
<1> QED BY <1>2, <1>4, <1>5 DEF OInv

(* A lock file in a tree in play, on which the import has no exclusive     *)
(* flock, is that of the live tree: the import keeps its flock on the tree *)
(* it moved aside for as long as it may bring it back.                     *)
LEMMA LockSharedGuards ==
    ASSUME AtMostOneImport, IInv, OInv, NEW e \in Engines, LockShared(e), ~Settled
    PROVE  dir[Live] # None /\ fd[e].tree = dir[Live]
<1>1. pc[e] = "lock" /\ fd[e].tree # None /\ InPlay(fd[e].tree)
  BY DEF LockShared, Goto, OInv, LockInPlay
<1>2. ASSUME NEW i \in Importers, MovedAside(i), fd[e].tree = dir[Obsolete(i)]
      PROVE  FALSE
  <2>1. fd[i].tree = fd[e].tree
    BY <1>2 DEF IInv, PublishWindow, MovedAside
  <2>2. fd[i].ino = lockNo[fd[i].tree] /\ fd[e].ino = lockNo[fd[e].tree]
    BY <1>1, <2>1 DEF IInv, LockCurrent, Procs
  <2>3. fd[i] = fd[e]
    BY <2>1, <2>2 DEF IInv, TypeOK, Procs
  <2>4. Holds(i)
    BY <1>1, <1>2, <2>1 DEF Holds, NoFd, MovedAside
  <2> QED BY <2>3, <2>4 DEF LockShared, HeldBy
<1> QED BY <1>1, <1>2 DEF InPlay

LEMMA EngineKeepsOInv ==
    ASSUME AtMostOneImport, ~OverlappingImports, IInv, OInv,
           NEW p \in Engines, OpenShared(p) \/ EngineStep(p) \/ EngineCloses(p)
    PROVE  OInv'
<1>1. /\ dir' = dir /\ \A i \in Importers : pc'[i] = pc[i]
      /\ \A e \in Engines \ {p} : pc'[e] = pc[e] /\ fd'[e] = fd[e] /\ seen'[e] = seen[e]
  BY DEF OpenShared, OpenLock, EngineStep, LockShared, OpenPart, EngineCloses,
     Goto, DropFd, IInv, TypeOK, Procs
<1>2. (Settled' <=> Settled) /\ \A t : InPlay(t)' <=> InPlay(t)
  BY <1>1 DEF Settled, InPlay, MovedAside
<1>3. \A e \in Engines \ {p} : Guards(e)' <=> Guards(e)
  BY <1>1 DEF Guards, Holds
<1>4. CASE OpenShared(p)
  <2>1. /\ pc[p] = "idle" /\ pc'[p] = "lock" /\ fd'[p].tree = dir[Live]
        /\ dir[Live] # None
    BY <1>4 DEF OpenShared, OpenLock, Goto, IInv, TypeOK, Procs
  <2>2. LockInPlay'
    BY <1>1, <1>2, <2>1 DEF OInv, LockInPlay, InPlay
  <2> QED BY <1>1, <1>2, <1>3, <2>1, <2>2
      DEF OInv, GuardsUntilSettled, SeesLiveOnly, OpenedInOrder
<1>5. CASE LockShared(p)
  <2>1. /\ pc[p] = "lock" /\ pc'[p] = "manifest" /\ UNCHANGED <<fd, seen>>
        /\ seen[p] = NothingSeen
    BY <1>5 DEF LockShared, Goto, IInv, TypeOK, Procs, SeenNothing
  <2>2. LockInPlay'
    BY <1>1, <1>2, <2>1 DEF OInv, LockInPlay
  <2>3. Guards(p)' \/ Settled'
    BY <1>1, <1>2, <1>5, <2>1, LockSharedGuards DEF Guards, Holds, NoFd
  <2>4. GuardsUntilSettled'
    BY <1>1, <1>2, <1>3, <2>1, <2>3 DEF OInv, GuardsUntilSettled
  <2>5. SeesLiveOnly' /\ OpenedInOrder'
    BY <1>1, <2>1 DEF OInv, SeesLiveOnly, OpenedInOrder, NothingSeen
  <2> QED BY <2>2, <2>4, <2>5 DEF OInv
<1>6. CASE OpenPart(p)
  <2>1. /\ pc[p] \in IndexParts /\ pc'[p] = NextPart[pc[p]] /\ fd' = fd
        /\ seen'[p] = [seen[p] EXCEPT ![pc[p]] = dir[Live]] /\ dir[Live] # None
    BY <1>6 DEF OpenPart, CanOpenPart, IInv, TypeOK, Procs
  <2>2. LockInPlay'
    BY <1>1, <1>2, <2>1 DEF OInv, LockInPlay, IndexParts
  <2>3. pc'[p] \in IndexParts \cup {"serving"}
    BY <2>1 DEF NextPart, IndexParts
  <2>4. Guards(p)' \/ Settled'
    BY <1>1, <1>2, <2>1, <2>3
    DEF OInv, GuardsUntilSettled, Guards, Holds, IndexParts
  <2>5. GuardsUntilSettled'
    BY <1>1, <1>2, <1>3, <2>4 DEF OInv, GuardsUntilSettled
  <2>6. SeesLiveOnly'
    BY <1>1, <2>1 DEF OInv, SeesLiveOnly, IndexParts, IInv, TypeOK
  <2>7. OpenedInOrder'
    BY <1>1, <2>1 DEF OInv, OpenedInOrder, IndexParts, NextPart, IInv, TypeOK
  <2> QED BY <2>2, <2>5, <2>6, <2>7 DEF OInv
<1>7. CASE EngineCloses(p)
  <2>1. pc'[p] = "idle"
    BY <1>7 DEF EngineCloses, IInv, TypeOK, Procs
  <2> QED BY <1>1, <1>2, <1>3, <2>1
      DEF OInv, LockInPlay, GuardsUntilSettled, SeesLiveOnly, OpenedInOrder
<1> QED BY <1>4, <1>5, <1>6, <1>7 DEF EngineStep

LEMMA NextKeepsOInv ==
    ASSUME AtMostOneImport, ~OverlappingImports, IInv, OInv, [Next]_vars
    PROVE  OInv'
<1>1. CASE UNCHANGED vars
  <2>1. UNCHANGED <<dir, pc, fd, seen>>
    BY <1>1 DEF vars
  <2> QED BY <2>1 DEF OInv, LockInPlay, GuardsUntilSettled, SeesLiveOnly, OpenedInOrder,
                      Settled, InPlay, MovedAside, Guards, Holds
<1> QED BY <1>1, ImporterKeepsOInv, EngineKeepsOInv DEF Next

LEMMA InitOInv == Init => OInv
BY DEF Init, OInv, LockInPlay, GuardsUntilSettled, SeesLiveOnly, OpenedInOrder, Procs

(* Once an engine has its flock, the live path is its own or settled.      *)
LEMMA OpenedKeepsLive ==
    ASSUME AtMostOneImport, ~OverlappingImports, IInv, OInv, [Next]_vars,
           NEW e \in Engines, pc[e] \notin {"idle", "lock"}
    PROVE  dir'[Live] = dir[Live]
<1>1. CASE Guards(e)
  BY <1>1, GuardedStep
<1>2. CASE Settled
  <2>1. ASSUME NEW i \in Importers,
               ImportBegins(i) \/ ImporterStep(i) \/ ImportCrashes(i)
        PROVE  dir'[Live] = dir[Live]
    BY <1>2, <2>1, ImporterEffect DEF Effect
  <2>2. ASSUME NEW p \in Engines, OpenShared(p) \/ EngineStep(p) \/ EngineCloses(p)
        PROVE  dir'[Live] = dir[Live]
    BY <2>2 DEF OpenShared, EngineStep, LockShared, OpenPart, EngineCloses
  <2> QED BY <2>1, <2>2 DEF Next, vars
<1> QED BY <1>1, <1>2 DEF OInv, GuardsUntilSettled

LEMMA AlwaysOInv ==
    AtMostOneImport /\ ~OverlappingImports => (Spec => [](IInv /\ OInv))
<1> SUFFICES ASSUME AtMostOneImport, ~OverlappingImports PROVE Spec => [](IInv /\ OInv)
  OBVIOUS
<1>1. Init => OInv
  BY InitOInv
<1>2. IInv /\ OInv /\ [Next]_vars => OInv'
  BY NextKeepsOInv
<1> QED BY <1>1, <1>2, SequentialInv, PTL DEF Spec

(* Beside one import an engine that comes up has opened its four parts from *)
(* one tree, although it opens them by path, one after the other.          *)
THEOREM ServesOneGeneration ==
    AtMostOneImport /\ ~OverlappingImports => (Spec => []OneGeneration)
<1> SUFFICES ASSUME AtMostOneImport, ~OverlappingImports PROVE Spec => []OneGeneration
  OBVIOUS
<1>1. IInv /\ OInv => OneGeneration
  BY DEF OInv, SeesLiveOnly, OpenedInOrder, OneGeneration, IndexParts
<1> QED BY <1>1, AlwaysOInv, PTL

(* Beside one import the tree an engine serves keeps the live path, also   *)
(* when its flock is on the tree that the import has retired.              *)
THEOREM ServedStays ==
    AtMostOneImport /\ ~OverlappingImports => (Spec => ServedTreeStays)
<1> SUFFICES ASSUME AtMostOneImport, ~OverlappingImports PROVE Spec => ServedTreeStays
  OBVIOUS
<1>1. IInv /\ OInv /\ [Next]_vars =>
        [\A e \in Engines : pc[e] = "serving" => dir'[Live] = dir[Live]]_vars
  BY OpenedKeepsLive
<1> QED BY <1>1, AlwaysOInv, PTL DEF Spec, ServedTreeStays
-----------------------------------------------------------------------------
(***************************************************************************)
(* cleanup_orphans, for any number of imports, one at a time.              *)
(***************************************************************************)

(* A sibling that was visited is gone or being removed, and the removal    *)
(* has listed all there is.                                                *)
Cleaning ==
    \A i \in Importers :
        /\ pc[i] = "cleanup" /\ rm[i].tree # None => parts[rm[i].tree] \subseteq rm[i].left
        /\ pc[i] = "cleanup" =>
               \A p \in Siblings \ todo[i] :
                   dir[p] # None => rm[i].path = p /\ rm[i].tree = dir[p]
        /\ pc[i] = "extract" => \A p \in Siblings : dir[p] = None

Removes == ~OverlappingImports /\ ParentListable /\ "removal" \notin Faults

(* Nobody else imports while one importer takes a step.                    *)
LEMMA AloneAtWork ==
    ASSUME ~OverlappingImports, IInv, NEW i \in Importers, NEW j \in Importers,
           ImportBegins(i) \/ ImporterStep(i) \/ ImportCrashes(i), j # i
    PROVE  pc'[j] = pc[j] /\ ~Importing(j)
<1> USE DEF Goto, Importing, Ended, IndexParts
<1>1. CASE ImportBegins(i)
  BY <1>1 DEF ImportBegins, IInv, TypeOK, Procs
<1>2. CASE Importing(i)
  <2>1. ~Importing(j)
    BY <1>2 DEF IInv, OneImporter
  <2>2. CASE Removal(i) \/ CleanupVisits(i)
    BY <2>1, <2>2 DEF Removal, RemoveEntry, RemoveRoot, RemovalStops, CleanupVisits
  <2>3. CASE \/ CleanupEnds(i) \/ ImportRejected(i) \/ CreateStaging(i) \/ WritePart(i)
             \/ BuildFails(i) \/ DiscardStaging(i) \/ ImportSucceeds(i)
             \/ ImportFails(i) \/ ImportCrashes(i)
    BY <2>1, <2>3
    DEF CleanupEnds, ImportRejected, CreateStaging, WritePart, BuildFails,
        DiscardStaging, ImportSucceeds, ImportFails, ImportCrashes, IInv, TypeOK, Procs
  <2>4. CASE Publish(i)
    BY <2>1, <2>4
    DEF Publish, CheckTarget, OpenExclusive, TryLock, TryLockRefused, Recheck, MoveAside,
        MoveAsideFails, ParentFails, Swap, SwapFails, Rollback, RollbackFails,
        DropObsolete, IInv, TypeOK, Procs
  <2>5. CASE ImportBegins(i)
    BY <1>1, <2>5
  <2> QED BY <2>2, <2>3, <2>4, <2>5 DEF ImporterStep
<1>3. CASE ~Importing(i) /\ (ImporterStep(i) \/ ImportCrashes(i))
  <2>1. rm[i].tree = None
    BY <1>3 DEF IInv, Handles, RemovalPcs
  <2> QED BY <1>3, <2>1
      DEF ImporterStep, Publish, Removal, RemoveEntry, RemoveRoot, RemovalStops,
          CleanupVisits, CleanupEnds, ImportRejected, CreateStaging, WritePart, BuildFails,
          DiscardStaging, ImportSucceeds, ImportFails, ImportCrashes, CheckTarget,
          OpenExclusive, TryLock, TryLockRefused, Recheck, MoveAside, MoveAsideFails,
          ParentFails, Swap, SwapFails, Rollback, RollbackFails, DropObsolete
<1> QED BY <1>1, <1>2, <1>3

(* The importer at work: what it has visited is gone or on its way.        *)
LEMMA ImporterKeepsCleaning ==
    ASSUME Removes, IInv, Cleaning, NEW i \in Importers,
           ImportBegins(i) \/ ImporterStep(i) \/ ImportCrashes(i)
    PROVE  Cleaning'
<1> DEFINE Clean(j) ==
        /\ pc[j] = "cleanup" /\ rm[j].tree # None => parts[rm[j].tree] \subseteq rm[j].left
        /\ pc[j] = "cleanup" =>
               \A p \in Siblings \ todo[j] :
                   dir[p] # None => rm[j].path = p /\ rm[j].tree = dir[p]
        /\ pc[j] = "extract" => \A p \in Siblings : dir[p] = None
<1> USE Names DEF Goto
<1>1. \A j \in Importers \ {i} : Clean(j)'
  BY AloneAtWork DEF Removes, Importing, Ended
<1> SUFFICES Clean(i)'
  BY <1>1 DEF Cleaning
<1>2. CASE ImportBegins(i)
  <2>1. /\ pc[i] = "idle" /\ pc'[i] = "cleanup" /\ UNCHANGED <<dir, rm, parts>>
        /\ todo'[i] = {p \in Siblings : dir[p] # None} /\ rm[i].tree = None
    BY <1>2 DEF ImportBegins, Removes, IInv, TypeOK, Procs, Handles, RemovalPcs
  <2> QED BY <2>1
<1>3. CASE RemoveEntry(i)
  BY <1>3 DEF RemoveEntry, IInv, TypeOK, Cleaning
<1>4. CASE RemoveRoot(i)
  BY <1>4 DEF RemoveRoot, IInv, TypeOK, Cleaning, Handles, NoRemoval
<1>5. CASE CleanupVisits(i)
  BY <1>5 DEF CleanupVisits, Opened, IInv, TypeOK, Cleaning, NoRemoval
<1>6. CASE CleanupEnds(i)
  BY <1>6 DEF CleanupEnds, IInv, TypeOK, Procs, Cleaning
<1>7. CASE \/ ImportRejected(i) \/ CreateStaging(i) \/ WritePart(i)
           \/ BuildFails(i) \/ DiscardStaging(i) \/ ImportSucceeds(i)
           \/ ImportFails(i) \/ ImportCrashes(i)
  <2>1. pc'[i] \notin {"cleanup", "extract"}
    BY <1>7
    DEF ImportRejected, CreateStaging, WritePart, BuildFails, NextStage, IndexParts,
        DiscardStaging, ImportSucceeds, ImportFails, ImportCrashes, IInv, TypeOK, Procs
  <2> QED BY <2>1
<1>8. CASE Publish(i)
  <2>1. pc'[i] \notin {"cleanup", "extract"}
    BY <1>8
    DEF Publish, CheckTarget, OpenExclusive, TryLock, TryLockRefused, Recheck, MoveAside,
        MoveAsideFails, ParentFails, Swap, SwapFails, Rollback, RollbackFails,
        DropObsolete, IInv, TypeOK, Procs
  <2> QED BY <2>1
<1> QED BY <1>2, <1>3, <1>4, <1>5, <1>6, <1>7, <1>8
    DEF ImporterStep, Removal, RemovalStops, Removes

LEMMA EngineKeepsCleaning ==
    ASSUME IInv, Cleaning, NEW e \in Engines,
           OpenShared(e) \/ EngineStep(e) \/ EngineCloses(e)
    PROVE  Cleaning'
<1>1. /\ UNCHANGED <<dir, rm, todo>> /\ \A i \in Importers : pc'[i] = pc[i]
      /\ \A t \in Trees : t # dir[Live] => parts'[t] = parts[t]
  BY DEF OpenShared, OpenLock, EngineStep, LockShared, OpenPart, EngineCloses,
     Goto, IInv, TypeOK, Procs
<1>2. \A i \in Importers : rm[i].tree # None => rm[i].tree \in Trees /\ rm[i].tree # dir[Live]
  BY DEF IInv, TypeOK, Handles
<1> QED BY <1>1, <1>2 DEF Cleaning

(* One import at a time, started where the parent of the data directory    *)
(* can be listed and removals do not fail, begins its extraction beside no *)
(* sibling of an earlier import, however many of those crashed and where.  *)
THEOREM CleanupCleans == Removes => (Spec => []CleanupRemovesOrphans)
<1> SUFFICES ASSUME Removes PROVE Spec => []CleanupRemovesOrphans
  OBVIOUS
<1>1. Init => Cleaning
  BY DEF Init, Cleaning, Procs
<1>2. IInv /\ Cleaning /\ [Next]_vars => Cleaning'
  <2> SUFFICES ASSUME IInv, Cleaning, [Next]_vars PROVE Cleaning'
    OBVIOUS
  <2>1. CASE UNCHANGED vars
    BY <2>1 DEF vars, Cleaning
  <2> QED BY <2>1, ImporterKeepsCleaning, EngineKeepsCleaning DEF Next
<1>3. Cleaning => CleanupRemovesOrphans
  BY DEF Cleaning, CleanupRemovesOrphans
<1>4. ~OverlappingImports
  BY DEF Removes
<1> QED BY <1>1, <1>2, <1>3, <1>4, SequentialInv, PTL DEF Spec
-----------------------------------------------------------------------------
(***************************************************************************)
(* What an import leaves behind, for any number of imports, one at a time. *)
(***************************************************************************)

(* The importer is removing what is at p, if anything is, and the removal  *)
(* has listed all there is.                                                *)
Going(i, p) ==
    dir[p] # None =>
        /\ rm[i].path = p /\ rm[i].tree = dir[p]
        /\ parts[rm[i].tree] \subseteq rm[i].left

UnstagedPcs == {"idle", "cleanup", "extract", "dropobs", "exit", "done", "failed"}
GivenUpPcs == {"discard", "fail", "failed", "done"}

TidyOf(i) ==
    /\ pc[i] \in UnstagedPcs => dir[Staging(i)] = None
    /\ pc[i] \in GivenUpPcs => dir[Obsolete(i)] = None
    /\ pc[i] = "fail" => Going(i, Staging(i))
    /\ pc[i] = "exit" => Going(i, Obsolete(i))
Tidy == \A i \in Importers : TidyOf(i)

Clears == ~OverlappingImports /\ Faults \cap {"removal", "parent", "rollback"} = {}

(* An importer may remove the siblings of another, and makes none there.   *)
LEMMA SiblingsOfOthers ==
    ASSUME ~OverlappingImports, IInv, Tidy, NEW i \in Importers, NEW j \in Importers,
           ImportBegins(i) \/ ImporterStep(i) \/ ImportCrashes(i), j # i
    PROVE  TidyOf(j)'
<1>1. pc'[j] = pc[j] /\ ~Importing(j)
  BY AloneAtWork
<1>2. /\ dir'[Staging(j)] \in {dir[Staging(j)], None}
      /\ dir'[Obsolete(j)] \in {dir[Obsolete(j)], None}
  BY Names
  DEF ImportBegins, ImporterStep, ImportCrashes, Removal, RemoveEntry, RemoveRoot,
      RemovalStops, CleanupVisits, CleanupEnds, ImportRejected, CreateStaging, WritePart,
      BuildFails, DiscardStaging, ImportSucceeds, ImportFails, Publish, CheckTarget,
      OpenExclusive, TryLock, TryLockRefused, Recheck, MoveAside, MoveAsideFails,
      ParentFails, Swap, SwapFails, Rollback, RollbackFails, DropObsolete, IInv, TypeOK
<1> QED BY <1>1, <1>2 DEF Tidy, TidyOf, Importing, Ended, GivenUpPcs, UnstagedPcs

LEMMA RemovalKeepsTidy ==
    ASSUME Clears, IInv, Tidy, NEW i \in Importers, Removal(i)
    PROVE  TidyOf(i)'
<1> USE Names DEF Clears, IInv, TypeOK, Tidy, TidyOf, Going
<1>1. CASE RemoveEntry(i)
  BY <1>1 DEF RemoveEntry
<1>2. CASE RemoveRoot(i)
  BY <1>2 DEF RemoveRoot, Handles
<1> QED BY <1>1, <1>2 DEF Removal, RemovalStops

LEMMA BuildKeepsTidy ==
    ASSUME Clears, IInv, Tidy, NEW i \in Importers,
           \/ ImportBegins(i) \/ CleanupVisits(i) \/ CleanupEnds(i) \/ ImportRejected(i)
           \/ CreateStaging(i) \/ WritePart(i) \/ BuildFails(i) \/ DiscardStaging(i)
           \/ ImportSucceeds(i) \/ ImportFails(i) \/ ImportCrashes(i)
    PROVE  TidyOf(i)'
<1> USE Names DEF IInv, TypeOK, Procs, Goto, Tidy, TidyOf, Going, UnstagedPcs, GivenUpPcs,
                  FreshTrees, AsidePcs
<1>1. CASE ImportBegins(i) \/ CleanupVisits(i) \/ CleanupEnds(i) \/ ImportRejected(i)
  BY <1>1 DEF ImportBegins, CleanupVisits, CleanupEnds, ImportRejected
<1>2. CASE CreateStaging(i) \/ BuildFails(i)
  BY <1>2 DEF CreateStaging, BuildFails, IndexParts
<1>5. CASE WritePart(i)
  <2>1. pc'[i] \in {"text", "spatial", "manifest", "check"}
    BY <1>5 DEF WritePart, NextStage, IndexParts
  <2> QED BY <2>1
<1>3. CASE DiscardStaging(i)
  BY <1>3 DEF DiscardStaging, Opened
<1>4. CASE ImportSucceeds(i) \/ ImportFails(i) \/ ImportCrashes(i)
  BY <1>4 DEF ImportSucceeds, ImportFails, ImportCrashes
<1> QED BY <1>1, <1>2, <1>3, <1>4, <1>5

(* Between the renames the live path stays free, so that the rename back   *)
(* succeeds, and without a tree that was moved aside none is needed.       *)
LEMMA PublishKeepsTidy ==
    ASSUME Clears, IInv, Tidy, NEW i \in Importers, Publish(i)
    PROVE  TidyOf(i)'
<1> USE Names DEF IInv, TypeOK, Procs, Goto, Tidy, TidyOf, Going, UnstagedPcs, GivenUpPcs,
                  FreshTrees, AsidePcs
<1>1. CASE \/ CheckTarget(i) \/ OpenExclusive(i) \/ TryLock(i) \/ TryLockRefused(i)
           \/ Recheck(i) \/ MoveAside(i) \/ MoveAsideFails(i)
  BY <1>1 DEF CheckTarget, OpenExclusive, TryLock, TryLockRefused, Recheck, MoveAside,
              MoveAsideFails
<1>2. CASE Swap(i) \/ SwapFails(i)
  BY <1>2 DEF Swap, SwapFails
<1>3. CASE Rollback(i)
  BY <1>3 DEF Rollback
<1>4. CASE RollbackFails(i)
  BY <1>4 DEF RollbackFails, CanRollback, LiveReplaceable, PublishWindow, Clears
<1>5. CASE DropObsolete(i)
  BY <1>5 DEF DropObsolete, Opened
<1> QED BY <1>1, <1>2, <1>3, <1>4, <1>5 DEF Publish, ParentFails, Clears

LEMMA EngineKeepsTidy ==
    ASSUME IInv, Tidy, NEW e \in Engines,
           OpenShared(e) \/ EngineStep(e) \/ EngineCloses(e)
    PROVE  Tidy'
<1>1. /\ UNCHANGED <<dir, rm>> /\ \A i \in Importers : pc'[i] = pc[i]
      /\ \A t \in Trees : t # dir[Live] => parts'[t] = parts[t]
  BY DEF OpenShared, OpenLock, EngineStep, LockShared, OpenPart, EngineCloses,
     Goto, IInv, TypeOK, Procs
<1>2. \A i \in Importers : rm[i].tree # None => rm[i].tree \in Trees /\ rm[i].tree # dir[Live]
  BY DEF IInv, TypeOK, Handles
<1> QED BY <1>1, <1>2 DEF Tidy, TidyOf, Going

LEMMA NextKeepsTidy ==
    ASSUME Clears, IInv, Tidy, [Next]_vars PROVE Tidy'
<1>1. ASSUME NEW i \in Importers, ImportBegins(i) \/ ImporterStep(i) \/ ImportCrashes(i)
      PROVE  Tidy'
  <2>1. TidyOf(i)'
    BY <1>1, RemovalKeepsTidy, BuildKeepsTidy, PublishKeepsTidy DEF ImporterStep
  <2>2. \A j \in Importers : j # i => TidyOf(j)'
    BY <1>1, SiblingsOfOthers DEF Clears
  <2> QED BY <2>1, <2>2 DEF Tidy
<1>2. CASE UNCHANGED vars
  BY <1>2 DEF vars, Tidy, TidyOf, Going
<1> QED BY <1>1, <1>2, EngineKeepsTidy DEF Next

LEMMA InitTidy == Init => Tidy
BY Names DEF Init, Tidy, TidyOf, Going, Procs, UnstagedPcs, GivenUpPcs

(* An import that has returned, with success or with an error, has left    *)
(* neither its staging tree nor the tree it moved aside, provided that     *)
(* removals and the rename back succeed and the parent can be made.        *)
THEOREM EndsTidy == Clears => (Spec => []EndedImportLeavesNoSibling)
<1> SUFFICES ASSUME Clears PROVE Spec => []EndedImportLeavesNoSibling
  OBVIOUS
<1>1. IInv /\ Tidy /\ [Next]_vars => Tidy'
  BY NextKeepsTidy
<1>2. Tidy => EndedImportLeavesNoSibling
  BY DEF Tidy, TidyOf, EndedImportLeavesNoSibling, UnstagedPcs, GivenUpPcs
<1> QED BY <1>1, <1>2, InitTidy, SequentialInv, PTL DEF Spec, Clears
-----------------------------------------------------------------------------
(***************************************************************************)
(* The last whole index, for any number of imports, one at a time.         *)
(***************************************************************************)

(* After the swap the live tree is the new one; and what an error discards *)
(* is the importer's own tree.                                             *)
KeepsOf(i) ==
    /\ pc[i] \in {"dropobs", "exit"} => dir[Live] = i
    /\ pc[i] = "fail" /\ rm[i].tree # None => rm[i].tree = i
Keeps == \A i \in Importers : KeepsOf(i)

LEMMA InitKeeps == Init => Keeps
BY DEF Init, Keeps, KeepsOf, Procs

LEMMA ImporterKeepsKeeps ==
    ASSUME ~OverlappingImports, IInv, Keeps, NEW i \in Importers,
           ImportBegins(i) \/ ImporterStep(i) \/ ImportCrashes(i)
    PROVE  Keeps'
<1> USE Names DEF Goto, IInv, TypeOK, Procs, KeepsOf
<1>1. \A j \in Importers \ {i} : KeepsOf(j)'
  BY AloneAtWork, Zenon DEF Importing, Ended
<1> SUFFICES KeepsOf(i)'
  BY <1>1 DEF Keeps
<1>2. KeepsOf(i)
  BY DEF Keeps
<1>3. CASE Removal(i)
  BY <1>2, <1>3 DEF Removal, RemoveEntry, RemoveRoot, RemovalStops, NoRemoval, Handles
<1>4. CASE \/ ImportBegins(i) \/ CleanupVisits(i) \/ CleanupEnds(i)
           \/ ImportRejected(i) \/ CreateStaging(i) \/ BuildFails(i)
           \/ ImportSucceeds(i) \/ ImportFails(i) \/ ImportCrashes(i)
  <2>1. pc'[i] \notin {"dropobs", "exit", "fail"}
    BY <1>4
    DEF ImportBegins, CleanupVisits, CleanupEnds, ImportRejected, CreateStaging,
        BuildFails, ImportSucceeds, ImportFails, ImportCrashes
  <2> QED BY <2>1
<1>5. CASE WritePart(i)
  <2>1. pc'[i] \in {"text", "spatial", "manifest", "check"}
    BY <1>5 DEF WritePart, NextStage, IndexParts
  <2> QED BY <2>1
<1>6. CASE \/ CheckTarget(i) \/ OpenExclusive(i) \/ TryLock(i) \/ TryLockRefused(i)
           \/ Recheck(i) \/ MoveAside(i) \/ MoveAsideFails(i) \/ ParentFails(i)
           \/ SwapFails(i) \/ Rollback(i) \/ RollbackFails(i)
  <2>1. pc'[i] \notin {"dropobs", "exit", "fail"}
    BY <1>6
    DEF CheckTarget, OpenExclusive, TryLock, TryLockRefused, Recheck, MoveAside,
        MoveAsideFails, ParentFails, SwapFails, Rollback, RollbackFails
  <2> QED BY <2>1
<1>7. CASE Swap(i)
  BY <1>7 DEF Swap
<1>8. CASE DropObsolete(i)
  BY <1>2, <1>8 DEF DropObsolete
<1>9. CASE DiscardStaging(i)
  BY <1>9 DEF DiscardStaging, Opened, NoRemoval, FreshTrees
<1> QED BY <1>3, <1>4, <1>5, <1>6, <1>7, <1>8, <1>9 DEF ImporterStep, Publish

LEMMA EngineKeepsKeeps ==
    ASSUME IInv, Keeps, NEW e \in Engines,
           OpenShared(e) \/ EngineStep(e) \/ EngineCloses(e)
    PROVE  Keeps'
<1>1. UNCHANGED <<dir, rm>> /\ \A i \in Importers : pc'[i] = pc[i]
  BY DEF OpenShared, OpenLock, EngineStep, LockShared, OpenPart, EngineCloses,
     Goto, IInv, TypeOK, Procs
<1> QED BY <1>1 DEF Keeps, KeepsOf

(* A tree that is whole, at a path where it stays and with its parts.      *)
LEMMA StaysWhole ==
    ASSUME NEW p, WholeAt(p), dir'[p] = dir[p],
           IndexParts \cap parts[dir[p]] \subseteq parts'[dir[p]]
    PROVE  WholeAt(p)'
BY DEF WholeAt

ResultPaths == {Live} \cup {Obsolete(i) : i \in Importers}

LEMMA IndexLeftAt == /\ IndexIsLeft <=> \E p \in ResultPaths : WholeAt(p)
                     /\ IndexIsLeft' <=> \E p \in ResultPaths : WholeAt(p)'
BY DEF IndexIsLeft, ResultPaths, Obsolete, Live

(* A removal unlinks nothing of a whole tree that was published or moved   *)
(* aside, but in a cleanup or once there is a whole tree at the live path. *)
LEMMA RemovalKeepsIndex ==
    ASSUME ~OverlappingImports, IInv, Keeps, NEW i \in Importers, Removal(i),
           pc[i] # "cleanup", IndexIsLeft
    PROVE  IndexIsLeft'
<1> USE Names DEF IInv, TypeOK
<1>1. rm[i].tree # None
  BY DEF Removal, RemoveEntry, RemoveRoot, RemovalStops
<1>2. pc[i] \in {"exit", "fail"} /\ rm[i].path \in Siblings /\ rm[i].tree # dir[Live]
  BY <1>1 DEF Handles, RemovalPcs
<1>3. PICK p \in ResultPaths :
          /\ WholeAt(p) /\ p \in Paths
          /\ rm[i].tree # dir[p]
  <2>1. CASE pc[i] = "exit"
    <3>1. dir[Live] = i /\ i # Old /\ i \in Trees
      BY <2>1 DEF Keeps, KeepsOf, Trees, Procs
    <3>2. WholeAt(Live)
      BY <3>1 DEF InPlayWhole, InPlay, WholeAt, Trees, Procs
    <3> QED BY <1>2, <3>2 DEF ResultPaths
  <2>2. CASE pc[i] = "fail"
    <3>1. rm[i].tree = i
      BY <1>1, <2>2 DEF Keeps, KeepsOf
    <3>2. \A q \in Paths : dir[q] = i => q = Staging(i)
      BY <2>2 DEF FreshTrees, Unpublished, Published
    <3>3. PICK p \in ResultPaths : WholeAt(p)
      BY IndexLeftAt
    <3>4. p \in Paths /\ p # Staging(i)
      BY <3>3 DEF ResultPaths
    <3> QED BY <3>1, <3>2, <3>3, <3>4
  <2> QED BY <1>2, <2>1, <2>2
<1>4. CASE RemoveEntry(i)
  <2>1. dir' = dir /\ parts'[dir[p]] = parts[dir[p]]
    BY <1>3, <1>4 DEF RemoveEntry, WholeAt
  <2> QED BY <1>3, <2>1, StaysWhole, IndexLeftAt
<1>5. CASE RemoveRoot(i)
  <2>1. parts' = parts /\ dir'[p] = dir[p]
    BY <1>3, <1>5 DEF RemoveRoot
  <2> QED BY <1>3, <2>1, StaysWhole, IndexLeftAt
<1>6. CASE RemovalStops(i)
  BY <1>6 DEF RemovalStops, IndexIsLeft, WholeAt
<1> QED BY <1>4, <1>5, <1>6 DEF Removal

LEMMA OneSetGrows ==
    ASSUME NEW T, NEW S, NEW f \in [T -> S], NEW i, NEW x, NEW g,
           g = f \/ g = [f EXCEPT ![i] = @ \cup {x}]
    PROVE  \A t \in T : f[t] \subseteq g[t]
OBVIOUS

(* No other step of an import does, and the renames move it.               *)
LEMMA ImporterKeepsIndex ==
    ASSUME ~OverlappingImports, IInv, Keeps, NEW i \in Importers,
           ImportBegins(i) \/ ImporterStep(i) \/ ImportCrashes(i),
           pc[i] # "cleanup", IndexIsLeft
    PROVE  IndexIsLeft'
<1> USE Names DEF IInv, TypeOK, Procs, Trees, Goto
<1>1. PICK p \in ResultPaths : WholeAt(p)
  BY IndexLeftAt
<1>2. p \in Paths /\ p # Staging(i) /\ dir[p] \in Trees
  BY <1>1 DEF ResultPaths, WholeAt
<1>3. CASE Removal(i)
  BY <1>3, RemovalKeepsIndex
<1>4. CASE \/ ImportBegins(i) \/ ImportRejected(i) \/ BuildFails(i)
           \/ CheckTarget(i) \/ TryLock(i) \/ TryLockRefused(i) \/ Recheck(i)
           \/ MoveAsideFails(i) \/ ParentFails(i) \/ SwapFails(i)
           \/ RollbackFails(i) \/ DropObsolete(i) \/ DiscardStaging(i)
           \/ ImportSucceeds(i) \/ ImportFails(i) \/ ImportCrashes(i)
  <2>1. UNCHANGED <<dir, parts>>
    BY <1>4
    DEF ImportBegins, ImportRejected, BuildFails, CheckTarget, TryLock, TryLockRefused,
        Recheck, MoveAsideFails, ParentFails, SwapFails, RollbackFails, DropObsolete,
        DiscardStaging, ImportSucceeds, ImportFails, ImportCrashes
  <2> QED BY <2>1 DEF IndexIsLeft, WholeAt
<1>5. CASE CreateStaging(i) \/ WritePart(i)
  <2>1. dir' = [dir EXCEPT ![Staging(i)] = i]
    BY <1>5 DEF CreateStaging, WritePart
  <2>2. dir'[p] = dir[p]
    BY <1>2, <2>1
  <2>3. parts' = parts \/ parts' = [parts EXCEPT ![i] = @ \cup {pc[i]}]
    BY <1>5 DEF CreateStaging, WritePart
  <2>4. \A t \in Trees : parts[t] \subseteq parts'[t]
    <3>1. parts \in [Trees -> SUBSET Parts]
      OBVIOUS
    <3> HIDE Names DEF IInv, TypeOK, Procs, Trees
    <3> QED BY <2>3, <3>1, OneSetGrows
  <2> QED BY <1>1, <1>2, <2>2, <2>4, StaysWhole, IndexLeftAt
<1>6. CASE OpenExclusive(i)
  <2>1. dir' = dir /\ parts[dir[p]] \subseteq parts'[dir[p]]
    BY <1>2, <1>6 DEF OpenExclusive, OpenLock
  <2> QED BY <1>1, <2>1, StaysWhole, IndexLeftAt
<1>7. CASE MoveAside(i)
  <2>1. /\ dir'[Obsolete(i)] = dir[Live] /\ parts' = parts
        /\ \A q \in Paths : q \notin {Live, Obsolete(i)} => dir'[q] = dir[q]
    BY <1>7 DEF MoveAside
  <2>2. CASE p = Live
    BY <1>1, <2>1, <2>2 DEF WholeAt, IndexIsLeft
  <2>3. CASE p # Live
    <3>1. dir[Obsolete(i)] = None
      BY <1>7 DEF MoveAside, FreshTrees, AsidePcs
    <3>2. dir'[p] = dir[p]
      BY <1>1, <1>2, <2>1, <2>3, <3>1 DEF WholeAt
    <3> QED BY <1>1, <2>1, <3>2, StaysWhole, IndexLeftAt
  <2> QED BY <2>2, <2>3
<1>8. CASE Swap(i)
  <2>1. p # Live
    BY <1>1, <1>8 DEF Swap, PublishWindow, WholeAt
  <2>2. dir'[p] = dir[p] /\ parts' = parts
    BY <1>2, <1>8, <2>1 DEF Swap
  <2> QED BY <1>1, <2>2, StaysWhole, IndexLeftAt
<1>9. CASE Rollback(i)
  <2>1. /\ dir'[Live] = dir[Obsolete(i)] /\ parts' = parts
        /\ \A q \in Paths : q \notin {Live, Obsolete(i)} => dir'[q] = dir[q]
        /\ dir[Live] = None
    BY <1>9 DEF Rollback, PublishWindow
  <2>2. CASE p = Obsolete(i)
    BY <1>1, <2>1, <2>2 DEF WholeAt, IndexIsLeft
  <2>3. CASE p # Obsolete(i)
    <3>1. dir'[p] = dir[p]
      BY <1>1, <1>2, <2>1, <2>3 DEF WholeAt
    <3> QED BY <1>1, <2>1, <3>1, StaysWhole, IndexLeftAt
  <2> QED BY <2>2, <2>3
<1>10. CASE CleanupVisits(i) \/ CleanupEnds(i)
  BY <1>10 DEF CleanupVisits, CleanupEnds
<1> QED
  BY <1>3, <1>4, <1>5, <1>6, <1>7, <1>8, <1>9, <1>10 DEF ImporterStep, Publish

LEMMA EngineKeepsIndex ==
    ASSUME IInv, NEW e \in Engines, IndexIsLeft,
           OpenShared(e) \/ EngineStep(e) \/ EngineCloses(e)
    PROVE  IndexIsLeft'
<1>1. PICK p \in ResultPaths : WholeAt(p)
  BY IndexLeftAt
<1>2. p \in Paths /\ dir[p] \in Trees
  BY <1>1, Names DEF ResultPaths, WholeAt, IInv, TypeOK
<1>3. dir' = dir /\ parts[dir[p]] \subseteq parts'[dir[p]]
  BY <1>2 DEF OpenShared, OpenLock, EngineStep, LockShared, OpenPart, EngineCloses,
     IInv, TypeOK
<1> QED BY <1>1, <1>3, StaysWhole, IndexLeftAt

(* One import at a time, whatever crashes and fails, the early return      *)
(* between the renames and removals that stop included: as long as there   *)
(* is a whole index at the live path or moved aside, only a cleanup can    *)
(* change that.                                                            *)
THEOREM IndexIsKept == ~OverlappingImports => (Spec => OnlyCleanupLosesTheIndex)
<1> SUFFICES ASSUME ~OverlappingImports PROVE Spec => OnlyCleanupLosesTheIndex
  OBVIOUS
<1>1. IInv /\ Keeps /\ [Next]_vars => Keeps'
  <2> SUFFICES ASSUME IInv, Keeps, [Next]_vars PROVE Keeps'
    OBVIOUS
  <2>1. CASE UNCHANGED vars
    BY <2>1 DEF vars, Keeps, KeepsOf
  <2> QED BY <2>1, ImporterKeepsKeeps, EngineKeepsKeeps DEF Next
<1>2. IInv /\ Keeps /\ [Next]_vars =>
          [IndexIsLeft => IndexIsLeft' \/ \E i \in Importers : pc[i] = "cleanup"]_vars
  BY ImporterKeepsIndex, EngineKeepsIndex DEF Next
<1> QED BY <1>1, <1>2, InitKeeps, SequentialInv, PTL DEF Spec, OnlyCleanupLosesTheIndex
-----------------------------------------------------------------------------
(***************************************************************************)
(* Every import comes to an end.  Ahead orders its control points by the   *)
(* steps that may be ahead; between two of them the siblings still to be   *)
(* visited, and then the entries still to be unlinked, become fewer.  None *)
(* of this supposes that imports do not overlap.                           *)
(***************************************************************************)
Ahead == [idle |-> 18, cleanup |-> 17, extract |-> 16, places |-> 15,
          text |-> 14, spatial |-> 13, manifest |-> 12, check |-> 11,
          open |-> 10, trylock |-> 9, recheck |-> 8, aside |-> 7, swap |-> 6,
          rollback |-> 5, dropobs |-> 4, exit |-> 3, discard |-> 2,
          fail |-> 1, done |-> 0, failed |-> 0, crashed |-> 0]

Fewer(S, T) == S \subseteq T /\ S # T

RemovalRunsDown(i) ==
    /\ rm[i].tree # None
    /\ \/ rm'[i].tree = None
       \/ rm'[i].tree = rm[i].tree /\ Fewer(rm'[i].left, rm[i].left)

RunsDown(i) ==
    \/ Ahead[pc'[i]] < Ahead[pc[i]]
    \/ /\ pc'[i] = pc[i]
       /\ \/ Fewer(todo'[i], todo[i])
          \/ todo'[i] = todo[i] /\ RemovalRunsDown(i)

StaysPut(i) == UNCHANGED <<pc[i], todo[i], rm[i]>>

OwnStep(i) == ImportBegins(i) \/ ImporterStep(i) \/ ImportCrashes(i)

RunDown == \A i \in Importers : /\ OwnStep(i) => RunsDown(i)
                                /\ RunsDown(i) \/ StaysPut(i)

(* The lock file of an importer is open only while it publishes: an error  *)
(* path, a normal end and a death close it.                                *)
ClosedPcs == {"idle", "cleanup", "extract", "discard", "fail"} \cup IndexParts \cup Ended
LocksClosed == \A i \in Importers : pc[i] \in ClosedPcs \cup {"check", "open"} => fd[i] = NoFd

(* Whoever holds the lock an engine waits for is an import that runs.      *)
WaitsForRunning ==
    \A e \in Engines : pc[e] = "lock" =>
        \A i \in Importers : Holds(i) /\ fd[i] = fd[e] => Importing(i)

LEMMA RemovalLowers ==
    ASSUME TypeOK, NEW i \in Importers, Removal(i) PROVE RunsDown(i)
<1> USE DEF TypeOK, RunsDown, RemovalRunsDown, Fewer
<1>1. CASE RemoveEntry(i)
  BY <1>1 DEF RemoveEntry
<1>2. CASE RemoveRoot(i) \/ RemovalStops(i)
  BY <1>2 DEF RemoveRoot, RemovalStops, NoRemoval
<1> QED BY <1>1, <1>2 DEF Removal

LEMMA BuildLowers ==
    ASSUME TypeOK, NEW i \in Importers,
           \/ ImportBegins(i) \/ CleanupVisits(i) \/ CleanupEnds(i) \/ ImportRejected(i)
           \/ CreateStaging(i) \/ WritePart(i) \/ BuildFails(i) \/ DiscardStaging(i)
           \/ ImportSucceeds(i) \/ ImportFails(i) \/ ImportCrashes(i)
    PROVE  RunsDown(i)
<1> USE DEF TypeOK, Procs, Goto
<1>1. CASE CleanupVisits(i)
  BY <1>1 DEF CleanupVisits, RunsDown, Fewer
<1>2. CASE ImportBegins(i) \/ CleanupEnds(i)
  BY <1>2 DEF ImportBegins, CleanupEnds, RunsDown, Ahead
<1>3. CASE ImportRejected(i) \/ CreateStaging(i)
  BY <1>3 DEF ImportRejected, CreateStaging, RunsDown, Ahead
<1>4. CASE WritePart(i)
  <2>1. pc[i] \in IndexParts /\ pc'[i] = NextStage[pc[i]]
    BY <1>4 DEF WritePart
  <2> QED BY <2>1 DEF IndexParts, NextStage, RunsDown, Ahead
<1>5. CASE BuildFails(i)
  <2>1. pc[i] \in IndexParts \cup {"open"} /\ pc'[i] = "discard"
    BY <1>5 DEF BuildFails, IndexParts
  <2> QED BY <2>1 DEF IndexParts, RunsDown, Ahead
<1>6. CASE DiscardStaging(i) \/ ImportSucceeds(i) \/ ImportFails(i)
  BY <1>6 DEF DiscardStaging, ImportSucceeds, ImportFails, RunsDown, Ahead
<1>7. CASE ImportCrashes(i)
  <2>1. pc[i] \in ImporterPcs \ (Ended \cup {"idle"}) /\ pc'[i] = "crashed"
    BY <1>7 DEF ImportCrashes, Importing
  <2> QED BY <2>1 DEF ImporterPcs, Ended, RunsDown, Ahead
<1> QED BY <1>1, <1>2, <1>3, <1>4, <1>5, <1>6, <1>7

LEMMA PublishLowers ==
    ASSUME TypeOK, NEW i \in Importers, Publish(i) PROVE RunsDown(i)
<1> USE DEF TypeOK, Procs, Goto
<1>1. CASE \/ CheckTarget(i) \/ OpenExclusive(i) \/ TryLock(i) \/ TryLockRefused(i)
           \/ Recheck(i)
  BY <1>1 DEF CheckTarget, OpenExclusive, TryLock, TryLockRefused, Recheck,
              RunsDown, Ahead
<1>2. CASE MoveAside(i) \/ MoveAsideFails(i) \/ ParentFails(i)
  BY <1>2 DEF MoveAside, MoveAsideFails, ParentFails, RunsDown, Ahead
<1>3. CASE Swap(i) \/ SwapFails(i) \/ Rollback(i) \/ RollbackFails(i) \/ DropObsolete(i)
  BY <1>3 DEF Swap, SwapFails, Rollback, RollbackFails, DropObsolete, RunsDown, Ahead
<1> QED BY <1>1, <1>2, <1>3 DEF Publish

LEMMA OwnStepLowers ==
    ASSUME TypeOK, NEW i \in Importers, OwnStep(i) PROVE RunsDown(i)
BY RemovalLowers, BuildLowers, PublishLowers DEF OwnStep, ImporterStep

(* An import has its control point, its list of siblings and its removal   *)
(* to itself.                                                              *)
LEMMA OthersStayPut ==
    ASSUME TypeOK, NEW i \in Importers, OwnStep(i), NEW j \in Importers, j # i
    PROVE  StaysPut(j) /\ fd'[j] = fd[j]
<1> USE DEF TypeOK, Procs, Goto, DropFd, StaysPut
<1>1. CASE Removal(i)
  BY <1>1 DEF Removal, RemoveEntry, RemoveRoot, RemovalStops
<1>2. CASE Publish(i)
  BY <1>2 DEF Publish, CheckTarget, OpenExclusive, OpenLock, TryLock, TryLockRefused,
     Recheck, MoveAside, MoveAsideFails, ParentFails, Swap, SwapFails, Rollback,
     RollbackFails, DropObsolete
<1>3. CASE \/ ImportBegins(i) \/ CleanupVisits(i) \/ CleanupEnds(i) \/ ImportRejected(i)
           \/ CreateStaging(i) \/ WritePart(i) \/ BuildFails(i) \/ DiscardStaging(i)
           \/ ImportSucceeds(i) \/ ImportFails(i) \/ ImportCrashes(i)
  BY <1>3 DEF ImportBegins, CleanupVisits, CleanupEnds, ImportRejected, CreateStaging,
     WritePart, BuildFails, DiscardStaging, ImportSucceeds, ImportFails, ImportCrashes
<1> QED BY <1>1, <1>2, <1>3 DEF OwnStep, ImporterStep

LEMMA EnginesLeaveImports ==
    ASSUME TypeOK, NEW e \in Engines, OpenShared(e) \/ EngineStep(e) \/ EngineCloses(e),
           NEW j \in Importers
    PROVE  StaysPut(j) /\ fd'[j] = fd[j]
BY DEF TypeOK, Procs, Goto, DropFd, StaysPut, OpenShared, OpenLock, EngineStep,
   LockShared, OpenPart, EngineCloses

(* No import goes on for ever, whatever the other processes do: every step *)
(* of its own takes it nearer to its end, by its control point, by the     *)
(* siblings it has to visit or by the entries it has to unlink, and no     *)
(* step of anybody else takes it back.                                     *)
THEOREM ImportsRunDown == Spec => [][RunDown]_vars
<1>1. TypeOK /\ [Next]_vars => [RunDown]_vars
  <2> SUFFICES ASSUME TypeOK, Next PROVE RunDown
    OBVIOUS
  <2>1. ASSUME NEW i \in Importers, OwnStep(i)
        PROVE  \A j \in Importers : RunsDown(j) \/ StaysPut(j)
    BY <2>1, OwnStepLowers, OthersStayPut
  <2>2. ASSUME NEW e \in Engines, OpenShared(e) \/ EngineStep(e) \/ EngineCloses(e)
        PROVE  \A j \in Importers : RunsDown(j) \/ StaysPut(j)
    BY <2>2, EnginesLeaveImports
  <2> QED BY <2>1, <2>2, OwnStepLowers DEF Next, OwnStep, RunDown
<1> QED BY <1>1, TypeCorrect, PTL DEF Spec

LEMMA NextClosesLocks == TypeOK /\ LocksClosed /\ [Next]_vars => LocksClosed'
<1> SUFFICES ASSUME TypeOK, LocksClosed, [Next]_vars PROVE LocksClosed'
  OBVIOUS
<1>1. ASSUME NEW i \in Importers, OwnStep(i) PROVE LocksClosed'
  <2> USE DEF TypeOK, Procs, Goto, DropFd, LocksClosed, ClosedPcs, Ended, IndexParts
  <2>1. CASE Removal(i)
    BY <1>1, <2>1 DEF Removal, RemoveEntry, RemoveRoot, RemovalStops
  <2>2. CASE \/ CheckTarget(i) \/ TryLock(i) \/ Recheck(i) \/ MoveAside(i) \/ Swap(i)
             \/ SwapFails(i) \/ DropObsolete(i)
    BY <1>1, <2>2 DEF CheckTarget, TryLock, Recheck, MoveAside, Swap, SwapFails,
       DropObsolete
  <2>3. CASE \/ TryLockRefused(i) \/ MoveAsideFails(i) \/ ParentFails(i) \/ Rollback(i)
             \/ RollbackFails(i) \/ ImportSucceeds(i) \/ ImportCrashes(i)
    BY <1>1, <2>3 DEF TryLockRefused, MoveAsideFails, ParentFails, Rollback,
       RollbackFails, ImportSucceeds, ImportCrashes
  <2>4. CASE OpenExclusive(i)
    BY <1>1, <2>4 DEF OpenExclusive, OpenLock
  <2>5. CASE \/ ImportBegins(i) \/ CleanupVisits(i) \/ CleanupEnds(i) \/ ImportRejected(i)
             \/ CreateStaging(i) \/ DiscardStaging(i) \/ ImportFails(i)
    BY <1>1, <2>5 DEF ImportBegins, CleanupVisits, CleanupEnds, ImportRejected,
       CreateStaging, DiscardStaging, ImportFails
  <2>6. CASE WritePart(i) \/ BuildFails(i)
    <3>1. pc[i] \in ClosedPcs \cup {"check", "open"} /\ fd' = fd
          /\ pc' = [pc EXCEPT ![i] = pc'[i]]
      BY <2>6 DEF WritePart, BuildFails
    <3> QED BY <3>1
  <2> QED BY <1>1, <2>1, <2>2, <2>3, <2>4, <2>5, <2>6 DEF OwnStep, ImporterStep, Publish
<1>2. ASSUME NEW e \in Engines, OpenShared(e) \/ EngineStep(e) \/ EngineCloses(e)
      PROVE  LocksClosed'
  BY <1>2, EnginesLeaveImports DEF LocksClosed, StaysPut
<1>3. CASE UNCHANGED vars
  BY <1>3 DEF vars, LocksClosed
<1> QED BY <1>1, <1>2, <1>3 DEF Next, OwnStep

(* An engine that is kept waiting for the shared flock waits for an import *)
(* that runs, and ImportsRunDown says that it does not run for ever: none  *)
(* that returned or died still holds a lock file.                          *)
THEOREM NobodyWaitsForTheDead == Spec => [](LocksClosed /\ WaitsForRunning)
<1>1. Init => LocksClosed
  BY DEF Init, LocksClosed, Procs
<1>2. LocksClosed => WaitsForRunning
  BY DEF LocksClosed, WaitsForRunning, Holds, Importing, ClosedPcs
<1> QED BY <1>1, <1>2, NextClosesLocks, TypeCorrect, PTL DEF Spec
=============================================================================
