-------------------------- MODULE DeploymentProofs --------------------------
(***************************************************************************)
(* What the shutdown of `hexplace serve` leaves behind, for any number of  *)
(* requests, threads and blocking threads; and the server with the imports *)
(* beside it: what is proved about Server and about DataDir carries over to*)
(* the deployment, and the tree a server has opened stays at the live path *)
(* until the last bulk job is over, whatever fails in the imports.         *)
(***************************************************************************)
EXTENDS Deployment, TLAPS

(* Once serve has returned nobody is let in any more, and the queue is     *)
(* empty; a job is cancelled only then.                                    *)
Drained ==
    /\ server \in {"closing", "exited"} =>
         /\ \A r \in Requests : request[r] \notin Open
         /\ \A r \in Requests : job[r] # "queued"
    /\ server \in {"serving", "draining"} =>
         \A r \in Requests : job[r] # "cancelled"
    /\ server = "exited" => \A r \in Requests : job[r] # "running"

(* A job is there only once its body was read.                             *)
JobsHaveBodies ==
    \A r \in Requests : request[r] \in {"unsent", "reading"} => job[r] = "none"

IInv == TypeOK /\ Drained /\ JobsHaveBodies

LEMMA InitInv == Init => IInv
BY DEF Init, IInv, TypeOK, Drained, JobsHaveBodies, ServerStates,
       RequestStates, JobStates, Requests

(* The request of one client moves, and perhaps its job.                   *)
LEMMA ClientInv ==
    ASSUME IInv, NEW r \in Requests, Client(r) PROVE IInv'
BY RequestsAssumption DEF Client, Accept, Refuse, SpawnBlocking, BadBody,
   ClientLeaves, Becomes, IInv, TypeOK, Drained, JobsHaveBodies, Open, Ended,
   Answers, ServerStates, RequestStates, JobStates, Requests

LEMMA HandlerInv ==
    ASSUME IInv, NEW r \in Requests, Handler(r) PROVE IInv'
BY DEF Handler, Compute, Respond, TimeoutFires, Becomes, IInv, TypeOK,
   Drained, JobsHaveBodies, Open, Ended, Answers, ServerStates,
   RequestStates, JobStates, Requests

LEMMA JobInv ==
    ASSUME IInv, NEW r \in Requests, JobStarts(r) \/ JobEnds(r) PROVE IInv'
BY DEF JobStarts, JobEnds, IInv, TypeOK, Drained, JobsHaveBodies, Open,
   ServerStates, RequestStates, JobStates, Requests

LEMMA ShutdownInv ==
    ASSUME IInv, SignalReceived \/ ServeReturns \/ Exit PROVE IInv'
<1>1. CASE SignalReceived
  BY <1>1 DEF SignalReceived, IInv, TypeOK, Drained, JobsHaveBodies,
              ServerStates
<1>2. CASE ServeReturns
  BY <1>2 DEF ServeReturns, In, IInv, TypeOK, Drained, JobsHaveBodies, Open,
              ServerStates, RequestStates, JobStates, Requests
<1>3. CASE Exit
  BY <1>3 DEF Exit, Jobs, IInv, TypeOK, Drained, JobsHaveBodies, ServerStates
<1> QED BY <1>1, <1>2, <1>3

LEMMA NextInv == IInv /\ [Next]_vars => IInv'
<1> SUFFICES ASSUME IInv, [Next]_vars PROVE IInv'
  OBVIOUS
<1>1. CASE Next
  BY <1>1, ClientInv, HandlerInv, JobInv, ShutdownInv DEF Next
<1>2. CASE UNCHANGED vars
  BY <1>2 DEF vars, IInv, TypeOK, Drained, JobsHaveBodies
<1> QED BY <1>1, <1>2

(* The inductive invariant is one.                                         *)
THEOREM ServerInv == Spec => []IInv
BY InitInv, NextInv, PTL DEF Spec

(* TypeOK for every set of requests.                                       *)
THEOREM ServerTypeCorrect == Spec => []TypeOK
<1>1. IInv => TypeOK
  BY DEF IInv
<1> QED BY <1>1, ServerInv, PTL

(* Whatever the size of the pool, a shutdown cancels no job somebody waits *)
(* for.                                                                    *)
THEOREM NobodyLoses == Spec => []NobodyLosesItsJob
<1>1. IInv => NobodyLosesItsJob
  BY DEF IInv, TypeOK, Drained, NobodyLosesItsJob, ServerStates
<1> QED BY <1>1, ServerInv, PTL
-----------------------------------------------------------------------------
(* The server and the imports beside it.                                   *)

Index == INSTANCE DataDirProofs WITH Engines <- {Srv}

(* A job that is queued or runs owns a handle of the engine: it is up.     *)
JobsHaveEngine == \A r \in Requests : job[r] \in {"queued", "running"} => Up

DInv == IInv /\ JobsHaveEngine

USE DirAssumption

LEMMA ServerInit == SystemInit => DInv
BY InitInv DEF SystemInit, DInv, Init, JobsHaveEngine

(* While the engine is up the server takes its own steps.                  *)
LEMMA RequestsInv ==
    ASSUME DInv, NEW r \in Requests, Handles(r) \/ JobRuns(r) PROVE DInv'
<1>1. IInv'
  BY ClientInv, HandlerInv, JobInv DEF DInv, Handles, JobRuns, ServerOnly
<1>2. JobsHaveEngine'
  <2>1. UNCHANGED pc
    BY DEF Handles, JobRuns, ServerOnly, dirVars
  <2>2. CASE Handles(r)
    BY <2>1, <2>2 DEF Handles, JobsHaveEngine, Up
  <2>3. CASE JobRuns(r)
    BY <2>1, <2>3 DEF JobRuns, ServerOnly, JobEnds, DInv, JobsHaveEngine, Up, IInv, TypeOK
  <2> QED BY <2>2, <2>3
<1> QED BY <1>1, <1>2 DEF DInv

LEMMA ShutdownKeepsInv == ASSUME DInv, Signalled \/ Shutdown PROVE DInv'
<1>1. CASE Signalled \/ Returns \/ Exits
  <2>1. IInv' /\ UNCHANGED pc
    BY <1>1, ShutdownInv DEF DInv, Signalled, Returns, Exits, ServerOnly, dirVars
  <2>2. \A r \in Requests : job'[r] \in {"queued", "running"} => job'[r] = job[r]
    BY <1>1 DEF Signalled, Returns, Exits, ServerOnly, SignalReceived, ServeReturns, Exit,
                DInv, IInv, TypeOK
  <2> QED BY <2>1, <2>2 DEF DInv, JobsHaveEngine, Up
<1>2. CASE LastHandleDropped
  <2>1. UNCHANGED vars /\ Jobs({"queued", "running"}) = {}
    BY <1>2 DEF LastHandleDropped, DirOnly
  <2>2. IInv'
    BY <2>1, NextInv DEF DInv
  <2> QED BY <2>1, <2>2 DEF DInv, JobsHaveEngine, Jobs, vars
<1> QED BY <1>1, <1>2 DEF Shutdown

(* A process that starts has no requests; one that is killed has none left. *)
LEMMA ProcessInv == ASSUME DInv, Start \/ Killed PROVE DInv'
<1>1. CASE Start
  BY <1>1 DEF Start, DInv, IInv, TypeOK, Drained, JobsHaveBodies, JobsHaveEngine,
     ServerStates, RequestStates, JobStates, Requests, Open
<1>2. CASE Killed
  BY <1>2 DEF Killed, DInv, IInv, TypeOK, Drained, JobsHaveBodies, JobsHaveEngine,
     ServerStates, RequestStates, JobStates, Requests, Open, Ended, Answers
<1> QED BY <1>1, <1>2

(* The importers, and an engine that is not up, leave the requests alone.  *)
LEMMA DirStepInv ==
    ASSUME DInv, UNCHANGED vars, Up => Up' PROVE DInv'
<1>1. IInv'
  BY NextInv DEF DInv
<1> QED BY <1>1 DEF DInv, JobsHaveEngine, vars

LEMMA ImporterLeavesServer ==
    ASSUME Dir!TypeOK, NEW i \in Importers,
           Dir!ImportBegins(i) \/ Dir!ImporterStep(i) \/ Dir!ImportCrashes(i)
    PROVE  pc'[Srv] = pc[Srv]
<1>1. i # Srv
  BY DEF Dir!ProcsAssumption
<1>2. CASE \/ Dir!Removal(i) \/ Dir!CleanupVisits(i)
           \/ Dir!DropObsolete(i) \/ Dir!DiscardStaging(i)
  BY <1>1, <1>2
  DEF Dir!Removal, Dir!RemoveEntry, Dir!RemoveRoot, Dir!RemovalStops, Dir!CleanupVisits,
      Dir!DropObsolete, Dir!DiscardStaging, Dir!Goto, Dir!TypeOK, Dir!Procs
<1>3. CASE \/ Dir!ImportBegins(i) \/ Dir!ImportCrashes(i) \/ Dir!CleanupEnds(i)
           \/ Dir!ImportRejected(i) \/ Dir!CreateStaging(i) \/ Dir!WritePart(i)
           \/ Dir!BuildFails(i) \/ Dir!ImportSucceeds(i) \/ Dir!ImportFails(i)
  BY <1>1, <1>3
  DEF Dir!ImportBegins, Dir!ImportCrashes, Dir!CleanupEnds, Dir!ImportRejected,
      Dir!CreateStaging, Dir!WritePart, Dir!BuildFails, Dir!ImportSucceeds,
      Dir!ImportFails, Dir!Goto, Dir!TypeOK, Dir!Procs
<1>4. CASE Dir!Publish(i)
  BY <1>1, <1>4
  DEF Dir!Publish, Dir!CheckTarget, Dir!OpenExclusive, Dir!TryLock, Dir!TryLockRefused,
      Dir!Recheck, Dir!MoveAside, Dir!MoveAsideFails, Dir!ParentFails, Dir!Swap,
      Dir!SwapFails, Dir!Rollback, Dir!RollbackFails, Dir!DropObsolete, Dir!Goto,
      Dir!TypeOK, Dir!Procs
<1> QED BY <1>2, <1>3, <1>4 DEF Dir!ImporterStep

LEMMA NextDInv == ASSUME Dir!TypeOK, DInv, [SystemNext]_allVars PROVE DInv'
<1>1. ASSUME NEW i \in Importers,
             DirOnly(Dir!ImportBegins(i) \/ Dir!ImporterStep(i) \/ Dir!ImportCrashes(i))
      PROVE  DInv'
  BY <1>1, ImporterLeavesServer, DirStepInv DEF DirOnly, Up
<1>2. CASE DirOnly(Dir!EngineStep(Srv)) \/ OpenFails
  <2>1. UNCHANGED vars /\ ~Up
    BY <1>2 DEF DirOnly, OpenFails, Up, Dir!EngineStep, Dir!LockShared, Dir!OpenPart, Dir!Goto,
       Dir!IndexParts
  <2> QED BY <2>1, DirStepInv
<1>3. CASE UNCHANGED allVars
  BY <1>3, DirStepInv DEF allVars, dirVars, vars, Up
<1> QED BY <1>1, <1>2, <1>3, RequestsInv, ShutdownKeepsInv, ProcessInv DEF SystemNext

(* Deployment and the proofs about DataDir have an instance each; they are *)
(* the same.                                                               *)
LEMMA SameStep == Dir!Next <=> Index!Next
BY
   DEF Dir!Next, Index!Next, Dir!Trees, Index!Trees, Dir!Procs,
       Index!Procs, Dir!Live, Index!Live, Dir!Staging, Index!Staging,
       Dir!Obsolete, Index!Obsolete, Dir!Siblings, Index!Siblings,
       Dir!Paths, Index!Paths, Dir!IndexParts, Index!IndexParts,
       Dir!Parts, Index!Parts, Dir!Ended, Index!Ended, Dir!NoFd,
       Index!NoFd, Dir!NoRemoval, Index!NoRemoval, Dir!NothingSeen,
       Index!NothingSeen, Dir!Importing, Index!Importing, Dir!Holds,
       Index!Holds, Dir!HeldBy, Index!HeldBy, Dir!Goto, Index!Goto,
       Dir!DropFd, Index!DropFd, Dir!LiveReplaceable,
       Index!LiveReplaceable, Dir!Opened, Index!Opened, Dir!RemoveEntry,
       Index!RemoveEntry, Dir!RemoveRoot, Index!RemoveRoot,
       Dir!RemovalStops, Index!RemovalStops, Dir!Removal, Index!Removal,
       Dir!ImportBegins, Index!ImportBegins, Dir!CleanupVisits,
       Index!CleanupVisits, Dir!CleanupEnds, Index!CleanupEnds,
       Dir!ImportRejected, Index!ImportRejected, Dir!CreateStaging,
       Index!CreateStaging, Dir!NextStage, Index!NextStage, Dir!WritePart,
       Index!WritePart, Dir!BuildFails, Index!BuildFails, Dir!OpenLock,
       Index!OpenLock, Dir!CheckTarget, Index!CheckTarget,
       Dir!OpenExclusive, Index!OpenExclusive, Dir!TryLock, Index!TryLock,
       Dir!TryLockRefused, Index!TryLockRefused, Dir!Recheck,
       Index!Recheck, Dir!MoveAside, Index!MoveAside, Dir!MoveAsideFails,
       Index!MoveAsideFails, Dir!ParentFails, Index!ParentFails,
       Dir!CanSwap, Index!CanSwap, Dir!Swap, Index!Swap, Dir!SwapFails,
       Index!SwapFails, Dir!CanRollback, Index!CanRollback, Dir!Rollback,
       Index!Rollback, Dir!RollbackFails, Index!RollbackFails,
       Dir!DropObsolete, Index!DropObsolete, Dir!ImportSucceeds,
       Index!ImportSucceeds, Dir!DiscardStaging, Index!DiscardStaging,
       Dir!ImportFails, Index!ImportFails, Dir!ImportCrashes,
       Index!ImportCrashes, Dir!OpenShared, Index!OpenShared,
       Dir!LockShared, Index!LockShared, Dir!NextPart, Index!NextPart,
       Dir!CanOpenPart, Index!CanOpenPart, Dir!OpenPart, Index!OpenPart,
       Dir!EngineCloses, Index!EngineCloses, Dir!Publish, Index!Publish,
       Dir!ImporterStep, Index!ImporterStep, Dir!EngineStep,
       Index!EngineStep

LEMMA SameAssumptions ==
    /\ Index!ProcsAssumption /\ Index!PlaceCountAssumption /\ Index!ModeAssumption
    /\ Index!InitialPartsAssumption /\ Index!UnlinkOrderAssumption
BY DirAssumption
   DEF Dir!ProcsAssumption, Index!ProcsAssumption, Dir!PlaceCountAssumption,
       Index!PlaceCountAssumption, Dir!ModeAssumption, Index!ModeAssumption,
       Dir!InitialPartsAssumption, Index!InitialPartsAssumption,
       Dir!UnlinkOrderAssumption, Index!UnlinkOrderAssumption, Dir!Procs,
       Index!Procs, Dir!Trees, Index!Trees, Dir!FaultKinds, Index!FaultKinds,
       Dir!Parts, Index!Parts, Dir!IndexParts, Index!IndexParts

LEMMA SameStart ==
    /\ Dir!Init <=> Index!Init
    /\ Dir!TypeOK <=> Index!TypeOK
    /\ Dir!vars = Index!vars /\ Dir!Live = Index!Live
BY
   DEF Dir!Init, Index!Init, Dir!TypeOK, Index!TypeOK, Dir!vars,
       Index!vars, Dir!Live, Index!Live, Dir!Trees, Index!Trees,
       Dir!Procs, Index!Procs, Dir!Paths, Index!Paths, Dir!Siblings,
       Index!Siblings, Dir!IndexParts, Index!IndexParts, Dir!Parts,
       Index!Parts, Dir!ImporterPcs, Index!ImporterPcs, Dir!EnginePcs,
       Index!EnginePcs, Dir!NoFd, Index!NoFd, Dir!NoRemoval,
       Index!NoRemoval, Dir!NothingSeen, Index!NothingSeen

(* Every step of the deployment is one of the data directory, or none.     *)
LEMMA DirStep ==
    ASSUME [SystemNext]_allVars PROVE [Index!Next]_(Index!vars)
<1>1. UNCHANGED dirVars => UNCHANGED Index!vars
  BY DEF dirVars, Index!vars
<1>2. ASSUME NEW i \in Importers,
             DirOnly(Dir!ImportBegins(i) \/ Dir!ImporterStep(i) \/ Dir!ImportCrashes(i))
      PROVE  Dir!Next
  BY <1>2 DEF Dir!Next, DirOnly
<1>3. CASE \/ Start \/ DirOnly(Dir!EngineStep(Srv)) \/ OpenFails
           \/ LastHandleDropped \/ Killed
  <2>1. Dir!OpenShared(Srv) \/ Dir!EngineStep(Srv) \/ Dir!EngineCloses(Srv)
    BY <1>3 DEF DirOnly, Start, OpenFails, LastHandleDropped, Killed
  <2>2. Dir!Next
    BY <2>1 DEF Dir!Next
  <2> QED BY <2>2, SameStep
<1>4. ASSUME NEW r \in Requests, Handles(r) \/ JobRuns(r) PROVE UNCHANGED dirVars
  BY <1>4 DEF Handles, JobRuns, ServerOnly
<1>5. CASE Signalled \/ Returns \/ Exits
  BY <1>1, <1>5 DEF Signalled, Returns, Exits, ServerOnly
<1>6. CASE UNCHANGED allVars
  BY <1>1, <1>6 DEF allVars
<1> QED BY <1>1, <1>2, <1>3, <1>4, <1>5, <1>6, SameStep DEF SystemNext, Shutdown

(* A deployment is a data directory whose engine happens to serve HTTP:    *)
(* what is proved about DataDir holds for it.                              *)
THEOREM ImplementsDataDir == SystemSpec => Index!Spec
<1>1. SystemInit => Index!Init
  BY SameStart DEF SystemInit
<1>2. [SystemNext]_allVars => [Index!Next]_(Index!vars)
  BY DirStep
<1> QED BY <1>1, <1>2, PTL DEF SystemSpec, Index!Spec

(* The invariants of the parts hold in the whole.                          *)
LEMMA AlwaysDInv == SystemSpec => []DInv
<1>1. DInv /\ Index!TypeOK /\ [SystemNext]_allVars => DInv'
  BY NextDInv, SameStart
<1>2. Index!Spec => []Index!TypeOK
  BY Index!TypeCorrect, SameAssumptions
<1>3. SystemInit => DInv
  BY ServerInit
<1> QED BY <1>1, <1>2, <1>3, ImplementsDataDir, PTL DEF SystemSpec

LEMMA AlwaysIndexInv ==
    Index!AtMostOneImport /\ ~OverlappingImports =>
        (SystemSpec => [](Index!IInv /\ Index!OInv))
<1> SUFFICES ASSUME Index!AtMostOneImport, ~OverlappingImports
             PROVE  SystemSpec => [](Index!IInv /\ Index!OInv)
  OBVIOUS
<1>1. Index!Spec => [](Index!IInv /\ Index!OInv)
  BY Index!AlwaysOInv, SameAssumptions
<1> QED BY <1>1, ImplementsDataDir, PTL
-----------------------------------------------------------------------------
(* The types of the server's state, through kills and restarts too.        *)
THEOREM DeploymentTypes == SystemSpec => []TypeOK
<1>1. DInv => TypeOK
  BY DEF DInv, IInv
<1> QED BY <1>1, AlwaysDInv, PTL

(* A shutdown beside imports, kills and restarts cancels no job that a     *)
(* client still waits for.                                                 *)
THEOREM NobodyLosesBesideImports == SystemSpec => []NobodyLosesItsJob
<1>1. DInv => NobodyLosesItsJob
  BY DEF DInv, IInv, TypeOK, Drained, NobodyLosesItsJob, ServerStates
<1> QED BY <1>1, AlwaysDInv, PTL

(* While the engine is up, or a bulk job runs for a client that may be     *)
(* gone, the one import beside it does not take the tree away from the     *)
(* live path.                                                              *)
THEOREM TreeStaysInUse ==
    Index!AtMostOneImport /\ ~OverlappingImports => (SystemSpec => UseKeepsTree)
<1> SUFFICES ASSUME Index!AtMostOneImport, ~OverlappingImports
             PROVE  SystemSpec => UseKeepsTree
  OBVIOUS
<1>1. DInv /\ Index!IInv /\ Index!OInv /\ [SystemNext]_allVars =>
          [Up \/ Jobs({"running"}) # {} => dir'[Dir!Live] = dir[Dir!Live]]_allVars
  <2> SUFFICES ASSUME DInv, Index!IInv, Index!OInv, [SystemNext]_allVars,
                      Up \/ Jobs({"running"}) # {}
               PROVE  dir'[Dir!Live] = dir[Dir!Live]
    OBVIOUS
  <2>1. pc[Srv] = "serving"
    BY DEF DInv, JobsHaveEngine, Jobs, Up
  <2>2. dir'[Index!Live] = dir[Index!Live]
    BY <2>1, DirStep, Index!OpenedKeepsLive, SameAssumptions
  <2> QED BY <2>2, SameStart DEF Dir!Live, Index!Live
<1> QED BY <1>1, AlwaysDInv, AlwaysIndexInv, PTL DEF SystemSpec, UseKeepsTree

(* A server that comes up beside one import has mapped one generation.     *)
THEOREM ServerMapsOneGeneration ==
    Index!AtMostOneImport /\ ~OverlappingImports => (SystemSpec => []OneGeneration)
<1> SUFFICES ASSUME Index!AtMostOneImport, ~OverlappingImports
             PROVE  SystemSpec => []OneGeneration
  OBVIOUS
<1>1. Index!Spec => []Index!OneGeneration
  BY Index!ServesOneGeneration, SameAssumptions
<1>2. Index!OneGeneration => OneGeneration
  BY DEF Index!OneGeneration, OneGeneration, Dir!OneGeneration, Dir!IndexParts,
         Index!IndexParts
<1> QED BY <1>1, <1>2, ImplementsDataDir, PTL

(* An import beside a server that returns has left no sibling, provided    *)
(* that removals and the rename back succeed and the parent can be made.   *)
THEOREM EndsTidyBesideServer ==
    Index!Clears => (SystemSpec => []EndedImportLeavesNoSibling)
<1> SUFFICES ASSUME Index!Clears PROVE SystemSpec => []EndedImportLeavesNoSibling
  OBVIOUS
<1>1. Index!Spec => []Index!EndedImportLeavesNoSibling
  BY Index!EndsTidy, SameAssumptions
<1>2. Index!EndedImportLeavesNoSibling => EndedImportLeavesNoSibling
  BY DEF Index!EndedImportLeavesNoSibling, EndedImportLeavesNoSibling,
         Dir!EndedImportLeavesNoSibling, Dir!Staging, Index!Staging,
         Dir!Obsolete, Index!Obsolete
<1> QED BY <1>1, <1>2, ImplementsDataDir, PTL
=============================================================================
