----------------------------- MODULE Deployment -----------------------------
(***************************************************************************)
(* `hexplace serve` beside `hexplace import` on one data directory: the    *)
(* server of Server is an engine of DataDir.  run_serve opens the engine   *)
(* first, then listens.  The router's state and every bulk job own a       *)
(* handle (Arc) of the engine; the shared flock and the maps go with the   *)
(* last handle, so a shutdown gives the directory back to the importers    *)
(* only when the jobs it cannot stop are over.  Processes may be killed,   *)
(* and the server may be started again, for other clients.                 *)
(***************************************************************************)
EXTENDS Server

CONSTANTS
    Srv,           \* the server process
    Importers, Old, None, InitialParts, PlaceCount, OverlappingImports,
    ParentListable, UnlinkOrder, Faults     \* as in DataDir

VARIABLES dir, parts, lockNo, pc, fd, todo, rm, seen

Dir == INSTANCE DataDir WITH Engines <- {Srv}

(* What DataDir asks of its constants.                                     *)
ASSUME DirAssumption ==
    /\ Dir!ProcsAssumption /\ Dir!PlaceCountAssumption /\ Dir!ModeAssumption
    /\ Dir!InitialPartsAssumption /\ Dir!UnlinkOrderAssumption

dirVars == <<dir, parts, lockNo, pc, fd, todo, rm, seen>>
allVars == <<server, request, job, dirVars>>

Up == pc[Srv] = "serving"
Alive == Up \/ server = "closing"

DirOnly(A) == A /\ UNCHANGED vars
ServerOnly(A) == A /\ UNCHANGED dirVars
-----------------------------------------------------------------------------
(* The process starts: the engine is opened before there is a listener.    *)
Start ==
    /\ server # "closing"
    /\ Dir!OpenShared(Srv)
    /\ server' = "serving"
    /\ request' = [r \in Requests |-> "unsent"]
    /\ job' = [r \in Requests |-> "none"]

(* Engine::open returns an error, and the process ends with it.            *)
OpenFails == ~Up /\ DirOnly(Dir!EngineCloses(Srv))

Handles(r) ==
    /\ Up
    /\ ServerOnly(Client(r) \/ Handler(r) \/ JobStarts(r))

JobRuns(r) == Alive /\ ServerOnly(JobEnds(r))

Signalled == Up /\ ServerOnly(SignalReceived)

Returns == Up /\ ServerOnly(ServeReturns)

(* serve has dropped the router; the last handle closes the engine.        *)
(* Mutant: jobs borrow the engine of the router instead of owning it.      *)
LastHandleDropped_WithRouter ==
    /\ Up /\ server = "closing"
    /\ DirOnly(Dir!EngineCloses(Srv))

LastHandleDropped ==
    /\ Up /\ server = "closing"
    /\ Jobs({"queued", "running"}) = {}
    /\ DirOnly(Dir!EngineCloses(Srv))

Exits == ~Up /\ ServerOnly(Exit)

(* The process is killed, or cannot bind: its clients see a reset, its     *)
(* threads stop where they are, the kernel releases the lock.              *)
Killed ==
    /\ Up
    /\ Dir!EngineCloses(Srv)
    /\ server' = "exited"
    /\ request' = [r \in Requests |-> IF request[r] \in Open THEN "gone" ELSE request[r]]
    /\ job' = [r \in Requests |-> "none"]
-----------------------------------------------------------------------------
SystemInit == Init /\ Dir!Init

Shutdown == Returns \/ LastHandleDropped \/ Exits

SystemNext ==
    \/ \E i \in Importers :
           DirOnly(Dir!ImportBegins(i) \/ Dir!ImporterStep(i) \/ Dir!ImportCrashes(i))
    \/ Start \/ DirOnly(Dir!EngineStep(Srv)) \/ OpenFails
    \/ \E r \in Requests : Handles(r) \/ JobRuns(r)
    \/ Signalled \/ Shutdown \/ Killed

SystemSpec == SystemInit /\ [][SystemNext]_allVars

(* Processes that can run do; handlers are polled, timers fire, and a job *)
(* that runs ends (BatchPool).  Nothing is asked of operators, of clients, *)
(* of signals, or of jobs in the queue.                                    *)
SystemFairness ==
    /\ \A i \in Importers : WF_allVars(DirOnly(Dir!ImporterStep(i)))
    /\ WF_allVars(DirOnly(Dir!EngineStep(Srv)))
    /\ \A r \in Requests : /\ WF_allVars(Up /\ ServerOnly(Handler(r)))
                           /\ WF_allVars(JobRuns(r))
    /\ WF_allVars(Shutdown)

FairSystemSpec == SystemSpec /\ SystemFairness
-----------------------------------------------------------------------------
(* What a request or a job reads stays where it was opened: as long as the *)
(* engine is up, or a job runs that nobody waits for any more, draining or *)
(* closing, no import takes the tree away from the live path.              *)
UseKeepsTree ==
    [][Up \/ Jobs({"running"}) # {} => dir'[Dir!Live] = dir[Dir!Live]]_allVars

(* The properties of DataDir that one import keeps, with a real server as  *)
(* its engine; DataDir and Server say what they mean.                      *)
OneGeneration == Dir!OneGeneration
EndedImportLeavesNoSibling == Dir!EndedImportLeavesNoSibling
LiveReturns == Dir!LiveReturns
=============================================================================
