----------------------------- MODULE BatchPool -----------------------------
(***************************************************************************)
(* One call of Engine::batch or Engine::reverse_bulk (hexplace-engine/src/ *)
(* service.rs): the items are cut into contiguous chunks, a scoped thread  *)
(* works through each chunk, and the caller joins the threads in order and *)
(* puts their results at the positions of their items.  Both functions     *)
(* have the same pool; they differ in what processing one item means.      *)
(*                                                                         *)
(* An item is known by its position, counted from 1, and by the outcome    *)
(* its processing has.  A RESULT says whose it is and what it reports.     *)
(***************************************************************************)
EXTENDS Naturals, Sequences, FiniteSets

CONSTANTS
    Requests,      \* the calls: sequences over Outcomes
    MaxItems,      \* Engine::MAX_BATCH_ITEMS
    Parallelism,   \* values available_parallelism may have, 1 when it fails
    SpawnMayFail   \* TRUE: the system may refuse a thread

Outcomes == {"hits", "error", "panic"}
Reports == {"hits", "error", "panicked"}

ASSUME RequestsAssumption == Requests \subseteq Seq(Outcomes)
ASSUME MaxItemsAssumption == MaxItems \in Nat \ {0}
ASSUME ParallelismAssumption == Parallelism \subseteq Nat \ {0}
ASSUME SpawnMayFailAssumption == SpawnMayFail \in BOOLEAN

Ends == {"rejected", "answered", "aborted"}
CallerPcs == {"check", "spawn", "join", "answer", "unwind"} \cup Ends
WorkerStates == {"running", "returned", "panicked"}

NoResult == [of |-> 0, what |-> "hits"]

VARIABLES
    request,  \* the items of the call
    cores,    \* what available_parallelism says
    pc,       \* control point of the calling thread
    worker,   \* worker[k]: state of the k-th spawned thread
    local,    \* local[k]: the results it has collected
    joined,   \* how many threads were joined
    slots,    \* slots[i]: the result for item i, or NoResult
    answer    \* the response

vars == <<request, cores, pc, worker, local, joined, slots, answer>>

Size == Len(request)
Items == 1 .. Size

Least(a, b) == IF a <= b THEN a ELSE b
CeilDiv(a, b) == (a + b - 1) \div b

(* worker_count: at least one thread and never more than there are items.  *)
Workers == IF Size = 0 THEN 1 ELSE Least(cores, Size)

(* Mutant: the division that sizes the chunks rounds down.                 *)
ChunkSize_RoundsDown == Size \div Workers
ChunkSize == CeilDiv(Size, Workers)

(* slice::chunks: the items of the k-th chunk.  The last one may be short,  *)
(* and rounding up may leave fewer chunks than Workers.                    *)
Chunks == CeilDiv(Size, ChunkSize)
First(k) == (k - 1) * ChunkSize + 1
Chunk(k) == First(k) .. Least(k * ChunkSize, Size)

(* The slots the caller computes for it.  Mutant: they are one too far.    *)
Start_OneTooFar(k) == (k - 1) * ChunkSize + 2
Start(k) == (k - 1) * ChunkSize + 1
SlotsOf(k) == Start(k) .. Start(k) + Cardinality(Chunk(k)) - 1

Spawned == Len(worker)
Running == {k \in 1 .. Spawned : worker[k] = "running"}
-----------------------------------------------------------------------------
CheckLimits ==
    /\ pc = "check"
    /\ pc' = IF Size = 0 \/ Size > MaxItems THEN "rejected" ELSE "spawn"
    /\ slots' = IF pc' = "spawn" THEN [i \in Items |-> NoResult] ELSE slots
    /\ UNCHANGED <<request, cores, worker, local, joined, answer>>

Spawn ==
    /\ pc = "spawn"
    /\ worker' = Append(worker, "running")
    /\ local' = Append(local, <<>>)
    /\ pc' = IF Spawned + 1 = Chunks THEN "join" ELSE "spawn"
    /\ UNCHANGED <<request, cores, joined, slots, answer>>

(* Mutant: a thread that cannot be had ends the call at once.              *)
SpawnFails_Detaches ==
    /\ SpawnMayFail
    /\ pc = "spawn"
    /\ pc' = "aborted"
    /\ UNCHANGED <<request, cores, worker, local, joined, slots, answer>>

(* Scope::spawn panics when the system has no thread to give, ...          *)
SpawnFails ==
    /\ SpawnMayFail
    /\ pc = "spawn"
    /\ pc' = "unwind"
    /\ UNCHANGED <<request, cores, worker, local, joined, slots, answer>>

(* ... and thread::scope waits for the others before it panics too.        *)
Unwind ==
    /\ pc = "unwind" /\ Running = {}
    /\ pc' = "aborted"
    /\ UNCHANGED <<request, cores, worker, local, joined, slots, answer>>

(* A thread processes its items in order; process_item and                 *)
(* reverse_one_bulk_hit turn an error into a result.  A panic takes the    *)
(* thread down with the results it had collected.                          *)
(* Mutant: a panic is taken for a result.                                  *)
ProcessItem_NoUnwind(k) ==
    LET i == First(k) + Len(local[k])
    IN  /\ k \in Running
        /\ local' = [local EXCEPT ![k] =
                         Append(@, [of |-> i, what |-> request[i]])]
        /\ worker' = IF i + 1 \in Chunk(k) THEN worker
                     ELSE [worker EXCEPT ![k] = "returned"]
        /\ UNCHANGED <<request, cores, pc, joined, slots, answer>>

ProcessItem(k) ==
    LET i == First(k) + Len(local[k])
    IN  /\ k \in Running
        /\ IF request[i] = "panic"
           THEN /\ worker' = [worker EXCEPT ![k] = "panicked"]
                /\ local' = [local EXCEPT ![k] = <<>>]
           ELSE /\ local' = [local EXCEPT ![k] =
                                 Append(@, [of |-> i, what |-> request[i]])]
                /\ worker' = IF i + 1 \in Chunk(k) THEN worker
                             ELSE [worker EXCEPT ![k] = "returned"]
        /\ UNCHANGED <<request, cores, pc, joined, slots, answer>>

(* fill_slots_from_joins: the slots after thread k was joined.             *)
(* Mutant: a panicked thread's error is put in its first slot only.        *)
Filled_FirstOnly(k) ==
    LET got == Start(k) .. Start(k) + Len(local[k]) - 1
        lost == IF worker[k] = "panicked" THEN {Start(k)} ELSE {}
    IN  [i \in Items |->
            CASE i \in got -> local[k][i + 1 - Start(k)]
              [] i \in lost -> [of |-> i, what |-> "panicked"]
              [] OTHER -> slots[i]]

Filled(k) ==
    LET got == Start(k) .. Start(k) + Len(local[k]) - 1
        lost == IF worker[k] = "panicked" THEN SlotsOf(k) ELSE {}
    IN  [i \in Items |->
            CASE i \in got -> local[k][i + 1 - Start(k)]
              [] i \in lost -> [of |-> i, what |-> "panicked"]
              [] OTHER -> slots[i]]

(* Mutant: the caller waits for a result only.                             *)
Join_AwaitsResult ==
    /\ pc = "join"
    /\ joined' = joined + 1
    /\ worker[joined'] = "returned"
    /\ slots' = Filled(joined')
    /\ pc' = IF joined' = Chunks THEN "answer" ELSE "join"
    /\ UNCHANGED <<request, cores, worker, local, answer>>

Join ==
    /\ pc = "join"
    /\ joined' = joined + 1
    /\ worker[joined'] # "running"
    /\ slots' = Filled(joined')
    /\ pc' = IF joined' = Chunks THEN "answer" ELSE "join"
    /\ UNCHANGED <<request, cores, worker, local, answer>>

(* A slot nobody filled would be answered as a panicked one.               *)
Answer ==
    /\ pc = "answer"
    /\ answer' = [i \in Items |-> IF slots[i] = NoResult
                                  THEN [of |-> i, what |-> "panicked"]
                                  ELSE slots[i]]
    /\ pc' = "answered"
    /\ UNCHANGED <<request, cores, worker, local, joined, slots>>
-----------------------------------------------------------------------------
Init ==
    /\ request \in Requests
    /\ cores \in Parallelism
    /\ pc = "check"
    /\ worker = <<>> /\ local = <<>> /\ joined = 0
    /\ slots = <<>> /\ answer = <<>>

Caller == CheckLimits \/ Spawn \/ SpawnFails \/ Unwind \/ Join \/ Answer

Next == Caller \/ \E k \in Running : ProcessItem(k)

Spec == Init /\ [][Next]_vars

(* Threads are scheduled, and processing one item ends.                    *)
Fairness ==
    /\ WF_vars(Caller)
    /\ \A k \in 1 .. MaxItems : WF_vars(ProcessItem(k))

FairSpec == Spec /\ Fairness
-----------------------------------------------------------------------------
TypeOK ==
    /\ request \in Seq(Outcomes) /\ cores \in Nat \ {0}
    /\ pc \in CallerPcs
    /\ worker \in Seq(WorkerStates)
    /\ local \in Seq(Seq([of : Nat, what : Reports]))
    /\ Len(local) = Spawned
    /\ joined \in 0 .. Spawned
    /\ slots \in Seq([of : Nat, what : Reports])
    /\ answer \in Seq([of : Nat, what : Reports])

(* The response has one result per item, in the order of the items, and it *)
(* is the item's own, unless an item of its chunk panicked: then the whole *)
(* chunk, and no other, reports the panic.                                 *)
Expected(i) ==
    LET k == CHOOSE c \in 1 .. Chunks : i \in Chunk(c)
    IN  [of |-> i, what |-> IF \E j \in Chunk(k) : request[j] = "panic"
                            THEN "panicked" ELSE request[i]]

AnswersEveryItem == pc = "answered" => answer = [i \in Items |-> Expected(i)]

(* The joins leave no slot open, so that the fallback for an empty slot is *)
(* never what a client sees.                                               *)
EverySlotFilled == pc = "answer" => \A i \in Items : slots[i].of # 0

(* The threads borrow the request and the engine: none of them runs once   *)
(* the call has returned or panicked.                                      *)
NoThreadOutlivesCall == pc \in Ends => Running = {}

(* There are never more threads than cores or items, and none is started   *)
(* for an empty chunk.                                                     *)
ThreadsAreUseful ==
    /\ Spawned <= cores /\ Spawned <= Size
    /\ \A k \in 1 .. Spawned : Chunk(k) # {}

(* Every call ends, whatever its items do and however few threads the      *)
(* system gives.                                                           *)
CallEnds == <>(pc \in Ends)
=============================================================================
