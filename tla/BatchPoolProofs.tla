-------------------------- MODULE BatchPoolProofs ---------------------------
(***************************************************************************)
(* Engine::batch and Engine::reverse_bulk for calls of any size, any number*)
(* of cores and any pattern of panics and refused threads.  No thread      *)
(* outlives its call; and every item gets its own answer: the chunks that  *)
(* rounding up leaves cover the items, each once, and what a thread        *)
(* collects ends up in the slots of its chunk.  Last, every step of a call *)
(* takes it nearer to its end, and until then somebody can step.           *)
(***************************************************************************)
EXTENDS BatchPool, FiniteSetTheorems, SequenceTheorems, TLAPS

(* How far the caller is with its threads.                                 *)
Threads ==
    /\ pc \in CallerPcs /\ worker \in Seq(WorkerStates) /\ joined \in Nat
    /\ pc \in {"check", "rejected"} => Spawned = 0
    /\ pc \in {"check", "spawn"} => joined = 0
    /\ pc = "join" => Spawned = Chunks /\ joined < Spawned
    /\ pc \in {"answer", "answered"} => joined = Spawned

(* A thread that was joined, or waited for by the scope, is over.          *)
Over ==
    /\ \A k \in 1 .. Spawned : k <= joined => worker[k] # "running"
    /\ pc = "aborted" => Running = {}

IInv == Threads /\ Over

(* The chunks of a call stay what they are.                                *)
LEMMA ChunksStay ==
    ASSUME UNCHANGED <<request, cores>> PROVE Chunks' = Chunks
BY DEF Chunks, ChunkSize, Workers, Size, CeilDiv, Least

LEMMA InitInv == Init => IInv
BY DEF Init, IInv, Threads, Over, CallerPcs, Spawned, Ends

LEMMA CheckLimitsInv == ASSUME IInv, CheckLimits PROVE IInv'
BY ChunksStay DEF IInv, Threads, Over, CheckLimits, Spawned, Running, CallerPcs, Ends

LEMMA SpawnInv == ASSUME IInv, Spawn PROVE IInv'
<1>1. /\ worker' \in Seq(WorkerStates) /\ Len(worker') = Len(worker) + 1
      /\ Len(worker) \in Nat /\ joined = 0 /\ joined' = 0
  BY DEF IInv, Threads, Spawn, WorkerStates
<1>2. Threads'
  BY <1>1, ChunksStay DEF IInv, Threads, Spawn, Spawned, CallerPcs
<1>3. Over'
  BY <1>1 DEF Over, Spawn
<1> QED BY <1>2, <1>3 DEF IInv

LEMMA RefusedInv == ASSUME IInv, SpawnFails \/ Unwind PROVE IInv'
<1>1. /\ UNCHANGED <<request, cores, worker, joined>>
      /\ pc' \in {"unwind", "aborted"}
      /\ pc' = "aborted" => Running = {}
  BY DEF SpawnFails, Unwind
<1> QED BY <1>1, ChunksStay DEF IInv, Threads, Over, Spawned, Running, CallerPcs, Ends

LEMMA JoinInv == ASSUME IInv, Join PROVE IInv'
<1>1. /\ joined' = joined + 1 /\ joined \in Nat /\ joined' \in 1 .. Spawned
      /\ worker[joined'] # "running" /\ worker' = worker /\ Spawned = Chunks
      /\ Spawned \in Nat
      /\ pc' = IF joined' = Chunks THEN "answer" ELSE "join"
  BY DEF IInv, Threads, Join, Spawned
<1>2. Chunks' = Chunks
  BY ChunksStay DEF Join
<1>3. Threads'
  BY <1>1, <1>2 DEF IInv, Threads, Spawned, CallerPcs
<1>4. Over'
  BY <1>1 DEF IInv, Threads, Over, Spawned
<1> QED BY <1>3, <1>4 DEF IInv

LEMMA AnswerInv == ASSUME IInv, Answer PROVE IInv'
BY ChunksStay DEF IInv, Threads, Over, Answer, Spawned, Running, CallerPcs, Ends

(* A thread changes its own state only, and never starts again.            *)
LEMMA ProcessItemInv ==
    ASSUME IInv, NEW k \in Running, ProcessItem(k) PROVE IInv'
<1>1. /\ worker' \in Seq(WorkerStates) /\ Len(worker') = Len(worker)
      /\ \A n \in 1 .. Spawned : worker'[n] = "running" => worker[n] = "running"
      /\ UNCHANGED <<request, cores, pc, joined>>
  BY DEF ProcessItem, IInv, Threads, Running, Spawned, WorkerStates
<1> QED BY <1>1, ChunksStay DEF IInv, Threads, Over, Spawned, Running

LEMMA NextInv == IInv /\ [Next]_vars => IInv'
<1> SUFFICES ASSUME IInv, [Next]_vars PROVE IInv'
  OBVIOUS
<1>1. CASE Caller
  BY <1>1, CheckLimitsInv, SpawnInv, RefusedInv, JoinInv, AnswerInv DEF Caller
<1>2. CASE \E k \in Running : ProcessItem(k)
  BY <1>2, ProcessItemInv
<1>3. CASE UNCHANGED vars
  BY <1>3, ChunksStay DEF vars, IInv, Threads, Over, Spawned, Running
<1> QED BY <1>1, <1>2, <1>3 DEF Next

(* When a call has returned, or has panicked, none of the threads that     *)
(* borrow the request and the engine runs.                                 *)
THEOREM ThreadsEnd == Spec => []NoThreadOutlivesCall
<1>1. IInv => NoThreadOutlivesCall
  BY DEF IInv, Threads, Over, NoThreadOutlivesCall, Ends, Running, Spawned
<1>2. IInv /\ [Next]_vars => IInv'
  BY NextInv
<1> QED BY <1>1, <1>2, InitInv, PTL DEF Spec
-----------------------------------------------------------------------------
(* The answers.                                                            *)

Last(k) == Least(k * ChunkSize, Size)

(* What the items of chunk k are answered.                                 *)
OfChunk(k, i) ==
    [of |-> i, what |-> IF \E j \in Chunk(k) : request[j] = "panic"
                        THEN "panicked" ELSE request[i]]
-----------------------------------------------------------------------------
(* Arithmetic of the chunks.                                               *)

LEMMA CeilDivBounds ==
    ASSUME NEW a \in Nat, NEW b \in Nat \ {0}
    PROVE  /\ CeilDiv(a, b) \in Nat
           /\ a <= CeilDiv(a, b) * b
           /\ (CeilDiv(a, b) - 1) * b < a
BY DEF CeilDiv

LEMMA TimesMonotone ==
    ASSUME NEW a \in Int, NEW b \in Int, NEW c \in Nat, a <= b
    PROVE  a * c <= b * c
OBVIOUS

LEMMA TimesCancels ==
    ASSUME NEW a \in Int, NEW b \in Int, NEW c \in Nat, a * c < b * c
    PROVE  a < b
BY TimesMonotone

LEMMA ChunkCounts ==
    ASSUME Size \in Nat \ {0}, cores \in Nat \ {0}
    PROVE  /\ Workers \in 1 .. Size /\ Workers <= cores
           /\ ChunkSize \in Nat \ {0} /\ Chunks \in Nat \ {0}
           /\ (Chunks - 1) * ChunkSize < Size /\ Size <= Chunks * ChunkSize
           /\ Chunks <= Workers
<1>1. Workers \in 1 .. Size /\ Workers <= cores
  BY DEF Workers, Least
<1>2. ChunkSize \in Nat /\ Size <= ChunkSize * Workers
  BY <1>1, CeilDivBounds DEF ChunkSize
<1>3. ChunkSize # 0
  BY <1>1, <1>2
<1>4. /\ Chunks \in Nat /\ (Chunks - 1) * ChunkSize < Size
      /\ Size <= Chunks * ChunkSize
  BY <1>2, <1>3, CeilDivBounds DEF Chunks
<1>5. Chunks # 0
  BY <1>2, <1>4
<1>6. (Chunks - 1) * ChunkSize < Workers * ChunkSize
  BY <1>1, <1>2, <1>4
<1>7. Chunks - 1 < Workers
  BY <1>1, <1>2, <1>4, <1>6, TimesCancels
<1> QED BY <1>1, <1>2, <1>3, <1>4, <1>5, <1>7

(* No chunk is empty, and its slots are those of its items.                *)
LEMMA ChunkShape ==
    ASSUME Size \in Nat \ {0}, cores \in Nat \ {0}, NEW k \in 1 .. Chunks
    PROVE  /\ First(k) \in Nat \ {0} /\ Last(k) \in Nat
           /\ First(k) <= Last(k) /\ Last(k) <= Size
           /\ Chunk(k) = First(k) .. Last(k)
           /\ Start(k) = First(k) /\ SlotsOf(k) = Chunk(k)
<1>1. /\ ChunkSize \in Nat \ {0} /\ Chunks \in Nat \ {0}
      /\ (Chunks - 1) * ChunkSize < Size
  BY ChunkCounts
<1>2. (k - 1) * ChunkSize <= (Chunks - 1) * ChunkSize
  BY <1>1, TimesMonotone
<1>3. (k - 1) * ChunkSize \in Nat /\ k * ChunkSize = (k - 1) * ChunkSize + ChunkSize
  BY <1>1
<1>4. /\ First(k) \in Nat \ {0} /\ Last(k) \in Nat
      /\ First(k) <= Last(k) /\ Last(k) <= Size
  BY <1>1, <1>2, <1>3 DEF First, Last, Least
<1>5. Chunk(k) = First(k) .. Last(k) /\ Start(k) = First(k)
  BY DEF Chunk, Last, Start, First
<1>6. Cardinality(Chunk(k)) = Last(k) - First(k) + 1
  BY <1>4, <1>5, FS_Interval
<1>7. SlotsOf(k) = Chunk(k)
  BY <1>4, <1>5, <1>6 DEF SlotsOf
<1> QED BY <1>4, <1>5, <1>7

LEMMA ChunksCover ==
    ASSUME Size \in Nat \ {0}, cores \in Nat \ {0}, NEW i \in Items
    PROVE  \E k \in 1 .. Chunks : i \in Chunk(k)
<1>1. ChunkSize \in Nat \ {0} /\ Chunks \in Nat \ {0} /\ Size <= Chunks * ChunkSize
  BY ChunkCounts
<1> DEFINE k == CeilDiv(i, ChunkSize)
<1>2. k \in Nat /\ i <= k * ChunkSize /\ (k - 1) * ChunkSize < i /\ i \in 1 .. Size
  BY <1>1, CeilDivBounds DEF Items
<1>3. k # 0
  BY <1>1, <1>2
<1>4. (k - 1) * ChunkSize < Chunks * ChunkSize
  BY <1>1, <1>2
<1>5. k - 1 < Chunks
  <2> HIDE DEF k
  <2> QED BY <1>1, <1>2, <1>4, TimesCancels
<1>6. k \in 1 .. Chunks
  BY <1>1, <1>2, <1>3, <1>5
<1>7. i \in Chunk(k)
  <2> HIDE DEF k
  <2> QED BY <1>1, <1>2 DEF Chunk, First, Least
<1> QED BY <1>6, <1>7

LEMMA ChunksApart ==
    ASSUME Size \in Nat \ {0}, cores \in Nat \ {0},
           NEW j \in 1 .. Chunks, NEW k \in 1 .. Chunks, NEW i,
           i \in Chunk(j), i \in Chunk(k)
    PROVE  j = k
<1>1. ChunkSize \in Nat \ {0} /\ Chunks \in Nat \ {0}
  BY ChunkCounts
<1>2. ASSUME NEW a \in 1 .. Chunks, NEW b \in 1 .. Chunks, a < b,
             i \in Chunk(a), i \in Chunk(b)
      PROVE  FALSE
  <2>1. a * ChunkSize <= (b - 1) * ChunkSize
    BY <1>1, <1>2, TimesMonotone
  <2>2. a * ChunkSize \in Nat /\ (b - 1) * ChunkSize \in Nat /\ i \in Int
    BY <1>1, <1>2 DEF Chunk
  <2>3. i <= a * ChunkSize /\ i >= (b - 1) * ChunkSize + 1
    BY <1>2, <2>2 DEF Chunk, First, Least, Size
  <2> QED BY <2>1, <2>2, <2>3
<1>3. ~ (j < k) /\ ~ (k < j)
  BY <1>2
<1> QED BY <1>1, <1>3

LEMMA ExpectedOfChunk ==
    ASSUME Size \in Nat \ {0}, cores \in Nat \ {0},
           NEW k \in 1 .. Chunks, NEW i, i \in Chunk(k)
    PROVE  Expected(i) = OfChunk(k, i)
<1> DEFINE c == CHOOSE d \in 1 .. Chunks : i \in Chunk(d)
<1>1. c \in 1 .. Chunks /\ i \in Chunk(c)
  OBVIOUS
<1>2. c = k
  BY <1>1, ChunksApart
<1> QED BY <1>2 DEF Expected, OfChunk
-----------------------------------------------------------------------------
(* The inductive invariant: where each thread is in its chunk and what it  *)
(* has collected, and what the slots of the joined chunks hold.            *)

Call ==
    /\ pc \notin {"check", "rejected"} => Size # 0 /\ Spawned <= Chunks
    /\ pc = "spawn" => Spawned < Chunks
    /\ pc \in {"join", "answer"} => Spawned = Chunks

(* A thread in this state that has collected this has done so much of its  *)
(* chunk.                                                                  *)
Worked(k, state, got) ==
    /\ state = "running" => First(k) + Len(got) <= Last(k)
    /\ state = "returned" => First(k) + Len(got) = Last(k) + 1
    /\ state = "panicked" => /\ got = <<>>
                             /\ \E j \in Chunk(k) : request[j] = "panic"
    /\ \A n \in 1 .. Len(got) :
           /\ request[First(k) + n - 1] # "panic"
           /\ got[n] = [of |-> First(k) + n - 1,
                        what |-> request[First(k) + n - 1]]

Work == \A k \in 1 .. Spawned : Worked(k, worker[k], local[k])

Slots ==
    /\ pc \in {"spawn", "join", "answer"} => Len(slots) = Size
    /\ pc \in {"join", "answer"} =>
           \A k \in 1 .. joined : \A i \in Chunk(k) : slots[i] = OfChunk(k, i)

AInv == IInv /\ TypeOK /\ Call /\ Work /\ Slots /\ AnswersEveryItem

(* A call keeps its items and its cores, and so all that follows from them. *)
LEMMA CallStays ==
    ASSUME UNCHANGED <<request, cores>>
    PROVE  /\ Size' = Size /\ Items' = Items /\ Chunks' = Chunks
           /\ \A k : /\ First(k)' = First(k) /\ Last(k)' = Last(k)
                     /\ Chunk(k)' = Chunk(k)
           /\ \A k, i : OfChunk(k, i)' = OfChunk(k, i)
           /\ \A i : Expected(i)' = Expected(i)
BY DEF Size, Items, Chunks, ChunkSize, Workers, CeilDiv, Least, First, Last,
       Chunk, OfChunk, Expected

LEMMA WorkStays ==
    ASSUME UNCHANGED <<request, cores>>,
           \A k \in 1 .. Spawned' : Worked(k, worker'[k], local'[k])
    PROVE  Work'
<1> SUFFICES ASSUME NEW k \in 1 .. Spawned'
             PROVE  Worked(k, worker[k], local[k])'
  BY DEF Work
<1>1. Worked(k, worker'[k], local'[k])
  OBVIOUS
<1>2. /\ First(k)' = First(k) /\ Last(k)' = Last(k) /\ Chunk(k)' = Chunk(k)
  BY CallStays
<1> QED BY <1>1, <1>2 DEF Worked

LEMMA FunctionIsSeq ==
    ASSUME NEW n \in Nat, NEW S, NEW f \in [1 .. n -> S]
    PROVE  f \in Seq(S) /\ Len(f) = n
BY SeqDef

LEMMA InitAnswers == Init => AInv
<1> SUFFICES ASSUME Init PROVE AInv
  OBVIOUS
<1>1. TypeOK
  BY RequestsAssumption, ParallelismAssumption
     DEF Init, TypeOK, CallerPcs, WorkerStates, Spawned
<1>2. Call /\ Work /\ Slots /\ AnswersEveryItem
  BY DEF Init, Call, Work, Slots, AnswersEveryItem, Spawned
<1> QED BY <1>1, <1>2, InitInv DEF AInv

LEMMA CheckLimitsAnswers == ASSUME AInv, CheckLimits PROVE AInv'
<1>1. IInv' /\ Spawned = 0
  BY CheckLimitsInv DEF AInv, CheckLimits, IInv, Threads
<1>2. /\ UNCHANGED <<request, cores, worker, local, joined, answer>>
      /\ pc' \in {"rejected", "spawn"} /\ Spawned' = 0
      /\ pc' = "spawn" => Size # 0
  BY <1>1 DEF CheckLimits, Spawned
<1>3. Size \in Nat /\ cores \in Nat \ {0} /\ request \in Seq(Outcomes)
  BY DEF AInv, TypeOK, Size
<1>4. slots' \in Seq([of : Nat, what : Reports])
  <2>1. [i \in Items |-> NoResult] \in Seq([of : Nat, what : Reports])
    BY <1>3, FunctionIsSeq DEF NoResult, Reports, Items
  <2> QED BY <2>1 DEF AInv, TypeOK, CheckLimits
<1>5. TypeOK'
  BY <1>1, <1>2, <1>4 DEF AInv, TypeOK, CallerPcs, Ends, Spawned
<1>6. Call'
  BY <1>2, <1>3, ChunkCounts, CallStays DEF Call
<1>7. Slots'
  <2>1. pc' = "spawn" => slots' = [i \in 1 .. Size |-> NoResult]
    BY DEF CheckLimits, Items
  <2>2. pc' = "spawn" => Len(slots') = Size
    BY <1>3, <2>1
  <2> QED BY <1>2, <2>2, CallStays DEF Slots
<1>8. Work' /\ AnswersEveryItem'
  BY <1>2 DEF Work, AnswersEveryItem
<1> QED BY <1>1, <1>5, <1>6, <1>7, <1>8 DEF AInv

LEMMA AppendShape ==
    ASSUME NEW S, NEW s \in Seq(S), NEW x \in S
    PROVE  /\ Append(s, x) \in Seq(S) /\ Len(Append(s, x)) = Len(s) + 1
           /\ \A k \in 1 .. Len(s) : Append(s, x)[k] = s[k]
           /\ Append(s, x)[Len(s) + 1] = x
OBVIOUS

LEMMA ExceptShape ==
    ASSUME NEW S, NEW s \in Seq(S), NEW x \in S, NEW k \in 1 .. Len(s)
    PROVE  /\ [s EXCEPT ![k] = x] \in Seq(S) /\ Len([s EXCEPT ![k] = x]) = Len(s)
           /\ [s EXCEPT ![k] = x][k] = x
           /\ \A m \in 1 .. Len(s) : m # k => [s EXCEPT ![k] = x][m] = s[m]
OBVIOUS

LEMMA SpawnAnswers == ASSUME AInv, Spawn PROVE AInv'
<1>1. IInv'
  BY SpawnInv DEF AInv
<1>2. /\ UNCHANGED <<request, cores, joined, slots, answer>>
      /\ worker' = Append(worker, "running") /\ local' = Append(local, <<>>)
      /\ pc' = IF Spawned + 1 = Chunks THEN "join" ELSE "spawn"
      /\ joined = 0
  BY DEF Spawn, AInv, IInv, Threads
<1>3. /\ Size \in Nat \ {0} /\ cores \in Nat \ {0} /\ Spawned \in Nat
      /\ Chunks \in Nat \ {0} /\ Spawned < Chunks /\ Len(local) = Spawned
  BY ChunkCounts DEF AInv, TypeOK, Call, Spawn, Size, Spawned
<1>4. /\ worker' \in Seq(WorkerStates) /\ Spawned' = Spawned + 1
      /\ \A k \in 1 .. Spawned : worker'[k] = worker[k]
      /\ worker'[Spawned + 1] = "running"
  <2>1. worker \in Seq(WorkerStates) /\ "running" \in WorkerStates
    BY DEF AInv, TypeOK, WorkerStates
  <2> QED BY <1>2, <2>1, AppendShape DEF Spawned
<1>9. /\ local' \in Seq(Seq([of : Nat, what : Reports])) /\ Len(local') = Spawned + 1
      /\ \A k \in 1 .. Spawned : local'[k] = local[k]
      /\ local'[Spawned + 1] = <<>>
  <2> DEFINE R == Seq([of : Nat, what : Reports])
  <2>1. local \in Seq(R) /\ <<>> \in R
    BY DEF AInv, TypeOK
  <2> HIDE DEF R
  <2>2. /\ local' \in Seq(R) /\ Len(local') = Spawned + 1
        /\ \A k \in 1 .. Spawned : local'[k] = local[k]
        /\ local'[Spawned + 1] = <<>>
    BY <1>2, <1>3, <2>1, AppendShape
  <2> QED BY <2>2 DEF R
<1>5. TypeOK'
  <2>1. pc' \in CallerPcs /\ joined' \in 0 .. Spawned'
    BY <1>2, <1>3, <1>4 DEF CallerPcs
  <2> QED BY <1>2, <1>4, <1>9, <2>1 DEF AInv, TypeOK
<1>6. Call'
  BY <1>2, <1>3, <1>4, CallStays DEF Call
<1>7. Work'
  <2> SUFFICES ASSUME NEW k \in 1 .. Spawned'
               PROVE  Worked(k, worker'[k], local'[k])
    BY <1>2, WorkStays
  <2>1. CASE k \in 1 .. Spawned
    <3>1. worker'[k] = worker[k] /\ local'[k] = local[k]
      BY <1>4, <1>9, <2>1
    <3> QED BY <2>1, <3>1 DEF AInv, Work
  <2>2. CASE k = Spawned + 1
    <3>1. worker'[k] = "running" /\ local'[k] = <<>>
      BY <1>4, <1>9, <2>2
    <3>2. First(k) \in Nat /\ First(k) <= Last(k)
      BY <1>3, <2>2, ChunkShape
    <3> QED BY <3>1, <3>2 DEF Worked
  <2> QED BY <1>3, <1>4, <2>1, <2>2
<1>8. Slots' /\ AnswersEveryItem'
  BY <1>2, CallStays DEF AInv, Spawn, Slots, AnswersEveryItem
<1> QED BY <1>1, <1>5, <1>6, <1>7, <1>8 DEF AInv

LEMMA RefusedAnswers == ASSUME AInv, SpawnFails \/ Unwind PROVE AInv'
<1>1. IInv'
  BY RefusedInv DEF AInv
<1>2. /\ UNCHANGED <<request, cores, worker, local, joined, slots, answer>>
      /\ pc \in {"spawn", "unwind"} /\ pc' \in {"unwind", "aborted"}
  BY DEF SpawnFails, Unwind
<1>3. TypeOK'
  BY <1>2 DEF AInv, TypeOK, CallerPcs, Ends, Spawned
<1>4. Call'
  BY <1>2, CallStays DEF AInv, Call, Spawned
<1>5. Work'
  BY <1>2, WorkStays DEF AInv, Work, Spawned
<1>6. Slots' /\ AnswersEveryItem'
  BY <1>2 DEF Slots, AnswersEveryItem
<1> QED BY <1>1, <1>3, <1>4, <1>5, <1>6 DEF AInv

(* A thread goes on at the item after those it has answered.               *)
LEMMA ProcessItemAnswers ==
    ASSUME AInv, NEW k \in Running, ProcessItem(k) PROVE AInv'
<1> DEFINE i == First(k) + Len(local[k])
<1>1. IInv'
  BY ProcessItemInv DEF AInv
<1>2. /\ k \in 1 .. Spawned /\ worker[k] = "running" /\ Spawned \in Nat
      /\ local[k] \in Seq([of : Nat, what : Reports])
      /\ Len(local) = Len(worker) /\ Worked(k, worker[k], local[k])
  BY DEF AInv, TypeOK, Work, Running, Spawned
<1>3. /\ UNCHANGED <<request, cores, pc, joined, slots, answer>>
      /\ pc \notin {"check", "rejected"}
  BY <1>2 DEF ProcessItem, AInv, IInv, Threads
<1>4. /\ Size \in Nat \ {0} /\ cores \in Nat \ {0} /\ Spawned <= Chunks
      /\ request \in Seq(Outcomes)
  BY <1>3 DEF AInv, TypeOK, Call, Size
<1>5. Chunks \in Nat /\ k \in 1 .. Chunks
  BY <1>2, <1>4, ChunkCounts
<1>6. /\ First(k) \in Nat \ {0} /\ Last(k) \in Nat
      /\ Chunk(k) = First(k) .. Last(k) /\ Last(k) <= Size
  BY <1>4, <1>5, ChunkShape
<1>7. i \in Chunk(k) /\ i \in 1 .. Size /\ request[i] \in Outcomes
  <2>1. Len(local[k]) \in Nat
    BY <1>2
  <2>2. i <= Last(k)
    BY <1>2 DEF Worked
  <2>3. i \in Chunk(k) /\ i \in 1 .. Size
    BY <1>4, <1>6, <2>1, <2>2
  <2> QED BY <1>4, <2>3 DEF Size
<1>8. \E state \in WorkerStates, got \in Seq([of : Nat, what : Reports]) :
         /\ worker' = [worker EXCEPT ![k] = state]
         /\ local' = [local EXCEPT ![k] = got]
         /\ Worked(k, state, got)
  <2>1. CASE request[i] = "panic"
    <3>1. /\ worker' = [worker EXCEPT ![k] = "panicked"]
          /\ local' = [local EXCEPT ![k] = <<>>]
      BY <2>1 DEF ProcessItem
    <3>2. Worked(k, "panicked", <<>>)
      BY <1>7, <2>1 DEF Worked
    <3>3. <<>> \in Seq([of : Nat, what : Reports]) /\ "panicked" \in WorkerStates
      BY DEF WorkerStates
    <3> QED BY <3>1, <3>2, <3>3
  <2>2. CASE request[i] # "panic"
    <3> DEFINE got == Append(local[k], [of |-> i, what |-> request[i]])
               state == IF i + 1 \in Chunk(k) THEN "running" ELSE "returned"
    <3>1. local' = [local EXCEPT ![k] = got]
      BY <2>2 DEF ProcessItem
    <3>2. worker' = [worker EXCEPT ![k] = state]
      BY <1>2, <2>2 DEF ProcessItem, AInv, TypeOK, Spawned
    <3>3. [of |-> i, what |-> request[i]] \in [of : Nat, what : Reports]
      BY <1>7, <2>2 DEF Outcomes, Reports
    <3>4. /\ got \in Seq([of : Nat, what : Reports])
          /\ Len(got) = Len(local[k]) + 1 /\ Len(local[k]) \in Nat
          /\ \A n \in 1 .. Len(got) :
                 got[n] = IF n <= Len(local[k]) THEN local[k][n]
                          ELSE [of |-> i, what |-> request[i]]
      BY <1>2, <3>3
    <3>5. /\ state \in {"running", "returned"}
          /\ state = "running" <=> i < Last(k)
          /\ i = First(k) + Len(local[k]) /\ i <= Last(k)
      BY <1>6, <1>7, <3>4
    <3>6. Len(got) = Len(local[k]) + 1 /\ Len(local[k]) \in Nat
      BY <3>4, Zenon
    <3>7. Worked(k, state, got)
      <4> HIDE DEF got, state, i
      <4>1. ASSUME NEW n \in 1 .. Len(got)
            PROVE  /\ request[First(k) + n - 1] # "panic"
                   /\ got[n] = [of |-> First(k) + n - 1,
                                what |-> request[First(k) + n - 1]]
        <5>1. CASE n <= Len(local[k])
          <6>1. n \in 1 .. Len(local[k]) /\ got[n] = local[k][n]
            BY <3>4, <4>1, <5>1
          <6>2. /\ request[First(k) + n - 1] # "panic"
                /\ local[k][n] = [of |-> First(k) + n - 1,
                                  what |-> request[First(k) + n - 1]]
            BY <1>2, <6>1, Zenon DEF Worked
          <6> QED BY <6>1, <6>2, Zenon
        <5>2. CASE n = Len(local[k]) + 1
          <6>1. First(k) + n - 1 = i
            BY <1>6, <3>4, <3>5, <5>2
          <6>2. got[n] = [of |-> i, what |-> request[i]]
            BY <3>4, <4>1, <5>2
          <6>3. request[First(k) + n - 1] # "panic"
            BY <2>2, <6>1, Zenon
          <6>4. got[n] = [of |-> First(k) + n - 1,
                          what |-> request[First(k) + n - 1]]
            BY <6>1, <6>2, Zenon
          <6> QED BY <6>3, <6>4
        <5>3. n <= Len(local[k]) \/ n = Len(local[k]) + 1
          BY <3>6, <4>1
        <5> QED BY <5>1, <5>2, <5>3, Zenon
      <4>2. /\ state = "running" => First(k) + Len(got) <= Last(k)
            /\ state = "returned" => First(k) + Len(got) = Last(k) + 1
            /\ state # "panicked"
        BY <1>6, <3>5, <3>6
      <4> QED BY <4>1, <4>2 DEF Worked
    <3> HIDE DEF got, state
    <3> QED BY <3>1, <3>2, <3>4, <3>5, <3>7 DEF WorkerStates
  <2> QED BY <2>1, <2>2
<1>9. PICK state \in WorkerStates, got \in Seq([of : Nat, what : Reports]) :
         /\ worker' = [worker EXCEPT ![k] = state]
         /\ local' = [local EXCEPT ![k] = got]
         /\ Worked(k, state, got)
  BY <1>8
<1>10. /\ worker' \in Seq(WorkerStates) /\ Len(worker') = Len(worker)
       /\ worker'[k] = state
       /\ \A m \in 1 .. Spawned : m # k => worker'[m] = worker[m]
  <2>1. worker \in Seq(WorkerStates) /\ k \in 1 .. Len(worker)
    BY <1>2 DEF AInv, TypeOK, Spawned
  <2> QED BY <1>9, <2>1, ExceptShape DEF Spawned
<1>11. /\ local' \in Seq(Seq([of : Nat, what : Reports])) /\ Len(local') = Len(local)
       /\ local'[k] = got
       /\ \A m \in 1 .. Spawned : m # k => local'[m] = local[m]
  <2> DEFINE R == Seq([of : Nat, what : Reports])
  <2>1. local \in Seq(R) /\ got \in R /\ k \in 1 .. Len(local)
    BY <1>2, <1>9 DEF AInv, TypeOK, Spawned
  <2> HIDE DEF R
  <2>2. /\ local' \in Seq(R) /\ Len(local') = Len(local) /\ local'[k] = got
        /\ \A m \in 1 .. Len(local) : m # k => local'[m] = local[m]
    BY <1>9, <2>1, ExceptShape
  <2> QED BY <1>2, <2>2 DEF R, Spawned
<1>12. Spawned' = Spawned
  BY <1>10 DEF Spawned
<1>13. TypeOK'
  BY <1>2, <1>3, <1>10, <1>11, <1>12 DEF AInv, TypeOK
<1>14. Call'
  BY <1>3, <1>12, CallStays DEF AInv, Call
<1>15. Work'
  <2> SUFFICES ASSUME NEW m \in 1 .. Spawned'
               PROVE  Worked(m, worker'[m], local'[m])
    BY <1>3, WorkStays
  <2>1. CASE m = k
    BY <1>9, <1>10, <1>11, <2>1
  <2>2. CASE m # k
    BY <1>10, <1>11, <1>12, <2>2 DEF AInv, Work
  <2> QED BY <2>1, <2>2
<1>16. Slots' /\ AnswersEveryItem'
  BY <1>3, CallStays DEF AInv, Slots, AnswersEveryItem
<1> QED BY <1>1, <1>13, <1>14, <1>15, <1>16 DEF AInv

(* What a thread has collected, or its panic, fills the slots of its chunk *)
(* and no other.                                                           *)
LEMMA FilledIsOfChunk ==
    ASSUME AInv, NEW k \in 1 .. Spawned, worker[k] # "running",
           Size # 0, Spawned <= Chunks, NEW i \in Items
    PROVE  Filled(k)[i] = IF i \in Chunk(k) THEN OfChunk(k, i) ELSE slots[i]
<1>1. /\ Size \in Nat \ {0} /\ cores \in Nat \ {0} /\ Spawned \in Nat
      /\ worker[k] \in WorkerStates /\ Worked(k, worker[k], local[k])
      /\ local[k] \in Seq([of : Nat, what : Reports])
  BY DEF AInv, TypeOK, Work, Size, Spawned
<1>2. Chunks \in Nat /\ k \in 1 .. Chunks
  BY <1>1, ChunkCounts
<1>3. /\ First(k) \in Nat \ {0} /\ Last(k) \in Nat /\ First(k) <= Last(k)
      /\ Chunk(k) = First(k) .. Last(k)
      /\ Start(k) = First(k) /\ SlotsOf(k) = Chunk(k)
  BY <1>1, <1>2, ChunkShape
<1>4. CASE worker[k] = "returned"
  <2>1. Len(local[k]) = Last(k) - First(k) + 1
    BY <1>1, <1>3, <1>4 DEF Worked
  <2>2. Filled(k)[i] = IF i \in Chunk(k) THEN local[k][i + 1 - First(k)]
                       ELSE slots[i]
    BY <1>3, <1>4, <2>1 DEF Filled
  <2>3. ASSUME NEW j \in Chunk(k)
        PROVE  /\ request[j] # "panic"
               /\ local[k][j + 1 - First(k)] = [of |-> j, what |-> request[j]]
    <3>1. j + 1 - First(k) \in 1 .. Len(local[k])
      BY <1>3, <2>1, <2>3
    <3>2. First(k) + (j + 1 - First(k)) - 1 = j
      BY <1>3, <2>3
    <3> QED BY <1>1, <3>1, <3>2 DEF Worked
  <2> QED BY <2>2, <2>3 DEF OfChunk
<1>5. CASE worker[k] = "panicked"
  <2>1. local[k] = <<>> /\ \E j \in Chunk(k) : request[j] = "panic"
    BY <1>1, <1>5 DEF Worked
  <2>2. Filled(k)[i] = IF i \in Chunk(k) THEN [of |-> i, what |-> "panicked"]
                       ELSE slots[i]
    BY <1>3, <1>5, <2>1 DEF Filled
  <2> QED BY <2>1, <2>2 DEF OfChunk
<1> QED BY <1>1, <1>4, <1>5 DEF WorkerStates

LEMMA JoinAnswers == ASSUME AInv, Join PROVE AInv'
<1> DEFINE k == joined + 1
<1>1. IInv'
  BY JoinInv DEF AInv
<1>2. /\ UNCHANGED <<request, cores, worker, local, answer>>
      /\ pc = "join" /\ pc' \in {"join", "answer"}
      /\ joined' = k /\ slots' = Filled(k) /\ worker[k] # "running"
      /\ joined \in Nat /\ Spawned \in Nat /\ k \in 1 .. Spawned
  BY DEF Join, AInv, IInv, Threads, Spawned
<1>3. /\ Size \in Nat \ {0} /\ cores \in Nat \ {0} /\ Spawned <= Chunks
      /\ request \in Seq(Outcomes)
  BY <1>2 DEF AInv, TypeOK, Call, Size
<1>4. Chunks \in Nat
  BY <1>3, ChunkCounts
<1>5. \A i \in Items : slots'[i] = IF i \in Chunk(k) THEN OfChunk(k, i) ELSE slots[i]
  BY <1>2, <1>3, FilledIsOfChunk
<1>6. ASSUME NEW m \in 1 .. joined', NEW i \in Chunk(m)
      PROVE  slots'[i] = OfChunk(m, i)
  <2>1. m \in 1 .. Chunks /\ k \in 1 .. Chunks
    BY <1>2, <1>3, <1>4
  <2>2. i \in Items
    BY <1>3, <2>1, ChunkShape DEF Items
  <2>3. CASE m = k
    BY <1>5, <2>2, <2>3
  <2>4. CASE m # k
    <3>1. i \notin Chunk(k)
      BY <1>3, <2>1, <2>4, ChunksApart
    <3>2. m \in 1 .. joined
      BY <1>2, <2>4
    <3>3. slots[i] = OfChunk(m, i)
      BY <1>2, <3>2 DEF AInv, Slots
    <3> QED BY <1>5, <2>2, <3>1, <3>3
  <2> QED BY <2>3, <2>4
<1>7. slots' \in [1 .. Size -> [of : Nat, what : Reports]]
  <2> SUFFICES ASSUME NEW i \in Items PROVE slots'[i] \in [of : Nat, what : Reports]
    BY <1>2 DEF Filled, Items
  <2>1. CASE i \in Chunk(k)
    <3>1. request[i] \in Outcomes /\ i \in Nat
      BY <1>3 DEF Items, Size
    <3>2. OfChunk(k, i) \in [of : Nat, what : Reports]
      <4> HIDE DEF k
      <4> QED BY <2>1, <3>1 DEF OfChunk, Outcomes, Reports
    <3> QED BY <1>5, <2>1, <3>2
  <2>2. CASE i \notin Chunk(k)
    <3>1. slots'[i] = slots[i]
      BY <1>5, <2>2
    <3>2. i \in 1 .. Len(slots) /\ slots \in Seq([of : Nat, what : Reports])
      BY <1>2 DEF AInv, TypeOK, Slots, Items
    <3> QED BY <3>1, <3>2, ElementOfSeq
  <2> QED BY <2>1, <2>2
<1>8. slots' \in Seq([of : Nat, what : Reports]) /\ Len(slots') = Size
  BY <1>3, <1>7, FunctionIsSeq
<1>9. Slots'
  <2>1. Size' = Size /\ \A m, i : /\ Chunk(m)' = Chunk(m)
                                 /\ OfChunk(m, i)' = OfChunk(m, i)
    BY <1>2, CallStays
  <2> QED BY <1>6, <1>8, <2>1 DEF Slots
<1>10. TypeOK'
  BY <1>2, <1>8 DEF AInv, TypeOK, CallerPcs, Spawned
<1>11. Call'
  BY <1>2, CallStays DEF AInv, Call, Spawned
<1>12. Work'
  BY <1>2, WorkStays DEF AInv, Work, Spawned
<1>13. AnswersEveryItem'
  BY <1>2 DEF AnswersEveryItem
<1> QED BY <1>1, <1>9, <1>10, <1>11, <1>12, <1>13 DEF AInv

(* Once all threads are joined, every slot holds the result of its item.   *)
LEMMA AllFilled ==
    ASSUME AInv, pc = "answer", NEW i \in Items
    PROVE  slots[i] = Expected(i) /\ slots[i].of = i /\ i # 0
<1>1. Size \in Nat \ {0} /\ cores \in Nat \ {0} /\ i # 0
  BY DEF AInv, TypeOK, Call, Size, Items
<1>2. joined = Chunks
  BY DEF AInv, IInv, Threads, Call
<1>3. PICK k \in 1 .. Chunks : i \in Chunk(k)
  BY <1>1, ChunksCover
<1>4. slots[i] = OfChunk(k, i)
  BY <1>2, <1>3 DEF AInv, Slots
<1> QED BY <1>1, <1>3, <1>4, ExpectedOfChunk DEF OfChunk

LEMMA AnswerAnswers == ASSUME AInv, Answer PROVE AInv'
<1>1. IInv'
  BY AnswerInv DEF AInv
<1>2. /\ UNCHANGED <<request, cores, worker, local, joined, slots>>
      /\ pc = "answer" /\ pc' = "answered"
      /\ Size \in Nat /\ Size # 0 /\ Spawned <= Chunks
  BY DEF Answer, AInv, TypeOK, Call, Size
<1>3. answer' = [i \in Items |-> Expected(i)]
  <2>1. \A i \in Items : slots[i] # NoResult /\ slots[i] = Expected(i)
    BY <1>2, AllFilled DEF NoResult
  <2> QED BY <2>1 DEF Answer
<1>4. answer' \in Seq([of : Nat, what : Reports])
  <2>1. \A i \in Items : Expected(i) \in [of : Nat, what : Reports]
    <3> SUFFICES ASSUME NEW i \in Items
                 PROVE  Expected(i) \in [of : Nat, what : Reports]
      OBVIOUS
    <3>1. slots[i] = Expected(i) /\ i \in 1 .. Len(slots)
      BY <1>2, AllFilled DEF AInv, Slots, Items
    <3>2. slots \in Seq([of : Nat, what : Reports])
      BY DEF AInv, TypeOK
    <3>3. slots[i] \in [of : Nat, what : Reports]
      BY <3>1, <3>2, ElementOfSeq
    <3> QED BY <3>1, <3>3, Zenon
  <2> QED BY <1>2, <1>3, <2>1, FunctionIsSeq DEF Items
<1>5. TypeOK'
  BY <1>2, <1>4 DEF AInv, TypeOK, CallerPcs, Ends, Spawned
<1>6. Call'
  BY <1>2, CallStays DEF AInv, Call, Spawned
<1>7. Work'
  BY <1>2, WorkStays DEF AInv, Work, Spawned
<1>8. Slots'
  BY <1>2 DEF Slots
<1>9. AnswersEveryItem'
  <2>1. Items' = Items /\ \A i : Expected(i)' = Expected(i)
    BY <1>2, CallStays
  <2> QED BY <1>3, <2>1 DEF AnswersEveryItem
<1> QED BY <1>1, <1>5, <1>6, <1>7, <1>8, <1>9 DEF AInv

LEMMA NextAnswers == AInv /\ [Next]_vars => AInv'
<1> SUFFICES ASSUME AInv, [Next]_vars PROVE AInv'
  OBVIOUS
<1>1. CASE Caller
  BY <1>1, CheckLimitsAnswers, SpawnAnswers, RefusedAnswers, JoinAnswers,
     AnswerAnswers DEF Caller
<1>2. CASE \E k \in Running : ProcessItem(k)
  BY <1>2, ProcessItemAnswers
<1>3. CASE UNCHANGED vars
  <2>1. UNCHANGED <<request, cores, pc, worker, local, joined, slots, answer>>
    BY <1>3 DEF vars
  <2>2. IInv'
    BY <1>3, NextInv DEF AInv
  <2>3. TypeOK' /\ Call'
    BY <2>1, CallStays DEF AInv, TypeOK, Call, Spawned
  <2>4. Work'
    BY <2>1, WorkStays DEF AInv, Work, Spawned
  <2>5. Slots'
    BY <2>1, CallStays DEF AInv, Slots
  <2>6. AnswersEveryItem'
    BY <2>1, CallStays DEF AInv, AnswersEveryItem
  <2> QED BY <2>2, <2>3, <2>4, <2>5, <2>6 DEF AInv
<1> QED BY <1>1, <1>2, <1>3 DEF Next

LEMMA AlwaysAInv == Spec => []AInv
BY InitAnswers, NextAnswers, PTL DEF Spec
-----------------------------------------------------------------------------
(* The variables keep their types.                                         *)
THEOREM Types == Spec => []TypeOK
<1>1. AInv => TypeOK
  BY DEF AInv
<1> QED BY <1>1, AlwaysAInv, PTL

(* A call that is answered gives every item its own result, in the order   *)
(* of the items; only the items that share a chunk with a panic report it. *)
THEOREM ItemsAreAnswered == Spec => []AnswersEveryItem
<1>1. AInv => AnswersEveryItem
  BY DEF AInv
<1> QED BY <1>1, AlwaysAInv, PTL

(* After the joins no slot is open: the fallback of the response is dead   *)
(* code.                                                                   *)
THEOREM SlotsAreFilled == Spec => []EverySlotFilled
<1>1. AInv => EverySlotFilled
  BY AllFilled DEF EverySlotFilled
<1> QED BY <1>1, AlwaysAInv, PTL

(* However the items divide by the cores, no thread is started for an      *)
(* empty chunk, nor more threads than there are cores or items.            *)
THEOREM NoIdleThread == Spec => []ThreadsAreUseful
<1>1. AInv => ThreadsAreUseful
  <2> SUFFICES ASSUME AInv PROVE ThreadsAreUseful
    OBVIOUS
  <2>1. CASE pc \in {"check", "rejected"}
    BY <2>1 DEF AInv, TypeOK, IInv, Threads, ThreadsAreUseful, Size
  <2>2. CASE pc \notin {"check", "rejected"}
    <3>1. /\ Size \in Nat \ {0} /\ cores \in Nat \ {0} /\ Spawned \in Nat
          /\ Spawned <= Chunks
      BY <2>2 DEF AInv, TypeOK, Call, Size, Spawned
    <3>2. Chunks <= Workers /\ Workers \in 1 .. Size /\ Workers <= cores /\ Chunks \in Nat
      BY <3>1, ChunkCounts
    <3>3. \A k \in 1 .. Chunks : Chunk(k) # {}
      BY <3>1, ChunkShape
    <3> QED BY <3>1, <3>2, <3>3 DEF ThreadsAreUseful
  <2> QED BY <2>1, <2>2
<1> QED BY <1>1, AlwaysAInv, PTL
-----------------------------------------------------------------------------
(* A call runs down.  The caller's steps are counted from the end, those of*)
(* a thread by the items it still has.                                     *)
CallerLeft ==
    CASE pc = "check"  -> 2 * Size + 2
      [] pc = "spawn"  -> (Chunks - Spawned) + Chunks + 1
      [] pc = "join"   -> (Chunks - joined) + 1
      [] pc \in {"answer", "unwind"} -> 1
      [] OTHER -> 0

ItemsLeft(k) == IF worker[k] = "running" THEN Last(k) + 1 - (First(k) + Len(local[k]))
                                         ELSE 0

(* One thread has less to do, and nobody else more.                        *)
WorkedOff ==
    /\ CallerLeft' = CallerLeft /\ Spawned' = Spawned
    /\ \E k \in 1 .. Spawned :
           /\ ItemsLeft(k)' < ItemsLeft(k)
           /\ \A m \in 1 .. Spawned : m # k => ItemsLeft(m)' = ItemsLeft(m)

Counted == CallerLeft \in Nat /\ \A k \in 1 .. Spawned : ItemsLeft(k) \in Nat

(* What the caller's next step waits for has come.                         *)
CallerReady ==
    \/ pc \in {"check", "spawn", "answer"}
    \/ pc = "unwind" /\ Running = {}
    \/ pc = "join" /\ worker[joined + 1] # "running"

LEMMA CallSizes ==
    ASSUME AInv
    PROVE  /\ Size \in Nat /\ Spawned \in Nat /\ joined \in Nat
           /\ Size # 0 => Chunks \in Nat \ {0} /\ Chunks <= Size
           /\ pc \notin {"check", "rejected"} => Size # 0 /\ Spawned <= Chunks
           /\ pc = "join" => joined < Chunks /\ Spawned = Chunks
<1>1. Size \in Nat /\ Spawned \in Nat /\ joined \in Nat /\ cores \in Nat \ {0}
  BY DEF AInv, TypeOK, Size, Spawned, IInv, Threads
<1>2. ASSUME Size # 0 PROVE Chunks \in Nat \ {0} /\ Chunks <= Size
  BY <1>1, <1>2, ChunkCounts
<1> QED BY <1>1, <1>2 DEF AInv, Call, IInv, Threads

LEMMA LeftIsCounted == AInv => Counted
<1> SUFFICES ASSUME AInv PROVE Counted
  OBVIOUS
<1>1. CallerLeft \in Nat
  <2>1. pc \in CallerPcs
    BY DEF AInv, TypeOK
  <2> QED BY <2>1, CallSizes DEF CallerLeft, CallerPcs
<1>2. ASSUME NEW k \in 1 .. Spawned PROVE ItemsLeft(k) \in Nat
  <2>1. pc \notin {"check", "rejected"}
    BY <1>2 DEF AInv, IInv, Threads
  <2>2. Size \in Nat \ {0} /\ cores \in Nat \ {0} /\ k \in 1 .. Chunks
    BY <1>2, <2>1, CallSizes DEF AInv, TypeOK
  <2>3. First(k) \in Nat /\ Last(k) \in Nat
    BY <2>2, ChunkShape
  <2>4. local[k] \in Seq([of : Nat, what : Reports]) /\ Worked(k, worker[k], local[k])
    BY <1>2 DEF AInv, TypeOK, Work, Spawned
  <2>5. Len(local[k]) \in Nat
    BY <2>4
  <2> QED BY <2>3, <2>4, <2>5 DEF ItemsLeft, Worked
<1> QED BY <1>1, <1>2 DEF Counted

LEMMA CallerRunsDown == ASSUME AInv, AInv', Caller PROVE CallerLeft' < CallerLeft
<1>1. UNCHANGED <<request, cores>>
  BY DEF Caller, CheckLimits, Spawn, SpawnFails, Unwind, Join, Answer
<1>2. Size' = Size /\ Chunks' = Chunks
  BY <1>1, CallStays
<1>3. /\ Size \in Nat /\ Spawned \in Nat /\ joined \in Nat
      /\ Size # 0 => Chunks \in Nat \ {0} /\ Chunks <= Size
      /\ pc \notin {"check", "rejected"} => Size # 0 /\ Spawned <= Chunks
      /\ pc = "join" => joined < Chunks /\ Spawned = Chunks
  BY CallSizes
<1>4. CASE CheckLimits
  <2>1. pc = "check" /\ Spawned' = 0 /\ pc' \in {"rejected", "spawn"}
        /\ (pc' = "spawn" => Size # 0)
    BY <1>4 DEF CheckLimits, AInv, IInv, Threads, Spawned
  <2>2. CallerLeft = 2 * Size + 2
    BY <2>1 DEF CallerLeft
  <2>3. CASE pc' = "rejected"
    BY <1>3, <2>2, <2>3 DEF CallerLeft
  <2>4. CASE pc' = "spawn"
    <3>1. CallerLeft' = (Chunks - 0) + Chunks + 1
      BY <1>2, <2>1, <2>4 DEF CallerLeft
    <3> QED BY <1>3, <2>1, <2>2, <2>4, <3>1
  <2> QED BY <2>1, <2>3, <2>4
<1>5. CASE Spawn
  <2>1. pc = "spawn" /\ Spawned' = Spawned + 1 /\ joined' = 0 /\ Spawned < Chunks
        /\ pc' = IF Spawned + 1 = Chunks THEN "join" ELSE "spawn"
    <3>1. worker \in Seq(WorkerStates)
      BY DEF AInv, TypeOK
    <3> QED BY <1>5, <3>1 DEF Spawn, AInv, IInv, Threads, Call, Spawned
  <2>2. CallerLeft = (Chunks - Spawned) + Chunks + 1
    BY <2>1 DEF CallerLeft
  <2>3. CASE pc' = "join"
    <3>1. CallerLeft' = (Chunks - 0) + 1
      BY <1>2, <2>1, <2>3 DEF CallerLeft
    <3> QED BY <1>3, <2>1, <2>2, <3>1
  <2>4. CASE pc' = "spawn"
    <3>1. CallerLeft' = (Chunks - (Spawned + 1)) + Chunks + 1
      BY <1>2, <2>1, <2>4 DEF CallerLeft
    <3> QED BY <1>3, <2>1, <2>2, <3>1
  <2> QED BY <2>1, <2>3, <2>4
<1>6. CASE SpawnFails
  <2>1. pc = "spawn" /\ pc' = "unwind"
    BY <1>6 DEF SpawnFails
  <2>2. CallerLeft = (Chunks - Spawned) + Chunks + 1 /\ CallerLeft' = 1
    BY <2>1 DEF CallerLeft
  <2> QED BY <1>3, <2>1, <2>2
<1>7. CASE Unwind
  <2>1. pc = "unwind" /\ pc' = "aborted"
    BY <1>7 DEF Unwind
  <2>2. CallerLeft = 1 /\ CallerLeft' = 0
    BY <2>1 DEF CallerLeft
  <2> QED BY <2>2
<1>8. CASE Join
  <2>1. pc = "join" /\ joined' = joined + 1
        /\ pc' = IF joined' = Chunks THEN "answer" ELSE "join"
    BY <1>8 DEF Join
  <2>2. CallerLeft = (Chunks - joined) + 1
    BY <2>1 DEF CallerLeft
  <2>3. CASE pc' = "answer"
    <3>1. CallerLeft' = 1
      BY <2>3 DEF CallerLeft
    <3> QED BY <1>3, <2>1, <2>2, <3>1
  <2>4. CASE pc' = "join"
    <3>1. CallerLeft' = (Chunks - (joined + 1)) + 1
      BY <1>2, <2>1, <2>4 DEF CallerLeft
    <3> QED BY <1>3, <2>1, <2>2, <3>1
  <2> QED BY <2>1, <2>3, <2>4
<1>9. CASE Answer
  <2>1. pc = "answer" /\ pc' = "answered"
    BY <1>9 DEF Answer
  <2>2. CallerLeft = 1 /\ CallerLeft' = 0
    BY <2>1 DEF CallerLeft
  <2> QED BY <2>2
<1> QED BY <1>4, <1>5, <1>6, <1>7, <1>8, <1>9 DEF Caller

LEMMA ThreadRunsDown ==
    ASSUME AInv, AInv', NEW k \in Running, ProcessItem(k) PROVE WorkedOff
<1>1. /\ k \in 1 .. Spawned /\ worker[k] = "running"
      /\ UNCHANGED <<request, cores, pc, joined>>
  BY DEF Running, ProcessItem
<1>2. /\ Chunks' = Chunks /\ Size' = Size
      /\ \A m : First(m)' = First(m) /\ Last(m)' = Last(m)
  BY <1>1, CallStays
<1>3. worker \in Seq(WorkerStates) /\ Len(local) = Len(worker) /\ Spawned = Len(worker)
      /\ local \in Seq(Seq([of : Nat, what : Reports]))
  BY DEF AInv, TypeOK, Spawned
<1>4. Spawned' = Spawned
      /\ \A m \in 1 .. Spawned : m # k => worker'[m] = worker[m] /\ local'[m] = local[m]
  <2>1. \E got : local' = [local EXCEPT ![k] = got]
    BY DEF ProcessItem
  <2>2. worker' = worker \/ \E state \in WorkerStates :
                                 worker' = [worker EXCEPT ![k] = state]
    BY DEF ProcessItem, WorkerStates
  <2>3. Len(worker') = Len(worker)
        /\ \A m \in 1 .. Spawned : m # k => worker'[m] = worker[m]
    <3>1. CASE worker' = worker
      BY <3>1, <1>3
    <3>2. ASSUME NEW state \in WorkerStates, worker' = [worker EXCEPT ![k] = state]
          PROVE  /\ Len(worker') = Len(worker)
                 /\ \A m \in 1 .. Spawned : m # k => worker'[m] = worker[m]
      <4>1. worker \in Seq(WorkerStates) /\ k \in 1 .. Len(worker)
        BY <1>1, <1>3
      <4> QED BY <1>3, <3>2, <4>1, ExceptShape
    <3> QED BY <2>2, <3>1, <3>2
  <2>4. \A m \in 1 .. Spawned : m # k => local'[m] = local[m]
    BY <1>1, <1>3, <2>1
  <2> QED BY <2>3, <2>4 DEF Spawned
<1>5. CallerLeft' = CallerLeft
  BY <1>1, <1>2, <1>4 DEF CallerLeft
<1>6. \A m \in 1 .. Spawned : m # k => ItemsLeft(m)' = ItemsLeft(m)
  BY <1>2, <1>4 DEF ItemsLeft
<1>7. ItemsLeft(k)' < ItemsLeft(k)
  <2>1. ItemsLeft(k) \in Nat /\ ItemsLeft(k) = Last(k) + 1 - (First(k) + Len(local[k]))
    BY <1>1, LeftIsCounted DEF Counted, ItemsLeft
  <2>2. Size \in Nat \ {0} /\ cores \in Nat \ {0} /\ k \in 1 .. Chunks
    <3>1. pc \notin {"check", "rejected"}
      BY <1>1 DEF AInv, IInv, Threads
    <3> QED BY <1>1, <3>1, CallSizes DEF AInv, TypeOK
  <2>3. First(k) \in Nat /\ Last(k) \in Nat
    BY <2>2, ChunkShape
  <2>4. PICK got \in Seq([of : Nat, what : Reports]) : got = local[k]
    BY <1>1, <1>3
  <2>5. PICK n \in Nat : n = Len(got)
    OBVIOUS
  <2>6. First(k) + n <= Last(k)
    BY <1>1, <2>4, <2>5 DEF AInv, Work, Worked
  <2>7. CASE worker'[k] # "running"
    <3>1. ItemsLeft(k)' = 0
      BY <2>7 DEF ItemsLeft
    <3> QED BY <2>1, <2>3, <2>4, <2>5, <2>6, <3>1
  <2>8. CASE worker'[k] = "running"
    <3>1. Len(local'[k]) = n + 1
      <4>1. worker' # [worker EXCEPT ![k] = "panicked"]
        BY <1>1, <1>3, <2>8
      <4>2. local' = [local EXCEPT ![k] = Append(@, [of |-> First(k) + Len(local[k]),
                                     what |-> request[First(k) + Len(local[k])]])]
        BY <4>1 DEF ProcessItem
      <4>3. local'[k] = Append(got, [of |-> First(k) + Len(local[k]),
                                     what |-> request[First(k) + Len(local[k])]])
        BY <1>1, <1>3, <2>4, <4>2
      <4> QED BY <2>4, <2>5, <4>3
    <3>2. ItemsLeft(k)' = Last(k) + 1 - (First(k) + (n + 1))
      BY <1>2, <2>8, <3>1 DEF ItemsLeft
    <3>3. ItemsLeft(k) = Last(k) + 1 - (First(k) + n)
      BY <2>1, <2>4, <2>5
    <3> QED BY <2>3, <3>2, <3>3
  <2> QED BY <2>7, <2>8
<1> QED BY <1>1, <1>4, <1>5, <1>6, <1>7 DEF WorkedOff

(* No call goes on for ever: every step brings the caller nearer to its    *)
(* end or takes an item from one thread, and there are finitely many of    *)
(* both.                                                                   *)
THEOREM CallsRunDown == Spec => []Counted /\ [][CallerLeft' < CallerLeft \/ WorkedOff]_vars
<1>1. AInv /\ [Next]_vars => AInv'
  BY NextAnswers
<1>2. AInv /\ AInv' /\ [Next]_vars => [CallerLeft' < CallerLeft \/ WorkedOff]_vars
  BY CallerRunsDown, ThreadRunsDown DEF Next
<1> QED BY <1>1, <1>2, AlwaysAInv, LeftIsCounted, PTL DEF Spec

(* And none gets stuck: until it has ended the caller can go on, or some   *)
(* thread that it waits for runs.                                          *)
THEOREM CallsGoOn == Spec => [](pc \notin Ends => CallerReady \/ Running # {})
<1>1. AInv => (pc \notin Ends => CallerReady \/ Running # {})
  <2> SUFFICES ASSUME AInv, pc \notin Ends, ~CallerReady PROVE Running # {}
    OBVIOUS
  <2>1. pc \in CallerPcs
    BY DEF AInv, TypeOK
  <2>2. CASE pc = "unwind"
    BY <2>2 DEF CallerReady
  <2>3. CASE pc = "join"
    <3>1. worker[joined + 1] = "running"
      BY <2>3 DEF CallerReady
    <3>2. joined + 1 \in 1 .. Spawned
      BY <2>3, CallSizes
    <3> QED BY <3>1, <3>2 DEF Running
  <2> QED BY <2>1, <2>2, <2>3 DEF CallerReady, CallerPcs, Ends
<1> QED BY <1>1, AlwaysAInv, PTL
=============================================================================
