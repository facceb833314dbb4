# A TLA+ model of Hexplace

Hexplace is an offline geocoder: `hexplace import` turns an OpenStreetMap file
into an index in a data directory, and `hexplace serve` and the query commands
answer geocoding requests from memory-mapped files in it. This directory holds
TLA+ models of the parts of it that carry its logic, the TLC configurations that
check them, and proofs that the TLA+ proof system checks. Paths below are
relative to `src/crates/`; `engine` stands for `hexplace-engine/src`.

Contents: 1 the system, 2 the modules, 3 the runs, 4 fairness, 5 the proofs, 6
what is only model-checked, 7 what is not modelled, 8 what the code and its
documents say differently, 9 the plan.

## 1. The system

| component | state it keeps | operations | interacts with |
|---|---|---|---|
| data directory (`engine/import/publish.rs`, `import/mod.rs`) | the live directory, `.staging-*` and `.obsolete-*` siblings, a `.lock` file per tree | `cleanup_orphans`, `create_staging_dir`, `publish_data_dir`, `discard_staging` | importers and engines are processes that share only the file system and `flock` |
| `Engine::open` (`engine/service.rs`) | shared flock, four mapped parts | open, close | the data directory, part by part and by path |
| bulk pool (`engine/service.rs`: `batch`, `reverse_bulk`) | scoped threads, result slots | spawn, process, join, fill | called from the server's blocking jobs |
| place store (`engine/store.rs`, `binio.rs`) | `coords.bin`, `meta.bin`, `strings.bin` | `push`, `finish`, `open`, `get` | written in the staging tree, mapped by the engine |
| spatial index (`engine/spatial.rs`) | two layers of three columns | build, open with validation, `candidates` | reverse search |
| reverse search (`engine/service.rs`) | the list of the best | `reverse`, `push_best`, hydrate | spatial index, place store |
| extraction (`engine/import/mod.rs`, `node_store.rs`, `osm_place.rs`) | node coordinates, places | two passes and a hash over the file | the file system (the input may be replaced) |
| HTTP server (`hexplace/src/api.rs`, `cli.rs`) | requests, blocking jobs, shutdown | the handlers, timeouts, graceful shutdown, kill and restart | the engine, through handles (`Arc`) that the router and every bulk job own |
| forward search (`engine/text.rs`, `tokenize.rs`, `engine/service.rs`: `geocode`) | a Tantivy index of the places' texts | `build_index`, `search`, rank and cut | place store, Tantivy |
| manifest (`engine/manifest.rs`) | `manifest.json` | save, load | data directory |
| ranking, display, core types, command line, benchmark | none | pure functions | all |

What is hard in it, and what makes each part correct:

* **Data directory.** Several processes, two renames that are not one atomic
  step, a cleanup that deletes what it takes for rubbish, locks on files that
  move with their directory, crashes and errors anywhere. The live path must
  name a whole index or nothing, a server must not lose or mix its index, an
  import must leave no rubbish and must end. Between the renames the only whole
  index is at a path that counts as rubbish; nothing but a cleanup may lose it.
* **Bulk pool.** Rounded division, panics, and threads the system refuses. Every
  item must get its own answer, and no thread may outlive the call.
* **Place store and spatial index.** Files may be cut short or their headers
  damaged; sizes are computed with arithmetic that wraps. A whole file gives
  back what was written; a damaged one gives a place its own strings, never a
  part of them or another place's, or says that it cannot.
* **Reverse search.** A staged search that stops by a count, and a bounded list
  with ties. The answer must be full, duplicate-free and sorted.
* **Extraction.** Elements in any order, repeated nodes, a file that changes
  between the passes. Every searchable element is imported, where it lies.
* **Server.** Timeouts that abandon jobs but do not stop them, a bounded pool,
  and a shutdown at any moment. Every request ends, the shutdown completes, and
  no job that somebody waits for is dropped.
* **Server and imports together.** The engine, with its flock and its maps, goes
  with its last handle, and a bulk job may outlive its client and the listener.
  The index must stay until the last job is over, and go free then.
* **Forward search.** Two tokenizers in a row on the way of a document and one
  on the way of a query, a cut by text score before importance is added, places
  that cannot be read, limits, ties in any order. A place must be found by its
  own name, the answer must hold the best, and asking for more must give more of
  the same.

`PROJECT.json` lists the hazards one by one, each at its line and with the
properties that cover it.

## 2. The modules

| module | models | main idea |
|---|---|---|
| `LiveIndex` | the promise of the data directory | which tree is live, which may be put back, which are whole, who pins the live one |
| `DataDir` | importers, engines, file system, locks | one action per system call that another process can notice |
| `DataDirProofs` | | proofs about `DataDir`: safety; that it implements `LiveIndex`; what one import, or imports one at a time, add |
| `BatchPool` | one call of `batch` or `reverse_bulk` | caller and threads as processes |
| `BatchPoolProofs` | | proofs about the threads of a call, and about its answers |
| `PlaceStore` | the columnar store | files as size, header count and rows |
| `PlaceStoreProofs` | | proofs about the checks of `open` and about what the store gives back |
| `SpatialIndex` | one CSR layer | operators: build, validate, look up |
| `ReverseSearch` | index life cycle and a query | composes two layers of `SpatialIndex` |
| `ReverseSearchProofs` | | proofs about the layers, the lookups, the stages and `push_best` |
| `Extraction` | the passes over the OSM file | files as sequences of elements |
| `ExtractionProofs` | | proofs about the node store and the extracted places |
| `Server` | requests, jobs, shutdown | handlers as steps between awaits |
| `Deployment` | the server beside the imports | composes `Server` with `DataDir`: the server is its engine |
| `DeploymentProofs` | | proofs about `Server`, and about the composition from those of its parts |
| `TextIndex` | tokens, the text of a place, the analyzer of the index | operators on sequences of characters |
| `ForwardSearch` | the text index and a query | extends `TextIndex` |
| `ForwardSearchProofs` | | proofs about the answer of a query |
| `Lists` | sorting and filtering | a sorted list is the one bijection from positions that is in order |
| `ListsProofs` | | induction over sets, and what sorting, filtering and joining give |
| `MC*` | | the values of the constants for TLC |

Operators named `X_Something` with the comment *Mutant* are not part of a
specification. They are plausible wrong versions of `X`; with one of them in
place of `X`, the run named beside it in `PROJECT.json` reports a violation.

### DataDir

A *tree* is a directory inode with its content: `Old` is the one that may be
live at the start, tree `i` is the one that importer `i` builds. A *path* names
at most one tree (`dir`), a rename moves a tree from one path to another, and a
tree keeps its `parts` and its lock inode (`lockNo`) when it moves. `pc` is the
control point of a process, `fd` the lock inode it has open, `todo` the siblings
a cleanup has still to visit, `rm` a `remove_dir_all` in progress and `seen` the
tree from which an engine opened each part.

An import goes through `cleanup`, `extract`, the four parts it writes (`places`,
`text`, `spatial`, `manifest`), then `publish_data_dir`: `check` (the first
`exists`), `open` and `trylock`, `recheck` (the second `exists`), `aside` (first
rename), `swap` (second rename) or `rollback`, `dropobs` and `exit`; an error
leads to `discard` and `fail`. `remove_dir_all` is not atomic: it lists the tree
when it begins, unlinks what it listed one entry at a time, and its last step
fails when the directory has a new entry. A *shared* lock is asked for with a
blocking call, an *exclusive* one with a call that gives up (`TryLockRefused`).
The faults are named: `crash` at any point, errors while building, failing
renames, the `parent` directory that cannot be made between the renames, a
failing rollback and a removal that stops half way.

An engine opens `.lock`, waits for the shared lock, then opens the manifest,
places, text and spatial parts, each by path. `PlaceCount` is compared as the
code compares it; the instances give every tree the same count, because then the
comparison hides nothing.

`LiveIndex` is what readers may rely on: the live path names a whole tree or
nothing; a tree leaves it only when nobody pins it, and is then replaced by a
whole tree or put back. `ImplementsLiveIndex` states that `DataDir` implements
it, with

* `live` = `dir[Live]`,
* `retired` = the trees an import has moved aside and may still rename back,
* `whole` = the trees that hold all four index parts,
* `pins` = the engines that *guard* the live path, that is, whose shared lock is
  on the lock inode of the tree which the live path names now.

That last definition is the heart of the matter: an engine may hold a lock and
not guard anything, when its lock moved away with the old tree (finding 1).

### BatchPool

`request` is a sequence of outcomes (`hits`, `error`, `panic`), `cores` what
`available_parallelism` says, `worker[k]` and `local[k]` a scoped thread and its
results, `slots` the array that the caller fills from the joins. The chunk a
thread works on (`Chunk`, from `slice::chunks`) and the range the caller
computes for it (`Start`, `SlotsOf`) are separate definitions, as they are
separate computations in the code. A refused thread makes `Scope::spawn` panic;
`thread::scope` then waits for the others before the panic goes on.

### PlaceStore

`places` is the writer's buffer; `coords`, `meta` and `strings` are files. `Get`
needs the bytes it reads to be there and compares the count as the code does.
`Word` stands for 2^64: the byte sizes that `open` computes from a header count
are taken modulo `Word`, as an unchecked multiplication does in a release build.
The strings of a place are a blob: where it stands, its first string (the name)
and how many strings it holds, five when it is whole. A writer that fails at a
place leaves the ones before it in `meta.bin` and `strings.bin`.

Nothing syncs the files before they are published. `PowerLoss` therefore cuts
any of them, or leaves them at their length with blocks that read as zeros: any
rows of `coords.bin` become zero, a row of `meta.bin` loses its OSM id, its
offset or its length or a part of the offset, and a blob gets a NUL in the
middle, which ends one string early and makes six of five. `HeadersRot` changes
the counts. What no check can notice stays unnoticed in the model too: zero
coordinates, a zero OSM id, and an offset of which only some bytes are left
(`Torn`), which may point into the middle of a name.

### SpatialIndex and ReverseSearch

A layer is three columns (cells, offsets, postings). `Admits` is the validation
of `CsrLayer::open`, `FirstNotBelow` the binary search as written, as a
recursive function. `ReverseSearch` pushes places, builds both layers, may
damage the fine one, opens them, takes a query, and goes through the stages of
`candidates` (own cell, ring 1, ring 2, coarse cell), then `push_best` one
candidate at a time, then hydration. The H3 grid is outside the repository and
comes in as the constants `Coarse`, `Ring` and `Nearness`. `Coarse[c]` is a set:
the code computes the coarse cell from the point and not from the fine cell, so
that two points of a fine cell on a border may lie in different coarse ones.
The damage includes a posting with an id that no place has (`WrongPosting`);
`Rank` skips such a candidate, whose coordinates and importance cannot be read.

### Extraction

A file is a sequence of nodes, ways and relations. `CollectNodes`, `Finalize`,
`ExtractPlaces` and `HashSource` are the steps of the import; each pass opens
the path again, and `Replaced` puts another file there in between. Ids are
signed and stored as unsigned (`as_u64`). Categories, importance and address
fields are left out; whether an element has a name or an address is kept, since
that decides whether it is imported.

### Server

`request[r]` is how far a request is, `job[r]` the blocking job behind it. A
light request computes on a runtime thread without an await, so neither its
timeout nor anybody else's handler runs on that thread meanwhile (`ThreadFree`).
A bulk request reads its body, queues a job and waits; a timeout or a leaving
client ends the request and leaves the job. A shutdown drains the connections,
then drops the runtime, which cancels queued jobs and waits for running ones.
The async runtime and the HTTP library are external. The reply `result` stands
for whatever a handler or its job answers, 400 and 500 included: the request is
answered, and that is what the properties are about.

### Deployment

The server process is the only engine of an instance of `DataDir`, and its state
is that of `Server` beside it. `run_serve` opens the engine before it listens,
so `Start` is `OpenShared` of `DataDir` and makes the requests of `Server` anew;
an `Engine::open` that fails ends the process (`OpenFails`). Everything a
handler does needs an open engine (`Up`). `serve` returns when the connections
are drained and drops the router, but every bulk job owns a handle of the
engine, so the flock and the maps go when no job is queued or running any more
(`LastHandleDropped`), and then the process exits. A process may be killed at
any moment (`Killed`), also because it cannot bind, and the server may be
started again. Beside it importers run as in `DataDir`.

### TextIndex and ForwardSearch

Text is a sequence of characters from a small alphabet with letters in both
cases, a space and a comma, and one letter, U+0130, whose lower case is a letter
and a combining mark that is not alphanumeric. `tokenize`, `normalize_query`,
`place_search_text` and `format_display_name` are the functions of that name;
`Terms` is what Tantivy's default analyzer makes of the text the import hands to
it: it splits the text again, drops tokens of 40 bytes or more (`TokenBytes`)
and lowers the rest. Queries do not go through the analyzer: `search` builds its
terms from `tokenize`.

`ForwardSearch` pushes places, indexes them, and takes a query: `Ask` is
`SearchQuery::new` with its checks and limits, `Search` is the lookup of
`TantivySearcher`, `Rank` what `Engine::geocode` does with the hits: it asks for
`MAX_LIMIT` of them whatever the limit is, leaves out those the place store
cannot give (`lost`), adds the importance, sorts, and cuts. The text score of a
matching document is any number (`score`), and documents stand in the index in
any order (`order`), as Tantivy's writer has several threads; equal scores go by
that order.

## 3. The runs

| run | instance | question and answer |
|---|---|---|
| `data-dir-sequential` | 2 imports one after the other, 2 engines, every fault but `removal`, any unlink order, any start (116 thousand states up to symmetry) | do readers always see a whole index, does nobody take a guarded tree away, does a cleanup remove all orphans, does only a cleanup lose the last whole index, is the promise `LiveIndex` kept? Yes |
| `data-dir-overlap` | 2 imports at once, 1 engine, failing removals | does every import end and no engine wait for ever, even while imports delete each other's files? Yes |
| `data-dir-served-tree` | 2 sequential imports, 1 engine, no fault at all | finding 1 |
| `data-dir-orphan` | 1 import that may crash | finding 2 |
| `data-dir-torn` | 2 imports at once, no fault | finding 3 |
| `batch-pool` | 0 to 6 items with limit 5, 1 to 4 cores | does every item get its own answer, is every slot filled, does no thread outlive the call, are there no useless threads, does the call end? Yes |
| `place-store` | up to 2 places of 4 kinds, `Word` = 2048, every header count | is a whole store given back, are opened columns covered, are the strings given those of the place, or none? Yes |
| `reverse-search` | 5 fine cells on a line and 2 coarse cells that meet in the fourth, up to 3 places, limits 1 to 3, damage in indexes of up to 2 (495 thousand states) | are lookups exact, are admitted layers sound, is the answer full and sorted? Yes |
| `extraction` | every file of up to 4 of 7 elements, 2 replacements | is everything that should be imported imported, where it lies? Yes |
| `forward-search` | up to 3 of 6 kinds of place, 4 queries, 4 limits, `MAX_LIMIT` = 2, one place that may be lost (322 thousand states) | is a place found by its name, are the best answered, is nobody left out for a worse hit, do answers to larger limits begin with those to smaller ones? Yes |
| `forward-search-dotted` | the same, with a name that begins with U+0130 | finding 4 |
| `deployment` | 1 server with 1 light and 2 bulk requests on 1 runtime and 1 blocking thread, kills and restarts, 1 import with returned errors, a bare data directory path (117 thousand states) | does every request end, does a shutdown complete, is no awaited job dropped, does the index stay while it is used, does the server map one generation, does an ended import leave nothing, does the live path come back? Yes |

Why the bounds are enough to be interesting:

* *Two imports* are the fewest with which one cleans up after another, or
  publishes over a server that started meanwhile; a third one only repeats what
  the second does, and the proofs of section 5 have no such bound. *Two engines*
  are enough for one to open before and one during a publication, and for one to
  hold the lock that the other's exit frees. Importers are interchangeable
  there, and so are engines; the symmetry reduction is sound as the run has
  safety properties only.
* `OneOrder` fixes the order in which a removal unlinks files where the run asks
  for termination or needs only one counterexample; the other runs allow any
  order.
* *Five items on four cores* is the smallest case in which rounding up gives
  fewer chunks than workers and the last chunk is short; the sixth item is
  rejected. Every pattern of panics is tried.
* `Word` = 2048 is the smallest power of two above 25 times the largest file, so
  that wrapping behaves towards these files as 2^64 does towards real ones;
  `EveryCount` tries every count a header can hold.
* Five cells let a coarse cell reach beyond both rings (the first to the fourth
  are in one) and leave a cell outside of reach, and the fourth lies across the
  border of the two coarse cells; three places with limits up to three make
  `push_best` fill up, evict and tie.
* Four elements are enough for a repeated node, a way before its nodes, a closed
  way and a way over an unknown node.
* One thread and one place in the pool are the tightest case: a light request
  stops every handler, and one job may run for a client that is gone while
  another waits in the queue.
* Three places and an index that is asked for two make the index's own cut, the
  limit's cut and a lost place happen in one query; among the places are one
  without a name, one whose name is empty and one whose name the analyzer drops.
  Two text scores and two importances give every order and every tie.

Some properties need a restriction, which the run's constants make:

* `deployment` injects no `parent` fault: that early return lies between the
  renames and rolls nothing back, so neither `LiveReturns` nor
  `EndedImportLeavesNoSibling` holds with it. Nor does it inject crashes of the
  import, after which `LiveReturns` is false, or a failing rollback.
* `deployment` sets `ParentListable = FALSE`: with `--data-dir data` the parent
  is the empty string, whose listing fails with *not found*, and the cleanup
  returns early. What the run checks holds all the same, since an import that
  ends cleans up after itself.
* `CleanupRemovesOrphans` needs removals to succeed (the code ignores the error
  of a removal that stops half way) and a parent that can be listed.
* `OwnStringsOrNone` excepts a `Torn` offset, since nothing in the code guards
  it.
* `OneGeneration`, `UseKeepsTree` and `ServedTreeStays` hold beside one import;
  with two, finding 1 is the counterexample.
* `FoundByName` speaks of names with at least one token short enough for the
  index.
* `CHECK_DEADLOCK FALSE` is set everywhere, since every system here may come to
  rest: the imports have run, the call is answered, the process is gone.

## 4. Fairness

* `DataDir`: weak fairness of each importer's step and each engine's step. A
  process that is scheduled makes its next system call, and the kernel wakes a
  waiter when the lock is free; a lock an importer holds is released by the
  importer's own fair steps. Nothing makes an operator start an import or stop a
  server, and nothing makes a crash or another fault happen.
* `BatchPool`: weak fairness of the caller and of each thread. Processing one
  item ends: it is a bounded search.
* `Deployment`: weak fairness of each importer's step and of the opening
  engine's, as above; of each request's handler (the runtime polls tasks that
  are ready, and timers fire); of the end of a running job (justified by
  `CallEnds` of `BatchPool`); and of the shutdown's own steps. No fairness is
  asked of operators, who start processes and kill them, of clients, of the
  signal, or of a queued job, which may stay queued for ever as far as
  `EveryRequestEnds` is concerned. Until the server is started again a request
  is sent at most once, so a runtime thread is not kept busy by an endless
  stream of new light requests.

## 5. The proofs

Every theorem holds for all values of the constants that satisfy the named
assumptions of the module.

**`DataDirProofs`, safety.** `TypeCorrect` needs nothing but the assumptions,
overlapping imports included. The others assume `~OverlappingImports`: with
overlapping imports `LiveWhole` is false (finding 3). They allow any number of
importers and engines, every fault and any unlink order.

The inductive invariant `IInv` is needed because none of the properties is
inductive: that the live tree is whole depends on what is in the staging tree,
on which trees a removal may still be eating, and on who holds which lock.
Besides `TypeOK` it says:

* `OneImporter`: at most one import runs. `TreeAtOnePath`: a tree has one name.
* `FreshTrees`: until it is published an importer's tree is only at its staging
  path, and nobody has its lock file open. `Written`: what it holds at each
  control point; at `check` and later, everything.
* `InPlayWhole`: the live tree, and one that may be renamed back, is whole.
* `Handles`: removals work on siblings and never on the live tree; lock files
  are open only where the code has them open.
* `LockCurrent`, `ExclusiveAlone`, `PublishWindow`: the lock file opened in the
  live tree is still that tree's, an exclusive holder is alone, and from
  `trylock` to the first rename the importer's lock is on the live tree, or
  there is none.
* `SeenNothing` and `GuardedEngineReadsOneTree` itself: an engine that guards
  the live path has opened nothing but parts of the live tree.

The proof that a step preserves `IInv` has a lemma per action, or per group of
actions that do the same thing (`GivesUp`, `Unlocks`), and in each lemma a step
per conjunct. Consequences: `LiveIsWhole`, `GuardsReadOneTree`.

**`DataDirProofs`, the promise.** `Refinement`: `DataDir` implements
`LiveIndex`. Each action is mapped to a step or a stutter: `MoveAside` to
`Retire`, `Swap` to `Install`, `Rollback` to `Restore`, giving up after the
first rename (a crash, a failing rollback, the early return) to `Forget`, the
last part written to `Build`, the first one unlinked to `Scrap`, obtaining and
dropping the shared lock to `Pin` and `Unpin`; all others are hidden. The crux
is `MoveAsideUnguarded`: at the first rename the importer holds the exclusive
lock on the inode that every guard would hold. `GuardedStays` is the action
property that no step takes a guarded tree away.

**`DataDirProofs`, the last index.** `IndexIsKept`: with imports one at a time,
any crashes and any other faults, as long as there is a whole index at the live
path or moved aside, only a cleanup can change that. It is the other side of
finding 2. Two removals outside a cleanup could lose the last index, and the
invariant `Keeps` says what they work on: an error discards the importer's own
staging tree, and while the retired tree is dropped the live tree is the
importer's own, which is whole by `InPlayWhole` (`RemovalKeepsIndex`). The
renames move a whole tree and change none of its parts (`ImporterKeepsIndex`,
`StaysWhole`), and an engine touches nothing (`EngineKeepsIndex`).

**`DataDirProofs`, one import**, two extensions of `IInv`.

*One import* (`AtMostOneImport`), any number of engines and any faults.
`ServesOneGeneration` and `ServedStays` do not follow from the guards of `IInv`:
once the import has swapped, an engine may sit with its flock on the retired
tree and guard nothing. What saves it is that nobody is left to move the new
tree. So `OInv` tells two times apart, before and after the import is `Settled`,
that is, past its renames: until then the lock file of an engine is in a tree
that is or may become again the live one (`LockInPlay`), and an engine with its
flock guards (`GuardsUntilSettled`), which keeps the import from moving the tree
away; from then on the live path stays (`Effect`). In both times what an engine
has opened is the live tree (`SeesLiveOnly`), and it has opened all four parts
when it is up (`OpenedInOrder`).

*Any number of imports, one at a time.* `CleanupCleans` assumes `Removes` (the
parent can be listed, removals do not stop half way): an extraction begins
beside no sibling, however many earlier imports have crashed and where. Its
invariant `Cleaning` says that a sibling which was visited is gone or is being
removed, and that the removal has listed all there is, since nobody adds an
entry to a sibling. `EndsTidy` assumes `Clears` (no failing removal, no failing
rename back, no early return between the renames), and neither that the parent
can be listed nor that nobody crashes: an import that returns has left neither
its staging tree nor the retired one. `Tidy` says at which control points either
may exist; that the rename back is possible whenever it is needed follows from
`PublishWindow`, which keeps the live path free between the renames.

**`DataDirProofs`, any imports at once, and their end.** `ImportsRunDown`: every
step of an import lowers its control point in the order `Ahead`, or leaves it
and takes a sibling off the list of the cleanup, or leaves both and takes an
entry off a removal; no step of another process raises any of the three. With
finitely many importers all of them are finite, so an import takes finitely many
steps. `NobodyWaitsForTheDead`: an import that has returned or died has its lock
file closed (`LocksClosed`), so that a waiting engine waits for one that runs.
Neither needs sequential imports. What `ImportEnds` and `LockWaitEnds` add is
that an import can always take a step, and that weak fairness makes it.

**`DeploymentProofs`, the server alone.** `ServerTypeCorrect` and `NobodyLoses`,
for any number of requests, threads and blocking threads. The
invariant adds `JobsHaveBodies` (who waits has a job, and who has not got so far
has none) and `Drained` (when the runtime is dropped no request is open, and
none opens any more).

**`DeploymentProofs`, the composition.** `ImplementsDataDir`: every behaviour of
the deployment is one of `DataDir` with the server as its engine, so all
theorems about `DataDir` hold for it. `Deployment` names `DataDir` with one
instance and the proofs name `DataDirProofs` with another; the prover takes
their operators for different symbols, and `SameAssumptions`, `SameStep` and
`SameStart` say that they are equal. `DInv` is the invariant of `Server` and
`JobsHaveEngine`: a job that is queued or runs owns a handle, so the engine is
up. `TreeStaysInUse` combines it with `OInv`: while the engine is up, or a bulk
job runs for a client that is gone, the tree keeps the live path. It would be
false if jobs borrowed the router's engine, as the mutant
`LastHandleDropped_WithRouter` does. `NobodyLosesBesideImports` and
`DeploymentTypes` say of the deployment what the
section before says of the server; they need their own proof because kills and
restarts are new steps. `ServerMapsOneGeneration` and `EndsTidyBesideServer` are
theorems about `DataDir` carried over.

**`BatchPoolProofs`, the answers.** `ItemsAreAnswered`, `SlotsAreFilled`,
`NoIdleThread` and `Types`, for calls of any size on any number of cores, under
every schedule. The invariant `AInv` says how far the caller is (`Call`), what
each thread has collected of its chunk and why it ended (`Work`), and that the
slots of every joined chunk hold what its items are answered (`Slots`). The
arithmetic is in lemmas of its own: rounding up twice leaves no empty chunk and
no more chunks than workers (`ChunkCounts`), the range the caller computes is
the one the thread was given (`ChunkShape`), chunks cover the items and no item
is in two (`ChunksCover`, `ChunksApart`).

**`BatchPoolProofs`, the end of a call.** `CallsRunDown`: each step lowers
`CallerLeft`, or leaves it and lowers the `ItemsLeft` of one thread and of no
other; all of them are natural numbers (`Counted`). `CallsGoOn`: until the call
has ended the guard of a step of the caller holds (`CallerReady`) or a thread
runs, so nobody waits for nobody. Together they are `CallEnds` except for the
temporal rule of weak fairness, which stays with TLC.

**`BatchPoolProofs`, the threads.** `ThreadsEnd`: when a call has returned or
panicked no thread it started runs, for calls of any size, any number of cores,
and any panics and refused threads. The invariant says how many threads the
caller has started and joined at each control point (`Threads`), and that a
joined thread, or one the scope has waited for, is over (`Over`).

**`PlaceStoreProofs`, the checks of `open`.** `ColumnsAreCovered`: a store that
opens has the row of every id below its count in both columns, although `open`
compares with sizes that wrap. A count that is too large could pass one
comparison by wrapping; it cannot pass both. If the sizes wrap q1 and q2 times
and what is left of both is small, then 25·q1 = 8·q2, because 25·(8·count) =
8·(25·count); but q1 < 9 and q2 < 25, and 8 and 25 have no common factor, so
neither wraps (`NoCommonWrap`). The invariant carries the sizes of the files and
what `open` compared. The theorem needs `Word` to exceed 25 times the size of
the largest column file (`WordAssumption`), which every real file satisfies by
far.

**`PlaceStoreProofs`, the round trip.** `PlaceStoreGivesBack`,
`PlaceStoreOwnStrings` and `PlaceStoreTypes`, for any places, any widths and any
damage that `PowerLoss` and `HeadersRot` describe. `StoreInv` adds to the sizes
what is in the files: `Rows` (what is left of each row that was encoded from the
places: a row of `meta.bin` names the stretch of its place, or an empty one, or
is `Torn`; a blob stands where it was written and has its own name or no longer
five strings), `Whole` (a file that is not damaged has the size, the count and
the rows it was written with) and `Verdict` (an open store passed every check of
`open`, a refused one did not). `MetaLoss` and `StringsLoss` show that zeroed
blocks leave no more than that. The offset of a string is a sum over the places
before it: `CursorExists` shows that the recursive function which adds them up
is defined, `CursorRises` that it rises strictly, and so `BlobsApart` that a
stretch belongs to one place only. An empty stretch is nobody's
(`NoEmptyBlob`), and the count of five strings is what tells a whole blob from a
broken one; without it `OwnStringsOrNone` is false (`Get_AnyNumber`). Two
assumptions are used here and not above. The end of the file of strings fits
`Word`; the writer's offsets are `u64` and nothing checks them. Every place has
at least eight bytes of strings: a closing NUL for each of five fields, `{}` for
its address, and a display name.

**`ListsProofs`.** The induction theorems of the library take an operator, which
the provers cannot instantiate. Here the property is a *set*, the numbers or the
subsets it holds for, and `InductionUpTo` and `InductionOnSubsets` follow from
the fact that a set of numbers has a least one. On them rest: a finite set with
a strict total order can be listed in that order (`SortingExists`), a set of
numbers in one way only (`OnlyOneWay`), so that the `CHOOSE` in `Listing` is a
definition and not a hope; what filtering keeps and in which order (`Picked*`);
what joining a sequence of sequences gives, by elements, by position and one
step at a time (`Flatten*`); and where an inserted element stands (`Insertion`).

**`ReverseSearchProofs`.** For any cells and rings, any places, any limit and
any of the damages to the fine layer. The argument goes along the life of an
index:

* *What is written* (`LayerWritten`, `WrittenIsSound`): the cells rise, each has
  the bucket of its places in order, and the offsets say where it begins.
* *What is admitted* (`DamagedIsSound`, `AdmittedTables`): a damaged layer that
  passes `Admits` still has offsets that rise and stay inside the postings, and
  postings that are ids of places or of none.
* *What a lookup reads* (`FirstIsFound`, `LookupFinds`, `LookupsApart`): the
  binary search ends at the first cell that is not below, for any table; two
  cells never share a posting (`ReverseSearchSound`); and in an undamaged layer
  a lookup is the bucket of its cell (`ReverseSearchLookup`).
* *What the stages collect* (`CollectKeeps`, `EnoughKeeps`): before each stage
  the candidates are exactly the places in the cells visited so far.
* *What `push_best` keeps* (`PushKeepsTop`): the list is the top of the places
  among the candidates seen so far, whether it had room or was full; a candidate
  that is no place leaves it as it was (`ReverseSearchBest`).

`IInv` has a conjunct for each: `Layers`, `Candidates`, `Tops` and `Answers`,
besides `Typed`. `ReverseSearchAnswers` combines all of them. It needs
`Candidates` to say two different things when the ranking begins, that the
candidates are all that is in reach *or* are at least as many as the limit,
because the search stops in either case. The assumptions are the types of the
constants and that a limit is positive, as `query.rs` makes it.

**`ForwardSearchProofs`.** `ForwardSearchBest`, `ForwardSearchFair`,
`ForwardSearchNests` and `ForwardSearchTypes`, for every index, scores, order of
documents, limit and cap. Three steps each see only a part: the index cuts by
text score alone (`TopIs`), places that cannot be read drop out (`ReadableIs`),
and the sort by score and importance comes before the limit (`SortedIs`,
`AnswerIs`). The invariant says what each phase has left: documents in the index
with a bijective order (`Imported`), a limit between one and `MAX_LIMIT`
(`Limited`), hits that are the index's top (`Fetching`) and results that are the
answer to them (`Answers`). `ForwardSearchNests` holds although equal scores
occur, because the sort is stable and does not see the limit. What is used of
the constants is that the default limit is within the cap, and that a place
which may be imported has a name or a road, an importance, and tags that are
texts.

**`ForwardSearchProofs`, the words.** `ForwardSearchWords` and from it
`ForwardSearchFinds`: whoever asks for a word of any tag of a place matches the
place, for tags and queries of any length over the alphabet of `TextIndex`,
which has a letter of each kind that tokenizing and lowering tell apart and the
marks between them. The import joins the tags to a display name, splits that,
lowers, joins, adds the display name once more, and the index splits and lowers
again; the query is split and lowered once. The argument has four parts:

* *Runs* (`RunsAre`): the runs of a text are exactly the stretches that are
  alphanumeric and have no such neighbour; `Spans` and `SpansListed` give their
  order, on the lemmas about `Listing`.
* *Joining keeps words* (`Positions`, `FlattenPositions`, `JoinedParts`,
  `WordMoves`): every part of a joined text is in it at a place of its own with
  a blank or a comma on either side, so that a run of the part is a run of the
  whole.
* *Lowering twice is lowering once* (`LowerIs`, `LoweredIs`, `LoweredWord`,
  `PlainWords`): a word without U+0130 has a lowered form that is a word, and
  its own lowered form. For U+0130 this is false, which is finding 4. `Short`
  asks of a word no more than that and a length the index accepts.
* *Every tag gets there* (`PresentIs`, `JoinedTags`, `DisplayNameIs`,
  `TagsFound`): and so the index has the words of every tag there is (`Indexed`,
  the invariant).

`ForwardSearchFinds` states `FoundByName` under `PlainNames`: no name has U+0130
in it.

**`ExtractionProofs`.** For files of any length and any order of elements, and
whatever replaces the input between the passes. `ExtractionNodes`: the store
holds for each node the coordinates of its last occurrence, and nothing else. A
stable sort leaves the last occurrence at the end of each run of equal ids
(`SortedByIdIsStable`), and removing duplicates keeps that end
(`RunEndsAreLast`, `RunsEnd`). `ExtractionPlaces`: the places are the wanted
elements of the file the second pass read, each once and in its order, a way in
the middle of those of its nodes that are in the file the *first* pass read
(`CentroidIsMiddle`, `PlacesOfFile`). The invariant records which file each pass
opened (`Opened`), what the store holds at each step (`Filled`) and where the
places come from (`Found`); without `Filled` the second pass could look up
anything.

Every inductive invariant was checked by TLC on the instances of section 3
before it was proved.

## 6. Model-checked only

Liveness (`LiveReturns`, `ImportEnds`, `LockWaitEnds`, `CallEnds`,
`EveryRequestEnds`, `ShutdownCompletes`): out of reach of the prover, as is
`ENABLED`. Of an import and of a bulk call it is proved that their steps come to
an end (section 5).

All the other properties of the passing runs are stated by a theorem, some under
conditions that section 5 names.

## 7. Not modelled

* *Inside Tantivy*: BM25 (any score), segments and merges (any order of
  documents), its files (one part of the tree in `DataDir`).
* *Floating point*: scores and importances are small integers, so that ties
  occur, which with floating point they rarely do; of distances in
  `reverse_score` only the order counts, and coordinate ranges are not checked.
* *Address parts*: `ForwardSearch` has the road only, since all parts are
  treated alike.
* *Manifest contents*: only presence and `place_count` matter here; the version
  and format markers are compared with constants.
* *`FlatNodeStore`*: no import uses it.
* *Category, importance and address extraction*: tables of tags.
* *Bytes*: the encodings of files, and of the bodies and answers of HTTP
  requests. Field widths matter only through `Word`.
* *Answers of HTTP requests*: their contents and their status, except that a
  timeout is told from an answer. A job that panics and one that returns an
  error are a 500; in the model they are a job that is done.
* *Errors inside the text search*: an error of Tantivy, of the fetch of a
  document or of a document without `place_id` fails the query; `Search` has
  none of these returns.
* *Letters that grow*: some other letters than U+0130, such as U+023A, have more
  bytes in lower case. They matter only for a token at the limit of 40 bytes;
  `TokenBytes` counts the characters of the model's alphabet.
* *Torn offsets* in `meta.bin` occur, but no property says what they lead to.
* *Command line, benchmark*: a one-shot command is an engine that opens and
  closes.
* *Connections*: a connection whose request head is not complete, and the
  writing of an answer to a slow reader, belong to the HTTP library.
  `ShutdownCompletes` speaks of requests that reached a handler.
* *Loss of power* is modelled for the place store and the spatial layers, not
  for the Tantivy directory, the manifest, or the order of renames on the disk.

## 8. Differences between the code and what is said of it

Shown by a run that ends in a violation:

1. `data-dir-served-tree`. `publish.rs:97` says the exclusive lock is required
   "so a running serve process cannot be swapped out". An engine that opened
   `.lock` just before the first rename gets the lock of the tree that was moved
   away, then opens the new tree by path, and serves it with a lock that guards
   nothing; the next import publishes over it. No fault is involved.
2. `data-dir-orphan`. The import guide says that `.obsolete-` siblings are not
   live data. After a crash between the two renames such a sibling is the whole
   index and the only one, and the cleanup of the next import, which may then
   fail, deletes it.
3. `data-dir-torn`. `README.md:126` says a failed import cannot leave a torn
   live index. Two imports at once can: one's cleanup eats the other's staging
   tree while it is built, and what is left of it is published.
4. `forward-search-dotted`. `tokenize.rs:3` says that it splits text into
   alphanumeric tokens. It splits first and lowers then, and the lower case of
   U+0130 (as in the Turkish spelling of Istanbul) has a combining mark, which
   is not alphanumeric and stays in the token. The index splits its text once
   more, there, and the query does not: the place is not found by its own name.

Shown by a run that passes, since its property states what the code does:

5. `reverse-search`. `ARCHITECTURE.md:170` says that reverse candidates are
   ranked by distance, from `coords.bin` only. `Engine::reverse` ranks by
   `reverse_score`, which adds a quarter of the importance, read from
   `meta.bin`; `AnswerIsFullAndSorted` holds with that score.
6. `extraction`. `ARCHITECTURE.md:106` and the import guide list address
   features (house number and street) among what is imported from nodes and
   ways. `extract_places` (`import/mod.rs:140`) takes such a node and passes
   over such a way; the run has one, and `PlacesAreThoseOfTheFile` holds without
   it.

Noticed while modelling, without a run of their own:

* With `--data-dir data` the parent path is the empty string, `read_dir("")`
  fails with *not found*, which counts as *nothing to do*, and `cleanup_orphans`
  never removes anything. `ParentListable = FALSE` is this case; once an import
  has crashed `CleanupRemovesOrphans` is false with it.
* A name made of tokens of 40 bytes or more cannot be found: the default
  analyzer drops them from the index (`TokenBytes`, the name `bbA` of the
  `forward-search` run).
* `ARCHITECTURE.md` calls `binio` the "Bulk reverse binary codecs"; the codec is
  in `hexplace/src/api.rs:267-303`, and `binio` maps files.
* The binary answer of a bulk request writes an item that failed like one that
  found nothing.
* `engine/import/mod.rs:39` takes `source_hash` from a third opening of the
  input, so it need not belong to what was imported (`README.md:151`).
  `Extraction` has this behaviour.
* The 30 second timeout of the light endpoints cannot fire while their handler
  computes, since the handler has no await.
* Among equal scores `push_best` prefers the later candidate while it has room
  and the earlier one when it is full, so the order depends on the limit.
* `store.rs:211` multiplies unchecked: where the release build wraps, a debug
  build panics on a damaged header.

## 9. The plan

Done, in this order: `LiveIndex` and `DataDir` with their runs and proofs; the
bulk pool and its threads; the store and the spatial index; reverse search;
extraction; the server with its proofs; the theorem about the wrapping sizes;
the composition of server and imports; forward search; the answers of the bulk
pool, the promises of a single import, the cleanup and the tidy end, and the
deployment, as theorems; the list lemmas, and with them the round trip of the
store, reverse search, forward search and extraction as theorems; that a place
is found by its words and by its name, and that imports and bulk calls run down;
stores with zeroed blocks, fine cells across a border, and that only a cleanup
loses the last index.

What is left, the most valuable first:

1. The hash of another opening of the file, a difference that `Extraction` can
   show, as a run.
2. The order in which files and renames reach the disk, with the manifest and
   the text directory: a loss of power after a publication.
3. The index on disk behind both searches: that the places which
   `Extraction` yields are those that `PlaceStore` and the spatial layers are
   given, as one composed specification.
4. Several servers on one data directory behind one address, restarted in turn.
