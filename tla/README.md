# A verification model of Gaia-ECS

TLA+ models of the concurrent and the stateful core of Gaia-ECS (`src/include/gaia`),
model-checked with TLC on small instances, with theorems checked by TLAPS.  Paths below are
relative to the repository's `src/`; `MT` is `include/gaia/mt`, `ECS` is `include/gaia/ecs`.

## 1. The system

| Component | Where | State it keeps | Operations | Correct when |
|---|---|---|---|---|
| Local job queue `mt::JobQueue` | `MT/jobqueue.h` | ring of handles, `m_bottom`, `m_top` | push, pop (owner), steal (anyone) | an atomic deque; every job handed out once |
| Global job queue `mt::MpmcQueue` | `MT/jobqueue.h` | ring of cells with sequence numbers, two positions | push, pop by any thread | an atomic bounded FIFO; cell accesses never race |
| Job manager | `MT/jobmanager.h`, `MT/jobhandle.h` | slots with one packed atomic word (state, dependency count), edges, free list | add, dep, dep_refresh, submit, run, signal, reset, del | dependency order; a ready job is run once; edges are live |
| Thread pool | `MT/threadpool.h`, `semaphore_fast.h`, `event.h`, `futex.h` | workers of two priorities, their queues, semaphores, events, the futex word, `m_stop` | submit, fetch, steal, run, update, wait, reset; background workers; `sched_par` | no job lost or doubled; no lost wake-up; `wait` and `reset` do what they say |
| Entity deletion | `ECS/world.h`, `entity_container.h`, `pair_lookup.h` | entity records, archetypes, pair records, request queues, reference counts | add, del, SafeEntity, cleanup rules, `frame_cleanup` | nothing mentions a recycled id; held entities survive; cascades are complete |
| Entity container | `cnt/ilist.h`, `paged_storage.h` | slots, generations, free list | alloc, free | a handle names one entity |
| Chunks and archetypes | `ECS/chunk.h`, `archetype.h`, `chunk_allocator.h`, `world.h` | rows, enabled partition, hint of the first chunk with room, lifespans, two deletion queues | add/remove/move/enable/sort rows, collection, defragmentation | records and rows agree; queues are exact; room is found; no live chunk is freed |
| Command buffer | `ECS/command_buffer.h` | recorded commands, temporaries | record, commit (merge, cancel, replay) | commit has the effect of the recorded commands |
| Queries | `ECS/query*.h`, `vm.h` | shared records with references, archetype lists, cursors and revisions, a reverse index, create-time selectors | fetch, match, match one archetype, reset, copy, destroy, invalidate | a cached result equals matching from scratch; no list keeps a dead archetype |
| Observers | `ECS/observer*` | registrations by term, flags on terms, one list of relevant observers, diff contexts | notify on add/del/set, directly or by comparing matches before and after | who keeps an index in callbacks has what a query gives |
| Systems | `ECS/sched.h`, `system.inl`, `world.h`, `query.h` | phases, DependsOn pairs, access sets, change versions, the structural lock | order, batch, prepare jobs, flush, commit | order and barriers hold; conflicting systems never overlap; no change is lost to a filter; an update returns |
| Non-fragmenting relations, sparse components | `ECS/nonfragmenting_relation_store.h`, `sparse_component_store.h` | relationships outside archetypes | set, del, cascade | agrees with the archetype representation |
| Component cache, iteration, allocators, containers, serialization | rest of `include/gaia` | registries, typed views, memory | | left out, see section 7 |

How they interact.  A system or a user submits jobs to the thread pool; `submit` marks a job's
word and queues it when its dependency count is zero; a worker takes it from its local queue,
a global queue or by stealing, runs it, stores `Done` and signals the dependents, some of which
it now queues itself (`run` and `process` call each other).  The world is used from one thread
outside of systems; its structural changes happen at once (`add`, `del`), or are recorded in a
command buffer, and the final part of a deletion waits for `frame_cleanup`.  A change moves rows
between chunks, may create an archetype, which is offered to the cached queries, and calls observers
before, while and after it is made; `frame_cleanup` ages and deletes chunks and archetypes and takes the
latter out of the queries' caches.  `World::update` visits systems in order, turns parallel ones into jobs
of the pool, holds the structural lock while jobs are prepared or running, and commits the command
buffers when the last lock is given back.

The hard behaviour: lock-free queues; the packed job word that `submit` and
`signal_edge` race on, with slots being recycled; sleeping and waking in `wait` and in the worker
loop, with queues that fill up; deletion in several phases, where flags, request queues,
archetypes and pair records each keep a part of the truth; chunks and archetypes that wait for their deletion
and are used again; caches of queries that several indexes and revisions must keep fresh; batches of
systems whose versions and commands must neither be early nor late; observers that are called in the
middle of a change and change the world themselves.  `PROJECT.json` lists the hazards one
by one, at the line where they bite, with the properties that cover them.

## 2. Modules

| Module | Models | Its state |
|---|---|---|
| `AbstractDeque` | what a worker's queue promises: a bounded deque whose owner uses one end and thieves the other | sequence of queued jobs, who got what |
| `WorkDeque` | `JobQueue`, one action per access to `m_bottom`, `m_top` or a slot | ring, counters, what each thread is about to do |
| `WorkDequeProofs` | theorems about `WorkDeque` | |
| `AbstractFifo` | a bounded FIFO | sequence of items |
| `MpmcQueue` | `MpmcQueue`, one action per atomic access | ring with sequences, positions, threads |
| `MpmcQueueProofs` | theorems about `MpmcQueue` | |
| `JobGraph` | `JobManager` with `ThreadPool::submit`, `run`, `reset` and `del` | job words, edges, edges still owed, workers inside `run`, handles collected for `process` |
| `JobGraphProofs` | theorems about `JobGraph` | |
| `ThreadPool` | frame workers, queues, semaphores, helping, `wait` with event and futex, `reset` | queues, call stacks of `run`/`process`, sleeping state |
| `ThreadPoolProofs` | theorems about `ThreadPool` | |
| `EntityDeletion` | `World::del`, cleanup rules, `SafeEntity`, `frame_cleanup` | entity records, archetypes, pair records, requests, the deletion in progress |
| `Commands` | what a structural change does to a world, and a sequence of them in order | (a world is a value) |
| `CommandBuffer` | `CommandBuffer`: recording, and `commit` with cancelling, sorting, merging, replay | world, recorded commands, sort flag and last targets, temporaries |
| `EntityStore` | what chunks and archetypes promise: each entity is in one archetype, and only operations on it and drops of its archetype change that | a function from entities |
| `ChunkStorage` | rows of chunks, `frame_cleanup`, lifespans, dropped archetypes, defragmentation | chunks, records, archetypes, deletion queues, loops in progress |
| `ChunkStorageProofs` | theorems about `ChunkStorage` | |
| `QueryCache` | cached queries from fetch to destruction, incremental matching, create-time routing, the reverse index | archetypes by lookup bucket, cache slots, indexes, query objects |
| `QueryCacheProofs` | theorems about `QueryCache` | |
| `EntityDeletionProofs` | theorems about `EntityDeletion` | |
| `SystemOrder` | the order in which `systems_run` visits systems and the key that batches them (functions only) | |
| `SystemUpdate` | what an update promises: visits in an order, barriers, separation, commands at barriers | what was visited, runs and waits |
| `SystemRun` | `World::systems_run`: visits, batches, jobs and their chunks, locks, commands, change versions | schedule, jobs, versions, pending deletions |
| `SystemRunProofs` | theorems about `SystemRun` | |
| `Observers` | `ObserverRegistry` and the changes that call it, callbacks included | entities, registrations, the shared list, a stack of stages |
| `MC...` | constants for TLC | |

Composition.  `WorkDeque` and `MpmcQueue` are shown to implement `AbstractDeque` and
`AbstractFifo` (`INSTANCE ... WITH` a refinement mapping).  `ThreadPool` uses sequences for its
queues for that reason; the one thing a sequence hides is that `MpmcQueue` may answer "empty"
while the oldest item is still being written (`EveryItemServed` is about just this): in
`ThreadPool` a worker that misses a job in that window is covered by the permit the pusher releases
after the push is complete.  `JobGraph` abstracts the queues to a bag and keeps the job word,
edges and slots in full; `ThreadPool` does the reverse and takes the dependency counting as one step.
`ChunkStorage` is shown to implement `EntityStore`, `SystemRun` to implement `SystemUpdate`.
What the higher modules take from the lower ones: `SystemRun` lets a job start when the jobs it depends on
are done (`DependencyOrder`) and lets waits return (`WaitReturns`); `QueryCache` has archetypes that appear and, when they are
empty, disappear in one step, which is what `ChunkStorage` shows of an archetype's last moments;
`ChunkStorage` takes a deletion request as given and `EntityDeletion` takes chunks as given (an archetype is
empty or not); `Observers` has the order of `World::del` from `EntityDeletion`: pairs of holders, pair
records, the entity.

### WorkDeque
`bottom`, `top` and `buffer` are `m_bottom`, `m_top`, `m_buffer`.  A push is `PushReadTop`,
`PushWrite` per job, `PushPublish`; a pop `PopReserve`, `PopReadTop`, then `PopCas` or
`PopRestore`; a steal `StealReadTop`, `StealReadBottom`, `StealRead`, `StealCas`.  Counters wrap at
`Modulus` instead of 2^32.  Memory is sequentially consistent: the code has `seq_cst` fences
where the algorithm needs them (`jobqueue.h` 110, 143) and a release fence before it publishes.
The abstract queue counts a job as queued until the step that decides who gets it, so a
reservation by the owner is not yet a pop.

### MpmcQueue
A push is `PushReadPos`, `PushReadSeq` (our turn, full, or somebody was faster), `PushClaim`
(`compare_exchange_weak`, which may fail for no reason), `PushFill`, `PushPublish`; a pop
mirrors it.  An item counts from the moment its ticket is drawn.

### JobGraph
A job word is split into `st` and `deps` and every `fetch_add`, `fetch_sub` and store is one
step on both; underflow into the state bits is modelled (`Below`) and so is overflow of the bound
`MaxDeps`.  `Main` adds, links, submits, resets and deletes; a worker in `run` goes through
`Finalize`, `ReadEdges`, `Signal` per edge, `FreeEdges`, `Finish`.  `owed` is a history variable: the
edges of a job that are counted in its dependents.  Two assumptions on the program are constants:
`EagerDelete` (a job is deleted as soon as `wait` returned, not when its worker has left it) and
`ManualFanout` (the number of dependents of a job that is reset and reused); a third, that `dep_refresh` is called for the edges
of a job before it is used again, is a guard of `Submit`.

### ThreadPool
Each context has a stack of frames because `run` and `process` call each other: a job without a
functor runs inside `process`, and a thread that finds a queue full runs other jobs there.
Outside of frames `at` says where in `worker_loop`, `wait`, `update` or `reset` it is.  The semaphore
keeps at most `MaxPermits` permits (a bound; the code's is far larger), and `Push`, `Permits`,
`Release` follow `process` including the early release when a queue fills up.  The futex's node list is
one node, main's, as main is the only context that waits.  What main submits is one of three programs
(`prog`): `Crowded` is a low job and two high ones that do not both fit their queue, `Local` has high jobs only, and a
worker fills its own queue, `Mixed` is a low job, a high one and one without a functor, submitted one by one.

### EntityDeletion
An entity is a slot with a generation; `ids[s]` is its archetype, a set of tags
(slot and generation) and pairs (slots only, as in the code, which is what makes recycling
delicate).  `archs` are the archetypes in the world, `used` those that ever got a chunk, `reqArchs`
the flag on an archetype, `reqQueue` the queue that `del_finalize` empties; `pairs` are pair
records, `pairQueue` those queued for deletion, `lookup` is `m_pairLookup`.  `World::del` is
`Del`, then `DelPair` once per pair with the entity as relation, `Targets`, `DelPair` once per
pair with it as target, then `Keep` (references are left) or `Delete`.  The order of the pairs is
that of a hash set, hence any.  `Update` is `frame_cleanup`, where any empty archetype may reach
the end of its lifespan.  Assertions are taken as compiled out.

Restrictions: one pair per target on an entity, so that `rem_from_entities` does not iterate a
bucket it appends to (a hazard of its own, below the level of the model); no entity is its own tag or
target; the builder makes one change per commit; only `ChildOf` has the rule
(OnDeleteTarget, Delete); no observers, singletons, non-fragmenting relations or WeakEntities;
SafeEntities are made, copied by construction and destroyed, not assigned; a SafeEntity is destroyed
while its entity is valid.

### Commands, CommandBuffer
A world is a function from live entities to what each has: components and other entities (a
relationship pair counts as one more of these) with a value.  `Commands` gives each operation of
`World` that can be recorded its effect; an operation on something dead or absent, which the code
asserts not to happen, makes the world `Undefined`.  `InOrder` is the reference: the commands
one after the other.  In `CommandBuffer` each way of recording is an action, with the targets and objects that
exist once the earlier commands are done; `Commit` follows the code: `Destroyed`,
`UsedAsOther` and `is_canceled_temp` are the flags, `Allocated` creates and copies entities before anything
is replayed, `core_sort` runs only if `needsSort`, `Runs` are the loops that group commands by target and
then by object, `Merge` the rules, and the deletion of a target comes at the end of its run.
`core_sort` leaves a sorted range alone, reverses a descending one exactly, and otherwise may return any
sorted order: this covers the sorting networks and quicksort, which are not stable.
A temporary and the entity made from it share a number, so that the reference and the buffer
can be compared; the data of a command is its number.

Restrictions: ids are in the order of creation and entities have one generation (the sort compares
generations before ids; this changes the order of targets, not what is merged); entities have no cleanup rules of
their own and are not held; the world is not changed between a record and its commit; calls are atomic,
as they hold the lock of a `CommandBufferMT`.

### ChunkStorage, EntityStore
A chunk is a sequence of rows, each an entity and whose data lies there; the first `disabled` rows are the
disabled ones (`rowFirstEnabledEntity`).  `rec` is the entity's record, `arch` an archetype with its chunks, its
`freeChunkIdx`, lifespan and flags, `queue` and `doomed` the deletion queues of chunks and archetypes.  The
program's operations (add, move, delete, enable, sort, change of a lifespan, drop of an archetype)
are one step each; `frame_cleanup` is a sequence of phases in which every turn of a loop is a
step, so that each property is checked in between.  `FrameCleanup(R)` takes the requested deletions
of `R` first (how they come about is `EntityDeletion`).  `SwapRows`, `RemoveRow`, `FillRow`,
`EnqueueChunk`, `Unqueue` are the functions of `chunk.h` and `archetype.h` of like names, back-swaps and index repairs included.
`Sort` is a swap of two rows that `sort_entities` numbers, as it goes by the chunks' counters (`Numbered`): a row that is not
counted stays where it is, and an archetype with a counter that says more rows than there are (`CountsRows`) makes it leave
the chunk, after which it may find any entity.

Abstractions: the archetype order of defragmentation is open; `CountMax` is the width of `countEnabled`; unique
components are not looked at by defragmentation; versions, the archetype graph, chunk memory, copies and world
shutdown are left out.  Restrictions, both from section 4 (`CarefulStorage`): `DropImmortal = FALSE`: an archetype that waits
for its deletion and was given an infinite lifespan is not dropped; `SortDrifted = FALSE`: an archetype is not sorted
while a counter of it says more rows than there are.  Counters do go wrong in the runs, in either direction.

### QueryCache
`Fetch` is `fetch` with `QueryCache::add`, `MatchAll` is `match_all` with `sync_archetype_cache`, `MatchOne` is
`matches_any`, and there are `Reset`, `Destroy`, `Rebuild`, `Copy`; `CreateArchetype` and `DeleteArchetype` are the
world's hooks with create-time routing and the reverse index, `Invalidate` the invalidation by relation or
by entity, `MoveSource` the change of the entity a term is matched on.  `lookup` has one bucket per
key with its revision; a query's `cursors` say how far each was read.

Abstractions: the seed archetypes of a policy are the result set; `syncedRevision = resultRevision` is a boolean; a
query made from a destroyed object is `Void`; `Is` enters only through `Invalidate`; the archetype of the source
entity is none of those matched.  Restrictions: only committed queries are copied; the programs have no query with both
OR and NOT terms and none with optional terms only, and `MatchAnyTime = FALSE` keeps `MatchOne` to queries that are matched in full before archetypes die (section 4).

### SystemOrder, SystemUpdate, SystemRun
`SystemOrder` has the code's depth, primary target, postorder within a group, Kahn's order of phases and systems and the
fallbacks at cycles, and `BatchKey`.  `SystemUpdate` states the promise: a system runs
after all it depends on along chains that are collected, jobs are waited for at barriers, systems whose accesses conflict
do not overlap, commands take effect only where nothing runs.  In `SystemRun` a visit checks the system (alive, enabled),
flushes if it has another key or runs serially, prepares a job (`Prepare`: lock, versions, chunks) or runs it at once; `Flush`
submits a batch, `Wait` takes the jobs one by one and moves their versions, `UnlockAndCommit` gives locks back
and commits.  Parts of a job run chunk by chunk.  A system that is deleted takes the `DependsOn` pairs it is an end of with
it: each update goes by the pairs that are `Left`.  `unseen` and `promised` are history variables: changes that a filter
has not shown yet, and the order promised.

Abstractions: every chunk has every component and is one part; commands are deletions of systems; the jobs'
dependency semantics is that of `JobGraph`.  Restrictions, all from section 4: a system with a change filter is serial or in a
phase of its own (the program `LateFilter` of `MCSystemRun` does not keep to it), only serial systems delete systems (`LateDelete` does not), order is promised
only along chains whose middle is collected, a `main_thread` system is taken to be serial.

### Observers
A *listener* is a query with three observers, as a program has that keeps an index: OnAdd enters the entity and
the value of its component, OnSet updates it, OnDel removes it (`kept`).  A call is a stack of stages (`todo`), each a
function of the code or a turn of its loop: `StartBuild` is `EntityBuilder::commit` up to its direct dispatches, with
the pairs' records made by `add`; `CollectObservers`, `CallNext` and `EndLoop` are `on_add`, `on_del` and `on_set`;
`CompareNext` and `TellNext` are `finish`; `StripPairs`, `ForgetPairs` and `EraseEntity` are `World::del`.  `Prepare` is
`DiffDispatcher::prepare`.  `relevant` is the list that all of them share, with its memory beyond its size; an entry may be
`Stale`, as observers live in a flat hash map, and a stale one is followed to any observer.  A callback makes at most
`MaxReactions` calls per call of the program, under the structural lock only writes.

Abstractions: the diff index is a function of who is registered; the order of the observers in a list, and of the
entities in a delta, is left to `CHOOSE`; a pair whose target is being deleted is not added; a value nobody notes is not written.
Restrictions, all from section 4: `CarefulReactions`: a callback leaves the entities alone that are being changed or told of, and
sources; `LoopReactions = FALSE`: callbacks of directly dispatched observers make no calls; `DropDiff = FALSE`: a listener with a wildcard or a source is not
deleted while others are dispatched directly; an index is claimed current only for terms whose target lives, and, for direct
observers, for entities that live.

## 3. Runs

| Run | Question | Bounds |
|---|---|---|
| `work_deque` | Is `JobQueue` an atomic deque with exactly-once delivery, and does every job get served? | 2 cells, counters modulo 8 starting at 6 so that they wrap, 4 jobs, batches of 2, 2 thieves |
| `mpmc_queue` | Is `MpmcQueue` an atomic FIFO, free of races on a cell? | 2 cells, modulo 8 starting at 6, 2 producers, 2 consumers, 3 items |
| `job_graph` | Do jobs run in dependency order, once, with live edges? | 3 slots, 2 workers, 4 adds (a slot is recycled), 2 submissions of a job (it is reused) |
| `thread_pool` | Is every job in one place, is there never a queued job with its workers asleep for good, does `wait` return, do queued jobs run? | one worker per class, queues of one entry, 3 jobs, three programs |
| `entity_deletion` | Is a deleted entity gone, is a recycled id unmentioned, do references count? | 3 entities, hierarchy of depth 2, one of them also tag, relation, held by a SafeEntity and recycled; archetypes of up to 2 ids, 3 archetypes while building (deletion may add more) |
| `command_buffer` | Does `commit` do what the recorded commands mean? | 2 entities, one with a component, 2 temporaries, 4 commands, any number of commits |
| `chunk_storage` | Do records and rows agree, are the deletion queues exact, is room found, is it an `EntityStore`? | 3 entities, an archetype with 2 chunks of 2 rows and one with 1 chunk of 1, lifespan of 2 frames, 1 move per frame |
| `query_cache` | Does a cached match equal a fresh one, do all indexes agree? | 5 programs of one or two query objects (fixed source, NOT, OR twice, optional, wildcard), 3 archetypes of 3 sets of ids, 2 commits, 2 moves of the source |
| `system_schedule` | Does an update keep its promise, lose no change, return? | 409 programs: 4 systems, 2 phases, every acyclic set of dependencies, cycles, conflicts, a filter, deletions, one of them of the middle of a chain; 2 chunks, 2 updates, 2 calls of the program |
| `observers` | Are indexes kept in callbacks what a query gives, is OnAdd called for matches only? | 3 entities, one of them a copy to be, one component with 2 values, 2 pairs, one with an entity as target, 3 programs of 2 listeners, one reaction per call |
| `entity_deletion_children` | Do children die with their parent? (violated) | 3 entities, `ChildOf` only |
| `chunk_storage_enabled` | Do a record and its row agree on being disabled? (violated) | as `chunk_storage` |

The last two are counterexamples to what the repository says (section 4).  Bounds: two slots
and two thieves give every race for the last job and a slow thief overtaken by a whole turn of the ring;
two workers are the least for one to be inside `run` while another's `run` or the main thread acts on
the same slot, and three slots for a job with two predecessors or two dependents.  In
`entity_deletion` one slot in each role is recycled; three entities are a
grandparent, a parent and a child.
Four commands make every pair of commands meet a third one that forces sorting and a fourth that
splits a group; all kinds of command may be any of the four.  Two chunks are needed for back-swaps between chunks, for the
hint of free room to move both ways and for defragmentation; three archetypes for one to be swapped into the place of another, before
a cursor, while a third appears.  Three systems make a chain with a middle, the fourth is in conflict with any of them; the second update sees
versions the first one left.  Two entities are the least for a callback to change another than the one it is called
for, the third is a target or a source.  Deadlock checking is off where the system legitimately
stops: all jobs done, all bounded resources used.  `SYMMETRY` is used in safety runs only.

Fairness.  `WorkDeque`, `MpmcQueue`: a thread inside an operation finishes it, thieves and
consumers keep asking (`worker_loop` does), and a weak `compare_exchange` does not fail for ever
on an unchanged position.  The owner or a producer need not start an operation.  `ThreadPool`: each
worker, and the main thread once it is inside a call, keeps running, i.e. the operating
system schedules threads and functors return; the program need not make another call.  `SystemRun`: the main
thread, once it is in an update, and the pool's workers keep going.

Properties worth pointing at: `ExactlyOnce`, `ImplementsDeque`, `ImplementsFifo`, `ExclusiveCell`
(the queues); `DependencyOrder`, `ReadyIsClaimed`, `SignalHitsDependent`, `EdgesLive` (jobs);
`InOnePlace`, `NoLostWakeup`, `WaitReturns`, `QueuedJobsRun` (the pool);
`ArchetypeIdsAlive`, `DeletedIsGone`, `HeldSurvives` (deletion); `CommitIsInOrder` (the command buffer);
`RecordsAgree`, `QueuesAgree`, `RoomIsFound`, `ImplementsStore` (chunks); `NoDeadArchetype`, `IndexesAgree`, `MatchIsFresh` (queries);
`NoChangeLost`, `ImplementsUpdate`, `UpdateReturns` (systems); `KeptIsCurrent`, `ToldOfMatches` (observers).
Every one is broken by a plausible change of the code, given as a mutant operator beside
the definition it replaces.

## 4. Where code and documentation disagree

Runs that end in a counterexample:

* **Detaching a child** (`entity_deletion_children`).  Clears the parent's flag, so the other
  children survive the parent; `README.md` 2837 says they are deleted.
* **Deleting a row of a chunk with disabled entities** (`chunk_storage_enabled`).  `remove_entity` lowers
  `rowFirstEnabledEntity` (`ECS/chunk.h` 1209) also when the row that goes is an enabled one: a disabled entity becomes
  visible to queries, enabling or disabling it afterwards does nothing or is refused, and `countEnabled` may go below zero.

Counterexamples that a changed constant gives; the runs of the same module hold without them, so each is also a
restriction that section 2 names:

* `EagerDelete = TRUE` in `MCJobGraph.cfg` violates `SignalHitsDependent` and `DependencyOrder`: `wait` returns at `Done`, but `run` uses the
  slot afterwards (edges, event); `README.md` 4304-4309 deletes right away, and so does `finish_pending_system_jobs`.
* `HighWorkers = {}` in `MCThreadPool.cfg` violates `WaitReturns`: main sleeps until some job starts, and none does when the
  only runnable one, the one it waits for (`b` of `Mixed`), is of a class without a worker.
* `FormAgain = TRUE` with `Links <- MCRelation` in `MCEntityDeletion.cfg` violates `DeletedIsGone`: a pair formed while its
  old record waits to be collected is not deleted with its new relation (`README.md` 2802).
* `MatchAnyTime = TRUE` in `MCQueryCache.cfg` violates `NoDeadArchetype`: `matches_any` adds an archetype to the
  result without the reverse index knowing, and its deletion leaves the pointer.
* `DropImmortal = TRUE` in `MCChunkStorage.cfg` violates `RecordsAgree`: an archetype with a lifespan that was emptied and queued,
  used again, given an infinite lifespan and dropped is revived by `del_empty_archetypes` (`world.h` 9264)
  although its chunks are freed.
* `SortDrifted = TRUE` in `MCChunkStorage.cfg` violates `RecordsAgree` (and `QueuesAgree`): once the bug of `chunk.h` 1209 has made
  `countEnabled` too great or let it wrap, `sort_entities` (`archetype.h` 1017-1052) sums it and `get_flat_entity` (870-898)
  reads rows that are not there, those of emptied chunks included, which it then swaps.  An example: `e1`, `e2`, `e3` in one chunk, disable
  `e1`, delete `e2`, disable `e3`, delete `e1`, and a sorted query: with the real headers the assertion of
  `core/impl/span_impl.h` 247 fails; without assertions `e3`, which nobody deleted, is not valid afterwards.
* `LateFilter` of `MCSystemRun` violates `NoChangeLost`: a parallel system with a `changed` filter takes the world version when its job is
  prepared (`query.h` 2368, 2487-2505), so that what jobs of the same batch write afterwards is older than what it claims
  to have seen (`README.md` 2099-2125).  `LateDelete` violates `ImplementsUpdate`: whether a system is alive is looked at
  before the flush that deletes it. A job prepared for the deleted system is moreover not found by later ones, so that
  systems of conflicting accesses run side by side (`ConflictsInOrder` of `SystemRunProofs` fails).
* In `MCObservers.cfg`, `CarefulReactions = FALSE` violates `KeptIsCurrent`: a callback that changes the entity it is told of
  is overtaken by what is still being told; `LoopReactions = TRUE` violates `ToldOfMatches`: a write in an OnAdd callback of a
  directly dispatched observer clears the list that is being walked (`ECS/observer_registry.inl` 472, 519, 551-591; the example
  at `README.md` 683-690 makes such a write); `DropDiff = TRUE` violates `ToldOfMatches`: `prepare` leaves the shared list filled with
  pointers into a flat map and, once no diff observer is left, returns before it clears it (155-157), so that the
  next `on_add` walks them after the map was moved (the address sanitizer reports a use after free); a listener whose terms are
  a plain one and a wildcard or a source (`{mixed}` as a program) is not told when the plain term changes last (`observer.inl` 210-234,
  `README.md` 661).

The command buffer: `README.md` 3000 says that of two `set` the last counts.  Once commands are sorted the first may
(`core_sort` is not stable, `include/gaia/core/utility.h` 461-464, 1629-1640): `del(e2)`, `set(e1, 2)`, `set(e1, 3)` leaves 2.
`CommitIsInOrder` holds for programs that keep to `Harmless`: no component both added and removed (unless absent,
added once and then removed), one value per component if sorting is needed, no copy of an entity changed earlier in
the buffer, no deleted entity used as a tag.  Each rule is needed, the README's "you can record commands
freely" (3002) notwithstanding: `del<T>(e)`, `add<T>(e, 7)` leaves the old value; `add<T>(e)`, `del<T>(e)` leaves a
`T` that `e` had before; `add<T>(e)`, a command for a temporary, `add<T>(e)`, `del<T>(e)` leaves `T`, without the
temporary it does not; `set<T>(e, 7)`, `copy(e)` copies the old value; a sorted buffer may delete a tag before it is added.

Other observations, most of them reproduced with small programs against the headers; no run is about them.

Jobs.  `reset` drains the queues and then stops the workers, so that dependents made ready after the
drain stay queued although "all jobs are finished first" (`MT/threadpool.h` 1424, 192); a reset `ManualDelete` job with several
dependents walks its freed edge array (`jobmanager.h` 343; excluded from `job_graph` by `ManualFanout = 1`); `sched(job, dependsOn)`
links its arguments in reverse (`threadpool.h` 579); the event is said to be manual reset, but `wait` of the pthread build
clears it (`event.h` 127).

Deletion.  An archetype that never had a chunk and is requested for deletion stays flagged, and an entity that moves into it is
invalid, against the assertion at the end of `move_entity` (`world.h` 9260, 11651); deleting a relation deletes the *children*
of the targets of its pairs, or strips unrelated pairs with the same target (11228); `rem_from_entities` iterates a bucket that it may
append to (11016); entities taken along by a cascade are never released (`del_entities`, 10201; it also iterates the array that it
erases from), so that their slots, names and WeakEntities leak and entities that have them as tags or targets keep them; a
SafeEntity does not protect a child from the deletion of its parent; assigning a SafeEntity leaks the old
reference (`entity_container.h` 411).  `HeldSurvives` and `DeletedIsGone` therefore speak of entities
deleted by `World::del`, not of those a cascade takes along.  The call of `try_enqueue` in `set_max_lifespan` can never do anything.

Queries.  A query with OR and NOT terms of which no archetype matches the OR terms is taken for one with NOT terms only, with or without ALL terms, and
matches every archetype without the NOT terms (`vm.h` 2255-2276); one with optional terms only matches nothing;
`all(c).all(c, src)` unregisters one id twice (`query_cache.h` 634); a copy of an uncommitted query shares its recorded
terms; `matches_any` looks at an entity without synchronising the result.

Systems.  A disabled system or a phase without systems in the middle of a chain of dependencies breaks the chain (`README.md` 3074);
a `main_thread()` system that is also parallel still runs on workers (`world.h` 13520, `README.md` 3163); a command that an earlier
job of a batch recorded is not visible to a later job in conflict with it (`README.md` 3201); a dependency cycle also voids the order of systems
that are not on it.

Observers.  An observer with `or_` or `any` is told OnAdd again for an entity that matched already; a NOT term is
ignored where an observer has a single ALL term (`query_common.h` 1613-1720); `World::del` of an entity or of a pair's target tells
only observers that are dispatched by comparison (`observer.h` 32); an observer of a pair that was never formed stays registered when its target dies and is
told of pairs with the next entity in that slot; wildcard observers are not told of a second target nor of the loss of one of two (`README.md` 790);
builder calls `add<A>()`, `del<A>()` before the commit tell OnDel and then OnAdd of a component that is not there
(`world.h` 1702-1757); creating or deleting observers in a callback moves what `finish` points to; `copy_ext` calls OnAdd without the lock.

## 5. Proofs

Every theorem holds for all values of the constants that satisfy the module's assumption; the runs show the same
properties on small instances. All of them are safety properties of `Spec` (no fairness is used).

| Module | Theorem | States |
|---|---|---|
| `WorkDequeProofs` | `TypeCorrect`, `JobsHandedOutOnce` | `[]TypeOK`, `[]ExactlyOnce` |
| | `QueueImplementsDeque` | `Spec => ImplementsDeque` |
| `MpmcQueueProofs` | `TypeCorrect`, `CellsExclusive` | `[]TypeOK`, `[]ExclusiveCell` |
| | `QueueImplementsFifo` | `Spec => ImplementsFifo` |
| `JobGraphProofs` | `TypeCorrect` | `[]TypeOK` |
| | `DependenciesRespected`, `ReadyJobsProcessedOnce`, `SignalsHitDependents` | `[]DependencyOrder`, `[]ReadyIsClaimed`, `[]SignalHitsDependent` |
| `ThreadPoolProofs` | `TypeCorrect`, `NoWakeupLost`, `JobsInOnePlace` | `[]TypeOK`, `[]NoLostWakeup`, `[]InOnePlace` |
| `QueryCacheProofs` | `TypeCorrect` | `[]TypeOK` |
| | `DeadAreForgotten`, `IndexesAreTrue`, `MatchGivesFresh` | `[]NoDeadArchetype`, `[]IndexesAgree`, `[]MatchIsFresh` |
| | `MatchMissesNothing` | `[]NothingMissed`: a match finds at least what matching from scratch would |
| `EntityDeletionProofs` | `TypeCorrect`, `IdsOfArchetypesAreAlive` | `[]TypeOK`, `[]ArchetypeIdsAlive` |
| | `SafeEntitiesHold` | `HeldSurvives`, an action property |
| | `DeletedIsOffEverything` | `FormAgain = FALSE => (Spec => []DeletedIsGone)` |
| `ChunkStorageProofs`, all of them `CarefulStorage => ...` | `TypeCorrect` | `[]TypeOK` |
| | `RecordsCorrect`, `QueuesCorrect`, `RoomCorrect` | `[]RecordsAgree`, `[]QueuesAgree`, `[]RoomIsFound` |
| | `Refinement` | `Spec => ImplementsStore` |
| `SystemRunProofs` | `CommandsApart` | `AppliedApart`, an action property: commands are applied while nothing runs |
| | `ConflictsApart` | `SerialDelete => (Spec => []ConflictsInOrder)`: conflicting jobs run one after the other, in the order of visit |
| | `ChangesAreSeen` | `FiltersApart => (Spec => []NoChangeLost)` |

### Assumptions

Of `WorkDeque`: a capacity `N` of at least two that divides `Modulus`, `Modulus > 2 * N` (the code: a power of two,
2^32), any starting value of the counters, and fewer than `Modulus` pushes. Of `MpmcQueue`: the same of the capacity,
a start at a multiple of `N`, and fewer than `Modulus / 2` items. The bounds on the number of pushes and items are
real ones: a thief or a consumer that sleeps between its read of a position and its `compare_exchange` while exactly
2^32 positions go by would take the new position for the old, in the code as in the model. The counters still wrap
within the bounds, as they may start anywhere. Of `JobGraph`: finite sets of slots and workers; the three properties
are proved under `CarefulProgram` (`~EagerDelete /\ ManualFanout <= 1`), which is necessary: with `EagerDelete = TRUE`
in `MCJobGraph.cfg` `DependencyOrder` has a counterexample, and a reset job with several dependents walks an array that
was freed (section 4). Of
`ThreadPool`: finite disjoint sets of high and low workers, either of which may be empty, queues of at least one
entry, any `Before` on the jobs (cycles included) and any set of programs. Of `QueryCache`: finitely many objects and
slots, any ids, wildcards, queries and programs; a query has a term that is not optional, and ALL terms if it has a
source.  `TypeCorrect` needs no more. The others assume `CarefulMatching` (`MatchAnyTime = FALSE`) and
`MatchGivesFresh` also `OrApartFromNot` (no query with both OR and NOT terms); section 4 shows what happens without.
`MatchMissesNothing` does not need the latter: such a query finds too much, never too little. Of `EntityDeletion`:
finitely many slots, `ChildOf` and `None` not among them, any tags, links and bounds. Only `DeletedIsOffEverything`
assumes more, that no pair is formed while its record still waits for `frame_cleanup`; section 4 has the
counterexample without. Of `ChunkStorage`: finitely many chunks to allocate from, any entities and archetypes,
any positive capacities, lifespans, width of the counter and budget of moves. All its theorems assume `CarefulStorage`: the program drops
no archetype that waits for its deletion and has meanwhile been made immortal, and sorts no archetype one of whose
counters says more rows than there are; section 4 has a counterexample without either. Nothing is assumed of the
counters themselves: they may go wrong, in any way that the bug of section 4 makes them.
Of `SystemRun`: any systems, phases, components, chunks and programs, and whatever sequence `Schedule` gives, as the proofs use nothing of
the order but that systems are visited along it. `CommandsApart` assumes no more. `ConflictsApart` assumes `SerialDelete`, that only serial systems delete systems, and
`ChangesAreSeen` assumes `FiltersApart`, that no parallel system filters by what another one writes that has the same
key of a batch; `LateDelete` and `LateFilter` of section 4 show that both are needed. The programs of the run satisfy
them (`CarefulPrograms`, an assumption of `MCSystemRun` that TLC evaluates).

### The inductive invariants

None of the properties is inductive by itself.

`WorkDeque`.  `ExactlyOnce` says nothing of a thief that has read a slot and not yet decided. The invariant adds that
the counters span at most the capacity up to the owner's reservation, that a thief's `top` is not ahead of `m_top`,
and that what it read is what the slot holds, or else `m_top` has moved on and its `compare_exchange` fails.
Both proof modules of the queues begin with lemmas about `%`, for differences of wrapped counters. For the refinement, `Queued` of the next state
is computed for each action: a step that decides who gets a job (`PopRestore`, `PopCas`, `StealCas`, `PopReadTop` with
more than one job left) is a pop or a steal, `PushPublish` a push, everything else stutters.

`MpmcQueue`.  `ExclusiveCell` needs to know which ticket every cell is at. The invariant relates the sequence of a
cell to the one thread, if any, that holds the ticket of that cell: producers at `fill` and `publish` hold distinct
tickets at or behind `m_pushPos`, consumers at `take` and `release` behind `m_popPos`, and the two positions are never
further apart than the capacity. Tickets are counted without wrapping for this, from the start, and the wrapped
positions are their images.

`JobGraph` (`IInv` of the module).  `DependencyOrder` alone is not inductive: that a job with count zero has no
unfinished predecessor follows only because the counter equals the number of edges owed to it (`CountsOwed`), because
a job owes its edges from submission until it signals them one by one (`OwedEdges`), and because a worker inside `run`
owns its job and its slot is not recycled under it (`WorkerOwns`, `OneWorker`).  `EdgeStorage` says where the edges of
a job are; `NeverCorrupt`, that no counter ever borrowed from the state bits. The proof has one lemma per action and
conjunct group, a lemma for what an action that changes one slot leaves alone, and counting lemmas for the set `Owing`
(`FiniteSetTheorems`).

`ThreadPool` (`IInv` of `ThreadPoolProofs`).  `NoLostWakeup` needs the way of a permit: `FreedInv` says that only
calls in `process` or about to release count permits, `WorkerInv` that a worker looks for jobs of its class and comes
by its own queue again while that is not empty or a call of it is open, and `WakeInv` that a global queue that is not
empty has a permit, a worker that will still look at it, or a call with permits to release.  `InOnePlace` follows from
`WorkInv`: a job is in one place exactly while it is `Processing` (`HolderInv`), at most once in each place
(`OnceInv`, `QueueInv`), calls hold the jobs their step says (`FrameInv`), a job counts its unfinished predecessors
(`DepsInv`), and queues hold jobs of their class (`ClassInv`). A call is seen as its position, context and depth from
the outermost, so that a push or a return moves no other call.

`QueryCache` (`IInv` of `QueryCacheProofs`).  `BaseInv` holds for every program: handles are of the present or the
past and references are the objects that will give one back (`HandleInv`), indexes only hold handles in use
(`StaleInv`), the index by shape has exactly the shared records (`ShapeInv`), selectors are counted by kind
(`CountInv`), an immediate query has selectors such that every archetype that matches is in a bucket of one
(`RouteInv`), and each bucket has exactly the live archetypes with its key, once (`BucketInv`). On top of that, slot
by slot: what a query holds is tracked, and is all that is tracked for it while it is up to date or its revisions
agree (`IndexInv`); no result has a dead archetype, no cursor is ahead of its bucket's revision, no snapshot ahead of
the source's version (`PastInv`); and a record that will not be matched from scratch has, of each bucket that its
match searches, every match in front of the cursor, unless the bucket's revision went on (`CompleteInv`).
`MatchIsFresh` needs the converse as well, that nothing else is in the result (`SoundInv`). An erase moves the last
archetype of a bucket in front of the cursors; that it raises the revision is what keeps `CompleteInv`. A new
archetype is appended behind all cursors, but an immediate query must have it at once: the proof shows that
`register_archetype_with_queries` finds each such query, over the counts of selectors that let it skip lookups.

`EntityDeletion` (`BaseInv` and `GoneInv` of `EntityDeletionProofs`).  `ArchetypeIdsAlive` is inductive next to the
facts that requested archetypes have ids and live entities an archetype that has a chunk (`StorageInv`): `World::del`
forms no archetype but parts of those there are, and `frame_cleanup` frees only what no archetype mentions. What a
`SafeEntity` promises rests on the reference count: it is the SafeEntities and, until `RefDecreased`, the entity's own
reference (`RefInv`), so that it is zero only when nobody holds the entity, however often `World::del` was called.
`DeletedIsGone` needs the way of a pair through `World::del`. A pair that is not in the lookup any more is queued, and
when the entity itself is deleted, all its pairs are: in the first phase those of which it is the relation, in the
second those of which it is the target (`QueuedInv`). No valid entity has a queued pair or the tag of a queued entity
(`TakenOffInv`), because the step that queues it strips everybody, except entities whose archetype is requested,
which are not valid. A released entity is held or still being deleted (`ReleasedInv`).

`ChunkStorage` (`IInv` of `ChunkStorageProofs`).  The operations are functions from worlds to worlds, so the parts of
the invariant are stated of a world, and there is a lemma for each function (`SwapRows`, `RemoveRow`, `TakeRow`,
`MoveRow`, `WithRoom`, `EnqueueChunk`, `Unqueue`, `DeleteChunk`). `RecordsAgree` fails in the middle of an operation:
`Agree(w, x, E)` says that all rows but `x` and all entities but those in `E` agree, and `EmptyOK(w, D)` that the
chunks in `D` may be empty without being queued; moving an entity goes from `Agree(w, NoRow, {})` over a row without
data and an entity without a row back to it. `RecordsAgree` itself needs the other parts: that a chunk knows its place in
its archetype (`ListOK`), so that the swap in `Archetype::del` repairs the right index; that the deletion queue
has just the chunks that count down and each knows its entry (`QueueOK`), so that the swap in
`remove_chunk_from_delete_queue` repairs the right slot and no chunk with rows is freed; and that nothing before
the free index has room (`RoomOK`), which is `RoomIsFound`. `RowsOK` says only that `countEnabled` fits its width, not that it is the number
of enabled rows: it may drift (section 4, `FlagsAgree`). Two operations go by it.
Disabling an entity does nothing to a chunk that claims to have no enabled one, which `DisableRow` says as well. `Sort`
skips rows if the counter is too small, which these properties allow, and leaves the rows if it is too great, which
`CarefulStorage` excludes. Of the clean-up, the
invariant says what its loops have in their locals between two steps: `FinalizeOK`, that the array which `del_entities`
iterates while it erases from it still has, at and behind the loop's position, the chunks that are left; `DefragOK`, that the chunk entities are
moved into has room; `DoomedOK`, that `m_archetypesToDel` has each archetype that counts down, once, and
one that is in use again only until the loop comes by. The refinement: the place of an
entity is the archetype its record names (by `RecordsAgree`), and each step's lemma also says what it does to these: `Add`,
`Move` and `Del` put one entity in one place (`Placed`), a drop empties the places of the dropped
archetypes, all other steps (`Still`) stutter, among them every step of the clean-up.

`SystemRun` (`BaseInv`, `OrderInv` and `IInv` of `SystemRunProofs`).  `BaseInv` holds of every program: the world is locked once
for each job that was not waited for and once by a serial system, which runs when there are no jobs (`LockInv`), and the
pending jobs are parallel and of one batch (`BatchInv`). Commands are applied where the last lock is given back, so
that every job is complete by then. `OrderInv` is about the jobs of a batch: one starts when those it depends on are
complete (`AfterInv`), and it depends on all that were prepared before it and conflict with it (`ClashInv`). The code looks for
these among living systems only, which is why the proof has to follow deletions (`AliveInv`): no command that
deletes a system is waiting while jobs are prepared. `IInv` is about versions: what a system has not seen passes
its filter at any time, not just between updates (`ChangesInv`), because the world's version is ahead of that of every system that filters by what a running
system writes (`Fresh`), and a job, whose system's version moves when it is waited for, visits all that the system had not
seen (`VisitInv`); what others of the batch write meanwhile is no matter, as filters are apart.

### Only model-checked

`CommandBuffer`, `Observers`, `EdgesLive` of `JobGraph`, and of `SystemRun` `TypeOK` and the refinement of `SystemUpdate`.
(`EdgesLive` is a part of the invariant of `JobGraphProofs`, but the programs of the proof never use a freed
array again, so a theorem of its own would say little; its mutant gives the array back before it is walked.) `commit` of a command
buffer is made of folds over the recorded commands, and `SystemRun` takes the order of
its systems from recursive functions: what these compute for every input needs induction over data, which the
prover cannot do. (Its `TypeOK` says that the schedule has no system twice.) `Observers` is only left for later. All liveness properties (`EveryJobServed`, `EveryItemServed`, `WaitReturns`, `QueuedJobsRun`,
`UpdateReturns`) stay with TLC: liveness under fairness and `ENABLED` are beyond the prover.

## 6. Plan

1. (done) `WorkDeque`, `MpmcQueue`, `JobGraph` with proofs, `ThreadPool`, `EntityDeletion`.
2. (done) `CommandBuffer` against `Commands`; pairs with temporaries as ends remain.
3. (done) `ChunkStorage` against `EntityStore`, `QueryCache`, `SystemRun` against `SystemUpdate`, `Observers`.
4. Proofs.  Done: the job system (`WorkDeque`, `MpmcQueue`, `JobGraph`, `ThreadPool`), the query cache,
   the deletion of entities, the chunk storage, and locks, conflicts and change filters of systems.  Next: type
   correctness and `KeptIsCurrent` of `Observers`.
5. Background workers and `sched_par` in `ThreadPool`; generations of a small width (`cnt::ilist`).
6. `EntityDeletion`: rules set by the program, the non-fragmenting store, WeakEntity.  `Observers`: NOT and OR terms, traversal, inheritance.

No module above `MC...` uses a RECURSIVE operator, so that all can be proved about.

## 7. Not modelled

The component cache (written once per type), iterators and accessors (typed views), the containers and utilities,
serialization, the query byte code (a pure function over large data), allocators other than the planned chunk
allocator, and generated or third-party code. Within modelled components: priorities and names of operating system
threads, `JobArgs` memory, profiling, logging, and the order of two relaxed accesses that fences order in the code.
