# TLA+ models of the shared-memory LRU with aging and quotas

The repository keeps objects of bounded size in shared memory, under 64-bit hashes, in tiers by
age. Client processes leave requests in a com buffer and copy data themselves; threads of a
server process allocate storage cells, keep a concurrent hopscotch hash table and move or drop
what is old. The live code is `src/c_experiments/src/`; the Node.js addon in `src/src/` is an
earlier generation of the same tables, with an LRU list instead of tiers by time.

Paths below are relative to `src/c_experiments/src/` unless they start with `src/`.
`PROJECT.json` lists every part with its status, every definition with the lines it models, and
the hazards with the lines where they bite.

## 1. The system

| component | state | operations | interacts through | module |
|---|---|---|---|---|
| put protocol (`node_shm_tiers_and_procs.h`, `atomic_proc_rw_state.h`) | one `Com_element` per process and tier: `_marker`, `_hash`, `_offset`; `_readerAtomicFlag` per tier | `put_method`; `second_phase_waiter`, `second_phase_write_handler` | markers in shared memory, the flag | `TierPut` |
| free memory (`node_shm_LRU.h`, `atomic_stack.h`) | stack of cells with a count, `_memory_requested`, reserve | `claim_free_mem`, `return_to_free_mem`, `check_and_maybe_request_free_mem` | calls by reader, remover, evictor | `FreeMemory` |
| removal (`node_shm_tiers_and_procs.h`) | `_removal_work` queue, `_removerAtomicFlag`, `_removals_running` | `del_method`, `removal_thread`, `del_action`, `shutdown_threads` | the queue, the flag | `RemovalWork` |
| SRSW ring (`entry_holder.h`) | cells, `_r`, `_w`, their cached copies | `push`, `pop`, `empty` | two threads without a lock | `SrswQueue` |
| shared segments (`shm_seg_manager.h`, `shm_shared_segs.h`) | maps from keys to ids, addresses and sizes in every process | initialize or attach, `detach`, `detach_all` | system calls | `SharedSegments` |
| request and answer queues (`array_p_defs.h`, `node_shm_queued.h`, `array_p_defs_storage_app.h`) | two queues, an output cell per process, a table per section | `com_put`, `com_req`; `put_handler`, `get_handler` | `AtomicQueue`, flags of the output cell | `QueuedMap` |
| atomic queue (`atomic_queue.h`) | linked cells, head, tail, a count of pushes and one of pops | `push_queue`, `pop_queue`, `empty`, `full` | no effective lock | `AtomicQueue` |
| ordered tables (`holey_buffer.h`, `time_bucket.h`) | sorted times; tiers' time bounds | `b_search`, `u32b_search`, `time_interval_b_search`; updates | called by the updates of the timeout table; the call of `time_interval_b_search` is in a comment (`node_shm_tiers_and_procs.h:387`) | `TableSearch` (the searches) |
| addon list and table (`src/src/node_shm_LRU.h`, `src/src/node_shm_HH.h`, `src/index.js`) | doubly linked list of elements, free list, hopscotch table | `set`, `get`, `del`, evictions | calls under a lock between processes | `AddonLru`, `Hopscotch` |
| eviction and aging (`node_shm_LRU.h`) | time bounds of each tier, timeout table, evictor flag | `local_evictor`, `transfer_hashes`, `raise_lru_lb_time_bounds` | free memory, hash table, next tier | not modelled |
| hash table of the live code (`node_shm_HH.h`, `hmap_interface.h`) | two regions of buckets, key-value stashes, thread masks, restore and crop queues | `get`, `update`, `prepare_for_add`, `add_key_value_known_refs`, `del` | bucket control words, stashes, rings | what `TierPut` and `RemovalWork` see of it |
| internal map, sparse slabs, slab provider | slabs of 4 to 32 entries per bucket | get, add, update, del; slab exchange | spin locks, shared segments | not modelled |

What is hard: markers and flags are loaded and stored in separate steps; waits are bounded by a
loop count and the other side is not told that a wait expired; several processes run the same
handlers; the queues and the stack are lock free; threads sleep on flags that are cleared just
before; several calls may fail half way (memory, locked bucket, full queue), and the table is
looked up once for a whole batch; processes come, leave and crash between two system calls.

What makes each part correct: a cell has one holder and one hash; a message is answered once, by
the reader that claimed it, with the cell of its own hash; a returned put is in the table; a
request taken by a queue is acted on once and in order; queues and stacks neither lose nor
duplicate; counts agree with what they count; a search finds what is there; the list, the free
list and the table of the addon tell one story; the last process out removes the segments, and
nobody initializes one twice.

## 2. Modules

| module | models | kind |
|---|---|---|
| `TierPut` | `put_method` of every client and `second_phase_write_handler` of every reader of tier 0; an action is one access to shared memory, with the exceptions its header names | protocol |
| `MCTierPut` | the values of `Hits` for TLC | model checking |
| `TierPutProofs`, `PutAnswersProofs` | types and slot accounts; what a put is answered | proofs |
| `BoundedFifo` | what a single-reader single-writer queue promises | abstract specification |
| `SrswQueue` | `SharedQueue_SRSW` step by step; `FifoSpec` is `BoundedFifo` of the live cells | refines `BoundedFifo` |
| `RemovalWork` | extends `SrswQueue` with `del_method`, the removal thread, `del_action`, shutdown | composition |
| `RemovalProofs` | the ring alone, and under the removal's threads | proofs |
| `FreeMemory`, `MCFreeMemory` | the stack, claims, returns, requests, the evictor's notification | lock-free algorithm |
| `FreeMemoryProofs` | no cell twice, none missing, the top of the stack, a claim that is alone | proofs |
| `AtomicQueue` | the request queue and its stack of free cells; an action is one access to shared memory, but for the copy of an entry | lock-free algorithm |
| `QueuedMap`, `MCQueuedMap` | extends `AtomicQueue` with clients, handlers, output cell and table | composition |
| `QueuedMapProofs` | push and pop apart | proofs |
| `LruOrder`, `KeyMap` | what an LRU cache and a dictionary promise | abstract specifications |
| `Hopscotch` | the addon's table; each turn of the displacement loop a step | algorithm |
| `AddonLru` | extends `Hopscotch` with the list, the free list and the calls of `index.js` | refines `LruOrder`, `KeyMap` |
| `AddonLruProofs` | the table stays readable, the lists stay whole, both refinements | proofs |
| `TableSearch`, `MCTableSearch` | the three searches, one action per turn of the loop | algorithm |
| `TableSearchProofs` | their correctness for every ordered table | proofs |
| `SharedSegments`, `MCSharedSegments` | the segment managers over System V calls, crashes included | protocol |
| `SharedSegmentsProofs` | its four invariants | proofs |

An operator named `XFault` is a deliberate mutation of the operator `X` right below it (a dropped
guard, an off-by-one, a swapped order). No specification uses one; replacing `X` by it must break
the property `PROJECT.json` pairs it with, which is how we know that the property depends on the
code.

A few definitions under "What comments of the code say, and the code does not do" state a comment
and are checked by no run because they do not hold: `SubmittedIsClaimed`, `ClaimedByOne`,
`NoWildMessage`, `LockedIsHeld` (`TierPut`), `ShutdownReturns` (`RemovalWork`), `NeverBothWait`
(`QueuedMap`). Section 5 gives the steps that break them.

### TierPut

| code | model |
|---|---|
| `_marker`, `_hash`, `_offset` of a `Com_element` | `marker[p]`, `hash[p]`, `offset[p]` |
| `put_method`: `wait_to_write`, lines 985-991, `cleared_for_alloc`, `wake_up_write_handlers`, `await_write_offset`, `memcpy`, `clear_for_write` | `StartPut`/`BusyPut`, `WriteRequest`, `Submit`, `WakeReader`, `Granted`/`TimedOut`, `CopyData`, `Return` |
| `second_phase_waiter` and the flag | `Scan` (one marker a step), `ClearFlag`, `Awake` |
| claim loop 752-776 | `CheckReady` then `Lock`: load and store are two steps |
| `filter_existence_check` | `Filter`, with `Lookup` for `HH_map::get` |
| update loop 806-823 | `OfferKnown`, `ReleaseKnown` |
| `check_and_maybe_request_free_mem`, `claim_free_mem` | `CheckMemory`, `RequestMemory`, `TakeFree`/`TakeFails` |
| `timestamp_update` 826 | `AfterUpdates`, which waits for the locks of the timeout table, or `WildUpdate` |
| allotment loop 874-927 | `Allot`/`Refuse`/`WildMessage`, `Answer`, `Release`, `StoreInHash` |
| `attach_to_lru_list` | `Attach`: `add_entries` ends, or returns with its two locks held (`locks`) |

Two facts of the code shape the data. Every 64-bit lookup hands `HH_map::get` the halves of the
hash swapped (`node_shm_HH.h:4045`, and the callers `node_shm_LRU.h:851`,
`node_shm_tiers_and_procs.h:1175`), while the store does not: a lookup finds a key whose halves
agree, and otherwise the slot of a key that is its mirror image (full hash 10 with bucket 11, both
stamped, against 11 with 10), if there is one. `Hits[k]` is the set of keys whose slots a lookup of
`k` may return. The runs have a key that is found and one that is not; the theorems on answers take
no two keys to be mirrored (`NoMirrored`), since with mirrored ones a put writes into the other's
slot (section 5). And a lookup, like the second `prepare_for_add`, looks at the selector bits of the
bucket half: a hash is a record of its key and `stamped`. `Restamp` lets a caller put a hash that a
put handed back.

What the timeout table holds is no part of the model; that it may stop the reader is. In the build
nothing sets the pointers to its shared counters: `add_entries` returns with its locks held
(`holey_buffer.h:969`), so that the reader stops at the end of its second batch, and
`update_entries` follows a null pointer. The model has both outcomes at every batch, the one in
which the counters are there and the one in which they are not, so that the properties are about
the batches the reader gets through. The hash and the offset of an element are written in one step,
before `Submit` or `Release` shows them to the other side.

The free stack is popped in one step here; its own interleavings are in `FreeMemory`. Buckets are
never full. A reader of the last tier that finds no memory only raises the evictor's flag, so it
loops between `CheckMemory` and `RequestMemory`. After using an offset as a pointer
(`WildMessage`) the reader is taken to stop, which is the mildest thing that can happen. `Tiers`
is the set `from_time` may pick the copy's region from; the runs have tier 0 only, because no
other tier ever has bounds a timestamp lies in (section 6).

### SrswQueue and RemovalWork

Pointers are indices; `LooksFull`, `ReloadRead`, `WriteEntry`, `PublishWrite` are `push`, and
`LooksEmpty`, `ReloadWrite`, `CopyEntry`, `PublishRead` are `pop`. The acquire loads and release
stores of `_r` and `_w` order the plain accesses to the cells as the steps are ordered; the two
plain accesses never overlap (`NoTornEntry`). In `RemovalWork` `Del` is `del_method` up to the
queue and `PushOn` goes on with the queue's steps, `WakeRemover` sets the flag; `ThreadTop`,
`CheckEmpty`, `ClearFlag`, `Woken`, `LoopTop`, `PopOn`, `Act` are the removal thread and
`del_action`; `LowerRunning` and `Join` are shutdown. The table is the set of stored keys.

### FreeMemory

`Request`, `AskFree`, `AskTotal`, `AddRequest` are `check_and_maybe_request_free_mem` and `Evict`
what the reader does while it says no; `ClaimUnasked` is the claim of a tier that hashes move to.
`LoadHead`, `LoadCount`, `Reduce`, `SwapCount` are `pop_number` up to and through
`reduce_free_count`; `ReadNext`, `SwapHead`, `PopFails` its popping loop; `CheckReserve`,
`NotifyEvictor`, `ClaimSatisfied` the rest of the claim. `ReturnCell`, `PushLoadHead`, `Link`,
`PushSwap`, `Increment`, `CapSwaps`, `Cap` are `return_to_free_mem`.

A team says which threads claim and which return; a thread may do both, and a return may come
anywhere in a claim, as it does between the reader, the remover and the evictor. Three history
variables say where this goes wrong. A thread is in `gone` when a cell was popped under it after it
read the head; `stale` is set when the head is swapped by such a thread for a next of before, and
`cut` when a push whose swap failed goes through with the next it wrote for the first try. The
properties say that nothing else goes wrong: before `stale` no cell is in two places, before `stale`
and `cut` none is missing, and with one claiming thread `cut` comes before any `stale`. What comes
after is `free_two_owners`.

### AtomicQueue and QueuedMap

`LoadTop` to `SwapTop` are `pop_number`, with which a push takes its cell before it announces itself;
`CountPush` to `StepForth` are `incr_push_count`, `PushMayGo` the wait for the pops, `Copy`,
`ClearPrev`, `ReadHead`, `SwapHead`, `SetTail`, `TailIsSet`, `ReadBack`, `SwapBack`, `NextHead`,
`Publish` the linking, `UncountPush`/`RecountPush` the end; `CountPop` to `UncountPop` are
`pop_queue`, in which `SkipFull` to `CountFree` are `_atomic_stack_push`. `Copy` writes the caller's
entry with the `_next` and `_prev` nobody has set in it, any of `Junk`. A thread that would follow a
reference that is no cell goes to a point it stays at (`strayed`, `astray`, `rastray`): the code goes
on from there, with whatever lies at that address. `torn` is the set of queues on whose stack a cell
was put by a swap that failed once, so that its `_next` is the one of before; this happens with one
client too, since the counts do not keep `pop_number` and `_atomic_stack_push` apart. The two
locks `_popper` and `_writer` are left out: `while ( !test_and_set() ) ;` ends as soon as the flag
is up, whoever put it up, so they keep nobody out. In `QueuedMap` `Put` and `Get` are QUEUED_map's
calls, `Submit`, `PushAgain`, `PushEnds` the loops of `com_put` and `com_req`, `SeeAnswer`,
`ReadAnswer`, `GiveUp` the wait for the answer, `Attach` the set-up of a client; `Unload`,
`StorePair`, `GetVal`, `WriteToProc`, `TestReader`, `ClearReader` the handlers. Every client is
given output cell 0, because every attaching client marks all the cells as free first.

### Hopscotch and AddonLru

A value is an offset above a key, a word of `H` the set of its bits. `PutStart`, `Hop`, `PutDone`,
`PutFrozen` are `put_hh_hash`, `Get` and `Del` `get` and `del_hh_hash`. `UseKey` is a `set` of a
held key and a `get` (both touch), `AddStart`, `AddHop`, `AddEl`, `AddFails` a `set` of a new one,
`DelKey` a `del`, `EvictStart`/`EvictTail` the eviction of the least used, a step an element,
`EvictNear` that of a bucket. `Count` is even, as a table selector is the lowest bit of the bucket
on look-up and of the hash on store (`StoreSelector`, `LookupSelector`). `_count_free` is a member of
each process's object, which counts its own calls only, and is left out.

### TableSearch

`CheckFirst`, `CheckLast`, `Halve`, `Scan`, `Exhausted` are the turns of the shared loop. The
length `n` is halved by itself and is not what is left of the table: `NotLeftBehind` and
`MiddleIsInside` say why that is no harm. A table has one entry or more: with none, as the timeout
table is at first (`holey_buffer.h:224`), the searches read `key_val[0]` and `key_val[-1]` before
anything else.

### SharedSegments

`Start`, `Create`, `Find`, `Stat`, `Attach`, `Return` are `region_intialization_ops` and what it
calls; `LookUp`, `Detach`, `DetachAll`, `Loop`, `Shmdt`, `Nattch`, `Rmid` are the detaches;
`GetSize`, `GetAddr` leave the entries `operator[]` makes; `Discard` and `Crash` end a process.
The system (`live`, `att`) is external: a segment goes on without its key while somebody is
attached, and `shmget` and `shmat` may fail for its own reasons (`Create`, `Attach`). A segment whose
creator fails to attach it is left with its key and nobody attached; the history `failed` holds
these, and `LastOneRemoves` is about the others.

## 3. Runs

| run | what it shows |
|---|---|
| `put_core` | two clients and one reader, three puts of two keys (fresh, updating, or handed back) over two slots: an answered element holds the answer to its own request, two grants of one slot are for one key, no slot holds another key's data, a returned hash is stored, the request count is that of the reader's batch |
| `put_timeouts` | waits that expire at any moment, two readers that claim the same messages, one slot, so that a claim finds the stack emptied: `put_method` returns, and the slot keeps one holder |
| `put_live` | fresh hashes and enough memory: every locked message is answered, though the reader may stop at the locks of the timeout table after it |
| `removal` | four deletes of two keys through a ring of three, shutdown at any time: requests accounted in order, no cell freed twice or for a key nobody deleted, caches behind, no torn entry, FIFO, and the loop drains all it took |
| `free_memory` | two threads that claim one or two of three cells and return them, or a reader and a thread that returns, in every overlap: before a swap of the head goes through with a next of before, no cell is in two places, none is missing, and only the top of the stack moves; a claim that is alone meets no cell that came back; claims get through their loops |
| `queued_map` | a client joined by a second in some behaviours, full queues, waits that expire, a stack of free cells popped and pushed at once: with one client attached pushes and pops exclude each other; and before a cell gets on the stack with the next of before, no reference leads astray, no cell is lost, requests stay in order, answers never go backwards |
| `addon_lru` | five keys of two buckets, four elements, four positions: the bits lead home, every value is reached, the list is whole and agrees with the table and the free list, every move of a put comes nearer; the whole is an LRU cache (`ImplementsLru`) over a dictionary (`ImplementsMap`) |
| `table_search` | every ordered table of up to four entries over five keys, and evenly spaced ones of up to 24, with every key: the three searches find what is there, leave nothing behind, read nothing outside, and end |
| `segments` | two processes, two keys, two segments, system calls that fail, a crash of either between any two of them: the last one out removes what could be attached, nobody initializes a segment twice, no attachment becomes unreachable |

Three runs end in a violation: the code does not do what a comment or a caller says of it.

| run | statement | what happens |
|---|---|---|
| `put_late_answer` | `node_shm_tiers_and_procs.h:1035`, the next write can proceed | the answer to a put that gave up is taken for the answer to the process's next put: the data of one key is stored under another |
| `free_two_owners` | `node_shm_LRU.h:370`, "free memory is a stack with atomic var protection": a cell has one owner | a push that loses the race for the head (`atomic_stack.h:96`) retries with the new head but leaves its cell linked to the old one, which a reader has popped meanwhile: the next claim hands that cell out again |
| `queued_own_answer` | `node_shm_queued.h:272`, a get "returns: the value stored under the key" | the service clears the reader flag (`array_p_defs.h:418`), tests it once more, finds it put up by the next get and clears it again: that get reads the answer to the one before |

### Bounds

The bounds are constants of the modules and are named in the configurations.

* `NProcs` and `Servers` = 1 or 2: the races of a put are between a client and a reader, between
  two clients, or between two readers. Two keys, one that look-ups find and one they do not. `MaxPuts` = 3 lets one
  process put twice while the other puts once, so that an update, a handed-back hash and a new key
  meet in one batch. `NSlots` is smaller than what three puts want, so memory runs out; with one slot
  and two readers the claim itself fails; `put_live` has enough on purpose. `MaxTimeouts` = `MaxPuts` = 2 lets every put of `put_timeouts` give up.
* `removal`: the ring of three cells holds two requests, so four deletes fill it, wrap it and are
  refused by it. Of two keys one is findable.
* `free_memory`: three cells, a claim of one or two and two claims reach an empty stack, a claim
  that fails half way, a lost race for the count and for the head, and the correction of a count
  above the number of cells. `Reserve` = 2 makes the evictor's notification reachable.
* `queued_map`: the two cells of either queue are full within `MaxOps` = 3 calls, and an overlap of
  a push and a pop on the stack needs no more; `Retries` = 1 stands for the retry loops,
  `MaxGiveUps` = 1 lets a wait expire and be answered late, `MaxShared` = 3 puts are those of two
  clients. `Values` is empty, so what is put is deletions, which take the same way through the
  queue; an answer carries the number of the get it is for, and the key, which `GetsItsOwn` compares.
* `addon_lru`: the five keys collide in two buckets of a table that is just as large as the region,
  so puts move values, fill the table and are refused; `K` = 3 is a neighbourhood shorter than the
  table, as 32 is in the code.
* `table_search`: up to four entries with repeated and missing keys show every relation of a key to
  its neighbours; 24 entries give every remainder of the halvings of `N`.
* `segments`: two keys let an unfinished set-up and a `detach_all` with entries to come meet; of the
  two segments both may be of one key, so that a removed one is made anew. More segments than these
  are not made: a process that would make one finds that `shmget` fails.

No configuration checks deadlock. The calls are bounded, so that every behaviour ends with threads
asleep on flags or idle, and some of the waits are never answered (section 5). What must go on is
stated as liveness instead.

### Fairness

`FairSpec` of `TierPut` and `RFairSpec` give weak fairness to the steps of every thread that is
inside a call or a loop: the operating system schedules it. Nothing obliges an application to put,
delete or shut down. `FreeMemory` gives it to a claim and to a return, step by step, and
`TableSearch` to the loop's turn. No step has strong fairness.

`PutReturns` does not rest on the readers' answers: a wait that is not answered runs out of its
loops, and `MaxTimeouts` is as large as `MaxPuts`. `LockedIsAnswered` rests on the reader thread
running; `LoopActsOnAll` on the removal thread running. `ClaimReturns` ends at an idle reader or at
`notify_evictor`: its loop waits for a flag that the evictor may clear between any two tests.

## 4. Proofs

The theorems hold for every value of the constants that the named assumption of the module allows.
In each module one invariant is inductive, and what is stated follows from it.

| proofs | inductive invariant | theorems |
|---|---|---|
| `RemovalProofs` | `QInv` for the ring, `RInv` with the threads | `QueueTypes`, `QueueCaches`, `QueuePastTheChecks`, `QueueNoTornEntry`, `QueueIsFifo`; `RemovalTypes`, `RemovalAccountsForAll`, `RemovalOnlyAsked`, `RemovalQueueIsFifo` |
| `TierPutProofs` | `TypeInv`, `SlotInv` | `PutTypes`, `PutSlots` |
| `PutAnswersProofs` | `AnswersInv`, `MemoryInv` | `PutGetsItsAnswer`, `PutsShareNoSlot`, `PutKeepsKeysApart`, `PutStaysInside`, `PutIsStored`, `MarkersGoRound`, `MemoryIsRequestedOnce` |
| `FreeMemoryProofs` | `FMInv` | `StackInvariant`, `NoCellTwice`, `NoCellMissing`, `StackTop`, `AloneNoABA` |
| `QueuedMapProofs` | `RolesInv`, `ApartInv` | `QueuedApart` |
| `AddonLruProofs` | `ALInv`, with `TableInv` | `CacheInvariant`, `CacheTypes`, `BitsLeadToTheirBucket`, `TableIsReadable`, `MovesComeNearer`, `ListStaysWhole`, `NoElementLeaks`, `TableAndListAgree`, `TableIsDictionary`, `ListIsLruOrder` |
| `TableSearchProofs` | `SInv` | `SearchTypes`, `SearchIsCorrect`, `NeverLeftBehind`, `MiddleStaysInside` |
| `SharedSegmentsProofs` | `SegInv` | `SegmentTypes`, `AttachmentsAreKnown`, `InitializersStartFresh`, `LastOutRemoves` |

**The ring.** For every `N >= 2` and every set of entries. `QInv` is the types, "the caches are
behind" and what the control points mean; the caches are what makes it inductive, since the writer
decides on the cached read index: `Dist(r, w) <= Dist(rCached, w)` says that a cell the cache takes
for free is free. The refinement follows the cells from `r` to `w`: writing a cell beyond `w` leaves
them alone, publishing appends one, publishing a read takes the head. `QueuePastTheChecks` is that a
writer or reader past its check really has room or an entry.

**Removal.** `RInv` ties the ring's steps to the threads that take them: the histories of what was
taken and acted on are one sequence, cut by what is in the ring and in the hands of either thread.
`RemovalQueueIsFifo` is the refinement in its real environment, with a shutdown at any point.

**Put, types and slots.** For every number of processes, readers, slots, keys, puts and expired
waits. `TypeOK` is not inductive alone: a slot is read from `taken[s][pos[s]]`, which is one only if
the batch wants that many, and what is stored is a key only because a claimed message was written
before; `TypeInv` adds these facts (`RequestWritten`, `HeldWritten`, `InStep`). `SlotsAccounted`
needs `SlotsFresh` besides: a slot the loop has not reached is under no hash, and a reader outside
the loop holds none, so that `StoreInHash` puts a slot under one hash only and a batch that ends
drops none it still holds. It holds with several readers, which claim messages twice: the double
claim costs slots, but never gives one slot to two keys.

**Put, answers.** Under the assumption `Patient`: one reader, no wait that expires, the copy in tier
0, and no mirrored keys. `AnswersInv` is `SlotInv` with `CycleInv` (where client and reader stand for each value of the
marker) and `AnswerInv` (what offset and hash of a claimed, answered or copying element are, and
that slots granted and slots in the batch agree on the key). The assumption is needed:
`put_late_answer` breaks the same invariant with one expired wait. `MemoryIsRequestedOnce` needs
no patience, only that the property itself speaks of a lone reader.

**Free memory.** For any numbers of threads, cells and claims, any of which may claim and return, in
every overlap. The theorems do not exclude what goes wrong; they say that it goes wrong nowhere but at
the two swaps `stale` and `cut` record. `NeverTwoPlaces` is not inductive, since a pop makes the head
what a link said when it was read, and nothing in the property says where a link leads. `FMInv`
therefore speaks of a set `l` of live cells with a rank: the head leads into `l`, no link leads out of
it, each leads to a cell of a lower rank, since that was pushed before (`Live`); a cell in somebody's
hands is not live, and is in nobody else's (`Placed`); and a thread under which nothing was popped
still knows what it read (`Knows`). A pop takes a cell out of `l` and puts the threads it concerns
into `gone`; a push puts one in with a rank above all. Before `cut` nothing is unlinked, and the live
cells are a list that is the stack (`ChainInv`), which gives `NoneMissing` and `OnlyTheTop`. A thread
that claims alone can be overtaken only by its own pops, after which the cell it looks for is in its
own hands and cannot come back (`ByItself`): `AloneNoABA`.

**Addon.** For any keys, elements, positions, neighbourhood and number of buckets, under `OneTable`:
the keys are those of one of the two tables and the number of buckets is even; with an odd one, a
look-up may take the other table than the store (section 5). `ALInv` is three parts. `TableInv`:
the bits and the values say the same of each bucket, no key is stored twice, the count is the number
of occupied positions, and a put under way has an empty position in hand and a key that is not
stored. It holds between any two moves of the displacement loop, which is what a reader in between
needs. `Lists`: there is an order `s` of the allocated elements and an order `f` of the free ones
that the links spell out in either direction; every edit of the links is an edit of these orders (a
touch takes an element out and puts it first, an eviction moves the last of `s` to the first of
`f`). `TableIsList`: what is stored and what is allocated are the same pairs. `ImplementsMap` then
follows because a move changes no pair, `ImplementsLru` because `s`, as keys, is the abstract
order.

The walks of these two modules are recursive functions. What such a function returns is an induction
over data, which the installed provers cannot take from the library; the proofs take the least step
at which the walk and the order it should meet differ (`LeastElement`, from the well-foundedness of
`<`), and that the recursion has a solution in the same way.

**Queued map.** For any numbers of clients, cells and calls. `RolesInv` says that clients push and
handlers pop, each from its own queue, and that the count of pops is exact. `ApartInv`, for a client
that is alone, makes the count of pushes exact, from `CountPush` to `UncountPush`; each side looks at
the other's count after it has raised its own, so that they are never both past their waits. What
the cells, the links and the stack hold plays no part in it, so that it holds after a cell has
gone astray too. The other properties of `queued_map` are model-checked only: they need an invariant
of the stack of free cells, as `FMInv` is one for `FreeMemory`, under the line of the queue.

**Searches.** For every ordered table and every key. `SInv` is the types, the bounds of `beg`,
`end` and `N` (`N` never passes `end - beg`, so the middle is inside), that the entry looked for is
still between them (`NotLeftBehind`) and that what was returned is the entry.

**Segments.** For any number of processes, keys, segments, crashes and calls that fail. `SegInv` says
for each process what it knows at each control point, that a key names one segment, that a segment
is not initialized by two, and that a key whose segment nobody is attached to is in `failed`, or on
its way to be attached or removed.

Only model-checked: liveness and ENABLED (`PutReturns`, `LockedIsAnswered`, `LoopActsOnAll`,
`ClaimReturns`, `Ends`), which are outside the proof system, and of `queued_map` `RefsWhenSound`,
`CellsWhenSound`, `FifoWhenSound` and `AnswersGoForward`. Every other invariant and action property
of a passing run is a theorem.

One proof found an error of the model: `Hopscotch` read the values of a bucket at its number, the
code at the number modulo the number of positions (`src/src/node_shm_HH.h:759`). The two agree only
as long as there are no more buckets than positions, which was so in the run.

## 5. What the code does otherwise

Besides the three violations of section 3, the modelling met the following. Each can be replayed in
the model where one is named.

**Put protocol**
* `SubmittedIsClaimed` (comment at 998): `wait_for_data_present_notification` clears the flag after
  the scan (486), so a wake-up in between is lost, and the put waits until another one comes or it
  gives up. `wait_for_removal_notification` does the same after `empty()` (529).
* `ClaimedByOne` (`atomic_proc_rw_state.h:31`): the marker is loaded at 763 and stored at 766, so
  that two readers may claim the same message.
* `NoWildMessage` (813): a local copy of the position is cleared, not the one in the batch; the
  allotment loop then uses the offset of an update as a pointer, whenever a batch mixes an update
  with a new key.
* `LockedIsHeld` (933): without memory the handler returns and leaves its messages locked.
* Two keys that are mirror images of each other: the look-up of the second hits the slot of the
  first, and its data is written there (`Hits`).
* `attach_to_lru_list` leaves the locks of the timeout table held (`holey_buffer.h:969`), and the
  reader stops at its second batch (`Attach`).
* The same new key put by two processes gets two cells; so does a stored hash that is put again
  without the stamp it was handed back with.
* The copy goes to the region of the tier that `from_time` picks (965), at an offset of the tier of
  the message. Harmless as long as `from_time` picks tier 0 only (section 6).

**Removal**
* `ShutdownReturns` (646, 666): a thread asleep on its flag is joined without being woken; one that
  starts late raises its running flag again.
* `push` refused by a full removal queue is ignored (1249).
* `del_action` frees the address of the data (`data_location` adds `sizeof(LRU_element)`), not of
  the element (1181), so the cell that comes back is shifted by a header.
* A removal frees the slot of a put that has its offset and is still copying (1185). No model
  covers it: the table is an abstraction in both modules.

**Free memory**
* Two returns that overlap, or a return and a claim, may unlink each other's cell. A claim that
  fails half way loses what it had popped, and has lowered the count already.
* `reduce_free_count` goes round again after a swap that succeeded (139); with it, and with
  `free_mem_claim_satisfied` (`node_shm_LRU.h:393`), the counts drift from the stack as soon as two
  calls overlap.
* `notify_evictor` and the evictor's wait use one flag in opposite senses (`node_shm_LRU.h:415`).

**Queues and answers**
* `NeverBothWait`: a push and a pop that announce themselves at the same time wait for each other
  (`atomic_queue.h:268`).
* The second copy of the new head's cell (`*el = input`, `prev = 0`), after the tail is published,
  wipes the link another pusher has put there.
* A push takes its cell from the stack before it announces itself, a pop gives one back before it is
  done: with one client too, the push of the stack may go on with the next of before (`torn`), as
  in `free_two_owners`.
* With two clients attached the head may be 0 while the tail is not, and a push follows it
  (`ReadBack` leads to `astray`).
* The sizes of the regions count `sizeof(atomic<uint32_t>*)`, 8, where the cells begin after four
  bytes each (`array_p_defs.h:197`), so that the last cell of the put queue overlaps the first words
  of the get queue.
* `_popper` and `_writer` keep nobody out. Every process that attaches clears all output cells and
  takes number 0; `_client_privilege` overlaps the head of the get queue.

**Segments**
* The last-user test is not atomic: between `shmdt`, `IPC_STAT` and `IPC_RMID` another process may
  attach; its segment goes on without a key (161). Tables keep the addresses of detached segments,
  since `_application_removals` is not virtual (182).
* `detach_all(false)` with others attached, after a forced removal, or after `get_size` of an
  unknown key, never returns: the loop waits for a map to empty that the call leaves as it is (203).
* A process that created a segment and fails to attach it leaves it behind, and detaching its key
  fails on the null address; after a forced removal by another process `detach` returns -1 before it
  calls `shmdt`, though the address is known (147).
* What a crash leaves behind makes every later initializer fail with `EEXIST`; a failed
  `region_intialization_ops` keeps what it has created.

**Addon**
* The periodic eviction runs without the lock that the other calls take (`src/index.js:571`).
* Key 0 is never deleted (`src/src/node_shm_HH.h:621`); with an odd number of buckets a look-up may
  take the other table than the store (`src/src/node_shm_LRU.h:550`).

## 6. Not modelled

Much of the repository is code that no run of a program can get through, and a model of it would be
a model of something else. The reasons, by part.

* **Hash table of the live code** (`node_shm_HH.h`, `hmap_interface.h`). `prepare_for_add` works on
  an uninitialised `control_bits_ref`. `become_bucket_state_master` does not end. Shifts and loop
  bounds take `sizeof(uint32_t)`, 4, for the 32 bits of a word. `share_lock` excludes nobody;
  `all_taken_spots` is indexed past what was stored; `seek_min_member` looks at zeroed control bits;
  `stash_taken_spots` overwrites the word it is to combine with; stash cells are not given back;
  `tbits_wait_for_readers` never reloads; `a_swap_values` stashes one bucket twice. What the put and
  removal paths see of the table is in `TierPut` and `RemovalWork`; the algorithm of the addon's
  earlier and simpler table is in `Hopscotch`. `node_shm_HH -serial-ref.h` is included by nothing and does
  not compile.
* **Eviction, tiers, time bounds.** Lower bounds of the tiers above 0 start at `UINT32_MAX` and are
  only raised, so that no timestamp lies in them and `from_time` never picks one; the upper bound is
  set to the new lower one, without a swap; `claim_hashes` stores the old offset;
  `relinquish_hashes` is called with the arguments of another version. A model would have no
  behaviour in which a value changes tier.
* **Timeout table** (`holey_buffer.h`). Updates and removals read the table at `_key_val` plus
  `UINT32_MAX`, displacing lowers a length that is 0, the merge returns `UINT32_MAX` for a length,
  `bin_search_with_blackouts_increasing` misses keys and reads past the end, and the upper scan of
  `entry_remove` does not advance. Its ordered search is in `TableSearch`.
* **INTERNAL_map** compares a bucket with a key, so nothing it stores is found; a look-up of an
  absent key spins. **Sparse slabs** restore only while a count that starts at 0 is positive, and
  the cropper's loop does not advance; **SlabProvider**'s receivers read their own cell of a
  broadcast. `simple_stack` serves these slabs only.
* **Addon**: the tier code at the end of `src/src/node_shm_LRU.h` is an older copy of the put
  protocol and does not compile. The lock of `index.js` is taken by a recursion that drops its
  result, some calls lack the tier, and `this.lru_key` is undefined; the model takes the lock as held
  for each call. The JavaScript bindings convert arguments.
* **Request and answer service**: one section is modelled; several share nothing but the output
  cell. The main of `array_p` calls each handler once and ends.
* Bloom filter, random selector, thread activity table, tokens, ticks and timers hold no protocol;
  the KCAS library is third-party and unused; the test programs print.

* **Addon table**: `src/src/node_shm_HH.h` has some names nobody defines; `Hopscotch` models the
  functions `node_shm_LRU.h` calls on it as they are written.

What is left to do on this base: proofs of `CellsWhenSound`, `FifoWhenSound` and `AnswersGoForward`,
from a stack invariant as in `FreeMemoryProofs` under the line of the queue; a module of put and
removal over one table, for the removal of a slot that is being written; eviction and tiers, when a
value can change tier.
