# A verification development for cxl-shm

cxl-shm (`src/src`, `src/include`) is a shared-memory library: threads of
several machines map one region, allocate objects in it, pass references to
one another and count them. A client may stop at any statement; a monitor then
repairs what it left. README.md:5 of the repository promises "no global
blocking, memory leak, double free, and wild pointer problems, even if some
participating clients unexpectedly fail". These modules say what that means
for the code, TLC checks it on small instances, and TLAPS proves it of the
counts, the redo, the message queues, the allocator, the page queues, the trees
of references and the hash index for every instance.

## 1. The system

All state is in the shared region; clients and monitor interact through it and
through nothing else. There are no locks: a client changes the state of another
one's objects by a compare-and-swap on an object header, a thread-local state
(tls) or a segment state, and by plain stores to words it is the only writer of.

| Component | State | Operations | Properties that make it correct |
|---|---|---|---|
| Reference counting (`cxl_shm.cpp`, `alloc.cpp`) | header of an object (id of the last writer, count, its era), era matrix (row per thread), redo log per thread, RootRefs | `cxl_malloc`, `get_ref`, `link_reference`, `unlink_reference`, `test_free`, `cxl_free` | count = references; free only after the last reference; every call ends |
| Recovery (`recovery.cpp`) | the same, for a thread that stopped | `redo_ref_cnt`, `recovery_garbage_collection`, `recovery_test_free`, the segment pass of `single_recovery_loop` | the redo repeats exactly an operation that happened; everything of a dead thread comes back; survivors are not hurt |
| Thread registration (`cxl_shm.cpp:44`) | the tls word of a thread, its own era | `thread_init`, release by the monitor | a new life of an id is not confused with the old one |
| Message queues (`transfer.cpp`) | ring with `start`, `end`, `sender_id`, `receiver_id`; a list of queues per sender, per receiver | `create_msg_queue`, `sent_to`, `cxl_unwrap` | FIFO, each message once; a message keeps its object alive; queue and messages come back when both ends have died |
| Embedded references (`cxl_shm.cpp:269`, `recovery.cpp:448`) | reference words inside objects | `link_reference` of an embedded word; `test_free` drops the children before the parent | a child is dropped exactly once, whoever drops the parent and wherever it stops; no object counts that no RootRef leads to |
| Pages and blocks (`page.cpp`, `alloc.cpp`) | free, local_free list and `used` of a page, `thread_free` of a segment | slow path of `cxl_malloc`, local and remote `cxl_free`, page release | a block is in one list at most; `used` is the number of blocks out |
| Page queues (`page_queue.cpp`) | doubly linked list, one per size class and one of free pages | push, remove, the walk of the monitor | the links are those of two sequences of distinct pages; the walk ends and misses no page in use, whichever store was the owner's last |
| Segments (`segment.cpp`) | owner id and state word per segment, page queue | allocation by compare-and-swap, release | one owner; released only when empty |
| Handles (`cxl_ref.cpp`) | count of handles in a RootRef | copy, move, assignment, destructor | RootRef released with its last handle |
| Hash index (`hash_index.cpp`) | chains of objects per partition | `put`, `get` | one dictionary; every entry is counted; no chain leads to a page given back |
| Header packing (`cxlmalloc-internal.h:132`) | | `pack_ref_info` and its inverses | |

Not components of the protocol: machine identity and NUMA tables (reads of the
environment), tests, benchmarks and scripts (drivers; they fix how the models
are used: which thread unwraps which queue, that the monitor starts when the
clients have stopped), `normal_garbage_collection` (no caller).

What is hard here: every store of a client may be its last; a header is
replaced by others between two statements of one thread and of the monitor; the
monitor must decide from header, matrix and log whether a dead thread had passed
its swap; ids, log lines, RootRefs and blocks are all recycled; the two ends of
a queue share a ring without a lock and either may die. `PROJECT.json` lists
each hazard at its line with the properties that cover it.

## 2. Modules

| Module | What it is |
|---|---|
| `EraRefCount` | reference counting, crash and recovery of objects without embedded references, store by store but for the few merged ones named below; RootRefs whose memory passes to another thread |
| `RefSpec`, `EraRefines` | what it promises (a reference appears and goes in one step; a block is reused only after its last reference), and the refinement mapping |
| `EraInv` | the inductive invariant |
| `EraProofs`, `EraImplements` | the proofs: of the invariant; of the refinement and of `NoLeak` |
| `Transfer` | message queues, crash and recovery of both ends |
| `MsgChannel`, `TransferRefines` | the channel a queue promises to be, and the mapping |
| `TransferInv`, `TransferProofs` | the inductive invariant of the queues, and the proofs, the refinement's too |
| `ObjTree` | objects with any number of embedded references: the recursion of `test_free` and its loop over them, by clients and by the monitor |
| `ObjTreeInv`, `ObjTreeProofs` | the inductive invariant of the trees, and the proofs |
| `PageHeap` | pages, blocks and segments: allocation, local and remote free, release, a stop inside `cxl_page_init`, recovery |
| `PageHeapInv`, `PageHeapProofs` | the inductive invariant of the allocator, and the proofs |
| `PageQueue`, `PageList` | the links of a page list, store by store; the sequences of pages they stand for |
| `Links`, `LinkLemmas` | the path that nodes form through a link, and what a store does to it |
| `PageQueueInv`, `PageQueueProofs` | the inductive invariant of the page queues, and the proofs |
| `HashIndex`, `KvStore` | the index over counted objects; the dictionary it promises |
| `HashIndexInv`, `HashIndexProofs` | the inductive invariant of the index, and the proofs; its chains are paths of `Links` |
| `MCEraRefCount`, `MCTransfer`, `MCObjTree`, `MCPageHeap`, `MCHashIndex` | small instances for TLC |

The six models meet where the code does.
- `EraRefCount` has the header of an object, its RootRefs and the redo, and sees
  the allocator as one pool of blocks.
- `Transfer` and `ObjTree` use the same `link_reference` and `unlink_reference`
  for cells of a ring and for words inside objects. They see it as log, swap
  and store with one bit in the log (`done`) that says whether the swap
  happened: that the monitor can compute this bit is `RedoDecides`, which is
  proved of `EraRefCount`.
- `HashIndex` writes its headers itself, not through `cxl_malloc`; there the bit
  cannot be assumed, so it has headers and eras of its own.
- `PageHeap` has the allocator, and sees references as the set of threads that
  hold a block, and a list of pages as a set; `PageQueue` has the links of such
  a list, and what is in a page as one bit.

### EraRefCount and the code

| Action | Code |
|---|---|
| `TbrFast`, `TbrSlow`, `ClearOne`, `Collect` | `thread_base_ref_alloc`: a RootRef from `page->free`, or the slow path that first clears the redo log line by line (`page.cpp:11-17`) |
| `StartLink`, `Begin`, `Publish`, `Cas`, `CasFail`, `WriteRef`, `FinishLink` | `get_ref` and `link_reference`: read the header, publish the era seen and write the log, swap, store the reference, advance the era |
| `Pptr`, `ObjSlow`, `ObjPage`, `Take`, `WriteHeader`, `OutOfMemory` | `cxl_ref_alloc`, `block_to_cxlobj` |
| `StartDrop`, `Prepare`, `FinishUnlink`, `FreeBlock`, `Release` | the destructor of the last handle: `test_free`, `unlink_reference`, `cxl_free` of the object, release of the RootRef |
| `Crash` | `POTENTIAL_FAULT`, between any two of these |
| `RedoLoad`, `RedoApply` | `redo_ref_cnt`; the two loads of the header are the two steps |
| `RecoverSkip`, `RecoverRead`, `RecoverCas`, `RecoverCasFail`, `RecoverDrop` | the walk over the RootRefs, `recovery_test_free`, `recovery_unlink_reference`, `recovery_cxl_free` |
| `TlsRelease`, `Sweep`, `ThreadInit` | end of the recovery, segment pass, a new life of the id |

`eff` is what the counts stand for: a reference exists from the swap on, although
its word is stored later, and is gone from the swap of the unlink on.

Not every store of shared state is a step of its own. `Pptr` is the store of
`pptr` and the pop of the block (`cxl_shm.cpp:95`, `108`): a stop between them
leaves a `pptr` that leads to the head of the free list, which the walk of the
monitor tells from a reference (`recovery.cpp:293`), so it would have the same
effect as a stop before `Pptr`. `Prepare` is the publication of the era and the
log line of an unlink; `Release` clears `in_use` and frees the RootRef.
`RedoApply` does not set the `POTENTIAL_LEAKING` state (`recovery.cpp:253-264`):
it concerns the list a remote `cxl_free` pushes onto (`alloc.cpp:124`), which is
not in this model.

A RootRef lies in a page, and `cxl_free` of the last one in use gives that page,
and with it perhaps its segment, back (`page.cpp:224-231`, `segment.cpp:105-132`).
`Addr` says which RootRefs of two threads may come to lie in the same memory: a
thread takes one only while the threads it shares memory with use none of theirs
(`Vacant`), and the redo writes to an address, whoever uses it then (`Store`).

### Transfer and the code

| Action | Code |
|---|---|
| `Create`, `LinkQueue` | `create_msg_queue`: block and `sender_id`, then the sender's list |
| `Send`, `Log`, `Swap`, `Store`, `Publish` | `sent_to`: `link_reference` of the cell, then `end` |
| `Unwrap`, `AttachList`, `AttachId` | first half of `cxl_unwrap`: the receiver puts the queue on its list, then writes `receiver_id` |
| `NoMessage`, `Message`, `Advance` | second half: `get_ref`, unlink of the cell, `start` |
| `Redo`, `DropRoot`, `DropCell`, `EndSender`, `EndReceiver`, `Finish`, `Sweep` | the monitor; for a dead sender it drops the cells outside the messages (a `sent_to` that had filled its cell), and the messages too when no receiver is attached; for a dead receiver, the messages |

### ObjTree and the code

| Action | Code |
|---|---|
| `Malloc`, `TakeRoot`, `Vacant` | `cxl_malloc`; the RootRef of a new reference, and `Addr` as in EraRefCount |
| `CopyHandle`, `Destroy` | copy constructor and destructor of `CXLRef` |
| `GetRef`, `Attach` | `get_ref`; `link_reference` of a word inside an object |
| `Test`, `Descend` | entry of `test_free`: the count is read; the last reference to a parent is followed down to the first of its words, any other is unlinked |
| `Log`, `Swap`, `Store` | `link_reference` and `unlink_reference` |
| `Free`, `Pop`, `NextWord`, `LastWord`, `Unlink` | `cxl_free` of an object whose last reference is gone; the return to the activation below, which goes on to the next word of the parent or, after the last, to the unlink that follows the loop |
| `Crash` | between any two of these, so also between two words of one parent |
| `Redo` (`Memory`, `Repeat`), `Visit`, `RecoveryTest`, `RecoveryUnlink`, `RecoveryReturn`, `Leave`, `Finish` | the monitor: redo, the walk over the RootRefs, `recovery_test_free` with its loop and its recursion; a reference to an object with count zero is let go without an unlink |

`stack` holds the places (RootRef or embedded word) the activations of
`test_free` were called for. An embedded word `w` is number `Nr[w]` of the block
`In[w]`: a block has as many words as the instance gives it.

### PageHeap and the code

| Action | Code |
|---|---|
| `Malloc`, `Search`, `Collect`, `Found`, `Fresh` | `cxl_find_page`, `cxl_page_queue_find_free_ex`, `cxl_page_free_collect`, `cxl_page_fresh` with `cxl_page_init` |
| `StopInFresh` | a stop inside `cxl_page_init` or before the page is pushed on its queue: the page is on no list, its size is set, and some of its headers are as they were |
| `TakeSegment`, `InitSegment`, `NoMemory` | `cxl_segment_alloc`: the swap of the owner, then the stores |
| `Share`, `Drop`, `FreeLocal` (`KeepPage`, `ReleasePage`), `Give`, `FreeRemote`, `Push` | references come and go; `cxl_free` by the owner and by others, `cxl_page_free`, `cxl_segment_free` |
| `Recover`, `DropDead`, `Finish`, `SegmentPass` | `recovery_garbage_collection` and the segment pass |

A list is a set here and an owner's allocator steps that no other actor can see
are one step; the swaps of a segment's owner and of `thread_free`, and the test
of the segment's header before it, are steps of their own. `junk` are the blocks
that nobody refers to and whose header, from before the page changed its class,
may read as a count (`Stale`): any of the headers a stop inside `cxl_page_init`
left, the last block's, which the loop never clears (`page.cpp:189`), and in
a page of RootRefs, of which the loop clears eight bytes a block, any.

### PageQueue and the code

| Action | Code |
|---|---|
| `Gain`, `Lose`, `Fresh`, `Return`, `Use` | the callers: a segment brings its pages, a page is taken for a size class, given back, used |
| `Push`, `PushBack`, `PushFront`, `PushOnly` | the stores of `cxl_page_queue_push` |
| `RemoveStart`, `Bypass`, `BypassBack`, `UnsetLast`, `UnsetFirst`, `ClearLinks` | the stores of `cxl_page_queue_remove` |
| `Crash` | after any store |
| `Visit`, `Forget` | the monitor's walk (`recovery.cpp:276`, `371`): the next link is read before the page is collected |

### HashIndex and the code

| Action | Code |
|---|---|
| `Overwrite`, `Take`, `Log`, `Swap`, `Store` | `put`: the search for the key, the new object with its header, the link into the chain |
| `Get`, `Read`, `Value` | `get`, load by load |
| `Crash` | in `put` |
| `Redo`, `Collect`, `Finish`, `Restart` | the monitor, when no client runs: redo, the pages without a counted block given back, the end of the recovery; a new life of the id |

The segment pass at the end of the loop (`recovery.cpp:574-651`) is not an action
here: every page that is left when the last thread is done has a counted entry,
and no count of an entry ever falls, so it gives nothing back. Beside a running
`put` it would take the page of an entry that does not count yet; the monitor
does not run then (section 3).

## 3. What the runs check

| Run | Instance | What it shows |
|---|---|---|
| `era_three` | 3 threads, 1 object, a RootRef each, eras up to 3 | `CountExact`: count = references in every state, in the middle of operations, crashes and recoveries. `RedoDecides`: the redo test is exact while two other threads replace the header. `LeakInv`: the invariant of the proofs, `IInv` and `HandInv` |
| `era_reuse` | 2 threads, 2 objects, 3 RootRefs, 2 log lines, eras up to 4, ids that come back | `PoolSound` (no double or early free), `RedoKeeps` (a redo undoes nothing later), `NoLeak`, `ImplementsRefSpec`, that every call of a running client returns (`NonBlocking`), and that all blocks come back (`AllReclaimed`) |
| `transfer_both` | a queue each way, 3 cells, 1 object | `Covered`: a counted cell is always on the way of a recovery to come. `FreedEmpty`, `AllReclaimed`, and `IInv`, the invariant of the proofs |
| `transfer_fifo` | one queue, 3 cells, 2 objects, no monitor | `ImplementsMsgChannel`: bounded, FIFO, each message once. `RingSound`: the cells filled are the messages. `CountExact`. `CallInv`: what `sent_to` and `cxl_unwrap` hold between their stores, the part of the invariant the refinement needs |
| `tree` | 2 threads, 3 RootRefs, one of them with up to 2 handles, an object with two embedded words, one with one and one with none | `CountExact`; `NoOrphan`: an object that counts is reached from a RootRef; `PoolClean`: no reference leads to a free block; `HandleSafe`; `RedoKeeps`; `AllReclaimed`: every tree comes back; `IInv`, the invariant of the proofs |
| `heap` | 2 threads, a segment of 2 pages and one of 1, 4 blocks | `TypeOK`, `OnePlace`, `UsedExact`, `PageOwned`, `HeldSafe`: the invariant of the proofs (`PageHeapInv`) implies them and is left to TLAPS, to keep the run short. `AllReclaimed`: every segment comes back but one in which a header that `cxl_page_init` did not clear reads as a count |
| `page_queue` | 4 pages, two queues | `Linked`: the links are those of two sequences whichever store comes last; `NoneMissed`, `WalkOnce`, `WalkEnds`: the monitor's walk; `ImplementsPageList`; `IInv`, the invariant of the proofs |
| `hash` | 2 threads, 3 keys (two in one bucket), 3 blocks in 2 pages, 2 values | `EntryCounted`, `NoWildEntry`, `ImplementsKvStore`: `put` and `get` are those of one dictionary; `IInv`, the invariant of the proofs |
| `era_survivors`, `era_moved`, `tree_race`, `hash_wild` | | disagreements with README.md:5, see section 5 |

Every property has a mutant, a plausible slip in one definition (an era that is
not published, an off-by-one in the full test, a collection that puts a block on
the wrong page, ...), under which TLC finds it violated.

**Bounds and why they are enough.** Era: `MaxEra` stops operations from
starting at that era; with `RedoCnt` = 2 (8 in the code) and eras up to 3 or 4
a log line is overwritten and a stale line survives into a later operation,
which is where a redo could go wrong. One object is enough for the counts, which
do not interact; two are needed for log lines of different objects and for
reuse. Three threads let a header be replaced twice after a crash. The proofs
of section 4 have none of these bounds. Transfer: a ring of 3 cells (16 in the
code) is empty, partly full, full and wrapped; `MaxCount` = 3 keeps more
references than cells out. Two queues in opposite directions make the monitor,
which goes by ascending id, meet a sender first and a receiver first.
ObjTree: three levels make the recursion return into an activation that itself
was called from one, and two words in an object make it go on with the second,
which may lead to the same object as the first; two threads and three RootRefs let a child be
held from outside while its parent is dropped. PageHeap: two pages in one
segment, so that a release of a page and of a segment differ; two segments, so
that memory moves between threads; two blocks in a page, so that `used` passes
through a value that is neither 0 nor full.
PageQueue: four pages put a page at the front, at the end, alone, and between
two others of a queue. HashIndex: two keys in one bucket, so that a chain has a
second entry; `MaxEra` (3 and 2) bounds the new entries of a thread; blocks of
the same page, and values, are symmetric.

**Assumptions of the passing runs.** Each is a constant, or a condition on one,
or part of a guard; where it is not met the properties fail, and four of them have
a run that shows it.
- The monitor starts when all clients have stopped and goes through them by
  ascending id, as `test/recovery_test.cpp` and `script/run_recovery_test.sh` do.
  EraRefCount and Transfer say it with `Concurrent = FALSE`; the other models'
  monitors have it in their guards. `era_survivors` has TRUE. From a client that is
  still running the monitor can also take away a page in which nothing counts
  yet: the segment pass (`recovery.cpp:574-651`) goes over all segments.
- `OwnMemory`: no memory serves the RootRefs of two threads, one after the other,
  in EraRefCount and ObjTree. `era_moved` has two that share.
- `MaxThread` is not an id in use: the scan of the matrix (`recovery.cpp:211`)
  reads rows 0 to `MAX_THREAD`-1, ids go from 1 to `MAX_THREAD`.
- `FaultInCreate = FALSE`: no client stops inside `create_msg_queue`, which has
  no `POTENTIAL_FAULT` after the block is taken. The queue a stop would leave has
  a `sender_id` that nobody clears, and is on no list.
- `Overlap = FALSE` in ObjTree: one client at a time drops a reference to a
  parent. `tree_race` has TRUE.
- `FaultBeforeSwap = FALSE` in HashIndex: no client stops between log and swap
  of a `put`. `hash_wild` has TRUE.
- In ObjTree a reference is copied only from a RootRef with a handle, and the last
  handle goes only when no such copy is under way (`Pinned`): the code leaves both
  to its users (`cxl_ref.cpp:60`).

PageHeap has no such constant. What `cxl_page_init` leaves uncleared is in the
model, and `AllReclaimed` excepts the segments it keeps. With one class of
objects, as in the run, that takes a page that was used for objects before a stop
inside `cxl_page_init` makes it one of RootRefs.

In every model but `EraRefCount` and `HashIndex` a thread id has one life.

**Fairness.** A client that is running goes on with a call it has begun: weak
fairness of `ClientStep` per thread, used by `NonBlocking` only. The swap loop
is not fair by itself: that it ends follows from the bound on the eras, that is,
from the finitely many operations of the others; the code is lock-free, not
wait-free. A spurious failure of a client's swap (x86 has none) would only
repeat its last two steps and is left out; the monitor's loop has it
(`RecoverCasFail`). `recovery_loop` is `while(true)`, so the monitor's steps are weakly
fair, in PageQueue, PageHeap, Transfer and ObjTree too. HashIndex states safety only. Nothing makes
a client start a call, stop or register. The models may stop (all clients gone, everything reclaimed), so deadlock is not checked.

## 4. What is proved

`EraProofs` proves of `EraRefCount`, for any number of threads, objects,
RootRefs, log lines and eras:

| Theorem | Statement |
|---|---|
| `TypeCorrect` | `Spec => []TypeOK` |
| `CountCorrect` | `Spec => []CountExact` |
| `RedoCorrect` | `Spec => []RedoDecides` |
| `RedoHarmless` | `Spec => RedoKeeps`, an action property |
| `PoolCorrect` | `Spec => []PoolSound` |
| `Inductive` | `Spec => []IInv` |

from three assumptions besides those of the module: `~Concurrent` and `OwnMemory`
(`era_survivors` and `era_moved` show what happens without them), and
`MaxThread \notin Threads`.

`CountExact` is not inductive. `IInv` (module `EraInv`) adds what makes it so:
- `LocInv`, `PinInv`, `BlankInv`, `LastInv`: what the registers of a thread say
  about its RootRef; the reference a `get_ref` copies stays; a block without
  a header is in one place; who dropped the last reference is alone with it.
- `BoundInv`, `PublishInv`, `TraceInv`: no header or matrix entry holds an era
  its thread has not used; an era is published before the swap that removes
  it; so after a swap either the header or some row still shows it. Together
  they make the evidence of `redo_ref_cnt` exact in both directions.
- `LogInv`, `WholeInv`, `StaleInv`: the log line of the operation under way is
  whole and is the last; an older line agrees with the RootRef it names, or
  that RootRef cannot be handed out before the log is cleared. This is why a
  redo of a line that is no longer under way changes nothing.
- `MonitorInv`: the monitor recovers one thread at a time and the header it
  loaded is not replaced under it.

The proof has frame lemmas for the parts an action leaves alone, one lemma per
action that `IInv` is kept, `NextInv` that collects them, and `Inductive` by
temporal logic.

`EraImplements` proves from the same assumptions

| Theorem | Statement |
|---|---|
| `Implements` | `Spec => ImplementsRefSpec` |
| `LeakFree` | `Spec => NoLeak`, an action property |
| `HandCorrect` | `Spec => []LeakInv` |

The initial states map to the initial state of `RefSpec`; then one lemma per
kind of action over `IInv`: the swap of a link shares a reference, that of an
unlink drops one, the header of a new object attaches its first, a block is
taken, comes back by a client or by the monitor or is lost to a redo, and every
other step is a stutter. The swaps need `CountExact`, the blocks `PoolSound` too.

`NoLeak` does not follow from `IInv`. A client that has dropped a reference but
not the last still has the object in a register until its call ends; somebody
else may drop the last one meanwhile. `HandInv` says that such an object is
`Safe` without it: free, referenced, or in the hands of the thread that took it
or dropped its last reference. No step of a client, a crash included, makes an
object unsafe (`ClientSafe`; at the swap by `CountExact`), so `HandInv` is
inductive and the end of a call loses nothing. The monitor starts when no client
runs, so `HandInv` says nothing then, and `MonitorLoses` goes through its steps.

`TransferProofs` proves of `Transfer`, for any number of threads, queues,
objects and cells, from `~Concurrent`:

| Theorem | Statement |
|---|---|
| `TypeCorrect` | `Spec => []TypeOK` |
| `RingCorrect` | `Spec => []RingSound`: until recoveries run, the cells filled are the messages, but for the last while `sent_to` and the first while `cxl_unwrap` is at it |
| `CountCorrect` | `Spec => []CountExact` |
| `CoverCorrect` | `Spec => []Covered` |
| `FreedCorrect` | `Spec => []FreedEmpty` |
| `CallCorrect` | `ClientSpec => []CallInv`, without the assumption |
| `Implements` | `ClientSpec => ImplementsMsgChannel`, without the assumption |
| `Inductive` | `Spec => []IInv` |

`IInv` (module `TransferInv`) adds to them:
- `LocInv`, `LogInv`: what the registers and the last log record of a thread
  say. A message the record put into a cell is there or received; a cell it
  emptied is the first of the ring or the one before: a redo, however late,
  writes what is there already.
- `PhaseInv`, `QueueInv`: what is left of a thread in each phase of its
  recovery; on which lists a queue is, and which segments a list keeps.
- `CoverInv`: once recoveries run, a count is at most the references of
  unrecovered threads and the counted cells a recovery to come answers for. It
  is an upper bound only, because a recovery drops cells of queues whose
  messages it also drops; `CalmBounded` shows that `CountExact`, which holds
  until the first recovery, implies it.

Counts are sums over threads plus sizes of sets of cells; the lemmas on `Total`
and on cardinalities say what one step does to them. Then frame lemmas, one
lemma per action, `NextInv`, and `Inductive` by temporal logic, as before.

`Implements` is about the steps of the clients, their crashes included, before
the monitor runs. It needs `CallInv` besides: until `sent_to` publishes, its
caller owns a reference to the message, and the cell at `end` holds it; a receiver that
is to advance `start` has emptied the cell it gives back. The move of `end` is
the `Send` of `MsgChannel`, that of `start` its `Receive`, the store of a drop is
`Let`, a new object is `New` (no reference is left, by `CountExact`), a crash is
`Stop`; every other step is a stutter. `RoundIs` and `PlacesAre` say which places
of the ring lie between `start` and `end` before and after a move.

`PageHeapProofs` proves of `PageHeap`, for any number of threads, segments,
pages, blocks and size classes, with no assumption besides those of the module:

| Theorem | Statement |
|---|---|
| `TypeCorrect` | `Spec => []TypeOK` |
| `PlaceCorrect` | `Spec => []OnePlace` |
| `UsedCorrect` | `Spec => []UsedExact` |
| `OwnedCorrect` | `Spec => []PageOwned` |
| `HeldCorrect` | `Spec => []HeldSafe` |
| `Inductive` | `Spec => []IInv` |

The properties speak of running threads and of what is on their lists; a step of
one thread depends on pages and segments that no list shows. `IInv` (module
`PageHeapInv`) says it of all of them:
- `SegInv`, `ListInv`: the header of a segment names its owner or nobody, and
  the lists of a thread are exactly the pages of the segments whose header names
  it, by kind. Between the swap of the owner and the stores of the header a
  segment belongs to a register (`RegInv`).
- `HomeInv`, `PlaceInv`: the blocks of a page in use are each in one place, those
  of a page that is not in use in none; a block on its way to a list is in a
  register of one thread. This is what a late `Push` onto `thread_free` needs:
  the page cannot have been released meanwhile, for the block still counts.
- `CountInv`: `used` is the number of blocks out, of pages on lists or not.
- `PhaseInv`, `HeldInv`: what is left of the above while the monitor goes from
  thread to thread: `PlaceInv` and `CountInv` hold until it starts, `HeldInv`,
  that what is referred to lies in a page in use, always.

There are frame lemmas for the registers, the lists and the blocks an action
does not touch, `Quiet` for steps that change registers only, `Moved` for a
block that goes from one place to another, and one lemma per action.

`ObjTreeProofs` proves of `ObjTree`, for any number of threads, RootRefs, handles
and objects, each with any number of embedded words, and any references that go
down in `Level`, from `~Overlap` and `OwnMemory` (`tree_race` and `era_moved` show
what happens without them):

| Theorem | Statement |
|---|---|
| `TypeCorrect` | `Spec => []TypeOK` |
| `CountCorrect` | `Spec => []CountExact` |
| `OrphanCorrect` | `Spec => []NoOrphan` |
| `PoolCorrect` | `Spec => []PoolClean` |
| `HandleCorrect` | `Spec => []HandleSafe` |
| `RedoHarmless` | `Spec => RedoKeeps`, an action property |
| `Inductive` | `Spec => []IInv` |

`IInv` (module `ObjTreeInv`) is about `Refs[o]`, the places whose reference to
`o` counts: a link from its swap on, an unlink until its swap.
- `CountInv`, `TreeInv`, `PoolInv`, `HandleInv`: the count is the size of `Refs`;
  an object without references has let go of what it referred to, and references
  go down; nothing refers to a free block.
- `StackInv`: the activations of `test_free` go down from a RootRef of the
  thread, without a handle, along references that are the only ones to their
  object, whose words before the one on the stack have been dropped; the stacks
  of two threads share no place. So what a client drops no
  other can reach, and it finds the words as it left them when it returns.
- `AloneInv`: only one client is dropping a parent. So a count above one that
  `Test` read of a parent is still above one at the swap, and the parent keeps
  what it refers to: this is the step that `tree_race` breaks. A count of one that
  `Test` read of a parent is the reference dropped, and its words are empty
  (`Bare`) when the loop over them is done.
- `LocInv`: what the registers of a link or unlink under way say; the place of a
  link is empty and nobody else's, that of an unlink is the top of the stack,
  and who took the last reference is alone with the block until it is freed.
- `LogInv`: the last record of a thread is that of the operation under way, or
  its word holds already what a redo would store and nobody else can change it:
  a RootRef of the thread, or a word in a parent that the thread has a reference
  to or has on its stack. Hence `RedoKeeps`.

A step of one thread leaves the rest of `IInv` to the others by `Frame`: what it
writes (`WordFrame`), which references it starts and ends (`RefsFrame`) and what
it takes up (`TakeFrame`) are disjoint from what the invariant says of them;
`Keeps` concludes from it. `Settle` is the store that a client or the redo makes
and that changes no `Refs`, `LeaveIs` an activation of the monitor that ends.
`NoOrphan` needs no path: above a counted object outside `S` there is another
one with a higher `Level`, the block its reference lies in (`AboveIs`). So those
of at least its level are more than those of at least that of the other, and by
`SetInduction` more than any number, in a finite set (`OrphanIs`).

`PageQueueProofs` proves of `PageQueue`, for any number of pages and with no
assumption besides those of the module:

| Theorem | Statement |
|---|---|
| `LinksCorrect` | `Spec => []Linked` |
| `WalkComplete` | `Spec => []NoneMissed` |
| `WalkNoRepeat` | `Spec => WalkOnce`, an action property |
| `Implements` | `Spec => ImplementsPageList` |
| `Inductive` | `Spec => []IInv` |

`Linked` says nothing inside an operation, where the owner may stop. `IInv`
(module `PageQueueInv`) says it after every store:
- `PathInv`: the links forward are those of two sequences of distinct pages, with
  no page in both; for the class the monitor walks, from where the monitor is.
- `BusyInv`: a page in use is on the sequence of its class or was visited, so a
  walk that ends has missed none.
- `PrevInv`, `LastInv`: the links back and the ends are those of the same
  sequences, but for one that a store under way has set ahead or left behind
  (`Odd`, `OddLast`). A monitor goes forward only and needs neither; the next
  operation of an owner needs both.
- `LocInv`: where the page of the operation under way is: still on its queue, led
  around, or not on any.

A queue is what one finds who follows links, a recursive function. `LinkLemmas`
says what it returns (`PathIs`: the one path from that page) and what a store
does to a path: a page put before it (`PathPush`), the first taken off
(`PathTail`), one led around (`PathBypass`), a link elsewhere (`PathFrame`). The
induction over numbers this needs is not to be had from the library, whose
theorem takes an operator; here it is a consequence of the pigeonhole principle
for finite sets (`SetInduction`): the numbers up to a given one outside the set
would be mapped one to one into themselves by the predecessor, so onto, and the
greatest is the predecessor of none.

`HashIndexProofs` proves of `HashIndex`, for any number of threads, keys,
buckets, blocks and pages, from `~FaultBeforeSwap` (`hash_wild` shows what
happens without it; the code has a `POTENTIAL_FAULT` there), of a monitor that
runs when no client does:

| Theorem | Statement |
|---|---|
| `CountCorrect` | `Spec => []EntryCounted` |
| `WildCorrect` | `Spec => []NoWildEntry` |
| `Implements` | `Spec => ImplementsKvStore` |
| `Inductive` | `Spec => []IInv` |

`IInv` (module `HashIndexInv`) says:
- `ChainInv`, `EntryInv`: a chain is a path of distinct entries; the key of an
  entry tells its chain, so no entry is in two, and no key comes twice; an entry
  counts once and lies in a page of the owner of its partition, or of a thread
  that stopped, so the monitor, which gives pages without a counted block back,
  leaves it alone.
- `PutInv`: the new object of a `put` is in no chain, and its place is the end of
  one. Only the owner of a partition puts there, so it still is the end when the
  reference is stored.
- `ReadInv`: a `get` stands on an entry of its chain, and those it has passed have
  other keys. It may stand there while the chain grows behind it.
- `LogInv`, `StopInv`: the last log line says what is to be stored next, or what
  is there already; a thread that stopped after its log line has swapped. So
  the redo stores the entry of that `put`, or what is there.

Chains change in one way: an object is stored at the end of one, by its owner or
by the redo. `AppendIs` says what that does to all chains, with the lemmas on
paths of `LinkLemmas`; `LinkSafe` concludes `IInv` for both, `Others` for the
threads that do not move. In the refinement a key has the value of the one entry
with that key (`ValueIs`); `Store` of a new entry and `Overwrite` are the `Put`
of `KvStore`, the redo of a stop before `Store` is its `Finish`, and a `get` takes
its value at its last load (`Value`) or, when there is no such key, at the load
that found the end of the chain (`Read`).

Only model-checked: liveness (`NonBlocking`, `AllReclaimed`, `WalkEnds`), which
is out of the prover's reach. Every safety property and refinement that a
passing run checks is proved.

## 5. Disagreements between code and documentation

README.md:5 promises no memory leak and no wild pointer "even if some
participating clients unexpectedly fail".
- `era_survivors`: `redo_ref_cnt` loads the header twice (`recovery.cpp:201`);
  beside a running thread it may take an operation for done that never happened,
  and the survivor's block is freed under it.
- `era_moved`: the redo writes through the address in its log
  (`recovery.cpp:223`, `251`). A thread that releases its last RootRef gives the
  page and the segment back, but clears its log only before it searches for a page
  (`page.cpp:11`); another thread may put a RootRef there. When both have stopped,
  the redo of the first one's last unlink clears the reference of the other, and
  its count is never dropped.
- `tree_race`: `test_free` decides from a count it read before its swap
  (`cxl_shm.cpp:278`). Two clients that drop the last two references to a parent
  both leave its children to the other; the children count for ever. No crash
  is needed.
- `hash_wild`: `put` writes its header at the era its `link_reference` then logs
  (`hash_index.cpp:26`). A client that stops between log and swap leaves what
  looks like a completed swap; the redo stores an entry nothing counts, and its
  page is given back.

The other limits met while modelling are the conditions of section 3: the last
row of the matrix, a stop inside `create_msg_queue`, the headers `cxl_page_init`
leaves, whose segment the segment pass then keeps. With `Concurrent` set, Transfer
has one more: the redo of the last `sent_to` writes a reference into a cell a
running receiver has consumed. And the segment pass (`recovery.cpp:580`), which
has no run beside clients here, gives back segments of running threads in which
nothing counts yet.

## 6. Not modelled, and the plan

| Next | What | Property and theorem |
|---|---|---|
| 1 | `PageHeap` with ids that are used again and find their number in abandoned segments (`segment.cpp:80`) | `PageOwned`, `OnePlace`, `UsedExact` |
| 2 | A second receiver of a queue (`transfer.cpp:67`), when a client of the repository has one | each message once |

Not modelled: the two assignments and the move constructor of `CXLRef`
(`cxl_ref.cpp:30`), since no client of the repository assigns a handle; a fixed
width for count and era (`cxlmalloc-internal.h:132`), since 2^16 references or
2^32 operations are out of reach of a bounded instance.

Left out for good: `normal_garbage_collection` (no caller), machine identity,
NUMA tables, tests, benchmarks, scripts. The order of stores in the memory of
one machine and the cache lines (`FLUSH`, `FENCE`) are taken as the program
order; a crash stops a client, never the memory.
