# bxalloc: a TLA+ verification project

bxalloc is a lock-free allocator for persistent memory. This directory models its
concurrent heap, its lock-free lists, its buddy allocator, its recovery, the files it
is mapped from and the public functions on top, and checks them with TLC on small
instances. With TLAPS it proves, for every instance: who owns superblocks and blocks in
the heap, that both lock-free lists implement the atomic lists the heap is built on, what
the regions hand out and what the public functions rely on across processes, that the
buddy allocator's blocks tile their region and its lists are right, what a collection
marks and keeps, and the arithmetic of relative pointers and size classes. `src/src/` below is the repository's
source directory.

## The system

A heap is five mapped files: superblocks (64 KB each), one 64-byte descriptor per
superblock, the buddy region, the free queue, and `BaseMeta`.

| Part | State | Operations | What makes it correct |
|---|---|---|---|
| Small-object heap (`BaseMeta.cpp`, `FreeList.hpp`, `ThreadCache.cpp`) | per descriptor an anchor (avail, count, state) and its heap; links inside free blocks; per thread and class a cached list | `do_malloc`, `do_free`, `fill_cache`, `flush_cache`, `malloc_from_partial`, `malloc_from_newsb`, `small_sb_alloc`, `organize_sb_list`, the retires | a block has one owner, a superblock has one owner, EMPTY means unused, nothing is lost, CAS loops do not livelock |
| Free queue (`LockFreeQueue.hpp`) | `rear`, `front`, `nodes` | `push`, `pop`, `finish_enqueue` | an atomic FIFO |
| Partial list (`heap_push_partial`, `heap_pop_partial`, `AtomicCrossPtrCnt`) | counted head, `next_partial` | push, pop | an atomic LIFO, no ABA |
| Large objects (`BuddyAllocator.cpp/.h`) | block headers in the region, free lists in memory, one mutex | `alloc`, `free`, recovering constructor | blocks tile the region, lists hold their size, free buddies merge |
| Recovery (`GarbageCollection`, `restart`, dirty mutex, roots) | roots, robust mutex, marks | mark, sweep, `set_root`, `is_dirty` | reachable objects survive a crash at any step, the rest is free again |
| Regions (`RegionManager`, `_BXP_init`) | five files, each with `curr_addr`, `heap_start` and its size in the first page | create, remap, expand, close | an expansion goes to one caller, also after a power failure; what is handed out is inside the file; an open heap is complete |
| `ClassSize`, `pptr`/`CrossPtr` | tables, words in the files | rounding, index, offsets | least class, tables agree; round trip, position independence |
| API (`bxalloc.cpp`) | roots | `malloc`, `calloc`, `realloc`, `free`, `malloc_size`, roots | a pointer goes back to the allocator and descriptor it came from, in every later process; writes stay inside blocks |

Threads share descriptors, the partial lists, the queue and `curr_addr`, each changed
by CAS only. Caches are thread-local; they exchange chains of blocks with superblocks.
Hard behaviours: a superblock changes state (FULL, PARTIAL, EMPTY) under several
threads while it moves between a list and a thread's hands; descriptors are erased
while others may still read them; the process may die between any two steps.
`PROJECT.json` lists the hazards with their lines.

## Modules

- **SmallHeap** - the core. One number names a superblock and its descriptor; a block
  is `<<superblock, index>>`; `link` is the first word of every block. One step is one
  access to shared memory with the local code around it; `pc` says where in
  `do_malloc`/`do_free` a thread is. The partial list and the free queue are sequences
  here. Writes to a block that only the writing thread can reach are merged with the
  CAS that follows them. `Dense` says whether the blocks fill the superblock: then the
  address past the last one, which `flush_cache` stores in a tail's link, is the first
  block of the next superblock, and `compute_idx` gives an index past the last. A walk that
  leaves the blocks (null or application data) ends the process ("bad link"): what the code
  does then is undefined. The application frees only blocks of superblocks of the class;
  one that it was given out of a whole object it keeps. Assertions abort.
- **AtomicList** - what SmallHeap assumes of the two lists.
- **ArrayQueue**, **PartialList** - the two lists, one step per shared access, shown to
  implement AtomicList with refinement mappings (`Queued`, `Listed`).
- **Buddy** - addresses counted in basic blocks; a block is its first cell, sizes are
  orders. The mutex lets one operation run at a time (`op`); a step changes the headers
  once, so `Restart`, the recovering constructor, can follow any of them.
- **Pptr**, **ClassSize** - operators: pointer words as records of pattern, distance and
  sign; rounding and class index.
- **Regions** - EXTENDS Pptr. The first words of every file twice, as loads see them
  (`words`) and as memory holds them (`pm`); `_BXP_init` step by step with every file's
  creation or remapping; threads expanding the SB and the large region; `Close`, `Die`
  (stores survive) and `PowerFailure` (unflushed words may be lost, file by file). `spans`
  records what callers were given. Addresses are pages.
- **Interface** - EXTENDS Regions and ClassSize. Objects by region and distance from its
  start, the descriptors' block sizes and a root. Which place in its region an object
  gets is left open among a few (SmallHeap and Buddy say which); which region, which
  descriptor and how big a block come from the code. What the objects contain is not
  followed; `wild` records that a realloc or a calloc wrote past the end of a block. The
  size read for an address without a descriptor is any of `StrayWords`.
- **Recovery** - EXTENDS SmallHeap: an application with pointers in objects and a root,
  a crash at any step, `restart` and the collection, one superblock per step, so that a
  crash can also hit the collection.
- **SmallHeapProofs** (superblocks, then blocks), **ArrayQueueProofs**,
  **PartialListProofs**, **BuddyProofs**, **RecoveryProofs**, **RegionsProofs** (with Pptr),
  **InterfaceProofs** (with ClassSize) - theorems. **Chains** - lemmas that several of them
  share: least elements, iteration, singly linked lists.
- **MCSmallHeap**, **MCArrayQueue**, **MCInterface** - symmetry sets and mappings for TLC.
- **MCHeapStray** - one schedule of SmallHeap's steps, thread by thread and label by label.

Definitions named "Mutant" are deliberate bugs that show each property can fail; no
specification uses them.

## Runs

| Run | Instance | Result |
|---|---|---|
| `heap_whole` | 2 threads, 4 superblocks, class whose cache holds a superblock, small and whole objects, queue of 1 | one owner per block, list lengths right, assertions hold; races to expand, queue-full and out-of-space aborts included |
| `heap_partial` | 2 threads, 3 blocks that fill the superblock, cache starts at 1 | superblock ownership, only retired superblocks lost, EMPTY unused, no livelock, and the inductive invariant of the proof |
| `heap_stray` | 4 blocks, 3 superblocks, one schedule of 51 steps | **violated**: a superblock is retired while it is an object of the application |
| `queue` | 2 threads, 3 slots, 2 laps, 2-bit counters | refines the atomic queue |
| `partial_list` | 2 threads, 3 descriptors, 1-bit counter | refines the atomic stack; no livelock |
| `buddy` | 4 basic blocks, 6 request sizes, `EqualSpec`, death at any step | tiling, lists, room for header, full merging |
| `buddy_free` | the same, frees in any order | **violated**: block on the wrong list |
| `recovery` | 1 thread, 2 usable superblocks, 2 crashes, classes 0 and 16 | reachable small objects survive, blocks of superblocks in use divided again, no superblock with two owners, recovery ends |
| `recovery_class0` | class 0 | **violated**: descriptor of a live superblock erased |
| `interface` | heaps of 1, 3 and 16 GB, 2 starts, 2 threads expanding, an object, SB regions whole superblocks apart | nothing handed out twice; superblocks inside their file; open heaps complete; descriptors and roots found again, and allocators while the large region is inside its file; only two calls overflow |
| `interface_expand` | a heap of 16 GB | **violated**: the large region is expanded past its file |
| `remap` | as `interface`, SB regions pages apart | **violated**: pointer finds the next superblock's descriptor |

Findings (details in `PROJECT.json`):

1. `malloc_from_partial` (BaseMeta.cpp:500), the branch for caches smaller than a
   superblock's free count (block sizes below 128 bytes, whose caches start at 512 or 2048):
   the CAS loop installs the head computed before blocks were returned, and a list becomes
   shorter than its count. Its last link, which `flush_cache` (BaseMeta.cpp:354) made from a
   FULL anchor, leads in the classes of 8, 16, 32 and 64 bytes into the next superblock: in
   `heap_stray` a whole object of the application gets into a thread cache and is retired
   while in use.
2. `BuddyAllocator::free` (BuddyAllocator.cpp:185) checks the buddy's size for the first
   merge only.
3. The sweep (BaseMeta.cpp:947) takes class 0 for whole objects. The same line sends live
   whole objects to the small branch, which overwrites their first word; `SmallObjectsKept`
   leaves them out for that reason.
4. `desc_lookup` (BaseMeta.cpp:397) relies on the SB region starting at a multiple of
   SBSIZE, which only the first process arranges; a later `mmap(0, ...)` need not keep it.
5. `_BXP_init` (bxalloc.cpp:68) sets the limit of the large region to half the heap, its file
   has 1 GB: in heaps of more than 4 GB (the default is 10, the test's 16) it is expanded
   past its mapping. `in_range` (bxalloc.cpp:144) may then find small objects in it.

Two more defects are not runs of their own; the properties state them as the only exceptions:
`small_sb_retire` (BaseMeta.cpp:690) puts the superblock nowhere (`OnlyRetiredLost`), and
`BXP_realloc` (bxalloc.cpp:176) copies the old block's size into a smaller block, as
`BXP_calloc` (bxalloc.cpp:186) asks a descriptor that does not exist for the size of a large
object (`OnlyTheseOverflow`).

Further hazards the models show when an assumption below is dropped are in `PROJECT.json`:
`finish_enqueue` with a helper that sleeps for a lap, an interrupted first start.

### Bounds, and why they are enough

- Two threads are enough for every pairwise race on one superblock, and for a loser of
  the race to expand that meets a winner still queueing.
- `MaxCount = 2`: a superblock is FULL, PARTIAL and EMPTY in turn. `MaxCount = 3`,
  `InitMax = 1`: a part is taken, the cache bound doubles, and a part remains. With three
  blocks the race of BaseMeta.cpp:500 only loses blocks: for a list shorter than its size
  a part must be taken, with blocks left, of a chain to which blocks are returned meanwhile,
  and that takes four. TLC finds `CacheSizeIsListLength` and `NeverOffTheList` true in the
  instance of `heap_partial`, so its superblock properties are about heaps whose lists have
  the length they say; `heap_stray` is about the others.
- `Dense` is TRUE in every run of the heap and of recovery but `heap_whole`, where it makes
  too many states (the links past the ends differ); the theorems cover both values, and
  `recovery` has it TRUE with caches that hold a superblock.
- `heap_stray` follows one schedule: the search of all behaviours of its instance is out of
  reach. A step that does not fit the schedule is not taken, so the run may stop.
- `QueueCap` is small so that "queue is full!" happens; `NSb` so that space runs out.
- ArrayQueue: three slots is the least at which full, empty and one element differ; with
  2-bit counters and two laps the counter of the first push (`0 - 1`) wraps.
- PartialList: pushes are not bounded. Three descriptors bring one back under a reader,
  and with `Wrap = 2` the counter takes every value it has.
- Buddy: two merge levels, a request that takes the whole region, one that fits
  exactly, and one that the header pushes to the next size.
- Interface: real page counts. A heap of 1 GB is the smallest that is accepted and fails
  in the warm-up; one of 3 GB has room for one expansion and refuses the second; one of
  16 GB, as in `test/main.cpp:31`, has room for expansions of both regions, and its files
  refuse the other sizes. Two starts (`MaxStarts`): one that creates and one that remaps,
  after a close, a death or a power failure at any step. `MaxSpans` lets each process hand
  out one piece (two, if threads race) beside the warm-up's, so that a later process expands
  what an earlier one has expanded and maybe not written back; `interface_expand` has one
  more. One object (`MaxObjs`) is held at a time, two while one is reallocated: what is
  checked of an object depends on the regions and its descriptor, not on other objects.
  Sizes 129, 65536 and 65537 are the beginning of a step of the classes, a whole superblock
  and the first large one. The run may stop when the starts are used up, so deadlock is
  not checked.
- Recovery: two crashes put the second one inside the first recovery; `MaxRefs = 1`
  gives the root, an object and what it points to, plus the chains of free blocks that
  dangling pointers reach.

### Assumptions of runs

- `NoLivelock` and `RecoveryEnds` assume weak fairness of every thread's steps inside a
  call: the operating system keeps scheduling it. Calls themselves are never forced. So
  `NoLivelock` says that threads do not keep each other from finishing for ever; that one
  gets through while another is suspended for ever (lock-freedom) is not stated.
- `PromptHelpers` (run `queue`): no helper sleeps while its slot is used again, 80000
  pushes later; the loop of `finish_enqueue` would write its old value over the new one.
- `PromptPops` (run `partial_list`): fewer pushes overtake a pop than the counter has
  values, 2^34.
- `EqualBuddies` (run `buddy`): the application frees only when the merge meets buddies of
  equal size. `buddy_free` drops it.
- `heap_whole` is restricted by its constants to classes of 128 bytes and more (there
  `Maxsize()` equals the block count from the start); smaller ones are `heap_partial`.
- `SameInSuperblock` (run `interface`): the SB region moves by whole superblocks, as 2 MB
  aligned mappings do. `remap` drops it.
- The properties of open heaps in `interface` are about heaps whose first `_BXP_init` was
  not interrupted (`~torn`): the code takes an existing file for a complete one.
- After a power failure `interface` forgets the objects: descriptors may be lost with it,
  and what a collection makes of them is Recovery's matter.
- The application frees only what it holds, and once.
- Symmetry is used in safety runs only.

## Proofs

`SmallHeapProofs` proves, for any threads, superblocks, block counts and queue capacity
allowed by `ConstantsAssumption`:

- `SuperblockInvariant`: `CoreInv`; `TypeCorrect`: `TypeOK`; `SuperblockOwnership`:
  `DescriptorOwnedOnce`;
- `BlockOwnership`: `BlockHasOneOwner`; `CacheLists`: `CacheSizeIsListLength`;
  `ListsLeadToBlocks`: `NeverOffTheList`; `RetiredIsUnused`: `EmptyIsUnused`;

all under the hypothesis `InitMax = MaxCount` (a fresh cache takes a whole superblock, as
`Maxsize()` says for block sizes of 128 bytes and more), and for blocks that fill the
superblock or do not. The hypothesis is needed: without it `heap_stray` shows a list that is
too short and a superblock with two owners.

`DescriptorOwnedOnce` alone is not inductive. `SparesApart` keeps free, whole and in-transit
superblocks disjoint, `PartialsApart` says that a superblock on the partial list or carried
by a thread is PARTIAL or EMPTY and in one place only, `LocalsOK` what a thread's locals are
at each label, and `RunsUsed` that a thread returns blocks to superblocks of the class only;
with `TypeOK` they are `CoreInv`, which TLC checks in `heap_partial`. The decisive step is
`FlushCAS`: only the CAS that leaves FULL gives the superblock to its thread, and a FULL one
is nowhere else. The proof has one lemma per conjunct (`TypeStep`, `SparesStep`,
`PartialsStep`, `LocalsSelf`, `LocalsOther`), each by cases on actions. `RunsUsed` is the one
that needs to know where lists lead, since a superblock is found from a block's address: it
follows from the invariant of the blocks (`RunsSound`).

The properties of blocks follow links; their invariant `BlockInv` does not. It says that
there is a function `own` from blocks to places (application, a thread's hand, cache or run
being flushed, a superblock's chain, nobody) such that the blocks at each place, its head,
its length and `link` form a list (`Tracks`). A list is known by its set of elements
(`Chain` in **Chains**), so pushing, popping, cutting and joining lists are operations on
sets, and a step changes `own` for a few blocks. `WholeOK` says that a thread in `fill_cache`
has an empty cache and never takes a part, `AnchorsOK` that counts and states agree with the
descriptors: one of the class is in use, one of a whole object is with the application or
the thread that frees it. The decisive steps are the CASes of `malloc_from_partial` (takes a
chain whose length is the count it saw) and `flush_cache` (joins a run to a chain that may
have changed since; what its tail's link contains when the superblock was FULL does not
matter, because a chain ends with its length).

`ArrayQueueProofs`, for any slots, threads (not more than slots) and counter width, under
`PromptSpec`: `QueueTypes`, `SuperblockQueuedOnce` and `ArrayQueueIsQueue` (`TypeOK`,
`QueuedOnce`, `ImplementsQueue`). The invariant `QInv` numbers pushes and pops: a slot and
a counter name one push (`Pos`), the word in `front` one pop (`PopOf`), so that "the next
slot", "full", "empty" and "a lap ago" become arithmetic on numbers instead of remainders.
`ArrayOK`: every slot but rear's has a push of the last lap. `OldRear`: a word a thread
once loaded from `rear` is still there, or has reached its slot, or is a lap old; so a
helper writes what its slot has or should have. `PushAt` and `PopAt` say what a thread
knows at each label: a push that gets its CAS through found the last value written and
the queue not full, a pop that does has read the first value. `QueueAssumption` bounds the
laps such that index and counter of `front` tell pops apart: with 80000 slots and 32 bits
below 2^25 laps, more than 2 * 10^12 pushes.

`PartialListProofs`, for any threads, descriptors and counter width, while `PromptPops`
guards the pushes: `PartialListedOnce` and `PartialListIsStack` (`ListedOnce`,
`ImplementsStack`). `PInv` says that `next` makes a list from the head, that a descriptor
is on it, off it or with one pusher, and, against ABA, `Seen`: since a popper loaded the
head, something has been pushed (then the counter differs), or what it saw is not on the
list, or it is still the head with the link it read.

`RegionsProofs` and `InterfaceProofs`, for any heap sizes, layouts, threads, numbers of
processes and ends of them: `MemoryHandedOutOnce`, `SuperblockMemoryInFile`,
`OpenHeapIsComplete`, `RootsLeadBack`, `FreeFindsItsAllocator`, `LookupIsRight`,
`OverflowsAreThese`, each of the property `PROJECT.json` names. `IInv` is `RInv` (files,
progress of `_BXP_init`, and for every span handed out that it ends before the end that
memory, not only the caches, holds: this is why a power failure gives nothing away twice),
`EInv` (where the regions end, and that superblocks start at multiples of their size) and
`ObjInv` (objects have the shapes `BXP_malloc` gives them, and their descriptors their
sizes). No size of the heap is assumed. Two conditions are stated where they are needed:
`FreedWhereAllocatedInFile` has the premise that the large region has not been expanded past
its file (`interface_expand` shows that it can be), and `LookupIsRight` and
`OverflowsAreThese` the hypothesis that layouts move the SB region by whole superblocks
(`Congruent`; otherwise `remap` shows the violation). `OverflowsAreThese` is the theorem
about realloc and calloc: no sequence of calls writes past a block but in the two ways it
names.

`BuddyProofs`, for any region size, block size and requests, under `EqualSpec` (the
application frees only where the loop of `free` meets buddies of equal size; without it
`buddy_free` shows the lists wrong): `BlocksAlwaysTile`, `ListsHoldTheirSizes`,
`FreeAlwaysListed`, `AlwaysRoom` and `AlwaysMerged`, the five properties of the run `buddy`,
death between any two header changes and the rebuilding constructor included. `BuddyInv`
says that the walk from header to header is a `Tiling`: each block starts at a multiple of
its size, which is a power of two, and the next one where it ends. Alignment is what makes
merging right: the buddy of an aligned block is aligned, and if their sizes are equal it is
the neighbour in the tiling, so two headers become one of twice the size (`TileMerge`) and
split is the inverse (`TileSplit`). The walk itself is a recursive function; `WalkIs` shows
that it computes the tiling, whatever the headers inside blocks contain. `ListsOK` and
`AllListed` tie lists to headers except at the steps where the code has changed one and not
the other, which `OpOK` names; `EqualAhead` carries the hypothesis through the loop; `Paired`
says that two free buddies are the ones an operation is at, or were left by a death.

`RecoveryProofs`, for any threads, superblocks, blocks and any graph of objects:
`MarksStayClosed` (`MarkedClosed`) and `ReachableSmallKept` (the action property
`SmallObjectsKept`, for classes other than 0: `recovery_class0` shows the violation in class
0). Marking is an iteration whose length the model takes from the number of blocks; `Settles`
in **Chains** shows that a growing sequence of sets of blocks has stopped by then, so what
is marked is closed (`ReachedClosed`). The sweep then writes links and descriptors, so the
induction needs that it never writes to a marked block (`SweepKeeps`), which in turn needs
that `curr_sb` stays at the starts of superblocks (`shifted`).

It also proves, for classes whose caches take whole superblocks (`InitMax = MaxCount`, as
above), that a crash and a recovery lead back to a heap that is divided: `OwnedAgain`
(`OwnedOnceAgain`) and `DividedAgain` (`OneOwnerAgain`), for any number of crashes at any
step, in the middle of collections too, and any pointers the application stores. `RecInv`
says what holds in each mode. In use, it is `CoreInv` and `BlockInv`; a stored pointer
disturbs neither, since it is in a block that no list has (`SetRefKeeps`). After a crash
nothing is known of lists and links but `Still`: the superblocks of the free queue, which
the collection leaves alone, have no descriptor in use. The sweep then makes `Swept` true of
one superblock after the other: what is not marked is its free chain, headed by its last
block (`ChainedDown`, by induction over the indices), its anchor has the chain's length, and
it is on the partial list exactly when the chain is not empty. When it is done, the marks
say which blocks the application has, and that gives the function `own` of `BlockInv`
(`FinishMakes`). `LockOK` is why a dead process is never taken for one that has closed. TLC
has checked `RecInv` on the instance of `recovery`, with the free chain of a swept
superblock followed link by link.

`RegionsProofs` begins with relative pointers, for all addresses: `RoundTrip` and `CompareIsExact` (a word identifies its
pointer, so the CAS of `__nvm_region_allocator` compares pointers; the case of null against
a word's own address is told apart by the sign bit), `PositionIndependent` (a mapped file
moves with its pptrs) and `CrossPtrMoves` (with the exception of a region's first byte,
which is why `BaseMeta` skips the first superblock). `InterfaceProofs` begins with size
classes, for all sizes from 1 to 24 KB: `TablesAgree`, `ClassIsItsOwn`, `LeastClass` and `GrowingFits`, each by cases on the four
steps. Addresses and distances are unbounded numbers here; a pptr has 48 bits for the
distance, more than a process can address.

Induction over data is done by hand where a proof needs it: a set of numbers has a least
element (`Least` in **Chains**), so the least counterexample is refuted. TLC has checked
every invariant above on the runs' instances.

Only model-checked: classes below 128 bytes; and liveness (`NoLivelock`, `RecoveryEnds`),
which TLAPS does not reach.

## Not modelled

- Write-back of cache lines other than the first words of the files: descriptors, block
  headers, the queue's array and links survive with the process's stores. That
  `FLUSH(&desc)` writes back a stack slot, and that `alloc` of the buddy allocator does
  not flush `free = false`, are listed as hazards.
- The block that an expansion of the buddy region adds: its size is a member no
  constructor sets.
- Requests of 0 bytes and of 2 GB and more: undefined behaviour at the input, listed as
  hazards. `BXP_init` computes the buddy allocator's `totalmemory` as an `int`, which wraps
  once the large region has 2 GB; the constructor's walk is in Buddy, for regions that fit.
- What happens to a process that has written past the end of a block or behind the large
  region's file: the words and objects that are hit are not followed.
- `BXP_output`, `BXP_in_prange`, `BXP_region_range`, `get_free_memory`, `printlist`: they
  only read. `large_sb_alloc`, `alloc_large_block`, the transient regions and
  `__try_nvm_region_allocator` are never called.
- Programs that reopen a heap without `BXP_recover`, and interior pointers to small
  blocks. Filter functions the application supplies to the collection.
- `pfence_util.h`, `pm_config.hpp`, `concurrentprimitives.hpp`: macros, constants and
  padded atomics without state of their own. `benchmark/` is third-party code.

## Plan

Extend: write-back of descriptors in Recovery; two threads in Recovery; Buddy with two
largest blocks.
