------------------------------ MODULE SmallHeap ------------------------------
(***************************************************************************)
(* The small-object heap of bxalloc: BaseMeta::do_malloc and do_free with  *)
(* everything they call, for one size class and for the whole-superblock   *)
(* objects (MAX_SZ < size <= SBSIZE) that share the superblock pool.       *)
(*                                                                         *)
(* A superblock and its descriptor have the same index, so one number      *)
(* names both.  A block is a pair <<superblock, index>>.  The words the    *)
(* allocator keeps inside free blocks are the function `link'.  The        *)
(* partial list (a Treiber stack) and the queue of free superblocks are    *)
(* sequences with atomic push and pop; modules PartialList and ArrayQueue  *)
(* take those two apart.  One step of a thread is one access to shared     *)
(* memory together with the thread-local code around it.                   *)
(***************************************************************************)
EXTENDS Integers, Sequences, FiniteSets

CONSTANTS
  Threads,   \* threads that call the allocator
  Requests,  \* what they ask for: "small" and "large" objects
  NSb,       \* superblocks the SB region's file has room for (FILESIZE / SBSIZE)
  Expand,    \* superblocks per expansion (SB_REGION_EXPAND_SIZE / SBSIZE)
  MaxCount,  \* blocks in a superblock of the class (SBSIZE / block_size)
  Dense,     \* block_size divides SBSIZE: the blocks fill the superblock
  InitMax,   \* Maxsize() of a fresh thread cache
  QueueCap   \* superblocks the free queue holds before "queue is full!"

ASSUME ConstantsAssumption ==
  /\ NSb \in Nat /\ Expand \in Nat /\ MaxCount \in Nat /\ InitMax \in Nat
  /\ QueueCap \in Nat /\ Dense \in BOOLEAN
  /\ 2 <= Expand /\ Expand <= NSb /\ Expand - 1 <= QueueCap
  /\ Requests \subseteq {"small", "large"}
  /\ 2 <= MaxCount /\ 1 <= InitMax /\ InitMax <= MaxCount

VARIABLES
  queue,    \* _queue: indices of free superblocks
  partial,  \* heaps[sc_idx].partial_list, head first
  curr,     \* curr_addr of the SB region, in superblocks
  anchor,   \* Descriptor::anchor
  heap,     \* Descriptor::heap: which ProcHeap, or none
  link,     \* the first word of every block
  cache,    \* tsl_cache._flist[sc_idx] of every thread
  user,     \* blocks the application holds
  big,      \* whole-superblock objects the application holds
  pc, desc, old, seg, span, blk, goal, \* where a thread is, and its locals
  halted    \* "no", or the assertion or bad access that ended the process

shared == <<queue, partial, curr, anchor, heap, link>>
app == <<user, big>>
local == <<desc, old, seg, span, blk, goal>>
vars == <<shared, cache, app, pc, local, halted>>
-----------------------------------------------------------------------------
Sbs == 0 .. NSb - 1
NoSb == -1
Blocks == Sbs \X (0 .. MaxCount - 1)
\* Any word that is not the address of a block: null or application data.
NoBlock == <<NoSb, 0>>
Addrs == Blocks \cup {NoBlock}
\* superblock + idx * block_size.  The address past the last block, which
\* flush_cache stores as the link of a tail, is the first block of the next
\* superblock where the blocks fill theirs.
AddrOf(d, idx) ==
  IF idx < MaxCount THEN <<d, idx>>
  ELSE IF Dense /\ d + idx \div MaxCount < NSb
       THEN <<d + idx \div MaxCount, idx % MaxCount>>
  ELSE NoBlock
\* compute_idx, which does not check that the block is one of the superblock.
\* The 32-bit difference to a block of an earlier superblock wraps: superblock +
\* idx * block_size is then past every block.
IdxOf(d, x) ==
  IF x[1] >= d THEN (x[1] - d) * MaxCount + x[2] ELSE NSb * MaxCount

Anchors == [avail : Nat, count : Nat,
            state : {"ERROR", "FULL", "PARTIAL", "EMPTY"}]
Erased == [avail |-> 0, count |-> 0, state |-> "ERROR"]
AllTaken == [avail |-> MaxCount, count |-> 0, state |-> "FULL"]

Caches == [head : Addrs, size : Nat, max : 1 .. MaxCount]
Segs == [head : Addrs, tail : Addrs, num : Nat]
Spans == [lo : Sbs \cup {NoSb}, hi : Sbs \cup {NoSb}]
Labels == {"idle", "pop", "pop_partial", "reserve", "take_all", "take_part",
           "push_part", "sb_alloc", "expand", "expand_cas", "organize", "use_sb",
           "flush", "flush_cas", "push_flush", "retire"}
Goals == {"none", "small", "large", "free", "exit"}
NoSeg == [head |-> NoBlock, tail |-> NoBlock, num |-> 0]
NoSpan == [lo |-> NoSb, hi |-> NoSb]
Cached(h, n, m) == [head |-> h, size |-> n, max |-> m]
Fresh == Cached(NoBlock, 0, InitMax)
\* Mutant: the bound on a thread cache is not capped.
GrownUncapped(max) == max * 2
Grown(max) == IF max * 2 < MaxCount THEN max * 2 ELSE MaxCount

\* The address n links after b.
Follow(b, n) ==
  LET f[k \in 0 .. n] == IF k = 0 THEN b
                         ELSE IF f[k - 1] \in Blocks THEN link[f[k - 1]]
                         ELSE NoBlock
  IN  f[n]

\* The first n addresses from b on are blocks of superblock d.
SameSb(b, n, d) == \A k \in 0 .. n - 1 : /\ Follow(b, k) \in Blocks
                                         /\ Follow(b, k)[1] = d
-----------------------------------------------------------------------------
\* Thread t is at label l of a process that has not aborted.
At(t, l) == halted = "no" /\ pc[t] = l
Goto(t, l) == pc' = [pc EXCEPT ![t] = l]

\* The call returns: its locals are gone.
Return(t) ==
  /\ Goto(t, "idle")
  /\ desc' = [desc EXCEPT ![t] = NoSb]
  /\ old' = [old EXCEPT ![t] = Erased]
  /\ seg' = [seg EXCEPT ![t] = NoSeg]
  /\ span' = [span EXCEPT ![t] = NoSpan]
  /\ blk' = [blk EXCEPT ![t] = NoBlock]
  /\ goal' = [goal EXCEPT ![t] = "none"]

Abort(why) ==
  halted' = why /\ UNCHANGED <<shared, cache, app, pc, local>>

\* new (desc) Descriptor()
Erase(d) ==
  /\ anchor' = [anchor EXCEPT ![d] = Erased]
  /\ heap' = [heap EXCEPT ![d] = "none"]

\* The warm-up of the BaseMeta constructor: one expansion, superblock 0 skipped.
Init ==
  /\ queue = [i \in 1 .. Expand - 1 |-> i]
  /\ partial = <<>>
  /\ curr = Expand
  /\ anchor = [d \in Sbs |-> Erased]
  /\ heap = [d \in Sbs |-> "none"]
  /\ link = [b \in Blocks |-> NoBlock]
  /\ cache = [t \in Threads |-> Fresh]
  /\ user = {} /\ big = {}
  /\ pc = [t \in Threads |-> "idle"]
  /\ desc = [t \in Threads |-> NoSb]
  /\ old = [t \in Threads |-> Erased]
  /\ seg = [t \in Threads |-> NoSeg]
  /\ span = [t \in Threads |-> NoSpan]
  /\ blk = [t \in Threads |-> NoBlock]
  /\ goal = [t \in Threads |-> "none"]
  /\ halted = "no"
-----------------------------------------------------------------------------
(* do_malloc *)

\* do_malloc of a size of the class, with nothing cached: fill_cache.
MallocMiss(t) ==
  /\ At(t, "idle") /\ "small" \in Requests /\ cache[t].size = 0
  /\ Goto(t, "pop_partial")
  /\ goal' = [goal EXCEPT ![t] = "small"]
  /\ UNCHANGED <<shared, cache, app, desc, old, seg, span, blk, halted>>

\* do_malloc of more than MAX_SZ bytes: a whole superblock.
MallocLarge(t) ==
  /\ At(t, "idle") /\ "large" \in Requests
  /\ Goto(t, "sb_alloc")
  /\ goal' = [goal EXCEPT ![t] = "large"]
  /\ UNCHANGED <<shared, cache, app, desc, old, seg, span, blk, halted>>

\* return cache->Pop(), on a hit or after fill_cache.  From here on the first
\* word of the block is application data.
Pop(t) ==
  /\ At(t, "idle") \/ At(t, "pop")
  /\ cache[t].size > 0
  /\ LET b == cache[t].head IN
     \/ /\ b \in Blocks
        /\ user' = user \cup {b}
        /\ cache' = [cache EXCEPT ![t] = Cached(link[b], @.size - 1, @.max)]
        /\ link' = [link EXCEPT ![b] = NoBlock]
        /\ Return(t)
        /\ UNCHANGED <<queue, partial, curr, anchor, heap, big, halted>>
     \/ /\ b \notin Blocks
        /\ Abort("bad link")
-----------------------------------------------------------------------------
(* malloc_from_partial *)

HeapPopPartial(t) ==
  /\ At(t, "pop_partial")
  /\ \/ /\ partial = <<>>
        /\ Goto(t, "sb_alloc")
        /\ UNCHANGED <<partial, desc>>
     \/ /\ partial # <<>>
        /\ desc' = [desc EXCEPT ![t] = Head(partial)]
        /\ partial' = Tail(partial)
        /\ Goto(t, "reserve")
  /\ UNCHANGED <<queue, curr, anchor, heap, link, cache, app, old, seg, span,
                 blk, goal, halted>>

\* The superblock became empty while it was on the list: small_sb_retire erases
\* its descriptor, then goto retry.
RetireEmpty(t) ==
  /\ Erase(desc[t])
  /\ Goto(t, "pop_partial")
  /\ desc' = [desc EXCEPT ![t] = NoSb]
  /\ old' = [old EXCEPT ![t] = Erased]
  /\ UNCHANGED <<queue, partial, curr, link, seg>>

\* Loads the anchor and chooses between the two branches.  Taking a part walks
\* Maxsize() links down the free chain and cuts the chain there: nobody else
\* changes the chain below its head while the descriptor is off the list.  The
\* thread then has the blocks from seg.head on; seg.tail is the first one left.
Reserve(t) ==
  /\ At(t, "reserve")
  /\ LET d == desc[t]
         a == anchor[d]
         first == AddrOf(d, a.avail)
         max == cache[t].max
         last == Follow(first, max - 1)
         rest == link[last]
     IN \/ /\ a.state = "EMPTY"
           /\ RetireEmpty(t)
           /\ UNCHANGED <<cache, app, span, blk, goal, halted>>
        \/ /\ a.state # "EMPTY" /\ a.count <= max
           /\ old' = [old EXCEPT ![t] = a]
           /\ Goto(t, "take_all")
           /\ UNCHANGED <<shared, cache, app, desc, seg, span, blk, goal, halted>>
        \/ /\ a.state # "EMPTY" /\ a.count > max
           /\ last \in Blocks /\ rest \in Blocks
           /\ old' = [old EXCEPT ![t] = a]
           /\ seg' = [seg EXCEPT ![t] = [head |-> first, tail |-> rest, num |-> max]]
           /\ link' = [link EXCEPT ![last] = NoBlock]
           /\ Goto(t, "take_part")
           /\ UNCHANGED <<queue, partial, curr, anchor, heap, cache, app, desc,
                          span, blk, goal, halted>>
        \/ /\ a.state # "EMPTY" /\ a.count > max
           /\ ~(last \in Blocks /\ rest \in Blocks)
           /\ Abort("bad link")

\* Mutant: the loop does not look at the state of the reloaded anchor.
TakeAllBlindly(t) ==
  /\ At(t, "take_all")
  /\ LET d == desc[t]
         a == anchor[d]
     IN IF old[t].state # "PARTIAL" THEN Abort("assert")
        ELSE \/ /\ a = old[t]
                /\ anchor' = [anchor EXCEPT ![d] = AllTaken]
                /\ cache' = [cache EXCEPT ![t] =
                               Cached(AddrOf(d, a.avail), a.count, @.max)]
                /\ Goto(t, IF a.count = 0 THEN "sb_alloc" ELSE "pop")
                /\ UNCHANGED <<queue, partial, curr, heap, link, app, local, halted>>
             \/ /\ a # old[t]
                /\ old' = [old EXCEPT ![t] = a]
                /\ UNCHANGED <<shared, cache, app, pc, desc, seg, span, blk, goal,
                               halted>>

\* Mutant: a failed CAS does not reload the anchor.
TakeAllStale(t) ==
  /\ At(t, "take_all")
  /\ \/ /\ anchor[desc[t]] = old[t]
        /\ anchor' = [anchor EXCEPT ![desc[t]] = AllTaken]
        /\ cache' = [cache EXCEPT ![t] =
                       Cached(AddrOf(desc[t], old[t].avail), old[t].count, @.max)]
        /\ Goto(t, "pop")
        /\ UNCHANGED <<queue, partial, curr, heap, link, app, local, halted>>
     \/ /\ anchor[desc[t]] # old[t]
        /\ UNCHANGED vars

\* The CAS loop that takes every free block of the superblock.
TakeAll(t) ==
  /\ At(t, "take_all")
  /\ LET d == desc[t]
         a == anchor[d]
     IN IF old[t].state # "PARTIAL" THEN Abort("assert")
        ELSE \/ /\ a = old[t]
                /\ anchor' = [anchor EXCEPT ![d] = AllTaken]
                /\ cache' = [cache EXCEPT ![t] =
                               Cached(AddrOf(d, a.avail), a.count, @.max)]
                /\ Goto(t, IF a.count = 0 THEN "sb_alloc" ELSE "pop")
                /\ UNCHANGED <<queue, partial, curr, heap, link, app, local, halted>>
             \/ /\ a # old[t] /\ a.state = "EMPTY"
                /\ RetireEmpty(t)
                /\ UNCHANGED <<cache, app, span, blk, goal, halted>>
             \/ /\ a # old[t] /\ a.state # "EMPTY"
                /\ old' = [old EXCEPT ![t] = a]
                /\ UNCHANGED <<shared, cache, app, pc, desc, seg, span, blk, goal,
                               halted>>

\* The CAS loop that takes a part.  The index of the remaining chain's head and
\* the number of blocks taken were computed before the loop; a failed CAS only
\* reloads the anchor.
TakePart(t) ==
  /\ At(t, "take_part")
  /\ LET d == desc[t]
         a == anchor[d]
     IN \/ /\ a = old[t]
           /\ anchor' = [anchor EXCEPT ![d] =
                [avail |-> IdxOf(d, seg[t].tail), count |-> a.count - seg[t].num,
                 state |-> "PARTIAL"]]
           /\ Goto(t, "push_part")
           /\ UNCHANGED <<queue, partial, curr, heap, link, cache, app, local, halted>>
        \/ /\ a # old[t]
           /\ old' = [old EXCEPT ![t] = a]
           /\ UNCHANGED <<shared, cache, app, pc, desc, seg, span, blk, goal, halted>>

\* Mutant: the superblock is not put back on the partial list.
PushPartUnlisted(t) ==
  /\ At(t, "push_part")
  /\ cache' = [cache EXCEPT ![t] = Cached(seg[t].head, seg[t].num, Grown(@.max))]
  /\ Goto(t, "pop")
  /\ UNCHANGED <<queue, partial, curr, anchor, heap, link, app, local, halted>>

\* heap_push_partial, then PushList and the doubling of Maxsize() (the end of
\* malloc_from_partial and of malloc_from_newsb).
PushPart(t) ==
  /\ At(t, "push_part")
  /\ partial' = <<desc[t]>> \o partial
  /\ cache' = [cache EXCEPT ![t] = Cached(seg[t].head, seg[t].num, Grown(@.max))]
  /\ Goto(t, "pop")
  /\ UNCHANGED <<queue, curr, anchor, heap, link, app, local, halted>>
-----------------------------------------------------------------------------
(* small_sb_alloc, organize_sb_list and malloc_from_newsb *)

SbAlloc(t) ==
  /\ At(t, "sb_alloc")
  /\ \/ /\ queue # <<>>
        /\ desc' = [desc EXCEPT ![t] = Head(queue)]
        /\ queue' = Tail(queue)
        /\ Goto(t, "use_sb")
     \/ /\ queue = <<>>
        /\ Goto(t, "expand")
        /\ UNCHANGED <<queue, desc>>
  /\ UNCHANGED <<partial, curr, anchor, heap, link, cache, app, old, seg, span,
                 blk, goal, halted>>

\* Loads curr_addr; assert(0) when the file has no room for another expansion.
ExpandLoad(t) ==
  /\ At(t, "expand")
  /\ \/ /\ curr + Expand <= NSb
        /\ span' = [span EXCEPT ![t] = [lo |-> curr, hi |-> curr + Expand - 1]]
        /\ Goto(t, "expand_cas")
        /\ UNCHANGED <<shared, cache, app, desc, old, seg, blk, goal, halted>>
     \/ /\ curr + Expand > NSb
        /\ Abort("out of space")

\* The CAS on curr_addr: the winner keeps the first new superblock and queues
\* the others, a loser tries the queue again.
ExpandCAS(t) ==
  /\ At(t, "expand_cas")
  /\ \/ /\ curr = span[t].lo
        /\ curr' = curr + Expand
        /\ desc' = [desc EXCEPT ![t] = curr]
        /\ span' = [span EXCEPT ![t] = [lo |-> curr + 1, hi |-> @.hi]]
        /\ Goto(t, "organize")
     \/ /\ curr # span[t].lo
        /\ span' = [span EXCEPT ![t] = NoSpan]
        /\ Goto(t, "sb_alloc")
        /\ UNCHANGED <<curr, desc>>
  /\ UNCHANGED <<queue, partial, anchor, heap, link, cache, app, old, seg, blk,
                 goal, halted>>

\* organize_sb_list, one superblock per step: construct its descriptor, push it.
Organize(t) ==
  /\ At(t, "organize")
  /\ \/ /\ Len(queue) < QueueCap
        /\ Erase(span[t].lo)
        /\ queue' = Append(queue, span[t].lo)
        /\ \/ /\ span[t].lo < span[t].hi
              /\ span' = [span EXCEPT ![t] = [lo |-> @.lo + 1, hi |-> @.hi]]
              /\ UNCHANGED <<pc, desc, old, seg, blk, goal>>
           \/ /\ span[t].lo = span[t].hi /\ goal[t] \in {"small", "large"}
              /\ span' = [span EXCEPT ![t] = NoSpan]
              /\ Goto(t, "use_sb")
              /\ UNCHANGED <<desc, old, seg, blk, goal>>
           \/ /\ span[t].lo = span[t].hi /\ goal[t] = "free"
              /\ Return(t)
        /\ UNCHANGED <<partial, curr, link, cache, app, halted>>
     \/ /\ Len(queue) = QueueCap
        /\ Abort("queue is full")

\* malloc_from_newsb with the superblock just obtained: thread all its blocks,
\* keep them all or the first Maxsize().
NewSb(t) ==
  /\ At(t, "use_sb") /\ goal[t] = "small"
  /\ LET d == desc[t]
         max == cache[t].max
         threaded == [b \in Blocks |->
            IF b[1] = d /\ b[2] < MaxCount - 1 THEN <<d, b[2] + 1>> ELSE link[b]]
     IN /\ heap' = [heap EXCEPT ![d] = "small"]
        /\ \/ /\ max >= MaxCount
              /\ link' = threaded
              /\ anchor' = [anchor EXCEPT ![d] = AllTaken]
              /\ cache' = [cache EXCEPT ![t] = Cached(<<d, 0>>, MaxCount, Grown(max))]
              /\ Goto(t, "pop")
              /\ UNCHANGED seg
           \/ /\ max < MaxCount
              /\ link' = [threaded EXCEPT ![<<d, max - 1>>] = NoBlock]
              /\ anchor' = [anchor EXCEPT ![d] =
                   [avail |-> max, count |-> MaxCount - max, state |-> "PARTIAL"]]
              /\ seg' = [seg EXCEPT ![t] =
                   [head |-> <<d, 0>>, tail |-> <<d, max>>, num |-> max]]
              /\ Goto(t, "push_part")
              /\ UNCHANGED cache
  /\ UNCHANGED <<queue, partial, curr, app, desc, old, span, blk, goal, halted>>

\* The large branch of do_malloc with the superblock just obtained.
LargeBlock(t) ==
  /\ At(t, "use_sb") /\ goal[t] = "large"
  /\ heap' = [heap EXCEPT ![desc[t]] = "large"]
  /\ anchor' = [anchor EXCEPT ![desc[t]] =
                  [avail |-> 0, count |-> 0, state |-> "FULL"]]
  /\ big' = big \cup {desc[t]}
  /\ Return(t)
  /\ UNCHANGED <<queue, partial, curr, link, cache, user, halted>>
-----------------------------------------------------------------------------
(* do_free and flush_cache *)

\* do_free of a whole-superblock object: large_sb_retire queues it again.
FreeLarge(t) ==
  /\ At(t, "idle")
  /\ \E d \in big :
       /\ heap[d] = "large"
       /\ big' = big \ {d}
       /\ span' = [span EXCEPT ![t] = [lo |-> d, hi |-> d]]
  /\ goal' = [goal EXCEPT ![t] = "free"]
  /\ Goto(t, "organize")
  /\ UNCHANGED <<shared, cache, user, desc, old, seg, blk, halted>>

\* Mutant: the block is put at the head without a link to the rest of the list.
PushUnlinked(t, b) ==
  /\ cache' = [cache EXCEPT ![t] = Cached(b, @.size + 1, @.max)]
  /\ UNCHANGED link

\* cache->Push(b)
PushBlock(t, b) ==
  /\ link' = [link EXCEPT ![b] = cache[t].head]
  /\ cache' = [cache EXCEPT ![t] = Cached(b, @.size + 1, @.max)]

\* do_free of a block of the class; the descriptor says whose block it is.  While
\* every block has one owner it says the class (BlockHasOneOwner); what becomes of
\* a stray block that was handed out is not followed.
FreeSmall(t) ==
  /\ At(t, "idle")
  /\ \E b \in user :
       /\ heap[b[1]] = "small"
       /\ user' = user \ {b}
       /\ \/ /\ cache[t].size <= cache[t].max
             /\ PushBlock(t, b)
             /\ UNCHANGED <<pc, blk, goal>>
          \/ /\ cache[t].size > cache[t].max
             /\ blk' = [blk EXCEPT ![t] = b]
             /\ goal' = [goal EXCEPT ![t] = "free"]
             /\ Goto(t, "flush")
             /\ UNCHANGED <<link, cache>>
  /\ UNCHANGED <<queue, partial, curr, anchor, heap, big, desc, old, seg, span,
                 halted>>

\* The thread ends: ~ThreadCache calls public_flush_cache.
ThreadExit(t) ==
  /\ At(t, "idle")
  /\ goal' = [goal EXCEPT ![t] = "exit"]
  /\ Goto(t, "flush")
  /\ UNCHANGED <<shared, cache, app, desc, old, seg, span, blk, halted>>

\* One round of flush_cache: the longest run of cached blocks of one superblock
\* leaves the cache, and the anchor is loaded.
FlushTake(t) ==
  /\ At(t, "flush") /\ cache[t].size > 0
  /\ LET b == cache[t].head IN
     \/ /\ b \in Blocks
        /\ \E n \in 1 .. cache[t].size :
             LET tail == Follow(b, n - 1) IN
             /\ SameSb(b, n, b[1])
             /\ n < cache[t].size => ~SameSb(b, n + 1, b[1])
             /\ seg' = [seg EXCEPT ![t] = [head |-> b, tail |-> tail, num |-> n]]
             /\ cache' = [cache EXCEPT ![t] = Cached(link[tail], @.size - n, @.max)]
        /\ desc' = [desc EXCEPT ![t] = b[1]]
        /\ old' = [old EXCEPT ![t] = anchor[b[1]]]
        /\ Goto(t, "flush_cas")
        /\ UNCHANGED <<shared, app, span, blk, goal, halted>>
     \/ /\ b \notin Blocks
        /\ Abort("bad link")

\* Descriptor::maxcount, which is 1 for a whole object and 0 when erased.
DescMax(d) == [small |-> MaxCount, large |-> 1, none |-> 0][heap[d]]

\* Mutant: the superblock is taken for empty one block too early.
ReturnedEarly(a, i, n, maxcount) ==
  IF a.count + n >= maxcount - 1
  THEN [avail |-> i, count |-> maxcount - 1, state |-> "EMPTY"]
  ELSE [avail |-> i, count |-> a.count + n,
        state |-> IF a.state = "FULL" THEN "PARTIAL" ELSE a.state]

\* The anchor flush_cache installs over a when it returns n blocks starting at
\* block index i to a superblock of maxcount blocks.
Returned(a, i, n, maxcount) ==
  IF a.count + n = maxcount
  THEN [avail |-> i, count |-> maxcount - 1, state |-> "EMPTY"]
  ELSE [avail |-> i, count |-> a.count + n,
        state |-> IF a.state = "FULL" THEN "PARTIAL" ELSE a.state]

\* Mutant: every return that leaves the superblock PARTIAL pushes it on the list.
FlushPushAlways(t) ==
  /\ At(t, "flush_cas")
  /\ LET d == desc[t]
         a == anchor[d]
         new == Returned(a, seg[t].head[2], seg[t].num, DescMax(d))
     IN \/ /\ a = old[t]
           /\ link' = [link EXCEPT ![seg[t].tail] = AddrOf(d, a.avail)]
           /\ anchor' = [anchor EXCEPT ![d] = new]
           /\ Goto(t, IF new.state = "EMPTY" THEN "flush" ELSE "push_flush")
           /\ seg' = [seg EXCEPT ![t] = NoSeg]
           /\ UNCHANGED <<queue, partial, curr, heap, cache, app, desc, old, span,
                          blk, goal, halted>>
        \/ /\ a # old[t]
           /\ old' = [old EXCEPT ![t] = a]
           /\ UNCHANGED <<shared, cache, app, pc, desc, seg, span, blk, goal, halted>>

\* The CAS loop of flush_cache.  Only the thread that took the superblock out of
\* FULL puts it on the partial list, or retires it.
FlushCAS(t) ==
  /\ At(t, "flush_cas")
  /\ LET d == desc[t]
         a == anchor[d]
         new == Returned(a, seg[t].head[2], seg[t].num, DescMax(d))
     IN \/ /\ a = old[t]
           /\ link' = [link EXCEPT ![seg[t].tail] = AddrOf(d, a.avail)]
           /\ anchor' = [anchor EXCEPT ![d] = new]
           /\ Goto(t, IF a.state # "FULL" THEN "flush"
                      ELSE IF new.state = "EMPTY" THEN "retire" ELSE "push_flush")
           /\ seg' = [seg EXCEPT ![t] = NoSeg]
           /\ UNCHANGED <<queue, partial, curr, heap, cache, app, desc, old, span,
                          blk, goal, halted>>
        \/ /\ a # old[t]
           /\ old' = [old EXCEPT ![t] = a]
           /\ UNCHANGED <<shared, cache, app, pc, desc, seg, span, blk, goal, halted>>

\* FULL -> PARTIAL: heap_push_partial.
FlushPush(t) ==
  /\ At(t, "push_flush")
  /\ partial' = <<desc[t]>> \o partial
  /\ Goto(t, "flush")
  /\ UNCHANGED <<queue, curr, anchor, heap, link, cache, app, local, halted>>

\* FULL -> EMPTY: small_sb_retire.
FlushRetire(t) ==
  /\ At(t, "retire")
  /\ Erase(desc[t])
  /\ Goto(t, "flush")
  /\ UNCHANGED <<queue, partial, curr, link, cache, app, local, halted>>

\* The cache is empty: do_free pushes the block it was called with; the cache of
\* an ended thread is gone, and the next thread starts with a new one.
FlushDone(t) ==
  /\ At(t, "flush") /\ cache[t].size = 0
  /\ \/ /\ goal[t] = "free"
        /\ PushBlock(t, blk[t])
     \/ /\ goal[t] = "exit"
        /\ cache' = [cache EXCEPT ![t] = Fresh]
        /\ UNCHANGED link
  /\ Return(t)
  /\ UNCHANGED <<queue, partial, curr, anchor, heap, app, halted>>
-----------------------------------------------------------------------------
\* A step inside a call that has begun; the calls themselves are the
\* application's choice.
Step(t) ==
  \/ Pop(t)
  \/ HeapPopPartial(t) \/ Reserve(t) \/ TakeAll(t) \/ TakePart(t) \/ PushPart(t)
  \/ SbAlloc(t) \/ ExpandLoad(t) \/ ExpandCAS(t) \/ Organize(t)
  \/ NewSb(t) \/ LargeBlock(t)
  \/ FlushTake(t) \/ FlushCAS(t) \/ FlushPush(t) \/ FlushRetire(t) \/ FlushDone(t)

Call(t) ==
  \/ MallocMiss(t) \/ MallocLarge(t)
  \/ FreeLarge(t) \/ FreeSmall(t) \/ ThreadExit(t)

\* The process has aborted.
Dead == halted # "no" /\ UNCHANGED vars

Next == (\E t \in Threads : Step(t) \/ Call(t)) \/ Dead

Spec == Init /\ [][Next]_vars
-----------------------------------------------------------------------------
(* Properties *)

TypeOK ==
  /\ queue \in Seq(Sbs) /\ partial \in Seq(Sbs)
  /\ curr \in 1 .. NSb
  /\ anchor \in [Sbs -> Anchors]
  /\ heap \in [Sbs -> {"none", "small", "large"}]
  /\ link \in [Blocks -> Addrs]
  /\ cache \in [Threads -> Caches]
  /\ user \subseteq Blocks /\ big \subseteq Sbs
  /\ pc \in [Threads -> Labels]
  /\ desc \in [Threads -> Sbs \cup {NoSb}]
  /\ old \in [Threads -> Anchors]
  /\ seg \in [Threads -> Segs]
  /\ span \in [Threads -> Spans]
  /\ blk \in [Threads -> Addrs]
  /\ goal \in [Threads -> Goals]
  /\ halted \in {"no", "bad link", "assert", "out of space", "queue is full"}

\* The elements of a sequence, and that it has none twice.
Elems(s) == {s[i] : i \in 1 .. Len(s)}
NoDup(s) == \A i, j \in 1 .. Len(s) : s[i] = s[j] => i = j

\* The superblocks a thread alone may hand on.  It has them to be put to use or
\* into the free queue,
Spare(t) ==
  CASE pc[t] = "use_sb" -> {desc[t]}
    [] pc[t] = "organize" -> (span[t].lo .. span[t].hi)
                             \cup (IF goal[t] # "free" THEN {desc[t]} ELSE {})
    [] OTHER -> {}
\* or it has popped them from the partial list, or just made them partial.
Carry(t) ==
  IF pc[t] \in {"reserve", "take_all", "take_part", "push_part", "push_flush",
               "retire"}
  THEN {desc[t]} ELSE {}
Holding(t) == Spare(t) \cup Carry(t)

\* Every superblock is in at most one place: once in the free queue, once on the
\* partial list, with the application as a whole object, or in the hands of one
\* thread; and one whose blocks are all taken is in none of the lists.  This is
\* what lets small_sb_alloc, heap_pop_partial and heap_push_partial work on a
\* descriptor without synchronising with anybody.
DescriptorOwnedOnce ==
  /\ NoDup(queue) /\ NoDup(partial)
  /\ Elems(queue) \cap Elems(partial) = {}
  /\ big \cap (Elems(queue) \cup Elems(partial)) = {}
  /\ \A t \in Threads :
       /\ Holding(t) \cap (Elems(queue) \cup Elems(partial) \cup big) = {}
       /\ Holding(t) \subseteq 1 .. curr - 1
       /\ \A u \in Threads \ {t} : Holding(t) \cap Holding(u) = {}
  /\ Elems(queue) \cup Elems(partial) \cup big \subseteq 1 .. curr - 1
  /\ \A d \in Elems(partial) : anchor[d].state \in {"PARTIAL", "EMPTY"}

\* Superblocks handed out for blocks of the class, now or earlier: they never
\* go back to the queue.
Used == {d \in 1 .. curr - 1 :
           /\ d \notin Elems(queue) /\ d \notin big
           /\ \A t \in Threads : d \notin Spare(t)}

\* Why DescriptorOwnedOnce is inductive.  Free superblocks, whole objects and
\* those on their way into use are distinct;
SparesApart ==
  /\ NoDup(queue)
  /\ Elems(queue) \subseteq 1 .. curr - 1 /\ big \subseteq 1 .. curr - 1
  /\ Elems(queue) \cap big = {}
  /\ \A t \in Threads :
       /\ Spare(t) \subseteq 1 .. curr - 1
       /\ Spare(t) \cap Elems(queue) = {} /\ Spare(t) \cap big = {}
       /\ \A u \in Threads \ {t} : Spare(t) \cap Spare(u) = {}
\* a thread returns a run of blocks to a superblock that is in use;
RunsUsed == \A t \in Threads : pc[t] = "flush_cas" => desc[t] \in Used
\* and a used superblock is once on the partial list, with one thread, or
\* neither, and in the first two cases some of its blocks are free.
PartialsApart ==
  /\ NoDup(partial)
  /\ Elems(partial) \subseteq Used
  /\ \A d \in Elems(partial) : anchor[d].state \in {"PARTIAL", "EMPTY"}
  /\ \A t \in Threads :
       /\ Carry(t) \subseteq Used
       /\ Carry(t) \cap Elems(partial) = {}
       /\ \A d \in Carry(t) : anchor[d].state \in {"PARTIAL", "EMPTY"}
       /\ \A u \in Threads \ {t} : Carry(t) \cap Carry(u) = {}
\* What the locals of a thread are at each label.
LocalsAt(t) ==
  /\ pc[t] = "expand_cas" =>
       /\ span[t].lo \in Sbs /\ span[t].hi \in Sbs
       /\ span[t].hi = span[t].lo + Expand - 1 /\ span[t].lo <= curr
  /\ pc[t] = "organize" =>
       /\ span[t].lo \in Sbs /\ span[t].hi \in Sbs /\ span[t].lo <= span[t].hi
       /\ goal[t] # "free" => desc[t] \notin span[t].lo .. span[t].hi
  /\ pc[t] \in {"use_sb", "reserve", "take_all", "take_part", "push_part",
                "flush_cas", "push_flush", "retire"} => desc[t] \in Sbs
  /\ pc[t] = "take_part" =>
       /\ seg[t].tail \in Blocks
       /\ seg[t].num < old[t].count /\ seg[t].num < anchor[desc[t]].count
  /\ pc[t] = "flush_cas" =>
       /\ seg[t].head \in Blocks /\ seg[t].tail \in Blocks
       /\ seg[t].num >= 1
  /\ pc[t] \in {"flush", "flush_cas", "push_flush", "retire"} /\ goal[t] = "free"
       => blk[t] \in Blocks
LocalsOK == \A t \in Threads : LocalsAt(t)
CoreInv == TypeOK /\ SparesApart /\ RunsUsed /\ PartialsApart /\ LocalsOK

\* The first n blocks of the list that starts at b.
ListOf(b, n) == {Follow(b, k) : k \in 0 .. n - 1}

\* The list in a thread's cache has as many blocks as its _size says
\* (FreeList.hpp: "how many objects the list holds now").
CacheSizeIsListLength ==
  \A t \in Threads :
    LET l == ListOf(cache[t].head, cache[t].size)
    IN  l \subseteq Blocks /\ Cardinality(l) = cache[t].size

\* Blocks in a thread's hands between its cache and a superblock.
InFlight(t) ==
  (IF pc[t] \in {"take_part", "push_part", "flush_cas"}
   THEN ListOf(seg[t].head, seg[t].num) ELSE {})
  \cup ({blk[t]} \cap Blocks)

\* The free chain of a superblock.
FreeBlocks(d) ==
  IF anchor[d].state \notin {"PARTIAL", "EMPTY"} THEN {}
  ELSE ListOf(AddrOf(d, anchor[d].avail),
              IF anchor[d].state = "EMPTY" THEN MaxCount ELSE anchor[d].count)

\* A thread has cut the free chain of d and not yet installed the new anchor.
BeingCut(d) == \E t \in Threads : pc[t] = "take_part" /\ desc[t] = d

\* Who has block b.
Owners(b) ==
  {o \in {<<"app">>} : b \in user}
  \cup {o \in {<<"free">>} : heap[b[1]] = "small" /\ b \in FreeBlocks(b[1])}
  \cup {o \in {"cache"} \X Threads : b \in ListOf(cache[o[2]].head, cache[o[2]].size)}
  \cup {o \in {"flight"} \X Threads : b \in InFlight(o[2])}

\* No block is allocated twice and none is lost: a block of a superblock of the
\* class is with exactly one of the application, a thread's cache, a thread in
\* the middle of a transfer, or the superblock's free chain; a block of any
\* other superblock (whole object, free or retired) is with nobody.
BlockHasOneOwner ==
  \A b \in Blocks :
    ~BeingCut(b[1]) => Cardinality(Owners(b)) = IF heap[b[1]] = "small" THEN 1 ELSE 0

\* A superblock marked EMPTY, which flush_cache takes as "can free superblock",
\* has no block outside it.
EmptyIsUnused ==
  \A d \in Sbs : anchor[d].state = "EMPTY" /\ ~BeingCut(d) =>
    \A b \in Blocks : b[1] = d => Owners(b) \subseteq {<<"free">>}

\* Neither assert(oldanchor.state == SB_PARTIAL) nor a list that is shorter than
\* its count ever stops the process.
NeverOffTheList == halted \notin {"bad link", "assert"}

\* The only superblocks that get lost are those small_sb_retire erases (it is to "free
\* the superblock sb points to" but puts it in no list).  Every other one is in the
\* queue, on the partial list, a whole object, with a thread, or has no block to give:
\* none with free blocks is off the partial list for good, whichever of two threads
\* was to put it there.
OnlyRetiredLost ==
  \A d \in 1 .. curr - 1 :
    \/ d \in Elems(queue) \cup Elems(partial) \cup big
    \/ \E t \in Threads : d \in Holding(t)
    \/ heap[d] = "small" /\ anchor[d].state = "FULL"
    \/ heap[d] = "none" /\ anchor[d] = Erased

\* Every thread inside a call keeps being scheduled.
Fairness == \A t \in Threads : WF_vars(pc[t] # "idle" /\ Step(t))
FairSpec == Spec /\ Fairness

\* The CAS loops do not livelock: with every thread inside a call scheduled
\* again and again, calls keep returning while any is in progress, unless the
\* process aborts.  (What happens around a suspended thread is not asked.)
NoLivelock ==
  \/ []<><<\E t \in Threads : pc[t] # "idle" /\ pc'[t] = "idle">>_vars
  \/ <>[](\A t \in Threads : pc[t] = "idle")
  \/ <>(halted # "no")
=============================================================================
