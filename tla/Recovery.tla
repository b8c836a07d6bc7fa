------------------------------ MODULE Recovery ------------------------------
(***************************************************************************)
(* SmallHeap with an application that keeps pointers in its objects and a  *)
(* root, a process that can die at any step, and BXP_recover: is_dirty and *)
(* the GarbageCollection that marks what the root reaches and rebuilds     *)
(* descriptors, free chains and the partial list, one superblock per step. *)
(* Stores survive the process: write-back of cache lines is not modelled.  *)
(***************************************************************************)
EXTENDS SmallHeap

CONSTANTS
  ScIdxs,     \* indices the modelled size class may have; 0 is the 8-byte class
  MaxCrashes, \* bound: how often the process dies
  MaxRefs     \* bound: objects that point to objects

ASSUME RecoveryAssumption ==
  ScIdxs \subseteq Nat /\ MaxCrashes \in Nat /\ MaxRefs \in Nat

VARIABLES
  sc,        \* sc_idx of the class
  root,      \* BaseMeta::roots, one of them
  lock,      \* dirty_mtx: "held", "free", or "dead" (its owner died)
  mode,      \* "up", "closed", "down" (died), or "gc"
  marked,    \* GarbageCollection::marked_blk
  at,        \* curr_sb, as a superblock
  shifted,   \* curr_sb is no longer at the start of a superblock
  crashes

gc == <<mode, marked, at, shifted>>
rvars == <<sc, root, lock, gc, crashes>>
allvars == <<vars, rvars>>

RInit ==
  /\ Init
  /\ sc \in ScIdxs /\ root = NoBlock /\ lock = "held"
  /\ mode = "up" /\ marked = {} /\ at = 1 /\ shifted = FALSE /\ crashes = 0
-----------------------------------------------------------------------------
(* The application *)

Objects == user \cup {<<d, 0>> : d \in big}

\* The allocator's steps, and objects that come and go with them.
HeapStep == mode = "up" /\ Next /\ UNCHANGED rvars

\* A thread of the application is not inside the allocator.
Outside == mode = "up" /\ \E t \in Threads : At(t, "idle")

\* The application stores a pointer in an object.
SetRef ==
  /\ Outside
  /\ Cardinality({b \in Objects : link[b] \in Objects}) < MaxRefs
  /\ \E b \in Objects, x \in Objects : link' = [link EXCEPT ![b] = x]
  /\ UNCHANGED <<queue, partial, curr, anchor, heap, cache, app, pc, local, halted, rvars>>

\* set_root
SetRoot ==
  /\ Outside
  /\ root' \in Objects
  /\ UNCHANGED <<vars, sc, lock, gc, crashes>>

\* Every thread has ended (~ThreadCache) and ~bxallocHolder runs: writeback, set_clean.
Close ==
  /\ mode = "up" /\ halted = "no"
  /\ \A t \in Threads : pc[t] = "idle" /\ cache[t] = Fresh
  /\ mode' = "closed" /\ lock' = "free"
  /\ UNCHANGED <<vars, sc, root, marked, at, shifted, crashes>>

\* The process dies, in the middle of calls or of a collection.  What its threads
\* had in their caches and locals is gone.
Crash ==
  /\ mode \in {"up", "gc"} /\ crashes < MaxCrashes
  /\ crashes' = crashes + 1
  /\ lock' = IF lock = "held" THEN "dead" ELSE lock
  /\ mode' = "down" /\ marked' = {} /\ at' = 1 /\ shifted' = FALSE
  /\ cache' = [t \in Threads |-> Fresh]
  /\ pc' = [t \in Threads |-> "idle"]
  /\ desc' = [t \in Threads |-> NoSb] /\ old' = [t \in Threads |-> Erased]
  /\ seg' = [t \in Threads |-> NoSeg] /\ span' = [t \in Threads |-> NoSpan]
  /\ blk' = [t \in Threads |-> NoBlock] /\ goal' = [t \in Threads |-> "none"]
  /\ halted' = "no"
  /\ UNCHANGED <<shared, app, sc, root>>
-----------------------------------------------------------------------------
(* restart *)

\* is_dirty
IsDirty == lock = "dead"

\* Where filter_func finds pointers when it scans block_size bytes from b on: in a
\* whole object pointed at in the middle it reads on into the next superblock.
Scanned(b) ==
  CASE heap[b[1]] = "small" -> {b}
    [] heap[b[1]] = "large" -> {w \in Blocks : \/ w[1] = b[1] /\ w[2] >= b[2]
                                               \/ w[1] = b[1] + 1 /\ w[2] < b[2]}
    [] OTHER -> {}

\* mark_func: an address counts when it is in the part of the region in use.
InRange(x) == x \in Blocks /\ x[1] < curr

\* Mutant: only what the root points to is marked.
RootOnly == {x \in {root} : InRange(x)}

\* What mark_func and filter_func mark from the root.
Reached ==
  LET f[i \in 0 .. Cardinality(Blocks)] ==
        IF i = 0 THEN {x \in {root} : InRange(x)}
        ELSE f[i - 1] \cup {x \in {link[w] : w \in UNION {Scanned(b) : b \in f[i - 1]}} :
                              InRange(x)}
  IN  f[Cardinality(Blocks)]

\* Mutant: the flag is cleared when the collection starts.
RestartCleaned ==
  /\ mode \in {"closed", "down"}
  /\ \/ /\ IsDirty
        /\ mode' = "gc" /\ marked' = Reached /\ at' = 1 /\ shifted' = FALSE
        /\ partial' = <<>> /\ lock' = "free"
        /\ UNCHANGED <<queue, curr, anchor, heap, link>>
     \/ /\ ~IsDirty
        /\ mode' = "up" /\ lock' = "held"
        /\ UNCHANGED <<shared, marked, at, shifted>>
  /\ UNCHANGED <<cache, app, pc, local, halted, sc, root, crashes>>

\* Mutant: the partial list is not emptied first.
RestartKeepsPartial ==
  /\ mode \in {"closed", "down"}
  /\ lock' = "held"
  /\ \/ /\ IsDirty
        /\ mode' = "gc" /\ marked' = Reached /\ at' = 1 /\ shifted' = FALSE
        /\ UNCHANGED shared
     \/ /\ ~IsDirty
        /\ mode' = "up"
        /\ UNCHANGED <<shared, marked, at, shifted>>
  /\ UNCHANGED <<cache, app, pc, local, halted, sc, root, crashes>>

\* BXP_init of an existing heap, then BXP_recover.  The lock is taken by is_dirty
\* when its owner died, and by set_dirty otherwise.
Restart ==
  /\ mode \in {"closed", "down"}
  /\ lock' = "held"
  /\ \/ /\ IsDirty
        /\ mode' = "gc" /\ marked' = Reached /\ at' = 1 /\ shifted' = FALSE
        /\ partial' = <<>>
        /\ UNCHANGED <<queue, curr, anchor, heap, link>>
     \/ /\ ~IsDirty
        /\ mode' = "up"
        /\ UNCHANGED <<shared, marked, at, shifted>>
  /\ UNCHANGED <<cache, app, pc, local, halted, sc, root, crashes>>

Sweeping == mode = "gc" /\ at < curr
MarksIn(d) == {i \in 0 .. MaxCount - 1 : <<d, i>> \in marked}
\* Marked addresses count when the descriptor is in use for the superblock that
\* starts where curr_sb is.
InUse == ~shifted /\ heap[at] # "none" /\ MarksIn(at) # {}

\* The chain of the blocks idxs of superblock d, each linked to the one before.
Chained(d, idxs) ==
  [b \in Blocks |->
     IF b[1] = d /\ b[2] \in idxs
     THEN LET before == {i \in idxs : i < b[2]}
          IN  IF before = {} THEN NoBlock
              ELSE <<d, CHOOSE i \in before : \A j \in before : j <= i>>
     ELSE link[b]]

\* Mutant: curr_sb stays where it is.
SweepEmptyStuck ==
  /\ Sweeping /\ ~InUse
  /\ Erase(at)
  /\ UNCHANGED <<queue, partial, curr, link, cache, app, pc, local, halted, rvars>>

\* Nothing in the superblock is reachable: its descriptor is erased.  The list of
\* these superblocks is built and then dropped; the free queue is left as it was.
SweepEmpty ==
  /\ Sweeping /\ ~InUse
  /\ Erase(at)
  /\ at' = at + 1
  /\ UNCHANGED <<queue, partial, curr, link, cache, app, pc, local, halted, sc, root,
                 lock, mode, marked, shifted, crashes>>

\* sc_idx == 0, meant for whole objects: after the blocks below the last marked
\* one have been chained, FULL is stored, and curr_sb advances by a block.
SweepClass0 ==
  /\ Sweeping /\ InUse /\ heap[at] = "small" /\ sc = 0
  /\ link' = Chained(at, {i \in 0 .. MaxCount - 1 :
                 i \notin MarksIn(at) /\ \E j \in MarksIn(at) : i < j})
  /\ anchor' = [anchor EXCEPT ![at] = [avail |-> 0, count |-> 0, state |-> "FULL"]]
  /\ shifted' = TRUE
  /\ UNCHANGED <<queue, partial, curr, heap, cache, app, pc, local, halted, sc, root,
                 lock, mode, marked, at, crashes>>

\* Mutant: after the last marked block the sweep goes on from that block instead of
\* from the one behind it.
FreeIdxsShifted ==
  IF heap[at] = "large" THEN {0}
  ELSE {i \in 0 .. MaxCount - 1 :
          i \notin MarksIn(at) \/ \A j \in MarksIn(at) : j <= i}

\* The block indices the sweep puts on the free chain.  A whole object is one block
\* that the first loop does not step over.
FreeIdxs ==
  IF heap[at] = "large" THEN {0}
  ELSE {i \in 0 .. MaxCount - 1 : i \notin MarksIn(at)}

\* heap_push_partial of a whole object goes to the list of its own heap, which
\* nothing pops.
SweepUsed ==
  /\ Sweeping /\ InUse /\ ~(heap[at] = "small" /\ sc = 0)
  /\ link' = Chained(at, FreeIdxs)
  /\ \/ /\ FreeIdxs = {}
        /\ anchor' = [anchor EXCEPT ![at] = AllTaken]
        /\ UNCHANGED partial
     \/ /\ FreeIdxs # {}
        /\ anchor' = [anchor EXCEPT ![at] =
             [avail |-> CHOOSE i \in FreeIdxs : \A j \in FreeIdxs : j <= i,
              count |-> Cardinality(FreeIdxs), state |-> "PARTIAL"]]
        /\ partial' = IF heap[at] = "small" THEN <<at>> \o partial ELSE partial
  /\ at' = at + 1
  /\ UNCHANGED <<queue, curr, heap, cache, app, pc, local, halted, sc, root,
                 lock, mode, marked, shifted, crashes>>

\* What was reached is what the application has.
Finish ==
  /\ mode = "gc" /\ at = curr
  /\ mode' = "up" /\ marked' = {} /\ at' = 1 /\ shifted' = FALSE
  /\ user' = {b \in marked : heap[b[1]] = "small"}
  /\ big' = {d \in Sbs : heap[d] = "large" /\ MarksIn(d) # {}}
  /\ UNCHANGED <<shared, cache, pc, local, halted, sc, root, lock, crashes>>
-----------------------------------------------------------------------------
Recover == Restart \/ SweepEmpty \/ SweepClass0 \/ SweepUsed \/ Finish

RNext == HeapStep \/ SetRef \/ SetRoot \/ Close \/ Crash \/ Recover

\* The collection runs in one thread with nobody else about.
RSpec == RInit /\ [][RNext]_allvars /\ WF_allvars(Recover)
-----------------------------------------------------------------------------
(* Properties *)

\* The step leaves the objects S and their superblocks' descriptors alone.
KeptBy(S) ==
  \A b \in S : heap[b[1]] # "none" => link'[b] = link[b] /\ heap'[b[1]] = heap[b[1]]

\* A collection never changes an object it has found reachable, nor the descriptor
\* by which free and malloc_size know it (it erases those of which it says "curr_sb
\* isn't in use").
ReachableKept == [][mode = "gc" => KeptBy(marked)]_allvars

\* The same for the objects of size classes, other than those of class 0.
SmallObjectsKept ==
  [][mode = "gc" /\ sc # 0 => KeptBy({b \in marked : heap[b[1]] = "small"})]_allvars

\* The marks stay complete while the sweep writes links into other blocks: what a
\* reachable object points to is marked too.
MarkedClosed ==
  mode = "gc" /\ sc # 0 =>
    /\ InRange(root) => root \in marked
    /\ \A b \in marked : heap[b[1]] = "small" /\ InRange(link[b]) => link[b] \in marked

\* After a crash at any step, also of a collection, the blocks of superblocks in use
\* are again divided between the application, the caches and the free chains: none
\* of them is lost, and none that the root reaches is free.  Superblocks that were
\* popped from the free queue, or that the sweep erases, do not come back.
OneOwnerAgain == mode = "up" /\ sc # 0 => BlockHasOneOwner

\* No superblock has two owners whenever the heap is in use.  That every one has an
\* owner is not claimed.
OwnedOnceAgain == mode = "up" => DescriptorOwnedOnce

\* Recovery ends, whatever it finds.
RecoveryEnds == []<>(mode \in {"up", "closed"})
=============================================================================
