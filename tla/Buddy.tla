-------------------------------- MODULE Buddy --------------------------------
(***************************************************************************)
(* BuddyAllocator and the BuddyManager that serialises it with a mutex:    *)
(* objects of more than SBSIZE bytes, in a region of one largest block     *)
(* that the file leaves no room to expand.  Addresses are counted in basic *)
(* blocks from the start of the region, block sizes are powers of two of a *)
(* basic block, and a block is named by its first basic block, where its   *)
(* header is.  The headers are in the mapped file and survive the process; *)
(* the free lists, sequences instead of chains of `next', do not.  A step  *)
(* changes the headers once, so that the process can die between any two   *)
(* of their changes.                                                       *)
(***************************************************************************)
EXTENDS Integers, Sequences, FiniteSets, SequencesExt

CONSTANTS
  MaxOrder,  \* log2(max_block_size / basic_block_size)
  Basic,     \* basic_block_size, in the unit Needs counts in
  Needs      \* what requests need: length + sizeof(BlockHeader)

ASSUME BuddyAssumption ==
  /\ MaxOrder \in Nat /\ Basic \in Nat /\ Basic > 0
  /\ Needs \subseteq 1 .. Basic * 2 ^ MaxOrder

VARIABLES
  order,   \* BlockHeader::block_size, as a power of two of basic blocks, or NoSize
  free,    \* BlockHeader::free
  lists,   \* FreeList[i]
  held,    \* blocks the application holds, with what it asked for
  op,      \* the operation that holds buddymtx: where it is, and its locals
  torn,    \* the process has died inside an operation
  halted   \* assert(res != -1 && "space runs out!")

vars == <<order, free, lists, held, op, torn, halted>>
-----------------------------------------------------------------------------
Cells == 0 .. 2 ^ MaxOrder - 1
Orders == 0 .. MaxOrder
\* The block_size of a header nobody has written yet, zero, has no logarithm.
NoSize == -1
SizeOf(k) == IF k = NoSize THEN 0 ELSE 2 ^ k
\* The cells of a block of order k at address b.
Extent(b, k) == b .. b + SizeOf(k) - 1
\* getbuddy: ((addr - start) ^ block_size) + start, for an aligned block.
BuddyOf(b, k) == IF (b \div 2 ^ k) % 2 = 0 THEN b + 2 ^ k ELSE b - 2 ^ k

Idle == [at |-> "idle", b |-> 0, k |-> 0, n |-> 0]

Init ==
  /\ order = [c \in Cells |-> IF c = 0 THEN MaxOrder ELSE NoSize]
  /\ free = [c \in Cells |-> c = 0]
  /\ lists = [k \in Orders |-> IF k = MaxOrder THEN <<0>> ELSE <<>>]
  /\ held = <<>>
  /\ op = Idle
  /\ torn = FALSE
  /\ halted = FALSE
-----------------------------------------------------------------------------
(* alloc *)

\* Mutant: the header is not counted.
FitsWithoutHeader(k, n) == n - 1 <= Basic * 2 ^ k

\* length + sizeof(BlockHeader) <= (1 << i) * basic_block_size
Fits(k, n) == n <= Basic * 2 ^ k

\* The first list that has a block for n.  Without one, expand returns -1.
Alloc(n) ==
  LET fitting == {i \in Orders : lists[i] # <<>> /\ Fits(i, n)}
  IN /\ op = Idle
     /\ \/ /\ fitting # {}
           /\ op' = [at |-> "split", b |-> 0, k |-> Min(fitting), n |-> n]
           /\ UNCHANGED halted
        \/ /\ fitting = {}
           /\ halted' = TRUE
           /\ UNCHANGED op
     /\ UNCHANGED <<order, free, lists, held, torn>>

\* block_size / 2 > length + sizeof(BlockHeader) && block_size / 2 >= basic_block_size
Splits(b, n) == order[b] > 0 /\ Basic * 2 ^ (order[b] - 1) > n

\* Mutant: the right half keeps the size its header had.
SplitOneHeader ==
  LET k == op.k
      b == Head(lists[k])
      right == b + 2 ^ (order[b] - 1)
  IN /\ op.at = "split" /\ Splits(b, op.n)
     /\ order' = [order EXCEPT ![b] = @ - 1]
     /\ free' = [free EXCEPT ![right] = TRUE]
     /\ lists' = [lists EXCEPT ![k] = Tail(@), ![k - 1] = <<b, right>>]
     /\ op' = [op EXCEPT !.k = @ - 1]
     /\ UNCHANGED <<held, torn, halted>>

\* One round: the block is taken off its list and its halves become the list below.
\* The right half's header is written first, where no walk meets it until the
\* left one's size is halved.
Split ==
  LET k == op.k
      b == Head(lists[k])
      right == b + 2 ^ (order[b] - 1)
  IN /\ op.at = "split" /\ Splits(b, op.n)
     /\ order' = [order EXCEPT ![b] = @ - 1, ![right] = order[b] - 1]
     /\ free' = [free EXCEPT ![right] = TRUE]
     /\ lists' = [lists EXCEPT ![k] = Tail(@), ![k - 1] = <<b, right>>]
     /\ op' = [op EXCEPT !.k = @ - 1]
     /\ UNCHANGED <<held, torn, halted>>

\* The block is small enough: b->free = false.
Take ==
  LET b == Head(lists[op.k])
  IN /\ op.at = "split" /\ ~Splits(b, op.n)
     /\ lists' = [lists EXCEPT ![op.k] = Tail(@)]
     /\ free' = [free EXCEPT ![b] = FALSE]
     /\ op' = [op EXCEPT !.at = "return", !.b = b]
     /\ UNCHANGED <<order, held, torn, halted>>

\* The application has the block.
Return ==
  /\ op.at = "return"
  /\ held' = [b \in DOMAIN held \cup {op.b} |-> IF b = op.b THEN op.n ELSE held[b]]
  /\ op' = Idle
  /\ UNCHANGED <<order, free, lists, torn, halted>>
-----------------------------------------------------------------------------
(* free *)

\* LinkedList::remove
Without(s, b) ==
  IF b \in ToSet(s) THEN RemoveAt(s, CHOOSE i \in DOMAIN s : s[i] = b) ELSE s

\* getbuddy of the block a merge is at.
Other(s) == BuddyOf(s.b, s.order[s.b])

\* Mutant: the merged block goes back on the list of its halves.
MergeUpSameList(s) ==
  LET low == Min({s.b, Other(s)})
  IN [b |-> low, k |-> s.k + 1, free |-> s.free,
      order |-> [s.order EXCEPT ![low] = @ + 1],
      lists |-> [s.lists EXCEPT ![s.k] = <<low>> \o Without(Without(@, s.b), Other(s))]]

\* One round of the loop for the block s.b of list s.k: take it and its buddy off
\* the list, double the header of the lower one, list that one higher up.
MergeUp(s) ==
  LET low == Min({s.b, Other(s)})
  IN [b |-> low, k |-> s.k + 1, free |-> s.free,
      order |-> [s.order EXCEPT ![low] = @ + 1],
      lists |-> [s.lists EXCEPT ![s.k] = Without(Without(@, s.b), Other(s)),
                                ![s.k + 1] = <<low>> \o @]]

\* Mutant: the loop stops one list too early.
MergesShort(s) == s.k < MaxOrder - 1 /\ s.free[Other(s)]

\* The loop condition: it looks at the buddy's free flag and not at its size.
Merges(s) == s.k < MaxOrder /\ s.free[Other(s)]

\* The states of the loop that starts in s.
Rounds(s) ==
  LET f[i \in Orders] ==
        IF i = 0 THEN s ELSE IF Merges(f[i - 1]) THEN MergeUp(f[i - 1]) ELSE f[i - 1]
  IN  f

\* The block b of list k, as the loop finds things.
Merging(b, k, fr) == [b |-> b, k |-> k, order |-> order, lists |-> lists, free |-> fr]

\* b->free = true, then the check that decides whether to merge.  The buddy of a
\* block of the region's size is the page after the heap: mapped, and zero.
Free(b) ==
  LET k == order[b]
      other == BuddyOf(b, k)
      mergeable == other \in Cells /\ free[other] /\ order[other] = k
  IN /\ op = Idle
     /\ free' = [free EXCEPT ![b] = TRUE]
     /\ held' = Restrict(held, DOMAIN held \ {b})
     /\ \/ /\ mergeable
           /\ op' = [at |-> "merge", b |-> b, k |-> k, n |-> 0]
           /\ UNCHANGED lists
        \/ /\ ~mergeable
           /\ lists' = [lists EXCEPT ![k] = <<b>> \o @]
           /\ UNCHANGED op
     /\ UNCHANGED <<order, torn, halted>>

\* A round of the loop, or its end.
Merge ==
  LET s == Merging(op.b, op.k, free)
      m == MergeUp(s)
  IN /\ op.at = "merge"
     /\ \/ /\ Merges(s)
           /\ order' = m.order /\ lists' = m.lists
           /\ op' = [op EXCEPT !.b = m.b, !.k = m.k]
        \/ /\ ~Merges(s)
           /\ op' = Idle
           /\ UNCHANGED <<order, lists>>
     /\ UNCHANGED <<free, held, torn, halted>>
-----------------------------------------------------------------------------
(* The constructor with recover = true *)

\* The blocks met when walking from header to header, with the sizes ord in them.
WalkOf(ord) ==
  LET f[i \in 0 .. 2 ^ MaxOrder] ==
        IF i = 0 THEN {0}
        ELSE LET last == Max(f[i - 1])
             IN  f[i - 1] \cup ({last + SizeOf(ord[last])} \cap Cells)
  IN  f[2 ^ MaxOrder]
Walk == WalkOf(order)

\* The list that inserting the blocks S, met in this order, at the head makes: the
\* last one comes first.
Inserted(S) ==
  [i \in 1 .. Cardinality(S) |-> CHOOSE b \in S : Cardinality({c \in S : c > b}) = i - 1]

\* Mutant: blocks are inserted whether they are free or not.
RebuiltFromAll == [k \in Orders |-> Inserted({b \in Walk : order[b] = k})]

\* The free blocks of the walk are inserted.
Rebuilt == [k \in Orders |-> Inserted({b \in Walk : free[b] /\ order[b] = k})]

\* The process ends and the next one opens the heap: it was closed, or it died,
\* perhaps inside an operation.  The application finds what it held again.
Restart ==
  /\ lists' = Rebuilt
  /\ op' = Idle
  /\ torn' = (torn \/ op # Idle)
  /\ UNCHANGED <<order, free, held, halted>>

\* The loop never meets a free buddy that is smaller than the block it merges.
EqualBuddies(b) ==
  LET r == Rounds(Merging(b, order[b], [free EXCEPT ![b] = TRUE]))
  IN  \A i \in Orders : Merges(r[i]) => r[i].order[Other(r[i])] = r[i].order[r[i].b]

Dead == halted /\ UNCHANGED vars

Step == Split \/ Take \/ Return \/ Merge

Next ==
  \/ ~halted /\ \E n \in Needs : Alloc(n)
  \/ ~halted /\ \E b \in DOMAIN held : Free(b)
  \/ ~halted /\ (Step \/ Restart)
  \/ Dead

Spec == Init /\ [][Next]_vars

\* The same, with an application that frees only when the buddies are equal.
EqualNext ==
  \/ ~halted /\ \E n \in Needs : Alloc(n)
  \/ ~halted /\ \E b \in DOMAIN held : EqualBuddies(b) /\ Free(b)
  \/ ~halted /\ (Step \/ Restart)
  \/ Dead

EqualSpec == Init /\ [][EqualNext]_vars
-----------------------------------------------------------------------------
(* Properties *)

Listed(k) == ToSet(lists[k])
OnLists == UNION {Listed(k) : k \in Orders}

\* "block size at index should always be 2^i * bbs": a free list holds free
\* blocks of its own size, each once.
ListHoldsItsSize ==
  \A k \in Orders :
    /\ IsInjective(lists[k])
    /\ \A b \in Listed(k) : order[b] = k /\ free[b]

\* Wherever the process may die, in the middle of a split or a merge too, the walk
\* of the recovering constructor covers the region exactly, and meets every block
\* the application holds, with a header that says it is in use.
BlocksTile ==
  /\ \A b, c \in Walk : b # c => Extent(b, order[b]) \cap Extent(c, order[c]) = {}
  /\ UNION {Extent(b, order[b]) : b \in Walk} = Cells
  /\ \A b \in DOMAIN held : b \in Walk /\ ~free[b]

\* Between operations, also after a restart in the middle of one, the free blocks
\* of the region are those of the lists: none is forgotten, none listed in use.
FreeIsListed ==
  op = Idle => OnLists = {b \in Walk : free[b]}

\* Every object fits its block, header included.
RoomForRequest == \A b \in DOMAIN held : held[b] <= Basic * 2 ^ order[b]

\* Free neighbours are merged, unless the process died before it did so: no list
\* holds a block and its buddy.
FullyMerged ==
  op = Idle /\ ~torn =>
    \A k \in 0 .. MaxOrder - 1, b \in Cells :
      b \in Listed(k) => BuddyOf(b, k) \notin Listed(k)
=============================================================================
