------------------------------ MODULE Interface ------------------------------
(***************************************************************************)
(* The public functions on top of the regions: which allocator a size and  *)
(* a pointer go to, how a pointer finds its descriptor, realloc and        *)
(* calloc, and a root.  Where in the regions the two allocators put an     *)
(* object is theirs to say (SmallHeap, Buddy): here it is any of a few     *)
(* places.  What the application keeps in its objects is not followed.     *)
(* Sizes of objects are in bytes, addresses in pages.                      *)
(***************************************************************************)
EXTENDS Regions, ClassSize, Functions

CONSTANTS
  Sizes,    \* what the application asks for
  MaxObjs   \* bound: objects at a time

ASSUME InterfaceAssumption == Sizes \subseteq Nat \ {0} /\ MaxObjs \in Nat

VARIABLES
  objs,   \* objects the application holds: region, distance from its start, sizes
  dsc,    \* Descriptor::block_size of superblocks in use
  root,   \* BaseMeta::roots, one of them
  named,  \* the object it was last set to
  wild    \* realloc or calloc has written past the end of a block

ivars == <<objs, dsc, root, named, wild>>
vars == <<rvars, ivars>>

Nothing == [home |-> "none", off |-> 0, req |-> 0, size |-> 0]

IInit ==
  /\ Init
  /\ objs = {} /\ dsc = <<>> /\ root = 0 /\ named = Nothing /\ wild = FALSE
-----------------------------------------------------------------------------
Addr(o) == addr[o.home] + o.off

\* Mutant: everything the region may grow to counts.
InRangeOfFile(r, p) == addr[r] <= p /\ p < base[r] + Limit(r)

\* in_range
InRange(r, p) == addr[r] <= p /\ p < Curr(r)

\* Mutant: rounds to the nearest superblock.
DescLookupNearest(p) == (p - addr["SB"] + SbPages \div 2) \div SbPages

\* desc_lookup: the index of the descriptor.
DescLookup(p) == p \div SbPages - addr["SB"] \div SbPages

\* What there may be where the descriptor of an address outside the SB region would be:
\* any bits, no size at all or more bytes than the largest block has.
StrayWords == {0, 1073741824}

\* What BXP_malloc_size may return for p, with the descriptors d: the block size of a
\* superblock in use, 0 for one that is not.
SizesRead(d, p) ==
  LET i == DescLookup(p)
  IN IF i \in DOMAIN d THEN {d[i]} ELSE IF InRange("SB", p) THEN {0} ELSE StrayWords
-----------------------------------------------------------------------------
(* BXP_malloc *)

\* Places in the large region: the start of its first piece, and one further on in
\* every expansion.
LarChoices == {0} \cup {spans[i].lo - 1 + 2 * SbPages :
                         i \in {j \in DOMAIN spans : spans[j].r = "LAR"}}

\* Superblocks of the region in use: an early one of every expansion.
SbChoices == {1} \cup {(spans[i].lo - spans[1].lo) \div SbPages :
                         i \in {j \in DOMAIN spans : spans[j].r = "SB" /\ j > 1}}
SbOf(o) == o.off \div SbPages

\* Where the size n is allocated and how big the block is: BuddyManager::balloc,
\* the first branch of do_malloc, or a block of a size class.
Result(n) ==
  CASE n > SBSIZE ->
         {[home |-> "LAR", off |-> f, req |-> n, size |-> n] : f \in LarChoices}
    [] n > MAX_SZ /\ n <= SBSIZE ->
         {[home |-> "SB", off |-> d * SbPages, req |-> n, size |-> SBSIZE] :
            d \in SbChoices \ DOMAIN dsc}
    [] n <= MAX_SZ /\ HasClass(n) ->
         {[home |-> "SB", off |-> d * SbPages + f, req |-> n, size |-> RoundUp(n)] :
            f \in {0, SbPages - 1},
            d \in {x \in SbChoices : x \in DOMAIN dsc => dsc[x] = RoundUp(n)}}

\* The descriptors when o has been allocated: do_malloc and malloc_from_newsb set
\* the block size.
Described(o) ==
  IF o.home = "SB"
  THEN [x \in DOMAIN dsc \cup {SbOf(o)} |-> IF x = SbOf(o) THEN o.size ELSE dsc[x]]
  ELSE dsc

Places(n) == {o \in Result(n) : \A x \in objs : x.home # o.home \/ x.off # o.off}

Up == mode = "up" /\ UNCHANGED rvars

Malloc(n) ==
  /\ Up /\ Cardinality(objs) < MaxObjs
  /\ \E o \in Places(n) : objs' = objs \cup {o} /\ dsc' = Described(o)
  /\ UNCHANGED <<root, named, wild>>

\* Mutant: clears a superblock, whatever the block.
CallocSuperblock(n) ==
  /\ Up /\ Cardinality(objs) < MaxObjs
  /\ \E o \in Places(n) :
       /\ objs' = objs \cup {o} /\ dsc' = Described(o)
       /\ wild' = (wild \/ SBSIZE > o.size)
  /\ UNCHANGED <<root, named>>

\* BXP_calloc clears as many bytes as BXP_malloc_size says, of a large object too.
Calloc(n) ==
  /\ Up /\ Cardinality(objs) < MaxObjs
  /\ \E o \in Places(n) : \E real_size \in SizesRead(Described(o), Addr(o)) :
       /\ objs' = objs \cup {o} /\ dsc' = Described(o)
       /\ wild' = (wild \/ real_size > o.size)
  /\ UNCHANGED <<root, named>>
-----------------------------------------------------------------------------
(* BXP_free and BXP_realloc *)

\* The descriptors d when o has been freed: those of whole superblocks are erased.
Freed(o, d) == IF o.size = SBSIZE THEN Restrict(d, DOMAIN d \ {SbOf(o)}) ELSE d

\* The descriptors d after BXP_free: bfree leaves them alone.
AfterFree(o, d) == IF InRange("LAR", Addr(o)) THEN d ELSE Freed(o, d)

Forget(o) == named' = IF named = o THEN Nothing ELSE named

\* do_free asserts that the pointer is in the SB region.
Free(o) ==
  /\ Up /\ (InRange("LAR", Addr(o)) \/ InRange("SB", Addr(o)))
  /\ objs' = objs \ {o} /\ dsc' = AfterFree(o, dsc)
  /\ Forget(o)
  /\ UNCHANGED <<root, wild>>

\* A pointer outside the SB region gets nullptr and is left alone, and so is one whose
\* size is right.  The others are copied, as many bytes as the old block has.
Realloc(o, n) ==
  /\ Up
  /\ \/ /\ ~InRange("SB", Addr(o)) \/ n \in SizesRead(dsc, Addr(o))
        /\ UNCHANGED <<objs, dsc, wild, named>>
     \/ /\ InRange("SB", Addr(o))
        /\ \E x \in Places(n) : \E old_size \in SizesRead(dsc, Addr(o)) \ {n} :
             /\ objs' = (objs \ {o}) \cup {x}
             /\ dsc' = AfterFree(o, Described(x))
             /\ wild' = (wild \/ old_size > x.size)
        /\ Forget(o)
  /\ UNCHANGED root
-----------------------------------------------------------------------------
(* BXP_set_root and BXP_get_root *)

\* Mutant: keeps the address.
RootWordAbsolute(p) == p

RootWord(p) == Untranslate(p, addr["SB"])

SetRoot(o) ==
  /\ Up
  /\ root' = RootWord(Addr(o))
  /\ named' = o
  /\ UNCHANGED <<objs, dsc, wild>>

GetRoot == Translate(root, addr["SB"])
-----------------------------------------------------------------------------
\* A power failure may take the descriptors' block sizes with it: what the collection
\* makes of the objects is not followed.
RegionStep ==
  \/ /\ Start \/ InitStep \/ Close \/ Die
     /\ UNCHANGED ivars
  \/ /\ PowerFailure
     /\ objs' = {} /\ dsc' = <<>> /\ named' = Nothing
     /\ UNCHANGED <<root, wild>>
  \/ /\ \E t \in Threads :
          ExpandCAS(t) \/ ExpandReturn(t) \/ \E r \in RegionIdx : ExpandLoad(t, r)
     /\ UNCHANGED ivars

Next ==
  \/ RegionStep
  \/ \E n \in Sizes : Malloc(n) \/ Calloc(n)
  \/ \E o \in objs : Free(o) \/ SetRoot(o) \/ \E n \in Sizes : Realloc(o, n)

Spec == IInit /\ [][Next]_vars
-----------------------------------------------------------------------------
(* Properties *)

Small == {o \in objs : o.home = "SB"}

\* A pointer into a superblock finds the descriptor of that superblock, inside the
\* file of descriptors, wherever the regions are mapped by now; that says how big the
\* block is, which is no less than was asked for.
LookupFindsDescriptor ==
  mode = "up" /\ ~torn => \A o \in Small :
    /\ DescLookup(Addr(o)) = SbOf(o)
    /\ DescLookup(Addr(o)) < Requested(size)["DESC"] * DescsPerPage
    /\ SizesRead(dsc, Addr(o)) = {o.size} /\ o.req <= o.size

\* BXP_free goes to the allocator that BXP_malloc went to: in_range is there to "check
\* if $ptr$ is in the range of region $index$" (RegionManager.hpp:251).
FreedWhereAllocated ==
  mode = "up" /\ ~torn => \A o \in objs :
    /\ InRange("LAR", Addr(o)) = (o.home = "LAR")
    /\ InRange("SB", Addr(o)) = (o.home = "SB")

\* The same as long as the large region has not been expanded past the end of its file,
\* however far FILESIZE would let it grow.
FreedWhereAllocatedInFile ==
  Curr("LAR") <= base["LAR"] + words["LAR"].size => FreedWhereAllocated

CallocOfLarge == objs \subseteq objs' /\ \E x \in objs' \ objs : x.home = "LAR"
ReallocShrinks == \E o \in objs \ objs', x \in objs' \ objs : x.req < o.req

\* Only two calls write past the end of a block: BXP_realloc to a smaller size, which
\* copies as many bytes as the old block has, and BXP_calloc of a large object, of which
\* BXP_malloc_size does not "return the size of ptr in byte" (bxalloc.cpp:160).  A realloc
\* to a larger size does not, whichever class, whole superblock or large block the two
\* sizes lead to, nor a calloc of a small object.
OnlyTheseOverflow == [][~wild /\ wild' => CallocOfLarge \/ ReallocShrinks]_vars

\* The root leads to the small object it was last set to, in every later process.
RootsSurvive == mode = "up" /\ ~torn /\ named \in Small => GetRoot = Addr(named)
=============================================================================
