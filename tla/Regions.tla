------------------------------ MODULE Regions ------------------------------
(***************************************************************************)
(* RegionManager, Regions and _BXP_init: the five files of a heap, created *)
(* one after the other by the first process and mapped again, somewhere    *)
(* else, by the next ones, and the bump allocation that expands them.  The *)
(* first words of a file are kept twice, as loads see them and as memory   *)
(* holds them: a process may die, and the power may fail, at any step.     *)
(* Addresses and sizes are in pages.                                       *)
(***************************************************************************)
EXTENDS Integers, Sequences, FiniteSets, Pptr

CONSTANTS
  Threads,    \* threads that expand regions
  HeapSizes,  \* sizes that BXP_init is given
  Expand,     \* MIN_SB_REGION_SIZE and SB_REGION_EXPAND_SIZE
  SbPages,    \* SBSIZE
  DescsPerPage, \* PAGESIZE / DESCSIZE
  QueuePages, \* sizeof(_ArrayQueue<uint64_t, 80000>), in whole pages
  MetaPages,  \* sizeof(BaseMeta), in whole pages
  Layouts,    \* where mmap may put the five files
  MaxStarts,  \* bound: how often the heap is opened
  MaxSpans    \* bound: no expansion begins with so many pieces, and one per process, handed out

VARIABLES
  words,   \* curr_addr, heap_start and size of every file, as loads see them
  pm,      \* the same, as persistent memory holds them
  size,    \* the size this process gave to BXP_init
  made,    \* what has been constructed in the files: "queue", "meta", "buddy"
  base,    \* RegionManager::base_addr
  addr,    \* Regions::regions_address
  mode,    \* "down", "init", "up", or the assertion that ended the process
  at,      \* where _BXP_init is: the region and the step
  recover, \* the large region's file existed when _BXP_init began
  torn,    \* a process has ended inside its first _BXP_init
  starts,  \* how often the heap has been opened
  exp,     \* where every thread is in __nvm_region_allocator
  spans    \* what it has handed out, by region and distance from base_addr

open == <<size, base, recover>>
rvars == <<words, pm, made, open, addr, mode, at, torn, starts, exp, spans>>
-----------------------------------------------------------------------------
RegionIdx == {"DESC", "SB", "LAR", "QUEUE", "META"}
Following == [DESC |-> "SB", SB |-> "LAR", LAR |-> "QUEUE", QUEUE |-> "META", META |-> "LAST"]

\* The size a RegionManager is created for, in a heap of n pages.
Requested(n) ==
  [DESC |-> (n \div SbPages) \div DescsPerPage, SB |-> (n \div SbPages) * SbPages,
   LAR |-> Expand, QUEUE |-> QueuePages, META |-> MetaPages]

\* FILESIZE as the constructor sets it, the length of the mapping.
FileSizeIn(n, r) == Requested(n)[r] + 2
FileSize(r) == FileSizeIn(size, r)

\* Mutant: a whole expansion too much.
LimitPastEnd(r) == FileSize(r) + Expand

\* FILESIZE after _BXP_init: the large region's is set to half the heap, whatever the
\* length of its file.
Limit(r) == IF r = "LAR" THEN ((size - size \div 2) \div SbPages) * SbPages ELSE FileSize(r)

ASSUME RegionsAssumption ==
  /\ \A n \in HeapSizes \cup {SbPages, DescsPerPage, QueuePages, MetaPages} : n \in Nat \ {0}
  /\ Expand \in Nat /\ Expand > SbPages * DescsPerPage /\ DescsPerPage >= 2
  /\ \A n \in HeapSizes : n >= Expand
  /\ MaxStarts \in Nat /\ MaxSpans \in Nat
  /\ Layouts \subseteq [RegionIdx -> Nat \ {0}]
  /\ \A n \in HeapSizes, l \in Layouts : \A r, s \in RegionIdx :
       r # s => l[r] + FileSizeIn(n, r) <= l[s] \/ l[s] + FileSizeIn(n, s) <= l[r]

NoFile == [exists |-> FALSE, curr |-> RawOff, start |-> 0, size |-> 0]
Idle == [do |-> "idle", r |-> "SB", old |-> 0, lo |-> 0, hi |-> 0]

\* curr_addr_ptr->load()
Curr(r) == From(words[r].curr, base[r])

Init ==
  /\ words = [r \in RegionIdx |-> NoFile] /\ pm = words
  /\ made = {} /\ torn = FALSE /\ starts = 0 /\ spans = <<>>
  /\ base = [r \in RegionIdx |-> nullptr] /\ addr = base
  /\ mode = "down" /\ at = <<"DESC", "map">> /\ recover = FALSE /\ size \in HeapSizes
  /\ exp = [t \in Threads |-> Idle]

\* A store to the words of r that is flushed and fenced.
StoreFlushed(r, w) == words' = [words EXCEPT ![r] = w] /\ pm' = [pm EXCEPT ![r] = w]

Abort(why) ==
  /\ mode' = why
  /\ UNCHANGED <<words, pm, made, open, addr, at, torn, starts, exp, spans>>
-----------------------------------------------------------------------------
(* __nvm_region_allocator *)

AlignUp(a, n) == ((a + n - 1) \div n) * n

\* What a caller who found curr at a would get: [lo, hi).
Piece(a, align, n) == [lo |-> AlignUp(a, align), hi |-> AlignUp(a, align) + n]

\* A region expanded while no other thread exists: the CAS succeeds.
ExpandAlone(r, p) == StoreFlushed(r, [words[r] EXCEPT !.curr = To(p.hi, base[r])])

\* small_sb_alloc with an empty queue, or BuddyAllocator::alloc without a block:
\* loads curr_addr and gives up when FILESIZE leaves no room.  Large objects are
\* allocated under buddymtx.
ExpandLoad(t, r) ==
  /\ mode = "up" /\ exp[t].do = "idle" /\ r \in {"SB", "LAR"} /\ Len(spans) < MaxSpans + starts
  /\ r = "LAR" => \A u \in Threads : exp[u].do = "idle" \/ exp[u].r # "LAR"
  /\ LET p == Piece(Curr(r), 1, Expand)
     IN \/ /\ p.hi <= base[r] + Limit(r)
           /\ exp' = [exp EXCEPT ![t] =
                        [do |-> "cas", r |-> r, old |-> Curr(r), lo |-> p.lo, hi |-> p.hi]]
           /\ UNCHANGED <<words, pm, made, open, addr, mode, at, torn, starts, spans>>
        \/ /\ p.hi > base[r] + Limit(r)
           /\ Abort("space runs out")

\* The flush of what was loaded, then the CAS.  A loser starts over.
ExpandCAS(t) ==
  LET e == exp[t]
      r == e.r
  IN /\ mode = "up" /\ e.do = "cas"
     /\ pm' = [pm EXCEPT ![r] = words[r]]
     /\ \/ /\ Curr(r) = e.old
           /\ words' = [words EXCEPT ![r].curr = To(e.hi, base[r])]
           /\ exp' = [exp EXCEPT ![t].do = "flush"]
        \/ /\ Curr(r) # e.old
           /\ exp' = [exp EXCEPT ![t] = Idle]
           /\ UNCHANGED words
     /\ UNCHANGED <<made, open, addr, mode, at, torn, starts, spans>>

HandedOut(e) == Append(spans, [r |-> e.r, lo |-> e.lo - base[e.r], hi |-> e.hi - base[e.r]])

\* Mutant: the new end of the region is not written back.
ExpandReturnUnflushed(t) ==
  /\ mode = "up" /\ exp[t].do = "flush"
  /\ spans' = HandedOut(exp[t])
  /\ exp' = [exp EXCEPT ![t] = Idle]
  /\ UNCHANGED <<words, pm, made, open, addr, mode, at, torn, starts>>

\* The flush after the CAS; then the caller has the memory.
ExpandReturn(t) ==
  /\ mode = "up" /\ exp[t].do = "flush"
  /\ pm' = [pm EXCEPT ![exp[t].r] = words[exp[t].r]]
  /\ spans' = HandedOut(exp[t])
  /\ exp' = [exp EXCEPT ![t] = Idle]
  /\ UNCHANGED <<words, made, open, addr, mode, at, torn, starts>>
-----------------------------------------------------------------------------
(* _BXP_init *)

At(r, step) == mode = "init" /\ at = <<r, step>>
Goto(r, step) == at' = <<r, step>>

Start ==
  /\ mode = "down" /\ starts < MaxStarts
  /\ starts' = starts + 1
  /\ mode' = "init" /\ Goto("DESC", "map")
  /\ recover' = words["LAR"].exists
  /\ base' \in Layouts /\ size' \in HeapSizes
  /\ addr' = [r \in RegionIdx |-> nullptr]
  /\ UNCHANGED <<words, pm, made, torn, exp, spans>>

\* __map_persistent_region up to mmap: a file of zeros.
CreateFile(r) ==
  /\ At(r, "map") /\ ~words[r].exists
  /\ StoreFlushed(r, [NoFile EXCEPT !.exists = TRUE])
  /\ Goto(r, "words")
  /\ UNCHANGED <<made, open, addr, mode, torn, starts, exp, spans>>

\* The rest of it.  The SB region is expanded by the BaseMeta constructor.
WriteWords(r) ==
  /\ At(r, "words")
  /\ StoreFlushed(r, [words[r] EXCEPT !.curr = To(base[r] + 1, base[r]), !.size = FileSize(r)])
  /\ IF r = "SB" THEN Goto(Following[r], "map") ELSE Goto(r, "expand")
  /\ UNCHANGED <<made, open, addr, mode, torn, starts, exp, spans>>

\* The expansion right after, over all of the requested size.
ExpandFirst(r) ==
  /\ At(r, "expand")
  /\ ExpandAlone(r, Piece(Curr(r), 1, Requested(size)[r]))
  /\ Goto(r, "start")
  /\ UNCHANGED <<made, open, addr, mode, torn, starts, exp, spans>>

\* Mutant: the address is stored and not the distance.
StartAbsolute(r, a) == a

\* __store_heap_start
StartWord(r, a) == a - base[r]

\* __fetch_heap_start
HeapStart(r) == words[r].start + base[r]

StoreStart(r) ==
  LET a == base[r] + 1
  IN /\ At(r, "start")
     /\ StoreFlushed(r, [words[r] EXCEPT !.start = StartWord(r, a)])
     /\ addr' = [addr EXCEPT ![r] = a]
     /\ IF r \in {"QUEUE", "META"} THEN Goto(r, "make") ELSE Goto(Following[r], "map")
     /\ UNCHANGED <<made, open, mode, torn, starts, exp, spans>>

\* new (_queue) _ArrayQueue
MakeQueue ==
  /\ At("QUEUE", "make")
  /\ made' = made \cup {"queue"}
  /\ Goto("META", "map")
  /\ UNCHANGED <<words, pm, open, addr, mode, torn, starts, exp, spans>>

\* The BaseMeta constructor up to the warm-up, which expands the SB region.
WarmUp ==
  /\ At("META", "make")
  /\ LET p == Piece(Curr("SB"), SbPages, Expand)
     IN \/ /\ p.hi <= base["SB"] + FileSize("SB")
           /\ ExpandAlone("SB", p)
           /\ Goto("META", "sbstart")
           /\ UNCHANGED <<made, open, addr, mode, torn, starts, exp, spans>>
        \/ /\ p.hi > base["SB"] + FileSize("SB")
           /\ Abort("warmup sb allocation fails!")

\* Its end: __store_heap_start of the SB region, and organize_sb_list.
MakeMeta ==
  LET a == Curr("SB") - Expand
  IN /\ At("META", "sbstart")
     /\ StoreFlushed("SB", [words["SB"] EXCEPT !.start = StartWord("SB", a)])
     /\ addr' = [addr EXCEPT !["SB"] = a]
     /\ spans' = HandedOut([r |-> "SB", lo |-> a, hi |-> Curr("SB")])
     /\ made' = made \cup {"meta"}
     /\ Goto("LAST", "buddy")
     /\ UNCHANGED <<open, mode, torn, starts, exp>>

\* __remap_persistent_region of a file that exists, and its assertion.
Remap(r) ==
  /\ At(r, "map") /\ words[r].exists
  /\ \/ /\ words[r].size = FileSize(r)
        /\ addr' = [addr EXCEPT ![r] = HeapStart(r)]
        /\ IF r = "META" THEN Goto("LAST", "buddy") ELSE Goto(Following[r], "map")
        /\ UNCHANGED <<words, pm, made, open, mode, torn, starts, exp, spans>>
     \/ /\ words[r].size # FileSize(r)
        /\ Abort("size")

\* The BuddyAllocator constructor writes the headers, or walks those it finds: from
\* one that was never written it does not get away.
StartBuddy ==
  /\ At("LAST", "buddy")
  /\ \/ /\ ~recover \/ "buddy" \in made
        /\ made' = made \cup {"buddy"}
        /\ mode' = "up"
        /\ UNCHANGED <<words, pm, open, addr, at, torn, starts, exp, spans>>
     \/ /\ recover /\ "buddy" \notin made
        /\ Abort("walk does not end")

InitStep ==
  \/ \E r \in RegionIdx :
       CreateFile(r) \/ WriteWords(r) \/ ExpandFirst(r) \/ StoreStart(r) \/ Remap(r)
  \/ MakeQueue \/ WarmUp \/ MakeMeta \/ StartBuddy
-----------------------------------------------------------------------------
(* The end of a process *)

Ended ==
  /\ mode' = "down"
  /\ exp' = [t \in Threads |-> Idle]
  /\ torn' = (torn \/ made # {"queue", "meta", "buddy"})
  /\ UNCHANGED <<made, open, addr, at, starts, spans>>

\* ~bxallocHolder, after the last thread: every region is flushed.
Close ==
  /\ mode = "up" /\ \A t \in Threads : exp[t] = Idle
  /\ pm' = words
  /\ UNCHANGED words
  /\ Ended

\* The process dies; the files keep what it stored.
Die ==
  /\ mode # "down"
  /\ UNCHANGED <<words, pm>>
  /\ Ended

\* The power fails: stores that were not flushed may be lost, file by file.
PowerFailure ==
  /\ mode # "down"
  /\ \E lost \in SUBSET {r \in RegionIdx : pm[r] # words[r]} :
       words' = [r \in RegionIdx |-> IF r \in lost THEN pm[r] ELSE words[r]]
  /\ pm' = words'
  /\ Ended
-----------------------------------------------------------------------------
(* Properties *)

\* Memory a caller has got from a region is never handed out again: not to a thread
\* that raced for it, not to a later process, not after a power failure that came
\* between the CAS and a flush.
HandedOutOnce ==
  \A i, j \in DOMAIN spans :
    i # j /\ spans[i].r = spans[j].r => spans[i].hi <= spans[j].lo \/ spans[j].hi <= spans[i].lo

\* What is handed out lies inside the mapped file: "-1 if expansion is illegal (e.g.,
\* space runs out)", says the comment on expand (RegionManager.hpp:244).
HandedOutInFile ==
  \A i \in DOMAIN spans : 1 <= spans[i].lo /\ spans[i].hi <= words[spans[i].r].size

\* The same of the superblocks' region alone, whose FILESIZE is that of its file: threads
\* that race for its last piece, in this process or after a restart, do not pass its end.
SuperblocksInFile ==
  \A i \in DOMAIN spans :
    spans[i].r = "SB" => 1 <= spans[i].lo /\ spans[i].hi <= words["SB"].size

\* An open heap is a complete one, unless some first _BXP_init was interrupted: all
\* parts have been constructed, and the regions start where the process that
\* created them put them, wherever they are mapped now.
OpenIsComplete ==
  mode = "up" /\ ~torn =>
    /\ made = {"queue", "meta", "buddy"}
    /\ addr["SB"] - base["SB"] = spans[1].lo
    /\ \A r \in RegionIdx \ {"SB"} : addr[r] = base[r] + 1
    /\ \A i \in DOMAIN spans : base[spans[i].r] + spans[i].hi <= Curr(spans[i].r)
=============================================================================
