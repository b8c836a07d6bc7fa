--------------------------- MODULE RecoveryProofs ---------------------------
(***************************************************************************)
(* Proofs about Recovery: what the marking of a recovery after a crash     *)
(* reaches, what its sweep keeps, and who has the superblocks and blocks   *)
(* afterwards, for any number of threads, superblocks and blocks and any   *)
(* links between objects.                                                  *)
(***************************************************************************)
EXTENDS Recovery, SmallHeapProofs

\* The blocks that what is scanned of the blocks S points to.
Found(S) == {x \in {link[w] : w \in UNION {Scanned(b) : b \in S}} : InRange(x)}

\* There are finitely many blocks, and at least one.
LEMMA BlocksFinite ==
  IsFiniteSet(Blocks) /\ Cardinality(Blocks) \in Nat /\ Cardinality(Blocks) > 0
<1>1. IsFiniteSet(Sbs) /\ IsFiniteSet(0 .. MaxCount - 1)
  BY ConstantsAssumption, FS_Interval DEF Sbs
<1>2. IsFiniteSet(Blocks)
  <2> DEFINE A == Sbs
             B == 0 .. MaxCount - 1
  <2>1. IsFiniteSet(A) /\ IsFiniteSet(B)
    BY <1>1
  <2> HIDE DEF A, B
  <2>2. IsFiniteSet(A \X B)
    BY <2>1, FS_Product, Zenon
  <2> QED BY <2>2 DEF A, B, Blocks
<1>3. <<0, 0>> \in Blocks
  BY ConstantsAssumption DEF Blocks, Sbs
<1>4. Blocks # {}
  BY <1>3
<1> QED BY <1>2, <1>4, FS_CardinalityType, FS_EmptySet

\* Marking ends with a set of blocks of the region that has what the root points to and
\* what its members point to.
LEMMA ReachedClosed ==
  /\ Reached \subseteq Blocks
  /\ InRange(root) => root \in Reached
  /\ Found(Reached) \subseteq Reached
<1> DEFINE n == Cardinality(Blocks)
           A == {x \in {root} : InRange(x)}
           step(g) == [i \in 0 .. n |->
              IF i = 0 THEN A
              ELSE g[i - 1] \cup {x \in {link[w] : w \in UNION {Scanned(b) : b \in g[i - 1]}} :
                              InRange(x)}]
           f == CHOOSE g : g = step(g)
<1>1. Reached = f[n]
  BY DEF Reached
<1>2. PICK F : F = [S \in SUBSET Blocks |-> S \cup Found(S)]
  OBVIOUS
<1>3. ASSUME NEW S PROVE Found(S) \subseteq Blocks
  BY DEF Found, InRange
<1>4. F \in [SUBSET Blocks -> SUBSET Blocks] /\ A \in SUBSET Blocks
  <2>1. A \in SUBSET Blocks
    BY DEF InRange
  <2> HIDE DEF A
  <2>2. \A S \in SUBSET Blocks : S \cup Found(S) \in SUBSET Blocks
    BY <1>3
  <2> QED BY <1>2, <2>1, <2>2
<1>5. n \in Nat /\ n > 0 /\ IsFiniteSet(Blocks)
  BY BlocksFinite
<1>6. \E g : g = step(g)
  <2> HIDE DEF A
  <2>0. PICK m \in Nat : m = n
    BY <1>5
  <2>a. PICK X : X = SUBSET Blocks
    OBVIOUS
  <2>b. PICK a \in X : a = A
    BY <1>4, <2>a
  <2>c. F \in [X -> X]
    BY <1>4, <2>a
  <2>d. PICK g : Iterated(g, F, a, m, X)
    BY <2>c, Iterates
  <2>1. g \in [0 .. m -> SUBSET Blocks] /\ g[0] = A /\ \A i \in 1 .. m : g[i] = F[g[i - 1]]
    BY <2>a, <2>b, <2>d DEF Iterated
  <2>2. \A i \in 0 .. m : g[i] = IF i = 0 THEN A ELSE g[i - 1] \cup Found(g[i - 1])
    <3> TAKE i \in 0 .. m
    <3>1. CASE i = 0
      BY <2>1, <3>1
    <3>2. CASE i # 0
      <4>1. i \in 1 .. m /\ i - 1 \in 0 .. m
        BY <3>2
      <4>2. g[i - 1] \in SUBSET Blocks
        BY <2>1, <4>1
      <4> QED BY <1>2, <2>1, <3>2, <4>1, <4>2
    <3> QED BY <3>1, <3>2
  <2>3. g = step(g)
    BY <2>0, <2>1, <2>2 DEF Found
  <2> QED BY <2>3
<1>7. f = step(f)
  <2> HIDE DEF step
  <2> QED BY <1>6
<1>8. \A i \in 0 .. n : f[i] = IF i = 0 THEN A ELSE f[i - 1] \cup Found(f[i - 1])
  <2> HIDE DEF f, A
  <2> QED BY <1>7 DEF Found
<1> HIDE DEF f, step, A
<1>9. PICK m \in Nat : m = n /\ m > 0
  BY <1>5
<1>10. \A i \in 0 .. m : f[i] \in SUBSET Blocks
  <2> DEFINE T == {i \in 0 .. m : f[i] \notin SUBSET Blocks}
  <2>1. SUFFICES ASSUME T # {} PROVE FALSE
    OBVIOUS
  <2>2. PICK x \in T : \A y \in T : x <= y
    <3>1. T \in SUBSET Nat
      OBVIOUS
    <3> HIDE DEF T
    <3> QED BY <2>1, <3>1, Least
  <2>3. x # 0
    BY <1>4, <1>8, <1>9, <2>2
  <2>4. PICK y \in Nat : y = x - 1
    BY <2>2, <2>3
  <2>5. y \in 0 .. m /\ y \notin T
    BY <2>2, <2>4
  <2>6. f[y] \in SUBSET Blocks
    BY <2>5
  <2>7. f[x] = f[y] \cup Found(f[y])
    BY <1>8, <1>9, <2>2, <2>3, <2>4
  <2> QED BY <1>3, <2>2, <2>6, <2>7
<1>11. \A i \in 1 .. m : f[i] = F[f[i - 1]]
  <2> TAKE i \in 1 .. m
  <2>1. i \in 0 .. m /\ i # 0 /\ i - 1 \in 0 .. m
    OBVIOUS
  <2> QED BY <1>2, <1>8, <1>9, <1>10, <2>1
<1>12. \A i \in 0 .. m - 1 : f[i] \subseteq f[i + 1] /\ f[i + 1] = f[i] \cup Found(f[i])
  <2> TAKE i \in 0 .. m - 1
  <2>1. i + 1 \in 0 .. m /\ i + 1 # 0 /\ (i + 1) - 1 = i
    OBVIOUS
  <2> QED BY <1>8, <1>9, <2>1
<1>13. \E j \in 0 .. m - 1 : f[j + 1] = f[j]
  <2>1. CASE f[0] = {}
    <3>1. Found(f[0]) = {}
      BY <2>1 DEF Found
    <3>2. 0 \in 0 .. m - 1
      BY <1>9
    <3>3. f[0 + 1] = f[0]
      BY <1>12, <2>1, <3>1, <3>2
    <3> QED BY <3>2, <3>3
  <2>2. CASE f[0] # {}
    <3>1. \A i \in 0 .. m - 1 : f[i] \subseteq f[i + 1]
      BY <1>12
    <3> QED BY <1>5, <1>9, <1>10, <2>2, <3>1, ChainStops
  <2> QED BY <2>1, <2>2
<1>14. F[f[m]] = f[m]
  BY <1>11, <1>13, Settles
<1>15. f[m] \in SUBSET Blocks
  BY <1>10
<1>16. Found(f[m]) \subseteq f[m]
  BY <1>2, <1>14, <1>15
<1>17. A \subseteq f[m]
  <2> DEFINE T == {i \in 0 .. m : ~(A \subseteq f[i])}
  <2>1. SUFFICES ASSUME T # {} PROVE FALSE
    OBVIOUS
  <2>2. PICK x \in T : \A y \in T : x <= y
    <3>1. T \in SUBSET Nat
      OBVIOUS
    <3> HIDE DEF T
    <3> QED BY <2>1, <3>1, Least
  <2>3. x # 0
    BY <1>8, <1>9, <2>2
  <2>4. PICK y \in Nat : y = x - 1
    BY <2>2, <2>3
  <2>5. y \in 0 .. m - 1 /\ y \notin T /\ y + 1 = x
    BY <2>2, <2>4
  <2> QED BY <1>12, <2>2, <2>5
<1> QED BY <1>1, <1>9, <1>15, <1>16, <1>17 DEF A
-----------------------------------------------------------------------------
(* The marks of a collection *)

\* What the sweep keeps: marks are blocks, curr_sb is at the start of a superblock
\* unless the class is 0, and the marks are closed.
MarksOK ==
  /\ heap \in [Sbs -> {"none", "small", "large"}]
  /\ mode = "gc" => marked \subseteq Blocks
  /\ mode = "gc" /\ sc # 0 => ~shifted
  /\ MarkedClosed

\* The descriptors stay descriptors.
LEMMA HeapTyped ==
  ASSUME heap \in [Sbs -> {"none", "small", "large"}], [Next]_vars
  PROVE  heap' \in [Sbs -> {"none", "small", "large"}]
<1>1. ASSUME NEW t \in Threads, Step(t) \/ Call(t)
      PROVE  heap' \in [Sbs -> {"none", "small", "large"}]
  <2>1. CASE UNCHANGED heap
    BY <2>1
  <2>2. CASE \E d, v \in {"none", "small", "large"} : heap' = [heap EXCEPT ![d] = v]
    BY <2>2
  <2> QED BY <1>1, <2>1, <2>2
      DEF Step, Call, Pop, HeapPopPartial, Reserve, RetireEmpty, TakeAll, TakePart, PushPart,
          SbAlloc, ExpandLoad, ExpandCAS, Organize, NewSb, LargeBlock, FlushTake, FlushCAS,
          FlushPush, FlushRetire, FlushDone, MallocMiss, MallocLarge, FreeLarge, FreeSmall,
          ThreadExit, Abort, Erase, shared
<1> QED BY <1>1 DEF Next, Dead, vars, shared

\* A step of the sweep leaves the marked blocks of the class alone.
LEMMA SweepKeeps ==
  ASSUME MarksOK, mode = "gc", sc # 0, SweepEmpty \/ SweepUsed
  PROVE  /\ UNCHANGED <<root, curr, marked, mode, sc, shifted>>
         /\ heap' \in [Sbs -> {"none", "small", "large"}]
         /\ \A d \in Sbs : heap'[d] = "small" => heap[d] = "small"
         /\ \A b \in marked : heap[b[1]] = "small" => link'[b] = link[b] /\ heap'[b[1]] = "small"
<1>1. ~shifted /\ marked \subseteq Blocks /\ heap \in [Sbs -> {"none", "small", "large"}]
  BY DEF MarksOK
<1>2. \A b \in Blocks : b[1] \in Sbs /\ b[2] \in 0 .. MaxCount - 1 /\ b = <<b[1], b[2]>>
  BY DEF Blocks
<1>3. CASE SweepEmpty
  <2>1. /\ heap' = [heap EXCEPT ![at] = "none"] /\ link' = link
        /\ UNCHANGED <<root, curr, marked, mode, sc, shifted>>
        /\ heap[at] = "none" \/ MarksIn(at) = {}
    BY <1>1, <1>3 DEF SweepEmpty, Erase, InUse
  <2>2. ASSUME NEW b \in marked, heap[b[1]] = "small" PROVE b[1] # at
    <3>1. b[1] = at => b[2] \in MarksIn(at)
      BY <1>1, <1>2 DEF MarksIn
    <3> QED BY <2>1, <2>2, <3>1
  <2> QED BY <1>1, <1>2, <2>1, <2>2
<1>4. CASE SweepUsed
  <2>1. /\ link' = Chained(at, FreeIdxs)
        /\ UNCHANGED <<root, curr, marked, mode, sc, shifted, heap>>
    BY <1>4 DEF SweepUsed
  <2>2. ASSUME NEW b \in marked, heap[b[1]] = "small" PROVE link'[b] = link[b]
    <3>1. b \in Blocks
      BY <1>1
    <3>2. ~(b[1] = at /\ b[2] \in FreeIdxs)
      <4>1. SUFFICES ASSUME b[1] = at, b[2] \in FreeIdxs PROVE FALSE
        OBVIOUS
      <4>2. b[2] \in MarksIn(at)
        BY <1>2, <3>1, <4>1 DEF MarksIn
      <4> QED BY <2>2, <4>1, <4>2 DEF FreeIdxs
    <3> QED BY <2>1, <3>1, <3>2 DEF Chained
  <2> QED BY <1>1, <2>1, <2>2
<1> QED BY <1>3, <1>4

\* No collection runs at first.
LEMMA MarksInit == RInit => MarksOK
  BY DEF RInit, Init, MarksOK, MarkedClosed

\* Every step keeps the marks closed: Restart computes them, and the sweep changes no link of a
\* marked object of a size class other than 0.
LEMMA MarksNext == MarksOK /\ [RNext]_allvars => MarksOK'
<1> SUFFICES ASSUME MarksOK, [RNext]_allvars PROVE MarksOK'
  OBVIOUS
<1>0. heap \in [Sbs -> {"none", "small", "large"}]
  BY DEF MarksOK
<1>1. CASE UNCHANGED allvars
  BY <1>1 DEF allvars, vars, shared, rvars, gc, MarksOK, MarkedClosed, InRange
<1>2. CASE HeapStep
  <2>1. heap' \in [Sbs -> {"none", "small", "large"}]
    BY <1>0, <1>2, HeapTyped DEF HeapStep
  <2>2. mode' = "up"
    BY <1>2 DEF HeapStep, rvars, gc
  <2> QED BY <2>1, <2>2 DEF MarksOK, MarkedClosed
<1>3. CASE SetRef \/ SetRoot \/ Close \/ Crash \/ Finish
  <2>1. heap' = heap /\ mode' # "gc"
    BY <1>3 DEF SetRef, SetRoot, Close, Crash, Finish, Outside, vars, shared, rvars, gc
  <2> QED BY <1>0, <2>1 DEF MarksOK, MarkedClosed
<1>4. CASE Restart
  <2>1. CASE mode' = "up"
    BY <1>0, <1>4, <2>1 DEF Restart, shared, MarksOK, MarkedClosed
  <2>2. CASE mode' # "up"
    <3>1. /\ mode' = "gc" /\ marked' = Reached /\ shifted' = FALSE
          /\ UNCHANGED <<heap, link, curr, root>>
      BY <1>4, <2>2 DEF Restart
    <3>2. ASSUME NEW b \in Reached, heap[b[1]] = "small", InRange(link[b])
          PROVE  link[b] \in Reached
      <4>1. b \in Scanned(b)
        BY <3>2 DEF Scanned
      <4>2. link[b] \in Found(Reached)
        BY <3>2, <4>1 DEF Found
      <4> QED BY <4>2, ReachedClosed
    <3>3. \A x : InRange(x)' <=> InRange(x)
      BY <3>1 DEF InRange
    <3> QED BY <1>0, <3>1, <3>2, <3>3, ReachedClosed DEF MarksOK, MarkedClosed
  <2> QED BY <2>1, <2>2
<1>5. CASE SweepClass0
  BY <1>0, <1>5 DEF SweepClass0, Sweeping, MarksOK, MarkedClosed
<1>6. CASE SweepEmpty \/ SweepUsed
  <2>1. CASE sc # 0
    <3>1. mode = "gc"
      BY <1>6 DEF SweepEmpty, SweepUsed, Sweeping
    <3>2. /\ UNCHANGED <<root, curr, marked, mode, sc, shifted>>
          /\ heap' \in [Sbs -> {"none", "small", "large"}]
          /\ \A d \in Sbs : heap'[d] = "small" => heap[d] = "small"
          /\ \A b \in marked : heap[b[1]] = "small" => link'[b] = link[b]
      BY <1>6, <2>1, <3>1, SweepKeeps
    <3>3. \A b \in marked : b[1] \in Sbs
      BY <3>1 DEF MarksOK, Blocks
    <3>4. \A x : InRange(x)' <=> InRange(x)
      BY <3>2 DEF InRange
    <3> QED BY <2>1, <3>1, <3>2, <3>3, <3>4 DEF MarksOK, MarkedClosed
  <2>2. CASE sc = 0
    BY <1>0, <1>6, <2>2 DEF SweepEmpty, SweepUsed, Erase, Sweeping, MarksOK, MarkedClosed
  <2> QED BY <2>1, <2>2
<1> QED BY <1>1, <1>2, <1>3, <1>4, <1>5, <1>6 DEF RNext, Recover

\* The invariant of the specification.
LEMMA MarksAlways == RSpec => []MarksOK
  BY MarksInit, MarksNext, PTL DEF RSpec

\* The marks of a collection stay complete through the sweep of BXP_recover, whatever the
\* application stored in its objects and wherever the process died before.
THEOREM MarksStayClosed == RSpec => []MarkedClosed
  BY MarksAlways, PTL DEF MarksOK

\* The sweep changes no object of a size class other than 0 that it found reachable, and
\* keeps its superblock's descriptor.
THEOREM ReachableSmallKept == RSpec => SmallObjectsKept
<1>1. MarksOK /\ [RNext]_allvars =>
        [mode = "gc" /\ sc # 0 => KeptBy({b \in marked : heap[b[1]] = "small"})]_allvars
  <2> SUFFICES ASSUME MarksOK, RNext, mode = "gc", sc # 0
               PROVE  KeptBy({b \in marked : heap[b[1]] = "small"})
    OBVIOUS
  <2>1. CASE SweepEmpty \/ SweepUsed
    BY <2>1, SweepKeeps DEF KeptBy
  <2>2. CASE Crash \/ Finish
    BY <2>2 DEF Crash, Finish, shared, KeptBy
  <2> QED BY <2>1, <2>2 DEF RNext, Recover, HeapStep, SetRef, SetRoot, Close, Outside, Restart,
                            SweepClass0
<1> QED BY <1>1, MarksAlways, PTL DEF RSpec, SmallObjectsKept
-----------------------------------------------------------------------------
(***************************************************************************)
(* Who has the superblocks and the blocks after a crash.  While the heap   *)
(* is in use, the invariants of SmallHeapProofs hold; a crash leaves the   *)
(* free queue and the descriptors behind, and the sweep rebuilds the rest, *)
(* superblock by superblock.                                               *)
(***************************************************************************)

\* What is left when no thread runs: the queue of free superblocks, apart from those
\* that have a descriptor in use.
Still ==
  /\ TypeOK /\ halted = "no"
  /\ \A t \in Threads : pc[t] = "idle" /\ cache[t] = Fresh /\ blk[t] = NoBlock
  /\ NoDup(queue) /\ Elems(queue) \subseteq 1 .. curr - 1
  /\ \A d \in Sbs : heap[d] # "none" => d \in 1 .. curr - 1 /\ d \notin Elems(queue)
  /\ \A d \in Sbs : heap[d] = "none" => /\ anchor[d].state \in {"FULL", "ERROR"}
                                        /\ anchor[d].count = 0

\* The blocks of d that are not marked.
FreeIn(d) == {b \in BlocksIn(d) : b \notin marked}

\* What the sweep has made of superblock d: the blocks that are not marked are its free
\* chain, and it is on the partial list when there are some.
SweptSmall(d) ==
  /\ anchor[d].state \in {"FULL", "PARTIAL"}
  /\ anchor[d].state = "FULL" => anchor[d].count = 0
  /\ anchor[d].state = "PARTIAL" => anchor[d].count \in 1 .. MaxCount - 1
  /\ d \in Elems(partial) <=> anchor[d].state = "PARTIAL"
  /\ Chain(FreeIn(d), AddrOf(d, anchor[d].avail), anchor[d].count, link)
SweptLarge(d) ==
  /\ MarksIn(d) # {}
  /\ anchor[d].state = "PARTIAL" /\ anchor[d].count \in 1 .. MaxCount - 1
Swept(d) ==
  /\ heap[d] = "small" => SweptSmall(d)
  /\ heap[d] = "large" => SweptLarge(d)
  /\ d \in Elems(partial) => heap[d] = "small"
SweepOK ==
  /\ marked \subseteq Blocks /\ at \in 1 .. curr
  /\ NoDup(partial) /\ Elems(partial) \subseteq 1 .. at - 1
  /\ \A d \in 1 .. at - 1 : Swept(d)

\* The lock says whether the process died.
LockOK ==
  \/ mode \in {"up", "gc"} /\ lock = "held"
  \/ mode = "closed" /\ lock = "free"
  \/ mode = "down" /\ lock = "dead"

RecInv ==
  /\ LockOK
  /\ mode \in {"up", "closed"} => CoreInv /\ BlockInv
  /\ mode \in {"down", "gc"} => Still
  /\ mode = "gc" => SweepOK

\* The last block of a chain that the sweep has built from the indices J.
Top(d, J) ==
  IF J = {} THEN NoBlock ELSE <<d, CHOOSE i \in J : \A j \in J : j <= i>>

\* Blocks of a superblock that are each linked to the one before are a chain, from the
\* last one on.
LEMMA ChainedDown ==
  ASSUME NEW d \in Sbs, NEW I \in SUBSET (0 .. MaxCount - 1), NEW lk,
         \A i \in I : lk[<<d, i>>] = Top(d, {j \in I : j < i})
  PROVE  Chain({d} \X I, Top(d, I), Cardinality(I), lk)
<1>0. MaxCount \in Nat /\ \A i \in I : i \in Nat /\ i >= 0 /\ i <= MaxCount - 1
  BY ConstantsAssumption
<1> DEFINE J(m) == {j \in I : j < m}
           P(m) == \E n \in Nat : Chain({d} \X J(m), Top(d, J(m)), n, lk)
           T == {m \in 0 .. MaxCount : ~P(m)}
<1>1. P(0)
  <2>0. J(0) = {}
    <3>1. \A j \in I : ~(j < 0)
      BY <1>0
    <3> QED BY <3>1
  <2>1. {d} \X J(0) = {}
    <3> HIDE DEF J
    <3> QED BY <2>0
  <2>2. 0 \in Nat /\ Chain({}, Top(d, J(0)), 0, lk)
    BY ChainEmpty
  <2> QED BY <2>1, <2>2
<1>2. ASSUME NEW m \in 0 .. MaxCount - 1, P(m) PROVE P(m + 1)
  <2>1. PICK n \in Nat : Chain({d} \X J(m), Top(d, J(m)), n, lk)
    BY <1>2
  <2>2. CASE m \in I
    <3>0. \A j \in I : j < m + 1 <=> j < m \/ j = m
      BY <1>0
    <3>1. J(m + 1) = J(m) \cup {m} /\ m \notin J(m) /\ \A j \in J(m + 1) : j <= m
      <4>1. J(m + 1) = J(m) \cup {m}
        BY <2>2, <3>0
      <4>2. m \notin J(m)
        OBVIOUS
      <4>3. \A j \in I : j < m + 1 => j <= m
        BY <1>0
      <4> QED BY <4>1, <4>2, <4>3
    <3>2. (CHOOSE i \in J(m + 1) : \A j \in J(m + 1) : j <= i) = m
      <4>1. m \in J(m + 1)
        BY <3>1
      <4>2. \A i \in J(m + 1) : (\A j \in J(m + 1) : j <= i) => i = m
        BY <1>0, <3>1, <4>1
      <4> HIDE DEF J
      <4> QED BY <3>1, <4>1, <4>2
    <3>3. Top(d, J(m + 1)) = <<d, m>>
      BY <3>1, <3>2 DEF Top
    <3>4. lk[<<d, m>>] = Top(d, J(m))
      BY <2>2
    <3>5. <<d, m>> \notin {d} \X J(m) /\ {d} \X J(m + 1) = ({d} \X J(m)) \cup {<<d, m>>}
      <4> HIDE DEF J
      <4> QED BY <3>1
    <3>6. Chain(({d} \X J(m)) \cup {<<d, m>>}, <<d, m>>, n + 1, lk)
      <4> HIDE DEF J
      <4> QED BY <2>1, <3>4, <3>5, ChainPush
    <3>7. n + 1 \in Nat
      OBVIOUS
    <3> HIDE DEF J
    <3> QED BY <3>3, <3>5, <3>6, <3>7
  <2>3. CASE m \notin I
    <3>0. \A j \in I : j < m + 1 <=> j < m
      BY <1>0, <2>3
    <3>1. J(m + 1) = J(m)
      BY <3>0
    <3> HIDE DEF J
    <3> QED BY <2>1, <3>1
  <2> QED BY <2>2, <2>3
<1>3. T = {}
  <2> HIDE DEF P
  <2>1. SUFFICES ASSUME T # {} PROVE FALSE
    OBVIOUS
  <2>2. PICK x \in T : \A y \in T : x <= y
    <3>1. T \in SUBSET Nat
      BY <1>0
    <3> HIDE DEF T
    <3> QED BY <2>1, <3>1, Least
  <2>3. x # 0
    BY <1>1, <2>2
  <2>4. PICK y \in 0 .. MaxCount - 1 : x = y + 1
    BY <1>0, <2>2, <2>3
  <2>5. y \notin T /\ y \in 0 .. MaxCount
    BY <1>0, <2>2, <2>4
  <2> QED BY <1>2, <2>2, <2>4, <2>5
<1>4. P(MaxCount)
  <2> HIDE DEF P
  <2> QED BY <1>0, <1>3
<1>5. J(MaxCount) = I
  <2>1. \A j \in I : j < MaxCount
    BY <1>0
  <2> QED BY <2>1
<1>6. PICK n \in Nat : Chain({d} \X I, Top(d, I), n, lk)
  BY <1>4, <1>5
<1>7. Cardinality({d} \X I) = n
  BY <1>6, ChainSize
<1>8. Cardinality({d} \X I) = Cardinality(I)
  <2>1. IsFiniteSet(I) /\ Cardinality(I) \in Nat
    <3>1. IsFiniteSet(0 .. MaxCount - 1)
      BY <1>0, FS_Interval
    <3>2. IsFiniteSet(I)
      BY <3>1, FS_Subset
    <3> QED BY <3>2, FS_CardinalityType
  <2> DEFINE D == {d}
  <2>2. IsFiniteSet(D) /\ Cardinality(D) = 1
    BY FS_Singleton
  <2> HIDE DEF D
  <2>3. Cardinality(D \X I) = Cardinality(D) * Cardinality(I)
    BY <2>1, <2>2, FS_Product, Zenon
  <2>4. Cardinality(D \X I) = Cardinality(I)
    BY <2>1, <2>2, <2>3
  <2> QED BY <2>4 DEF D
<1> QED BY <1>6, <1>7, <1>8

\* A pointer the application stores in an object is in no list of the allocator.
LEMMA SetRefKeeps ==
  ASSUME CoreInv, BlockInv, SetRef
  PROVE  CoreInv' /\ BlockInv'
<1>1. /\ UNCHANGED <<queue, partial, curr, anchor, heap, cache, user, big, pc, desc, old,
                     seg, span, blk, goal, halted>>
      /\ \E b \in Objects, x \in Objects : link' = [link EXCEPT ![b] = x]
  BY DEF SetRef, app, local
<1>2. PICK b \in Objects, x \in Objects : link' = [link EXCEPT ![b] = x]
  BY <1>1
<1>3. TypeOK /\ SparesApart
  BY DEF CoreInv
<1>4. Objects \subseteq Blocks
  <2>1. \A d \in big : <<d, 0>> \in Blocks
    <3>1. 0 \in 0 .. MaxCount - 1
      BY ConstantsAssumption
    <3>2. big \subseteq Sbs
      BY <1>3 DEF TypeOK
    <3> QED BY <3>1, <3>2, AddrTyped
  <2>2. user \subseteq Blocks
    BY <1>3 DEF TypeOK
  <2> QED BY <2>1, <2>2 DEF Objects
<1>5. link' \in [Blocks -> Addrs]
  BY <1>2, <1>3, <1>4, AddrTyped DEF TypeOK
<1>6. \A t \in Threads : Spare(t)' = Spare(t) /\ Carry(t)' = Carry(t)
  BY <1>1 DEF Spare, Carry
<1>7. /\ Elems(queue)' = Elems(queue) /\ Elems(partial)' = Elems(partial)
      /\ NoDup(queue)' = NoDup(queue) /\ NoDup(partial)' = NoDup(partial)
  BY <1>1 DEF Elems, NoDup
<1>8. Used' = Used /\ Outs' = Outs
  BY <1>1, <1>6, <1>7 DEF Used, Outs
<1>9. CoreInv'
  <2>1. TypeOK'
    BY <1>1, <1>3, <1>5 DEF TypeOK
  <2>2. SparesApart'
    BY <1>1, <1>6, <1>7 DEF CoreInv, SparesApart
  <2>3. PartialsApart'
    BY <1>1, <1>6, <1>7, <1>8 DEF CoreInv, PartialsApart
  <2>4. RunsUsed' /\ LocalsOK'
    BY <1>1, <1>8 DEF CoreInv, RunsUsed, LocalsOK, LocalsAt
  <2> QED BY <2>1, <2>2, <2>3, <2>4 DEF CoreInv
<1>10. WholeOK' /\ AnchorsOK' /\ NeverOffTheList'
  BY <1>1, <1>8 DEF BlockInv, WholeOK, WholeAt, Fills, AnchorsOK, AnchorAt, NeverOffTheList
<1>11. PICK own : Tracks(own)
  BY DEF BlockInv
<1>12. own[b] \in {App, Nobody}
  <2>1. CASE b \in user
    BY <1>4, <1>11, <2>1 DEF Tracks
  <2>2. CASE b \notin user
    <3>1. PICK d \in big : b = <<d, 0>>
      BY <2>2 DEF Objects
    <3>2. d \in Sbs /\ d \notin Used
      BY <1>3 DEF TypeOK, Used
    <3>3. heap[b[1]] # "small"
      BY <3>1, <3>2 DEF BlockInv, AnchorsOK, AnchorAt
    <3> QED BY <1>4, <1>11, <3>3 DEF Tracks
  <2> QED BY <2>1, <2>2
<1>13. ASSUME NEW p \in Places, p \notin {App, Nobody}
       PROVE  \A c \in Of(own, p) : link'[c] = link[c]
  BY <1>2, <1>3, <1>12, <1>13 DEF Of, TypeOK
<1>14. ASSUME NEW t \in Threads PROVE CacheTracked(own, t)' /\ RunTracked(own, t)'
  <2>1. cache[t].size \in Nat /\ seg[t].num \in Nat
    BY <1>3, ThreadTyped
  <2>2. /\ \A c \in Of(own, CacheOf(t)) : link'[c] = link[c]
        /\ \A c \in Of(own, RunOf(t)) : link'[c] = link[c]
    BY <1>13, PlacesApart
  <2>3. CacheTracked(own, t) /\ RunTracked(own, t)
    BY <1>11 DEF Tracks
  <2>4. CacheTracked(own, t)'
    BY <1>1, <2>1, <2>2, <2>3, ChainFrame DEF CacheTracked
  <2>5. CASE pc[t] = "flush_cas"
    <3>1. /\ ChainTo(Of(own, RunOf(t)), seg[t].head, seg[t].num, link, seg[t].tail)
          /\ \A c \in Of(own, RunOf(t)) : c[1] = desc[t]
      BY <2>3, <2>5 DEF RunTracked
    <3>2. ChainTo(Of(own, RunOf(t)), seg[t].head, seg[t].num, link', seg[t].tail)
      BY <2>1, <2>2, <3>1, ChainToFrame
    <3> QED BY <1>1, <2>4, <2>5, <3>1, <3>2 DEF RunTracked
  <2>6. CASE pc[t] # "flush_cas"
    BY <1>1, <2>3, <2>4, <2>6 DEF RunTracked
  <2> QED BY <2>5, <2>6
<1>15. ASSUME NEW d \in Sbs PROVE ChainTracked(own, d)'
  <2>1. FreeLen(d)' = FreeLen(d)
    BY <1>1 DEF FreeLen
  <2>2. FreeLen(d) \in Nat
    <3>1. anchor[d] \in Anchors
      BY <1>3 DEF TypeOK
    <3> QED BY <3>1, AnchorTyped, ConstantsAssumption DEF FreeLen
  <2>3. \A c \in Of(own, ChainOf(d)) : link'[c] = link[c]
    BY <1>13, PlacesApart
  <2>4. ChainTracked(own, d)
    BY <1>11 DEF Tracks
  <2> QED BY <1>1, <2>1, <2>2, <2>3, <2>4, ChainFrame DEF ChainTracked
<1>16. Tracks(own)'
  BY <1>1, <1>11, <1>14, <1>15 DEF Tracks
<1> QED BY <1>9, <1>10, <1>16 DEF BlockInv

\* When the process dies, every descriptor in use is still one of a superblock that is not
\* in the queue.
LEMMA CrashStill ==
  ASSUME Crash, Still \/ (CoreInv /\ BlockInv)
  PROVE  Still'
<1>1. /\ cache' = [t \in Threads |-> Fresh] /\ pc' = [t \in Threads |-> "idle"]
      /\ desc' = [t \in Threads |-> NoSb] /\ old' = [t \in Threads |-> Erased]
      /\ seg' = [t \in Threads |-> NoSeg] /\ span' = [t \in Threads |-> NoSpan]
      /\ blk' = [t \in Threads |-> NoBlock] /\ goal' = [t \in Threads |-> "none"]
      /\ halted' = "no"
      /\ UNCHANGED <<queue, partial, curr, anchor, heap, link, user, big>>
  BY DEF Crash, shared, app
<1>2. TypeOK
  BY DEF Still, CoreInv
<1>3. TypeOK'
  <2>1. /\ Fresh \in Caches /\ "idle" \in Labels /\ NoSb \in Sbs \cup {NoSb} /\ Erased \in Anchors
        /\ NoSeg \in Segs /\ NoSpan \in Spans /\ NoBlock \in Addrs /\ "none" \in Goals
    BY CacheTyped, AnchorTyped, SegTyped, AddrTyped DEF Labels, Goals
  <2> QED BY <1>1, <1>2, <2>1 DEF TypeOK
<1>4. CASE Still
  BY <1>1, <1>3, <1>4 DEF Still, NoDup, Elems
<1>5. CASE CoreInv /\ BlockInv
  <2>1. NoDup(queue) /\ Elems(queue) \subseteq 1 .. curr - 1
    BY <1>5 DEF CoreInv, SparesApart
  <2>2. ASSUME NEW d \in Sbs, heap[d] # "none"
        PROVE  d \in 1 .. curr - 1 /\ d \notin Elems(queue)
    <3>1. CASE heap[d] = "small"
      BY <1>5, <3>1 DEF BlockInv, AnchorsOK, AnchorAt, Used
    <3>2. CASE heap[d] = "large"
      <4>1. d \in Outs
        BY <1>5, <3>2 DEF BlockInv, AnchorsOK, AnchorAt
      <4> QED BY <1>5, <4>1 DEF Outs, CoreInv, SparesApart
    <3> QED BY <1>2, <2>2, <3>1, <3>2 DEF TypeOK
  <2>3. ASSUME NEW d \in Sbs, heap[d] = "none"
        PROVE  anchor[d].state \in {"FULL", "ERROR"} /\ anchor[d].count = 0
    <3>1. anchor[d] \in Anchors
      BY <1>2 DEF TypeOK
    <3> QED BY <1>5, <2>3, <3>1, AnchorTyped DEF BlockInv, AnchorsOK, AnchorAt
  <2> QED BY <1>1, <1>3, <2>1, <2>2, <2>3 DEF Still, NoDup, Elems
<1> QED BY <1>4, <1>5

\* Indices of blocks have a greatest one.
LEMMA Greatest ==
  ASSUME NEW J \in SUBSET (0 .. MaxCount - 1), J # {}
  PROVE  \E i \in J : \A j \in J : j <= i
<1> DEFINE K == {k \in 0 .. MaxCount - 1 : \A j \in J : j <= k}
<1>1. K \in SUBSET Nat /\ MaxCount - 1 \in K
  BY ConstantsAssumption
<1>2. PICK k \in K : \A m \in K : k <= m
  <2> HIDE DEF K
  <2> QED BY <1>1, Least
<1>3. k \in J
  <2>1. SUFFICES ASSUME k \notin J PROVE FALSE
    OBVIOUS
  <2>2. \A j \in J : j \in Nat /\ j <= k /\ j # k
    BY <1>2, <2>1
  <2>3. k # 0
    <3>1. PICK j \in J : TRUE
      OBVIOUS
    <3>2. j \in Nat /\ j <= k /\ j # k
      BY <2>2
    <3> QED BY <1>2, <3>2
  <2>4. k - 1 \in 0 .. MaxCount - 1 /\ \A j \in J : j <= k - 1
    BY <1>2, <2>2, <2>3, ConstantsAssumption
  <2>5. k - 1 \in K
    BY <2>4
  <2> QED BY <1>1, <1>2, <2>5
<1> QED BY <1>2, <1>3

\* The blocks the sweep links are of the superblock it is at, and get links to blocks.
LEMMA ChainedTyped ==
  ASSUME TypeOK, NEW d \in Sbs, NEW I \in SUBSET (0 .. MaxCount - 1)
  PROVE  /\ Chained(d, I) \in [Blocks -> Addrs]
         /\ \A b \in Blocks : b[1] # d => Chained(d, I)[b] = link[b]
         /\ \A i \in I : Chained(d, I)[<<d, i>>] = Top(d, {j \in I : j < i})
<1>1. \A J \in SUBSET I : Top(d, J) \in Addrs
  <2> TAKE J \in SUBSET I
  <2>1. CASE J = {}
    BY <2>1, AddrTyped DEF Top
  <2>2. CASE J # {}
    <3>1. J \in SUBSET (0 .. MaxCount - 1)
      OBVIOUS
    <3>2. \E i \in J : \A j \in J : j <= i
      BY <2>2, <3>1, Greatest
    <3>3. (CHOOSE i \in J : \A j \in J : j <= i) \in 0 .. MaxCount - 1
      BY <3>1, <3>2
    <3> QED BY <2>2, <3>3, AddrTyped DEF Top
  <2> QED BY <2>1, <2>2
<1>2. \A i \in I : <<d, i>> \in Blocks /\ <<d, i>>[1] = d /\ <<d, i>>[2] = i
  BY DEF Blocks
<1>3. \A b \in Blocks : Chained(d, I)[b] =
        IF b[1] = d /\ b[2] \in I THEN Top(d, {j \in I : j < b[2]}) ELSE link[b]
  BY DEF Chained, Top
<1>4. \A i \in I : Chained(d, I)[<<d, i>>] = Top(d, {j \in I : j < i})
  BY <1>2, <1>3
<1>5. Chained(d, I) \in [Blocks -> Addrs]
  <2>1. \A b \in Blocks : Chained(d, I)[b] \in Addrs
    <3> TAKE b \in Blocks
    <3>1. {j \in I : j < b[2]} \in SUBSET I /\ link[b] \in Addrs
      BY DEF TypeOK
    <3> QED BY <1>1, <1>3, <3>1
  <2>2. Chained(d, I) = [b \in Blocks |-> Chained(d, I)[b]]
    BY DEF Chained
  <2> QED BY <2>1, <2>2
<1> QED BY <1>3, <1>4, <1>5

\* A step of the sweep at one superblock leaves what it has made of another.
LEMMA SweptStays ==
  ASSUME NEW d \in Sbs, NEW D \in Sbs, D # d, Swept(D), TypeOK, anchor[D].count \in Nat,
         \A c \in Sbs : c # d => anchor'[c] = anchor[c] /\ heap'[c] = heap[c],
         \A b \in Blocks : b[1] # d => link'[b] = link[b],
         marked' = marked, \A c \in Sbs : c # d => (c \in Elems(partial)' <=> c \in Elems(partial))
  PROVE  Swept(D)'
<1>1. /\ anchor'[D] = anchor[D] /\ heap'[D] = heap[D]
      /\ D \in Elems(partial)' <=> D \in Elems(partial)
  OBVIOUS
<1>2. FreeIn(D)' = FreeIn(D) /\ MarksIn(D)' = MarksIn(D)
  BY DEF FreeIn, MarksIn
<1>3. \A b \in FreeIn(D) : link'[b] = link[b]
  BY BlocksInSize DEF FreeIn
<1>4. SweptSmall(D) => SweptSmall(D)'
  <2>1. SUFFICES ASSUME SweptSmall(D) PROVE SweptSmall(D)'
    OBVIOUS
  <2>2. Chain(FreeIn(D), AddrOf(D, anchor[D].avail), anchor[D].count, link')
    BY <1>3, <2>1, ChainFrame DEF SweptSmall
  <2> QED BY <1>1, <1>2, <2>1, <2>2 DEF SweptSmall
<1>5. SweptLarge(D) => SweptLarge(D)'
  BY <1>1, <1>2 DEF SweptLarge
<1> QED BY <1>1, <1>4, <1>5 DEF Swept

\* The sweep erases what is not in use.
LEMMA SweepEmptyKeeps ==
  ASSUME Still, SweepOK, SweepEmpty
  PROVE  Still' /\ SweepOK'
<1>1. TypeOK /\ curr \in 1 .. NSb /\ at \in 1 .. curr /\ at < curr
  BY DEF Still, TypeOK, SweepOK, SweepEmpty, Sweeping
<1>2. at \in Sbs /\ at \in Nat /\ \A d \in 1 .. at : d \in Sbs
  BY <1>1, ConstantsAssumption DEF Sbs
<1>3. /\ anchor' = [anchor EXCEPT ![at] = Erased] /\ heap' = [heap EXCEPT ![at] = "none"]
      /\ at' = at + 1
      /\ UNCHANGED <<queue, partial, curr, link, cache, user, big, pc, desc, old, seg, span,
                     blk, goal, halted, marked>>
  BY DEF SweepEmpty, Erase, app, local
<1>4. TypeOK'
  BY <1>1, <1>2, <1>3, AnchorTyped DEF TypeOK
<1>5. /\ anchor \in [Sbs -> Anchors] /\ heap \in [Sbs -> {"none", "small", "large"}]
      /\ \A c \in Sbs : c # at => anchor'[c] = anchor[c] /\ heap'[c] = heap[c]
      /\ heap'[at] = "none" /\ anchor'[at] = Erased
      /\ Elems(queue)' = Elems(queue) /\ NoDup(queue)' = NoDup(queue)
      /\ Elems(partial)' = Elems(partial) /\ NoDup(partial)' = NoDup(partial)
  BY <1>1, <1>2, <1>3 DEF TypeOK, Elems, NoDup
<1>6. Still'
  BY <1>3, <1>4, <1>5 DEF Still, Erased
<1>7. at \notin Elems(partial)
  BY <1>2 DEF SweepOK
<1>8. ASSUME NEW d \in 1 .. at PROVE Swept(d)'
  <2>1. CASE d = at
    BY <1>5, <1>7, <2>1 DEF Swept
  <2>2. CASE d # at
    <3>1. d \in 1 .. at - 1 /\ d \in Sbs
      BY <1>2, <2>2
    <3>2. Swept(d) /\ anchor[d].count \in Nat
      BY <1>5, <3>1, AnchorTyped DEF SweepOK
    <3> QED BY <1>1, <1>2, <1>3, <1>5, <2>2, <3>1, <3>2, SweptStays
  <2> QED BY <2>1, <2>2
<1>9. at' \in 1 .. curr /\ 1 .. at' - 1 = 1 .. at /\ 1 .. at - 1 \subseteq 1 .. at
  BY <1>1, <1>2, <1>3
<1>10. SweepOK'
  BY <1>3, <1>5, <1>8, <1>9 DEF SweepOK
<1> QED BY <1>6, <1>10

\* The sweep of a class taken for whole objects stays at its superblock.
LEMMA SweepClass0Keeps ==
  ASSUME Still, SweepOK, SweepClass0
  PROVE  Still' /\ SweepOK'
<1>1. TypeOK /\ curr \in 1 .. NSb /\ at \in 1 .. curr /\ at < curr /\ heap[at] = "small"
  BY DEF Still, TypeOK, SweepOK, SweepClass0, Sweeping
<1>2. at \in Sbs /\ at \in Nat /\ \A d \in 1 .. at : d \in Sbs
  BY <1>1, ConstantsAssumption DEF Sbs
<1>3. PICK I \in SUBSET (0 .. MaxCount - 1) : link' = Chained(at, I)
  <2>1. {i \in 0 .. MaxCount - 1 : i \notin MarksIn(at) /\ \E j \in MarksIn(at) : i < j}
          \in SUBSET (0 .. MaxCount - 1)
    OBVIOUS
  <2> QED BY <2>1 DEF SweepClass0
<1>4. /\ anchor' = [anchor EXCEPT ![at] = [avail |-> 0, count |-> 0, state |-> "FULL"]]
      /\ UNCHANGED <<queue, partial, curr, heap, cache, user, big, pc, desc, old, seg, span,
                     blk, goal, halted, marked, at>>
  BY DEF SweepClass0, app, local
<1>5. [avail |-> 0, count |-> 0, state |-> "FULL"] \in Anchors
  BY ConstantsAssumption DEF Anchors
<1>6. link' \in [Blocks -> Addrs] /\ \A b \in Blocks : b[1] # at => link'[b] = link[b]
  BY <1>1, <1>2, <1>3, ChainedTyped
<1>7. TypeOK'
  BY <1>1, <1>2, <1>4, <1>5, <1>6 DEF TypeOK
<1>8. /\ anchor \in [Sbs -> Anchors] /\ heap \in [Sbs -> {"none", "small", "large"}]
      /\ \A c \in Sbs : c # at => anchor'[c] = anchor[c] /\ heap'[c] = heap[c]
      /\ Elems(queue)' = Elems(queue) /\ NoDup(queue)' = NoDup(queue)
      /\ Elems(partial)' = Elems(partial) /\ NoDup(partial)' = NoDup(partial)
  BY <1>1, <1>2, <1>4 DEF TypeOK, Elems, NoDup
<1>9. Still'
  <2>1. \A d \in Sbs : heap[d] = "none" => d # at /\ anchor'[d] = anchor[d]
    BY <1>1, <1>8
  <2> QED BY <1>4, <1>7, <1>8, <2>1 DEF Still
<1>10. ASSUME NEW d \in 1 .. at - 1 PROVE Swept(d)'
  <2>1. d \in Sbs /\ d # at
    BY <1>2
  <2>2. Swept(d) /\ anchor[d].count \in Nat
    BY <1>8, <2>1, AnchorTyped DEF SweepOK
  <2> QED BY <1>1, <1>2, <1>4, <1>6, <1>8, <2>1, <2>2, SweptStays
<1>11. SweepOK'
  BY <1>4, <1>8, <1>10 DEF SweepOK
<1> QED BY <1>9, <1>11

\* The anchor and the list position the sweep gives a superblock that is in use.
LEMMA SweepUsedMakes ==
  ASSUME Still, SweepOK, SweepUsed, NEW d, d = at
  PROVE  /\ at \in Sbs /\ FreeIdxs \in SUBSET (0 .. MaxCount - 1)
         /\ anchor'[at] \in Anchors /\ anchor' = [anchor EXCEPT ![at] = anchor'[at]]
         /\ NoDup(partial)' /\ partial' \in Seq(Sbs)
         /\ \A c \in Sbs : c # at => (c \in Elems(partial)' <=> c \in Elems(partial))
         /\ Elems(partial)' \subseteq 1 .. at
         /\ link' = Chained(at, FreeIdxs) /\ at' = at + 1
         /\ UNCHANGED <<queue, curr, heap, cache, user, big, pc, desc, old, seg, span,
                        blk, goal, halted, marked>>
         /\ Swept(d)'
<1>1. /\ TypeOK /\ curr \in 1 .. NSb /\ at \in 1 .. curr /\ at < curr
      /\ heap[at] # "none" /\ MarksIn(at) # {}
  BY DEF Still, TypeOK, SweepOK, SweepUsed, Sweeping, InUse
<1>2. at \in Sbs /\ at \in Nat /\ \A c \in 1 .. at : c \in Sbs
  BY <1>1, ConstantsAssumption DEF Sbs
<1>3. /\ partial \in Seq(Sbs) /\ heap \in [Sbs -> {"none", "small", "large"}]
      /\ anchor \in [Sbs -> Anchors]
  BY <1>1 DEF TypeOK
<1>4. FreeIdxs \in SUBSET (0 .. MaxCount - 1) /\ (heap[at] = "large" => FreeIdxs = {0})
  BY ConstantsAssumption DEF FreeIdxs
<1>5. /\ IsFiniteSet(FreeIdxs) /\ Cardinality(FreeIdxs) \in Nat
      /\ Cardinality(FreeIdxs) <= MaxCount - 1 /\ (Cardinality(FreeIdxs) = 0 <=> FreeIdxs = {})
  <2>1. IsFiniteSet(0 .. MaxCount - 1) /\ Cardinality(0 .. MaxCount - 1) = MaxCount
    BY ConstantsAssumption, FS_Interval
  <2>2. FreeIdxs # 0 .. MaxCount - 1
    <3>1. CASE heap[at] = "large"
      <4>1. 1 \in 0 .. MaxCount - 1 /\ 1 \notin {0}
        BY ConstantsAssumption
      <4> QED BY <1>4, <3>1, <4>1
    <3>2. CASE heap[at] # "large"
      <4>1. PICK i \in MarksIn(at) : TRUE
        BY <1>1
      <4>2. i \in 0 .. MaxCount - 1
        BY DEF MarksIn
      <4>3. i \notin FreeIdxs
        BY <3>2, <4>1 DEF FreeIdxs
      <4> QED BY <4>2, <4>3
    <3> QED BY <3>1, <3>2
  <2>3. /\ IsFiniteSet(FreeIdxs) /\ Cardinality(FreeIdxs) <= MaxCount
        /\ Cardinality(FreeIdxs) # MaxCount
    BY <1>4, <2>1, <2>2, FS_Subset
  <2>4. Cardinality(FreeIdxs) \in Nat
    BY <2>3, FS_CardinalityType
  <2>5. Cardinality(FreeIdxs) <= MaxCount - 1
    BY <2>3, <2>4, ConstantsAssumption
  <2> QED BY <2>3, <2>4, <2>5, FS_EmptySet
<1>6. /\ link' = Chained(at, FreeIdxs) /\ at' = at + 1
      /\ UNCHANGED <<queue, curr, heap, cache, user, big, pc, desc, old, seg, span,
                     blk, goal, halted, marked>>
  BY DEF SweepUsed, app, local
<1>7. at \notin Elems(partial) /\ NoDup(partial) /\ Elems(partial) \subseteq 1 .. at
  BY <1>2 DEF SweepOK
<1>8. heap'[at] = "small" =>
        /\ FreeIn(d)' = {at} \X FreeIdxs
        /\ Chain(FreeIn(d)', Top(at, FreeIdxs), Cardinality(FreeIdxs), link')
  <2>1. SUFFICES ASSUME heap[at] = "small"
                 PROVE  /\ FreeIn(d)' = {at} \X FreeIdxs
                        /\ Chain(FreeIn(d)', Top(at, FreeIdxs), Cardinality(FreeIdxs), link')
    BY <1>6
  <2>2. Chain({at} \X FreeIdxs, Top(at, FreeIdxs), Cardinality(FreeIdxs), link')
    BY <1>1, <1>2, <1>4, <1>6, ChainedTyped, ChainedDown
  <2>3. FreeIdxs = {i \in 0 .. MaxCount - 1 : <<at, i>> \notin marked}
    BY <2>1 DEF FreeIdxs, MarksIn
  <2>4. FreeIn(d)' = {b \in BlocksIn(at) : b \notin marked}
    BY <1>6 DEF FreeIn, BlocksIn
  <2>5. {at} \X FreeIdxs = {b \in BlocksIn(at) : b \notin marked}
    BY <2>3 DEF BlocksIn
  <2> QED BY <2>2, <2>4, <2>5
<1>9. CASE FreeIdxs = {}
  <2>1. anchor' = [anchor EXCEPT ![at] = AllTaken] /\ partial' = partial
    BY <1>9 DEF SweepUsed
  <2>2. anchor'[at] = AllTaken
    BY <1>2, <1>3, <2>1
  <2>3. Elems(partial)' = Elems(partial) /\ NoDup(partial)'
    BY <1>7, <2>1 DEF Elems, NoDup
  <2>4. heap'[at] = "small"
    BY <1>1, <1>2, <1>3, <1>4, <1>6, <1>9
  <2>5. Chain(FreeIn(d)', AddrOf(at, anchor'[at].avail), anchor'[at].count, link')
    <3>1. FreeIn(d)' = {}
      BY <1>8, <1>9, <2>4
    <3> QED BY <2>2, <3>1, ChainEmpty DEF AllTaken
  <2>6. SweptSmall(d)'
    BY <1>7, <2>2, <2>3, <2>5 DEF SweptSmall, AllTaken
  <2>7. Swept(d)'
    BY <1>7, <2>3, <2>4, <2>6 DEF Swept
  <2> QED BY <1>2, <1>3, <1>4, <1>6, <1>7, <2>1, <2>2, <2>3, <2>7, AnchorTyped
<1>10. CASE FreeIdxs # {}
  <2>1. PICK i \in FreeIdxs : i = CHOOSE k \in FreeIdxs : \A j \in FreeIdxs : j <= k
    BY <1>4, <1>10, Greatest
  <2>2. PICK n \in 1 .. MaxCount - 1 : n = Cardinality(FreeIdxs)
    BY <1>5, <1>10, ConstantsAssumption
  <2>3. /\ anchor' = [anchor EXCEPT ![at] = [avail |-> i, count |-> n, state |-> "PARTIAL"]]
        /\ partial' = IF heap[at] = "small" THEN <<at>> \o partial ELSE partial
    BY <1>10, <2>1, <2>2 DEF SweepUsed
  <2>4. /\ anchor'[at] = [avail |-> i, count |-> n, state |-> "PARTIAL"]
        /\ anchor'[at].avail = i /\ anchor'[at].count = n /\ anchor'[at].state = "PARTIAL"
    BY <1>2, <1>3, <2>3
  <2>5. anchor'[at] \in Anchors
    <3>1. i \in 0 .. MaxCount - 1
      BY <1>4, <2>1
    <3>2. i \in Nat /\ n \in Nat
      BY <3>1, ConstantsAssumption
    <3>3. [avail |-> i, count |-> n, state |-> "PARTIAL"] \in Anchors
      BY <3>2, AnchorTyped
    <3> QED BY <2>4, <3>3, Zenon
  <2>6. CASE heap[at] = "small"
    <3>1. partial' = <<at>> \o partial
      BY <2>3, <2>6
    <3>2. /\ <<at>> \o partial \in Seq(Sbs) /\ NoDup(<<at>> \o partial)
          /\ Elems(<<at>> \o partial) = Elems(partial) \cup {at}
      BY <1>2, <1>3, <1>7, ConsNoDup
    <3>3. partial' \in Seq(Sbs) /\ NoDup(partial)' /\ Elems(partial)' = Elems(partial) \cup {at}
      BY <3>1, <3>2 DEF NoDup, Elems
    <3>4. Top(at, FreeIdxs) = AddrOf(at, i)
      <4>0. i \in 0 .. MaxCount - 1
        BY <1>4, <2>1
      <4>1. i < MaxCount
        BY <4>0, ConstantsAssumption
      <4> QED BY <1>10, <2>1, <4>1 DEF Top, AddrOf
    <3>5. Chain(FreeIn(d)', AddrOf(at, anchor'[at].avail), anchor'[at].count, link')
      BY <1>6, <1>8, <2>2, <2>4, <2>6, <3>4
    <3>6. SweptSmall(d)'
      BY <2>2, <2>4, <3>3, <3>5 DEF SweptSmall
    <3>7. Swept(d)'
      BY <1>6, <2>6, <3>6 DEF Swept
    <3>8. Elems(partial)' \subseteq 1 .. at
      BY <1>1, <1>2, <1>7, <3>3
    <3> QED BY <1>2, <1>4, <1>6, <2>3, <2>4, <2>5, <3>3, <3>7, <3>8
  <2>7. CASE heap[at] # "small"
    <3>1. partial' = partial /\ heap'[at] = "large"
      BY <1>1, <1>2, <1>3, <1>6, <2>3, <2>7
    <3>2. Elems(partial)' = Elems(partial) /\ NoDup(partial)'
      BY <1>7, <3>1 DEF Elems, NoDup
    <3>3. MarksIn(d)' # {}
      BY <1>1, <1>6 DEF MarksIn
    <3>4. SweptLarge(d)'
      BY <2>2, <2>4, <3>3 DEF SweptLarge
    <3>5. Swept(d)'
      BY <1>7, <3>1, <3>2, <3>4 DEF Swept
    <3> QED BY <1>2, <1>3, <1>4, <1>6, <1>7, <2>3, <2>4, <2>5, <3>1, <3>2, <3>5
  <2> QED BY <2>6, <2>7
<1> QED BY <1>9, <1>10

\* The sweep of a superblock in use.
LEMMA SweepUsedKeeps ==
  ASSUME Still, SweepOK, SweepUsed
  PROVE  Still' /\ SweepOK'
<1>1. TypeOK /\ curr \in 1 .. NSb /\ at \in 1 .. curr /\ at < curr /\ heap[at] # "none"
  BY DEF Still, TypeOK, SweepOK, SweepUsed, Sweeping, InUse
<1>2. at \in Sbs /\ at \in Nat /\ \A d \in 1 .. at : d \in Sbs
  BY <1>1, ConstantsAssumption DEF Sbs
<1>a. PICK c : c = at
  OBVIOUS
<1>3. /\ anchor'[at] \in Anchors /\ anchor' = [anchor EXCEPT ![at] = anchor'[at]]
      /\ NoDup(partial)' /\ partial' \in Seq(Sbs)
      /\ \A e \in Sbs : e # at => (e \in Elems(partial)' <=> e \in Elems(partial))
      /\ Elems(partial)' \subseteq 1 .. at
      /\ link' = Chained(at, FreeIdxs) /\ at' = at + 1
      /\ UNCHANGED <<queue, curr, heap, cache, user, big, pc, desc, old, seg, span,
                     blk, goal, halted, marked>>
      /\ Swept(c)' /\ FreeIdxs \in SUBSET (0 .. MaxCount - 1)
  BY <1>a, SweepUsedMakes
<1>4. link' \in [Blocks -> Addrs] /\ \A b \in Blocks : b[1] # at => link'[b] = link[b]
  BY <1>1, <1>2, <1>3, ChainedTyped
<1>5. /\ anchor \in [Sbs -> Anchors] /\ heap \in [Sbs -> {"none", "small", "large"}]
      /\ \A e \in Sbs : e # at => anchor'[e] = anchor[e] /\ heap'[e] = heap[e]
      /\ Elems(queue)' = Elems(queue) /\ NoDup(queue)' = NoDup(queue)
  <2>1. anchor \in [Sbs -> Anchors] /\ heap \in [Sbs -> {"none", "small", "large"}]
    BY <1>1 DEF TypeOK
  <2>2. queue' = queue /\ heap' = heap
    BY <1>3
  <2>3. \A e \in Sbs : e # at => anchor'[e] = anchor[e]
    BY <1>3, <2>1
  <2>4. Elems(queue)' = Elems(queue) /\ NoDup(queue)' = NoDup(queue)
    BY <2>2 DEF Elems, NoDup
  <2> QED BY <2>1, <2>2, <2>3, <2>4
<1>6. anchor' \in [Sbs -> Anchors]
  BY <1>3, <1>5
<1>7. TypeOK'
  BY <1>1, <1>3, <1>4, <1>6 DEF TypeOK
<1>8. Still'
  <2>1. \A d \in Sbs : heap[d] = "none" => d # at /\ anchor'[d] = anchor[d]
    BY <1>1, <1>5
  <2> QED BY <1>3, <1>5, <1>7, <2>1 DEF Still
<1>9. ASSUME NEW d \in 1 .. at PROVE Swept(d)'
  <2>1. CASE d = at
    BY <1>3, <1>a, <2>1
  <2>2. CASE d # at
    <3>1. d \in 1 .. at - 1 /\ d \in Sbs
      BY <1>2, <2>2
    <3>2. Swept(d) /\ anchor[d].count \in Nat
      BY <1>5, <3>1, AnchorTyped DEF SweepOK
    <3> QED BY <1>1, <1>2, <1>3, <1>4, <1>5, <2>2, <3>1, <3>2, SweptStays
  <2> QED BY <2>1, <2>2
<1>10. at' \in 1 .. curr /\ 1 .. at' - 1 = 1 .. at
  BY <1>1, <1>2, <1>3
<1>11. SweepOK'
  BY <1>3, <1>9, <1>10 DEF SweepOK
<1> QED BY <1>8, <1>11

\* When the sweep is done, what it has rebuilt is a heap in use: the marked blocks of the
\* class are the application's, the others are in the free chains.
LEMMA FinishMakes ==
  ASSUME Whole, Still, SweepOK, Finish
  PROVE  CoreInv' /\ BlockInv'
<1>1. /\ TypeOK /\ curr \in 1 .. NSb /\ at = curr /\ partial \in Seq(Sbs)
      /\ anchor \in [Sbs -> Anchors] /\ heap \in [Sbs -> {"none", "small", "large"}]
  BY DEF Still, TypeOK, Finish
<1>2. /\ user' = {b \in marked : heap[b[1]] = "small"}
      /\ big' = {d \in Sbs : heap[d] = "large" /\ MarksIn(d) # {}}
      /\ UNCHANGED <<queue, partial, curr, anchor, heap, link, cache, pc, desc, old, seg, span,
                     blk, goal, halted>>
  BY DEF Finish, shared, local
<1>3. \A d \in Sbs : heap[d] # "none" =>
        d \in 1 .. curr - 1 /\ d \notin Elems(queue) /\ Swept(d)
  BY <1>1 DEF Still, SweepOK
<1>4. /\ \A d \in Sbs : heap[d] = "small" => SweptSmall(d)
      /\ \A d \in Sbs : heap[d] = "large" => SweptLarge(d)
      /\ \A d \in Elems(partial) : d \in Sbs /\ heap[d] = "small"
  <2>1. \A d \in Elems(partial) : d \in Sbs /\ d \in 1 .. curr - 1
    BY <1>1 DEF Elems, SweepOK
  <2> QED BY <1>1, <1>3, <2>1 DEF Swept, SweepOK
<1>5. big' = {d \in Sbs : heap[d] = "large"}
  BY <1>2, <1>4 DEF SweptLarge
<1>6. TypeOK'
  BY <1>1, <1>2 DEF TypeOK, SweepOK
<1>7. /\ \A t \in Threads : Spare(t)' = {} /\ Carry(t)' = {}
      /\ \A t \in Threads : pc'[t] = "idle" /\ cache'[t] = Fresh /\ blk'[t] = NoBlock
      /\ halted' = "no"
  BY <1>2 DEF Still, Spare, Carry
<1>8. /\ Elems(queue)' = Elems(queue) /\ Elems(partial)' = Elems(partial)
      /\ NoDup(queue)' /\ NoDup(partial)'
      /\ Elems(queue) \subseteq 1 .. curr - 1
  BY <1>2 DEF Elems, NoDup, Still, SweepOK
<1>9. \A d \in Sbs : heap[d] = "small" => d \in Used'
  BY <1>2, <1>3, <1>5, <1>7, <1>8 DEF Used
<1>10. CoreInv'
  <2>1. SparesApart'
    BY <1>2, <1>3, <1>5, <1>7, <1>8 DEF SparesApart
  <2>2. RunsUsed' /\ LocalsOK'
    BY <1>7 DEF RunsUsed, LocalsOK, LocalsAt
  <2>3. PartialsApart'
    BY <1>2, <1>4, <1>7, <1>8, <1>9 DEF PartialsApart, SweptSmall
  <2> QED BY <1>6, <2>1, <2>2, <2>3 DEF CoreInv
<1>11. WholeOK'
  BY <1>7 DEF WholeOK, WholeAt, Fills, Fresh, Cached, Whole
<1>12. AnchorsOK'
  <2>1. ASSUME NEW d \in Sbs PROVE AnchorAt(d)'
    <3>1. CASE heap[d] = "small"
      BY <1>2, <1>4, <1>9, <3>1 DEF AnchorAt, SweptSmall
    <3>2. CASE heap[d] = "large"
      BY <1>2, <1>4, <1>5, <3>2 DEF AnchorAt, SweptLarge, Outs
    <3>3. CASE heap[d] = "none"
      BY <1>2, <3>3 DEF AnchorAt, Still
    <3> QED BY <1>1, <3>1, <3>2, <3>3
  <2> QED BY <2>1 DEF AnchorsOK
<1>13. NeverOffTheList'
  BY <1>7 DEF NeverOffTheList
<1>14. PICK own : own = [b \in Blocks |-> IF heap[b[1]] # "small" THEN Nobody
                                         ELSE IF b \in marked THEN App ELSE ChainOf(b[1])]
  OBVIOUS
<1>15. /\ \A b \in Blocks : own[b] = IF heap[b[1]] # "small" THEN Nobody
                                     ELSE IF b \in marked THEN App ELSE ChainOf(b[1])
       /\ \A b \in Blocks : b[1] \in Sbs
       /\ marked \subseteq Blocks
  BY <1>14, AddrTyped DEF SweepOK
<1>16. own \in [Blocks -> Places]
  BY <1>14, <1>15, PlacesApart
<1>17. /\ \A b \in Blocks : own[b] = Nobody <=> heap'[b[1]] # "small"
       /\ \A b \in Blocks : own[b] = App <=> b \in user'
  BY <1>2, <1>15, PlacesApart
<1>18. \A t \in Threads, b \in Blocks : own[b] = HandOf(t) <=> blk'[t] = b
  BY <1>7, <1>15, PlacesApart, AddrTyped
<1>19. ASSUME NEW t \in Threads PROVE CacheTracked(own, t)' /\ RunTracked(own, t)'
  <2>1. Of(own, CacheOf(t)) = {} /\ Of(own, RunOf(t)) = {}
    BY <1>15, PlacesApart DEF Of
  <2>2. cache'[t].size = 0
    BY <1>7 DEF Fresh, Cached
  <2>3. CacheTracked(own, t)'
    BY <2>1, <2>2, ChainEmpty DEF CacheTracked
  <2> QED BY <1>7, <2>1, <2>3 DEF RunTracked
<1>20. ASSUME NEW d \in Sbs PROVE ChainTracked(own, d)'
  <2>1. CASE heap[d] = "small"
    <3>1. Of(own, ChainOf(d)) = FreeIn(d)
      <4>1. \A b \in Blocks : own[b] = ChainOf(d) <=> b[1] = d /\ b \notin marked
        BY <1>15, <2>1, PlacesApart
      <4> QED BY <4>1, BlocksInSize DEF Of, FreeIn
    <3>2. FreeLen(d)' = anchor[d].count
      BY <1>2, <1>4, <2>1 DEF FreeLen, SweptSmall
    <3>3. Chain(FreeIn(d), AddrOf(d, anchor[d].avail), anchor[d].count, link)
      BY <1>4, <2>1 DEF SweptSmall
    <3>4. \A b \in FreeIn(d) : b[1] = d
      BY BlocksInSize DEF FreeIn
    <3> QED BY <1>2, <3>1, <3>2, <3>3, <3>4 DEF ChainTracked
  <2>2. CASE heap[d] # "small"
    <3>1. Of(own, ChainOf(d)) = {}
      BY <1>15, <2>2, PlacesApart DEF Of
    <3>2. FreeLen(d)' = 0
      BY <1>2, <2>2 DEF FreeLen
    <3> QED BY <3>1, <3>2, ChainEmpty DEF ChainTracked
  <2> QED BY <2>1, <2>2
<1>21. Tracks(own)'
  BY <1>16, <1>17, <1>18, <1>19, <1>20 DEF Tracks
<1> QED BY <1>10, <1>11, <1>12, <1>13, <1>21 DEF BlockInv

\* A collection starts with the partial list emptied.
LEMMA RestartSweep ==
  ASSUME Still, Restart, IsDirty
  PROVE  mode' = "gc" => Still' /\ SweepOK'
<1>1. SUFFICES ASSUME mode' = "gc" PROVE Still' /\ SweepOK'
  OBVIOUS
<1>2. /\ marked' = Reached /\ at' = 1 /\ partial' = <<>>
      /\ UNCHANGED <<queue, curr, anchor, heap, link, cache, user, big, pc, desc, old, seg, span,
                     blk, goal, halted>>
  BY DEF Restart, app, local
<1>3. TypeOK /\ curr \in 1 .. NSb
  BY DEF Still, TypeOK
<1>4. TypeOK'
  <2>1. partial' \in Seq(Sbs)
    BY <1>2
  <2> QED BY <1>2, <1>3, <2>1 DEF TypeOK
<1>5. Still'
  BY <1>2, <1>4 DEF Still, Elems, NoDup
<1>6. NoDup(partial)' /\ Elems(partial)' = {}
  BY <1>2 DEF NoDup, Elems
<1>7. at' \in 1 .. curr' /\ 1 .. at' - 1 = {}
  BY <1>2, <1>3
<1>8. marked' \subseteq Blocks
  BY <1>2, ReachedClosed
<1>9. SweepOK'
  BY <1>6, <1>7, <1>8 DEF SweepOK
<1> QED BY <1>5, <1>9

\* The invariant holds in a new heap,
LEMMA RecInit == Whole /\ RInit => RecInv
  BY InitCore, InitBlocks DEF RInit, RecInv, LockOK

\* and every step keeps it, wherever the process dies.
LEMMA RecNext == Whole /\ RecInv /\ [RNext]_allvars => RecInv'
<1> SUFFICES ASSUME Whole, RecInv, [RNext]_allvars PROVE RecInv'
  OBVIOUS
<1>1. CASE UNCHANGED vars /\ mode' = mode /\ lock' = lock /\ UNCHANGED <<marked, at>>
  <2>1. UNCHANGED <<queue, partial, curr, anchor, heap, link, cache, user, big, pc,
                    desc, old, seg, span, blk, goal, halted>>
    BY <1>1 DEF vars, shared, app, local
  <2>2. LockOK'
    BY <1>1 DEF RecInv, LockOK
  <2>3. mode \in {"up", "closed"} => CoreInv' /\ BlockInv'
    BY <1>1, HeapBoth DEF RecInv
  <2>4. TypeOK => TypeOK'
    BY <2>1 DEF TypeOK
  <2>5. Still => Still'
    BY <2>1, <2>4 DEF Still, NoDup, Elems
  <2>6. ASSUME NEW d PROVE Swept(d) => Swept(d)'
    BY <1>1, <2>1 DEF Swept, SweptSmall, SweptLarge, FreeIn, MarksIn, Elems
  <2>7. SweepOK => SweepOK'
    BY <1>1, <2>1, <2>6 DEF SweepOK, NoDup, Elems
  <2> QED BY <1>1, <2>2, <2>3, <2>5, <2>7 DEF RecInv
<1>2. CASE HeapStep
  <2>1. mode = "up" /\ mode' = "up" /\ lock' = lock /\ Next
    BY <1>2 DEF HeapStep, rvars, gc
  <2>2. CoreInv' /\ BlockInv'
    BY <2>1, HeapBoth DEF RecInv
  <2> QED BY <2>1, <2>2 DEF RecInv, LockOK
<1>3. CASE SetRef
  <2>1. mode = "up" /\ mode' = "up" /\ lock' = lock
    BY <1>3 DEF SetRef, Outside, rvars, gc
  <2>2. CoreInv' /\ BlockInv'
    BY <1>3, <2>1, SetRefKeeps DEF RecInv
  <2> QED BY <2>1, <2>2 DEF RecInv, LockOK
<1>4. CASE SetRoot \/ UNCHANGED allvars
  BY <1>1, <1>4 DEF SetRoot, allvars, rvars, gc
<1>5. CASE Close
  <2>1. mode = "up" /\ mode' = "closed" /\ lock' = "free" /\ UNCHANGED vars
    BY <1>5 DEF Close
  <2>2. CoreInv' /\ BlockInv'
    BY <2>1, HeapBoth DEF RecInv
  <2> QED BY <2>1, <2>2 DEF RecInv, LockOK
<1>6. CASE Crash
  <2>1. mode \in {"up", "gc"} /\ mode' = "down" /\ lock' = "dead"
    BY <1>6 DEF Crash, RecInv, LockOK
  <2>2. Still'
    BY <1>6, <2>1, CrashStill DEF RecInv
  <2> QED BY <2>1, <2>2 DEF RecInv, LockOK
<1>7. CASE Restart
  <2>1. CASE mode = "closed"
    <3>1. lock' = "held" /\ mode' = "up" /\ UNCHANGED vars
      BY <1>7, <2>1 DEF Restart, IsDirty, RecInv, LockOK, vars
    <3>2. CoreInv' /\ BlockInv'
      BY <2>1, <3>1, HeapBoth DEF RecInv
    <3> QED BY <3>1, <3>2 DEF RecInv, LockOK
  <2>2. CASE mode = "down"
    <3>1. lock' = "held" /\ mode' = "gc" /\ IsDirty
      BY <1>7, <2>2 DEF Restart, IsDirty, RecInv, LockOK
    <3>2. Still' /\ SweepOK'
      BY <1>7, <2>2, <3>1, RestartSweep DEF RecInv
    <3> QED BY <3>1, <3>2 DEF RecInv, LockOK
  <2> QED BY <1>7, <2>1, <2>2 DEF Restart
<1>8. CASE SweepEmpty \/ SweepClass0 \/ SweepUsed
  <2>1. mode = "gc" /\ mode' = "gc" /\ lock' = lock
    BY <1>8 DEF SweepEmpty, SweepClass0, SweepUsed, Sweeping
  <2>2. Still' /\ SweepOK'
    BY <1>8, <2>1, SweepEmptyKeeps, SweepClass0Keeps, SweepUsedKeeps DEF RecInv
  <2> QED BY <2>1, <2>2 DEF RecInv, LockOK
<1>9. CASE Finish
  <2>1. mode = "gc" /\ mode' = "up" /\ lock' = lock
    BY <1>9 DEF Finish
  <2>2. CoreInv' /\ BlockInv'
    BY <1>9, <2>1, FinishMakes DEF RecInv
  <2> QED BY <2>1, <2>2 DEF RecInv, LockOK
<1> QED BY <1>2, <1>3, <1>4, <1>5, <1>6, <1>7, <1>8, <1>9 DEF RNext, Recover

\* The invariant of crashes and recoveries.
LEMMA RecAlways == Whole /\ RSpec => []RecInv
<1>1. Whole => Whole'
  BY DEF Whole
<1> QED BY <1>1, RecInit, RecNext, PTL DEF RSpec

\* After a crash at any step, also in the middle of a collection, no superblock is in two
\* places: the free queue that BXP_recover leaves as it is never has one of those that the
\* sweep keeps, puts on the partial list or gives back to the application.
THEOREM OwnedAgain == Whole /\ RSpec => []OwnedOnceAgain
<1>1. RecInv => OwnedOnceAgain
  BY InvOwnedOnce DEF RecInv, OwnedOnceAgain
<1> QED BY <1>1, RecAlways, PTL

\* And every block of the class is again with exactly one of the application, the caches and
\* the free chains that the sweep has rebuilt, whatever the application linked and wherever
\* the process died.
THEOREM DividedAgain == Whole /\ RSpec => []OneOwnerAgain
<1>1. RecInv => OneOwnerAgain
  BY BlockInvGives DEF RecInv, OneOwnerAgain
<1> QED BY <1>1, RecAlways, PTL
=============================================================================
