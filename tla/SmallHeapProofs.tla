-------------------------- MODULE SmallHeapProofs --------------------------
(***************************************************************************)
(* Proofs about SmallHeap, for any number of threads, superblocks and      *)
(* blocks, any cache bound and any queue capacity.                         *)
(***************************************************************************)
EXTENDS SmallHeap, Chains

-----------------------------------------------------------------------------
(* Sequences without duplicates *)

\* Popping the head of a list without duplicates removes exactly that element.
LEMMA TailNoDup ==
  ASSUME NEW S, NEW s \in Seq(S), s # <<>>, NoDup(s)
  PROVE  /\ Tail(s) \in Seq(S) /\ Head(s) \in S
         /\ NoDup(Tail(s))
         /\ Head(s) \in Elems(s)
         /\ Elems(Tail(s)) = Elems(s) \ {Head(s)}
<1>1. Len(s) \in Nat /\ Len(s) >= 1 /\ Head(s) = s[1] /\ Head(s) \in S
  OBVIOUS
<1>2. /\ Tail(s) \in Seq(S) /\ Len(Tail(s)) = Len(s) - 1
      /\ \A i \in 1 .. Len(s) - 1 : Tail(s)[i] = s[i + 1]
  OBVIOUS
<1>3. NoDup(Tail(s))
  BY <1>1, <1>2 DEF NoDup
<1>4. Head(s) \in Elems(s)
  BY <1>1 DEF Elems
<1>5. Elems(Tail(s)) = Elems(s) \ {Head(s)}
  <2>1. ASSUME NEW x \in Elems(Tail(s)) PROVE x \in Elems(s) \ {Head(s)}
    <3>1. PICK i \in 1 .. Len(s) - 1 : x = s[i + 1]
      BY <1>1, <1>2 DEF Elems
    <3> QED BY <1>1, <3>1 DEF Elems, NoDup
  <2>2. ASSUME NEW x \in Elems(s) \ {Head(s)} PROVE x \in Elems(Tail(s))
    <3>1. PICK i \in 1 .. Len(s) : x = s[i]
      BY DEF Elems
    <3>2. i # 1 /\ i - 1 \in 1 .. Len(Tail(s)) /\ Tail(s)[i - 1] = x
      BY <1>1, <1>2, <3>1
    <3> QED BY <3>2 DEF Elems
  <2> QED BY <2>1, <2>2
<1> QED BY <1>1, <1>2, <1>3, <1>4, <1>5

\* Appending a new element keeps a queue free of duplicates.
LEMMA AppendNoDup ==
  ASSUME NEW S, NEW s \in Seq(S), NEW d \in S, NoDup(s), d \notin Elems(s)
  PROVE  /\ Append(s, d) \in Seq(S)
         /\ NoDup(Append(s, d))
         /\ Elems(Append(s, d)) = Elems(s) \cup {d}
<1>1. /\ Append(s, d) \in Seq(S) /\ Len(Append(s, d)) = Len(s) + 1
      /\ \A i \in 1 .. Len(s) : Append(s, d)[i] = s[i]
      /\ Append(s, d)[Len(s) + 1] = d /\ Len(s) \in Nat
  OBVIOUS
<1>2. \A i \in 1 .. Len(s) + 1 : i \in 1 .. Len(s) \/ i = Len(s) + 1
  BY <1>1
<1>3. NoDup(Append(s, d))
  BY <1>1, <1>2 DEF NoDup, Elems
<1>4. Elems(Append(s, d)) = Elems(s) \cup {d}
  <2>1. Elems(Append(s, d)) \subseteq Elems(s) \cup {d}
    BY <1>1, <1>2 DEF Elems
  <2>2. ASSUME NEW x \in Elems(s) \cup {d} PROVE x \in Elems(Append(s, d))
    <3>1. CASE x = d
      BY <1>1, <3>1 DEF Elems
    <3>2. CASE x \in Elems(s)
      <4>1. PICK i \in 1 .. Len(s) : x = s[i]
        BY <3>2 DEF Elems
      <4> QED BY <1>1, <4>1 DEF Elems
    <3> QED BY <3>1, <3>2
  <2> QED BY <2>1, <2>2
<1> QED BY <1>1, <1>3, <1>4

\* So does pushing one on a stack.
LEMMA ConsNoDup ==
  ASSUME NEW S, NEW s \in Seq(S), NEW d \in S, NoDup(s), d \notin Elems(s)
  PROVE  /\ <<d>> \o s \in Seq(S)
         /\ NoDup(<<d>> \o s)
         /\ Elems(<<d>> \o s) = Elems(s) \cup {d}
<1> DEFINE c == <<d>> \o s
<1>1. /\ c \in Seq(S) /\ Len(c) = Len(s) + 1 /\ Len(s) \in Nat
      /\ c[1] = d /\ \A i \in 2 .. Len(s) + 1 : c[i] = s[i - 1]
  OBVIOUS
<1> HIDE DEF c
<1>2. NoDup(c)
  <2> SUFFICES ASSUME NEW i \in 1 .. Len(c), NEW j \in 1 .. Len(c), c[i] = c[j]
               PROVE  i = j
    BY DEF NoDup
  <2>1. \A k \in 2 .. Len(c) : k - 1 \in 1 .. Len(s) /\ c[k] = s[k - 1] /\ c[k] # d
    BY <1>1 DEF Elems
  <2>2. CASE i = 1 \/ j = 1
    BY <1>1, <2>1, <2>2
  <2>3. CASE i # 1 /\ j # 1
    <3>1. i \in 2 .. Len(c) /\ j \in 2 .. Len(c)
      BY <1>1, <2>3
    <3>2. i - 1 \in 1 .. Len(s) /\ j - 1 \in 1 .. Len(s) /\ s[i - 1] = s[j - 1]
      BY <2>1, <3>1
    <3>3. i - 1 = j - 1
      BY <3>2 DEF NoDup
    <3> QED BY <3>1, <3>3
  <2> QED BY <2>2, <2>3
<1>3. Elems(c) = Elems(s) \cup {d}
  <2>1. ASSUME NEW x \in Elems(c) PROVE x \in Elems(s) \cup {d}
    <3>1. PICK i \in 1 .. Len(c) : x = c[i]
      BY DEF Elems
    <3>2. i = 1 \/ (i - 1 \in 1 .. Len(s) /\ x = s[i - 1])
      BY <1>1, <3>1
    <3> QED BY <1>1, <3>1, <3>2 DEF Elems
  <2>2. ASSUME NEW x \in Elems(s) PROVE x \in Elems(c)
    <3>1. PICK i \in 1 .. Len(s) : x = s[i]
      BY DEF Elems
    <3>2. i + 1 \in 1 .. Len(c) /\ c[i + 1] = x
      BY <1>1, <3>1
    <3> QED BY <3>2 DEF Elems
  <2>3. d \in Elems(c)
    BY <1>1 DEF Elems
  <2> QED BY <2>1, <2>2, <2>3
<1> QED BY <1>1, <1>2, <1>3 DEF c
-----------------------------------------------------------------------------
(* Types *)

\* Addresses: a block is a superblock and an index, and nothing else is one.
LEMMA AddrTyped ==
  /\ NoBlock \in Addrs /\ NoBlock \notin Blocks /\ NoSb \notin Sbs
  /\ \A b \in Blocks : b \in Addrs /\ b[1] \in Sbs /\ b[2] \in 0 .. MaxCount - 1
  /\ \A d \in Sbs, i \in 0 .. MaxCount - 1 : <<d, i>> \in Blocks
  /\ \A d \in Sbs, i \in Nat : AddrOf(d, i) \in Addrs
  /\ \A d \in Sbs, i \in 0 .. MaxCount - 1 : AddrOf(d, i) = <<d, i>>
  /\ \A d \in Sbs, b \in Blocks : IdxOf(d, b) \in Nat
<1>1. NoBlock \in Addrs /\ NoBlock \notin Blocks /\ NoSb \notin Sbs
  BY ConstantsAssumption DEF NoBlock, Addrs, Blocks, NoSb, Sbs
<1>2. \A b \in Blocks : b[1] \in Sbs /\ b[2] \in 0 .. MaxCount - 1
  BY DEF Blocks
<1>3. \A d \in Sbs, i \in 0 .. MaxCount - 1 : <<d, i>> \in Blocks
  BY DEF Blocks
<1>4. \A b \in Blocks : b \in Addrs
  BY DEF Addrs
<1>5. \A d \in Sbs, i \in 0 .. MaxCount - 1 : AddrOf(d, i) = <<d, i>>
  BY ConstantsAssumption DEF AddrOf
<1>6. ASSUME NEW d \in Sbs, NEW i \in Nat PROVE AddrOf(d, i) \in Addrs
  <2>1. CASE i < MaxCount
    <3>1. i \in 0 .. MaxCount - 1
      BY <2>1, ConstantsAssumption
    <3> QED BY <1>3, <1>4, <1>5, <3>1
  <2>2. CASE ~(i < MaxCount) /\ Dense /\ d + i \div MaxCount < NSb
    <3>1. /\ i \div MaxCount \in Nat /\ i % MaxCount \in 0 .. MaxCount - 1
      BY ConstantsAssumption
    <3>2. d + i \div MaxCount \in Sbs
      BY <2>2, <3>1, ConstantsAssumption DEF Sbs
    <3> QED BY <1>3, <1>4, <2>2, <3>1, <3>2 DEF AddrOf
  <2>3. CASE ~(i < MaxCount) /\ ~(Dense /\ d + i \div MaxCount < NSb)
    BY <1>1, <2>3 DEF AddrOf
  <2> QED BY <2>1, <2>2, <2>3
<1>7. ASSUME NEW d \in Sbs, NEW b \in Blocks PROVE IdxOf(d, b) \in Nat
  <2>1. b[1] \in Int /\ b[2] \in Nat /\ d \in Int /\ MaxCount \in Nat /\ NSb \in Nat
    BY <1>2, ConstantsAssumption DEF Sbs
  <2>2. CASE b[1] >= d
    <3>1. b[1] - d \in Nat
      BY <2>1, <2>2
    <3>2. (b[1] - d) * MaxCount \in Nat
      BY <2>1, <3>1
    <3> QED BY <2>1, <2>2, <3>2 DEF IdxOf
  <2>3. CASE ~(b[1] >= d)
    BY <2>1, <2>3 DEF IdxOf
  <2> QED BY <2>2, <2>3
<1> QED BY <1>1, <1>2, <1>3, <1>4, <1>5, <1>6, <1>7

\* Anchors, as flush_cache, malloc_from_partial and malloc_from_newsb build them.
LEMMA AnchorTyped ==
  /\ Erased \in Anchors /\ AllTaken \in Anchors
  /\ \A i \in Nat, n \in Nat, s \in {"ERROR", "FULL", "PARTIAL", "EMPTY"} :
       [avail |-> i, count |-> n, state |-> s] \in Anchors
  /\ \A a \in Anchors :
       /\ a.avail \in Nat /\ a.count \in Nat
       /\ a.state \in {"ERROR", "FULL", "PARTIAL", "EMPTY"}
  /\ \A a \in Anchors, i \in 0 .. MaxCount - 1, n \in Nat, m \in Nat :
       n >= 1 => Returned(a, i, n, m) \in Anchors
  BY ConstantsAssumption DEF Anchors, Erased, AllTaken, Returned

\* A descriptor's maxcount is the class's in a superblock of the class.
LEMMA DescMaxTyped ==
  ASSUME TypeOK, NEW d \in Sbs
  PROVE  DescMax(d) \in Nat /\ (heap[d] = "small" => DescMax(d) = MaxCount)
<1>1. heap[d] \in {"none", "small", "large"}
  BY DEF TypeOK
<1> QED BY <1>1, ConstantsAssumption DEF DescMax

\* Thread caches.
LEMMA CacheTyped ==
  /\ Fresh \in Caches
  /\ \A c \in Caches : c.head \in Addrs /\ c.size \in Nat /\ c.max \in 1 .. MaxCount
  /\ \A h \in Addrs, n \in Nat, m \in 1 .. MaxCount :
       /\ Cached(h, n, m) \in Caches
       /\ Cached(h, n, m).head = h
  /\ \A m \in 1 .. MaxCount : Grown(m) \in 1 .. MaxCount
  /\ Fresh.head = NoBlock
<1>1. \A m \in 1 .. MaxCount : Grown(m) \in 1 .. MaxCount
  BY ConstantsAssumption DEF Grown
<1> QED BY <1>1, AddrTyped, ConstantsAssumption DEF Caches, Fresh, Cached

\* The runs of blocks and of superblocks a thread carries.
LEMMA SegTyped ==
  /\ NoSeg \in Segs /\ NoSpan \in Spans
  /\ \A g \in Segs : g.head \in Addrs /\ g.tail \in Addrs /\ g.num \in Nat
  /\ \A h, l \in Addrs, n \in Nat : [head |-> h, tail |-> l, num |-> n] \in Segs
  /\ \A p \in Spans : p.lo \in Sbs \cup {NoSb} /\ p.hi \in Sbs \cup {NoSb}
  /\ \A m, n \in Sbs \cup {NoSb} : [lo |-> m, hi |-> n] \in Spans
  BY AddrTyped DEF Segs, NoSeg, Spans, NoSpan

\* What TypeOK says of one thread.
LEMMA ThreadTyped ==
  ASSUME TypeOK, NEW t \in Threads
  PROVE  /\ cache[t] \in Caches /\ cache[t].head \in Addrs /\ cache[t].size \in Nat
         /\ cache[t].max \in 1 .. MaxCount
         /\ seg[t] \in Segs /\ seg[t].head \in Addrs /\ seg[t].tail \in Addrs
         /\ seg[t].num \in Nat
         /\ span[t] \in Spans /\ span[t].lo \in Sbs \cup {NoSb}
         /\ span[t].hi \in Sbs \cup {NoSb}
         /\ blk[t] \in Addrs /\ desc[t] \in Sbs \cup {NoSb}
         /\ old[t] \in Anchors
<1>1. cache[t] \in Caches /\ seg[t] \in Segs /\ span[t] \in Spans
      /\ blk[t] \in Addrs /\ desc[t] \in Sbs \cup {NoSb} /\ old[t] \in Anchors
  BY DEF TypeOK
<1>2. /\ cache[t].head \in Addrs /\ cache[t].size \in Nat
      /\ cache[t].max \in 1 .. MaxCount
  BY <1>1, CacheTyped
<1>3. /\ seg[t].head \in Addrs /\ seg[t].tail \in Addrs /\ seg[t].num \in Nat
      /\ span[t].lo \in Sbs \cup {NoSb} /\ span[t].hi \in Sbs \cup {NoSb}
  BY <1>1, SegTyped
<1> QED BY <1>1, <1>2, <1>3

\* A returning call leaves its locals typed.
LEMMA ReturnTyped ==
  ASSUME TypeOK, NEW t \in Threads, Return(t)
  PROVE  /\ pc' \in [Threads -> Labels] /\ desc' \in [Threads -> Sbs \cup {NoSb}]
         /\ old' \in [Threads -> Anchors] /\ seg' \in [Threads -> Segs]
         /\ span' \in [Threads -> Spans] /\ blk' \in [Threads -> Addrs]
         /\ goal' \in [Threads -> Goals]
<1>1. "idle" \in Labels /\ "none" \in Goals
  BY DEF Labels, Goals
<1> QED BY <1>1, SegTyped, AnchorTyped, AddrTyped DEF TypeOK, Return, Goto

\* Aborting changes nothing but halted.
LEMMA AbortTyped ==
  ASSUME TypeOK,
         NEW w \in {"no", "bad link", "assert", "out of space", "queue is full"}, Abort(w)
  PROVE  TypeOK'
  BY DEF TypeOK, Abort, shared, app, local

\* Retiring an empty superblock popped from the partial list.
LEMMA RetireEmptyTyped ==
  ASSUME TypeOK, NEW t \in Threads, RetireEmpty(t), UNCHANGED <<cache, app, span, blk, goal, halted>>
  PROVE  TypeOK'
<1>1. "pop_partial" \in Labels
  BY DEF Labels
<1> QED BY <1>1, AnchorTyped DEF TypeOK, RetireEmpty, Erase, Goto, app

\* Every step of a call, and every call, keeps the variables' types.
LEMMA TypeStep ==
  ASSUME CoreInv, NEW t \in Threads, Step(t) \/ Call(t)
  PROVE  TypeOK'
<1>0. TypeOK
  BY DEF CoreInv
<1>1. CASE Pop(t)
  <2>1. CASE cache[t].head \in Blocks
    <3>1. Cached(link[cache[t].head], cache[t].size - 1, cache[t].max) \in Caches
      <4>1. link[cache[t].head] \in Addrs
        BY <1>0, <2>1 DEF TypeOK
      <4>2. cache[t].size - 1 \in Nat
        <5>1. cache[t].size \in Nat
          BY <1>0, ThreadTyped
        <5>2. cache[t].size > 0
          BY <1>1 DEF Pop
        <5> QED BY <5>1, <5>2
      <4> QED BY <1>0, <4>1, <4>2, ThreadTyped, CacheTyped
    <3>2. /\ user' = user \cup {cache[t].head}
          /\ cache' = [cache EXCEPT ![t] =
                Cached(link[cache[t].head], cache[t].size - 1, cache[t].max)]
          /\ link' = [link EXCEPT ![cache[t].head] = NoBlock]
          /\ Return(t)
          /\ UNCHANGED <<queue, partial, curr, anchor, heap, big, halted>>
      BY <1>1, <2>1 DEF Pop
    <3>3. /\ cache' \in [Threads -> Caches]
          /\ link' \in [Blocks -> Addrs] /\ user' \subseteq Blocks
      BY <1>0, <2>1, <3>1, <3>2, AddrTyped DEF TypeOK
    <3> QED BY <1>0, <3>2, <3>3, ReturnTyped DEF TypeOK
  <2>2. CASE cache[t].head \notin Blocks
    BY <1>0, <1>1, <2>2, AbortTyped DEF Pop
  <2> QED BY <2>1, <2>2
<1>2. CASE HeapPopPartial(t)
  <2>1. CASE partial # <<>>
    <3>1. Head(partial) \in Sbs /\ Tail(partial) \in Seq(Sbs)
      <4>1. partial \in Seq(Sbs)
        BY <1>0 DEF TypeOK
      <4> QED BY <2>1, <4>1
    <3> QED BY <1>0, <1>2, <2>1, <3>1, ZenonT(60) DEF TypeOK, HeapPopPartial, Goto, app, Labels
  <2>2. CASE partial = <<>>
    BY <1>0, <1>2, <2>2 DEF TypeOK, HeapPopPartial, Goto, app, Labels
  <2> QED BY <2>1, <2>2
<1>3. CASE Reserve(t)
  <2> DEFINE d == desc[t]
             a == anchor[d]
             first == AddrOf(d, a.avail)
             last == Follow(first, cache[t].max - 1)
             rest == link[last]
  <2>0. d \in Sbs /\ a \in Anchors /\ first \in Addrs /\ cache[t].max \in Nat
    <3>1. d \in Sbs /\ a \in Anchors
      BY <1>0, <1>3 DEF CoreInv, LocalsOK, LocalsAt, TypeOK, Reserve, At
    <3> QED BY <1>0, <3>1, AnchorTyped, AddrTyped, ThreadTyped
  <2>00. a.count \in Nat /\ cache[t].max \in Nat
    BY <2>0, AnchorTyped
  <2>1. CASE a.state = "EMPTY"
    BY <1>0, <1>3, <2>1, RetireEmptyTyped DEF Reserve
  <2>2. CASE a.state # "EMPTY" /\ a.count <= cache[t].max
    <3>1. /\ old' = [old EXCEPT ![t] = a] /\ Goto(t, "take_all")
          /\ UNCHANGED <<shared, cache, app, desc, seg, span, blk, goal, halted>>
      <4>1. ~(a.count > cache[t].max)
        BY <2>00, <2>2
      <4> QED BY <1>3, <2>2, <4>1 DEF Reserve
    <3> QED BY <1>0, <2>0, <3>1 DEF TypeOK, Goto, Labels, shared, app
  <2>3. CASE a.state # "EMPTY" /\ a.count > cache[t].max
    <3>0. ~(a.count <= cache[t].max)
      BY <2>00, <2>3
    <3>1. CASE last \in Blocks /\ rest \in Blocks
      <4>1. [head |-> first, tail |-> rest, num |-> cache[t].max] \in Segs
        BY <2>0, <3>1, SegTyped, AddrTyped
      <4>2. /\ old' = [old EXCEPT ![t] = a]
            /\ seg' = [seg EXCEPT ![t] = [head |-> first, tail |-> rest,
                                          num |-> cache[t].max]]
            /\ link' = [link EXCEPT ![last] = NoBlock]
            /\ Goto(t, "take_part")
            /\ UNCHANGED <<queue, partial, curr, anchor, heap, cache, app, desc,
                           span, blk, goal, halted>>
        BY <1>3, <2>3, <3>0, <3>1 DEF Reserve
      <4>3. link' \in [Blocks -> Addrs]
        BY <1>0, <4>2, AddrTyped DEF TypeOK
      <4> HIDE DEF d, a, first, last, rest
      <4> QED BY <1>0, <2>0, <4>1, <4>2, <4>3 DEF TypeOK, Goto, Labels, app
    <3>2. CASE ~(last \in Blocks /\ rest \in Blocks)
      <4>1. Abort("bad link")
        BY <1>3, <2>3, <3>0, <3>2 DEF Reserve
      <4> QED BY <1>0, <4>1, AbortTyped
    <3> QED BY <3>1, <3>2
  <2> QED BY <2>00, <2>1, <2>2, <2>3
<1>4. CASE TakeAll(t)
  <2> DEFINE d == desc[t]
             a == anchor[d]
  <2>0. d \in Sbs /\ a \in Anchors
    BY <1>0, <1>4 DEF CoreInv, LocalsOK, LocalsAt, TypeOK, TakeAll, At
  <2>1. CASE old[t].state # "PARTIAL"
    BY <1>0, <1>4, <2>1, AbortTyped DEF TakeAll
  <2>2. CASE old[t].state = "PARTIAL" /\ a = old[t]
    <3>1. Cached(AddrOf(d, a.avail), a.count, cache[t].max) \in Caches
      BY <1>0, <2>0, AnchorTyped, AddrTyped, ThreadTyped, CacheTyped
    <3>2. cache' \in [Threads -> Caches]
      BY <1>0, <1>4, <2>2, <3>1 DEF TakeAll, TypeOK
    <3>3. anchor' \in [Sbs -> Anchors]
      BY <1>0, <1>4, <2>2, AnchorTyped DEF TakeAll, TypeOK
    <3>4. pc' \in [Threads -> Labels]
      BY <1>0, <1>4, <2>2 DEF TakeAll, TypeOK, Goto, Labels
    <3> QED BY <1>0, <1>4, <2>2, <3>2, <3>3, <3>4 DEF TakeAll, TypeOK, app, local
  <2>3. CASE old[t].state = "PARTIAL" /\ a # old[t] /\ a.state = "EMPTY"
    BY <1>0, <1>4, <2>3, RetireEmptyTyped DEF TakeAll
  <2>4. CASE old[t].state = "PARTIAL" /\ a # old[t] /\ a.state # "EMPTY"
    BY <1>0, <1>4, <2>0, <2>4 DEF TakeAll, TypeOK, shared, app
  <2> QED BY <2>1, <2>2, <2>3, <2>4
<1>5. CASE TakePart(t)
  <2> DEFINE d == desc[t]
             a == anchor[d]
  <2>0. d \in Sbs /\ a \in Anchors
    BY <1>0, <1>5 DEF CoreInv, LocalsOK, LocalsAt, TypeOK, TakePart, At
  <2>1. CASE a = old[t]
    <3>1. [avail |-> IdxOf(d, seg[t].tail), count |-> a.count - seg[t].num,
           state |-> "PARTIAL"] \in Anchors
      <4>1. seg[t].tail \in Blocks /\ seg[t].num < a.count
        BY <1>5 DEF CoreInv, LocalsOK, LocalsAt, TakePart, At
      <4>2. a.count - seg[t].num \in Nat
        BY <1>0, <2>0, <4>1, AnchorTyped, ThreadTyped
      <4>3. IdxOf(d, seg[t].tail) \in Nat
        BY <2>0, <4>1, AddrTyped
      <4> QED BY <4>2, <4>3, AnchorTyped
    <3> QED BY <1>0, <1>5, <2>1, <3>1, ZenonT(60) DEF TakePart, TypeOK, Goto, Labels, app, local
  <2>2. CASE a # old[t]
    BY <1>0, <1>5, <2>0, <2>2 DEF TakePart, TypeOK, shared, app
  <2> QED BY <2>1, <2>2
<1>6. CASE PushPart(t)
  <2>1. Cached(seg[t].head, seg[t].num, Grown(cache[t].max)) \in Caches
    BY <1>0, ThreadTyped, CacheTyped
  <2>2. <<desc[t]>> \o partial \in Seq(Sbs)
    <3>1. desc[t] \in Sbs /\ partial \in Seq(Sbs)
      BY <1>0, <1>6 DEF CoreInv, LocalsOK, LocalsAt, TypeOK, PushPart, At
    <3> QED BY <3>1
  <2> QED BY <1>0, <1>6, <2>1, <2>2 DEF PushPart, TypeOK, Goto, Labels, app, local
<1>7. CASE SbAlloc(t)
  <2>1. CASE queue # <<>>
    <3>1. Head(queue) \in Sbs /\ Tail(queue) \in Seq(Sbs)
      <4>1. queue \in Seq(Sbs)
        BY <1>0 DEF TypeOK
      <4> QED BY <2>1, <4>1
    <3> QED BY <1>0, <1>7, <2>1, <3>1, ZenonT(60) DEF TypeOK, SbAlloc, Goto, app, Labels
  <2>2. CASE queue = <<>>
    BY <1>0, <1>7, <2>2 DEF TypeOK, SbAlloc, Goto, app, Labels
  <2> QED BY <2>1, <2>2
<1>8. CASE ExpandLoad(t)
  <2>1. CASE curr + Expand <= NSb
    <3>1. [lo |-> curr, hi |-> curr + Expand - 1] \in Spans
      <4>0. curr \in 1 .. NSb
        BY <1>0 DEF TypeOK
      <4>1. curr \in Sbs /\ curr + Expand - 1 \in Sbs
        BY <2>1, <4>0, ConstantsAssumption DEF Sbs
      <4> QED BY <4>1, SegTyped
    <3>2. /\ span' = [span EXCEPT ![t] = [lo |-> curr, hi |-> curr + Expand - 1]]
          /\ Goto(t, "expand_cas")
          /\ UNCHANGED <<shared, cache, app, desc, old, seg, blk, goal, halted>>
      <4>0. curr \in 1 .. NSb
        BY <1>0 DEF TypeOK
      <4>1. ~(curr + Expand > NSb)
        BY <2>1, <4>0, ConstantsAssumption
      <4> QED BY <1>8, <4>1 DEF ExpandLoad
    <3> QED BY <1>0, <3>1, <3>2 DEF TypeOK, Goto, Labels, shared, app
  <2>2. CASE ~(curr + Expand <= NSb)
    <3>1. Abort("out of space")
      BY <1>8, <2>2 DEF ExpandLoad
    <3> QED BY <1>0, <3>1, AbortTyped
  <2> QED BY <2>1, <2>2
<1>9. CASE ExpandCAS(t)
  <2>1. CASE curr = span[t].lo
    <3>1. /\ curr \in Sbs /\ curr + 1 \in Sbs /\ span[t].hi \in Sbs
          /\ curr + Expand \in 1 .. NSb
      <4>1. /\ span[t].lo \in Sbs /\ span[t].hi \in Sbs
            /\ span[t].hi = span[t].lo + Expand - 1
        BY <1>9 DEF CoreInv, LocalsOK, LocalsAt, ExpandCAS, At
      <4>2. curr \in 1 .. NSb
        BY <1>0 DEF TypeOK
      <4> QED BY <2>1, <4>1, <4>2, ConstantsAssumption DEF Sbs
    <3>2. [lo |-> curr + 1, hi |-> span[t].hi] \in Spans
      BY <3>1, SegTyped
    <3>3. /\ curr' = curr + Expand
          /\ desc' = [desc EXCEPT ![t] = curr]
          /\ span' = [span EXCEPT ![t] = [lo |-> curr + 1, hi |-> span[t].hi]]
          /\ Goto(t, "organize")
          /\ UNCHANGED <<queue, partial, anchor, heap, link, cache, app, old, seg,
                         blk, goal, halted>>
      BY <1>9, <2>1 DEF ExpandCAS
    <3> QED BY <1>0, <3>1, <3>2, <3>3 DEF TypeOK, Goto, Labels, app
  <2>2. CASE curr # span[t].lo
    BY <1>0, <1>9, <2>2, SegTyped, ZenonT(60) DEF ExpandCAS, TypeOK, Goto, Labels, app
  <2> QED BY <2>1, <2>2
<1>10. CASE Organize(t)
  <2>0. span[t].lo \in Sbs /\ span[t].hi \in Sbs /\ span[t].lo <= span[t].hi
    BY <1>10 DEF CoreInv, LocalsOK, LocalsAt, Organize, At
  <2>1. CASE Len(queue) < QueueCap
    <3>1. Append(queue, span[t].lo) \in Seq(Sbs)
      <4>1. queue \in Seq(Sbs)
        BY <1>0 DEF TypeOK
      <4> QED BY <2>0, <4>1
    <3>2. /\ queue' \in Seq(Sbs) /\ anchor' \in [Sbs -> Anchors]
          /\ heap' \in [Sbs -> {"none", "small", "large"}]
          /\ UNCHANGED <<partial, curr, link, cache, app, halted>>
      <4>1. \/ /\ Erase(span[t].lo) /\ queue' = Append(queue, span[t].lo)
               /\ UNCHANGED <<partial, curr, link, cache, app, halted>>
            \/ Len(queue) = QueueCap
        BY <1>10 DEF Organize
      <4>2. Len(queue) # QueueCap
        <5>1. queue \in Seq(Sbs)
          BY <1>0 DEF TypeOK
        <5>2. Len(queue) \in Nat
          BY <5>1
        <5> QED BY <2>1, <5>2, ConstantsAssumption
      <4> QED BY <1>0, <3>1, <4>1, <4>2, AnchorTyped DEF TypeOK, Erase
    <3>3. /\ pc' \in [Threads -> Labels] /\ desc' \in [Threads -> Sbs \cup {NoSb}]
          /\ old' \in [Threads -> Anchors] /\ seg' \in [Threads -> Segs]
          /\ span' \in [Threads -> Spans] /\ blk' \in [Threads -> Addrs]
          /\ goal' \in [Threads -> Goals]
      <4>0. Len(queue) # QueueCap
        <5>1. queue \in Seq(Sbs)
          BY <1>0 DEF TypeOK
        <5>2. Len(queue) \in Nat
          BY <5>1
        <5> QED BY <2>1, <5>2, ConstantsAssumption
      <4>10. span[t].lo < span[t].hi <=> span[t].lo # span[t].hi
        BY <2>0, ConstantsAssumption DEF Sbs
      <4>1. CASE span[t].lo < span[t].hi
        <5>1. [lo |-> span[t].lo + 1, hi |-> span[t].hi] \in Spans
          <6>1. span[t].lo + 1 \in Sbs
            BY <2>0, <4>1, ConstantsAssumption DEF Sbs
          <6> QED BY <2>0, <6>1, SegTyped
        <5>2. /\ span' = [span EXCEPT ![t] = [lo |-> span[t].lo + 1, hi |-> span[t].hi]]
              /\ UNCHANGED <<pc, desc, old, seg, blk, goal>>
          BY <1>10, <4>0, <4>1, <4>10 DEF Organize
        <5> QED BY <1>0, <5>1, <5>2 DEF TypeOK
      <4>2. CASE span[t].lo = span[t].hi /\ goal[t] \in {"small", "large"}
        <5>1. /\ span' = [span EXCEPT ![t] = NoSpan] /\ Goto(t, "use_sb")
              /\ UNCHANGED <<desc, old, seg, blk, goal>>
          BY <1>10, <4>0, <4>2, <4>10 DEF Organize
        <5> QED BY <1>0, <5>1, SegTyped DEF TypeOK, Goto, Labels
      <4>3. CASE span[t].lo = span[t].hi /\ goal[t] = "free"
        <5>1. Return(t)
          BY <1>10, <4>0, <4>3, <4>10 DEF Organize
        <5> QED BY <1>0, <5>1, ReturnTyped
      <4> QED BY <1>10, <4>0, <4>1, <4>2, <4>3 DEF Organize
    <3> QED BY <1>0, <3>2, <3>3 DEF TypeOK, app
  <2>2. CASE Len(queue) = QueueCap
    <3>1. Abort("queue is full")
      <4>1. ~(Len(queue) < QueueCap)
        BY <2>2, ConstantsAssumption
      <4> QED BY <1>10, <2>2, <4>1 DEF Organize
    <3> QED BY <1>0, <3>1, AbortTyped
  <2> QED BY <1>10, <2>1, <2>2 DEF Organize
<1>11. CASE NewSb(t)
  <2> DEFINE d == desc[t]
             max == cache[t].max
             threaded == [b \in Blocks |->
                IF b[1] = d /\ b[2] < MaxCount - 1 THEN <<d, b[2] + 1>> ELSE link[b]]
  <2>0. d \in Sbs /\ max \in 1 .. MaxCount
    BY <1>0, <1>11, ThreadTyped DEF CoreInv, LocalsOK, LocalsAt, NewSb, At
  <2>1. threaded \in [Blocks -> Addrs]
    <3> SUFFICES ASSUME NEW b \in Blocks PROVE threaded[b] \in Addrs
      OBVIOUS
    <3>1. link[b] \in Addrs /\ b[2] \in 0 .. MaxCount - 1
      BY <1>0, AddrTyped DEF TypeOK
    <3>2. CASE b[1] = d /\ b[2] < MaxCount - 1
      <4>1. b[2] + 1 \in 0 .. MaxCount - 1
        BY <3>1, <3>2, ConstantsAssumption
      <4>2. <<d, b[2] + 1>> \in Addrs
        BY <2>0, <4>1, AddrTyped
      <4> QED BY <3>2, <4>2
    <3>3. CASE ~(b[1] = d /\ b[2] < MaxCount - 1)
      BY <3>1, <3>3
    <3> QED BY <3>2, <3>3
  <2>2. /\ heap' = [heap EXCEPT ![d] = "small"]
        /\ UNCHANGED <<queue, partial, curr, app, desc, old, span, blk, goal, halted>>
    BY <1>11 DEF NewSb
  <2>3. CASE max >= MaxCount
    <3>1. /\ link' = threaded
          /\ anchor' = [anchor EXCEPT ![d] = AllTaken]
          /\ cache' = [cache EXCEPT ![t] = Cached(<<d, 0>>, MaxCount, Grown(max))]
          /\ Goto(t, "pop")
          /\ UNCHANGED seg
      <4>1. ~(max < MaxCount)
        BY <2>0, <2>3, ConstantsAssumption
      <4> QED BY <1>11, <4>1 DEF NewSb
    <3>2. Cached(<<d, 0>>, MaxCount, Grown(max)) \in Caches
      <4>1. <<d, 0>> \in Addrs
        BY <2>0, AddrTyped, ConstantsAssumption
      <4> QED BY <2>0, <4>1, CacheTyped, ConstantsAssumption
    <3> HIDE DEF threaded, d, max
    <3> QED BY <1>0, <2>1, <2>2, <3>1, <3>2, AnchorTyped DEF TypeOK, Goto, Labels, app
  <2>4. CASE max < MaxCount
    <3>1. /\ link' = [threaded EXCEPT ![<<d, max - 1>>] = NoBlock]
          /\ anchor' = [anchor EXCEPT ![d] =
               [avail |-> max, count |-> MaxCount - max, state |-> "PARTIAL"]]
          /\ seg' = [seg EXCEPT ![t] =
               [head |-> <<d, 0>>, tail |-> <<d, max>>, num |-> max]]
          /\ Goto(t, "push_part")
          /\ UNCHANGED cache
      <4>1. ~(max >= MaxCount)
        BY <2>0, <2>4, ConstantsAssumption
      <4> QED BY <1>11, <4>1 DEF NewSb
    <3>2. [avail |-> max, count |-> MaxCount - max, state |-> "PARTIAL"] \in Anchors
      <4>1. max \in Nat /\ MaxCount - max \in Nat
        BY <2>0, <2>4, ConstantsAssumption
      <4> QED BY <4>1, AnchorTyped
    <3>3. [head |-> <<d, 0>>, tail |-> <<d, max>>, num |-> max] \in Segs
      <4>1. 0 \in 0 .. MaxCount - 1 /\ max \in 0 .. MaxCount - 1 /\ max \in Nat
        BY <2>0, <2>4, ConstantsAssumption
      <4>2. <<d, 0>> \in Addrs /\ <<d, max>> \in Addrs
        BY <2>0, <4>1, AddrTyped
      <4> QED BY <4>1, <4>2, SegTyped
    <3> HIDE DEF threaded, d, max
    <3>4. link' \in [Blocks -> Addrs]
      BY <2>1, <3>1, AddrTyped
    <3> QED BY <1>0, <2>1, <2>2, <3>1, <3>2, <3>3, <3>4 DEF TypeOK, Goto, Labels, app
  <2> QED BY <2>0, <2>3, <2>4, ConstantsAssumption
<1>12. CASE LargeBlock(t)
  <2>1. [avail |-> 0, count |-> 0, state |-> "FULL"] \in Anchors
    BY ConstantsAssumption DEF Anchors
  <2>2. desc[t] \in Sbs
    BY <1>12 DEF CoreInv, LocalsOK, LocalsAt, LargeBlock, At
  <2>3. Return(t)
    BY <1>12 DEF LargeBlock
  <2> QED BY <1>0, <1>12, <2>1, <2>2, <2>3, ReturnTyped DEF LargeBlock, TypeOK
<1>13. CASE FlushTake(t)
  <2> DEFINE b == cache[t].head
  <2>1. CASE b \in Blocks
    <3>1. PICK n \in 1 .. cache[t].size :
             /\ SameSb(b, n, b[1])
             /\ seg' = [seg EXCEPT ![t] =
                          [head |-> b, tail |-> Follow(b, n - 1), num |-> n]]
             /\ cache' = [cache EXCEPT ![t] =
                            Cached(link[Follow(b, n - 1)], cache[t].size - n, cache[t].max)]
      BY <1>13, <2>1 DEF FlushTake
    <3>2. n \in Nat /\ cache[t].size - n \in Nat /\ n - 1 \in 0 .. n - 1
      <4>1. cache[t].size \in Nat
        BY <1>0, ThreadTyped
      <4> QED BY <4>1
    <3>3. Follow(b, n - 1) \in Blocks
      BY <3>1, <3>2 DEF SameSb
    <3>4. Cached(link[Follow(b, n - 1)], cache[t].size - n, cache[t].max) \in Caches
      <4>1. link[Follow(b, n - 1)] \in Addrs
        BY <1>0, <3>3 DEF TypeOK
      <4> QED BY <1>0, <3>2, <4>1, ThreadTyped, CacheTyped
    <3>5. [head |-> b, tail |-> Follow(b, n - 1), num |-> n] \in Segs
      BY <2>1, <3>2, <3>3, SegTyped, AddrTyped
    <3>6. /\ desc' = [desc EXCEPT ![t] = b[1]]
          /\ old' = [old EXCEPT ![t] = anchor[b[1]]]
          /\ Goto(t, "flush_cas")
          /\ UNCHANGED <<shared, app, span, blk, goal, halted>>
      BY <1>13, <2>1 DEF FlushTake
    <3>7. b[1] \in Sbs /\ anchor[b[1]] \in Anchors
      BY <1>0, <2>1, AddrTyped DEF TypeOK
    <3> HIDE DEF b
    <3> QED BY <1>0, <3>1, <3>4, <3>5, <3>6, <3>7 DEF TypeOK, Goto, Labels, shared, app
  <2>2. CASE b \notin Blocks
    BY <1>0, <1>13, <2>2, AbortTyped DEF FlushTake
  <2> QED BY <2>1, <2>2
<1>14. CASE FlushCAS(t)
  <2> DEFINE d == desc[t]
             a == anchor[d]
             new == Returned(a, seg[t].head[2], seg[t].num, DescMax(d))
  <2>0. /\ d \in Sbs /\ a \in Anchors
        /\ seg[t].head \in Blocks /\ seg[t].tail \in Blocks /\ seg[t].num >= 1
    BY <1>0, <1>14 DEF CoreInv, LocalsOK, LocalsAt, TypeOK, FlushCAS, At
  <2>1. CASE a = old[t]
    <3>1. new \in Anchors
      <4>1. DescMax(d) \in Nat /\ seg[t].head[2] \in 0 .. MaxCount - 1 /\ seg[t].num \in Nat
        BY <1>0, <2>0, DescMaxTyped, ThreadTyped, AddrTyped
      <4> QED BY <2>0, <4>1, AnchorTyped
    <3>2. AddrOf(d, a.avail) \in Addrs
      BY <2>0, AddrTyped, AnchorTyped
    <3>3. /\ link' = [link EXCEPT ![seg[t].tail] = AddrOf(d, a.avail)]
          /\ anchor' = [anchor EXCEPT ![d] = new]
          /\ pc' = [pc EXCEPT ![t] = IF a.state # "FULL" THEN "flush"
                     ELSE IF new.state = "EMPTY" THEN "retire" ELSE "push_flush"]
          /\ seg' = [seg EXCEPT ![t] = NoSeg]
          /\ UNCHANGED <<queue, partial, curr, heap, cache, app, desc, old, span,
                         blk, goal, halted>>
      BY <1>14, <2>1 DEF FlushCAS, Goto
    <3> HIDE DEF d, a, new
    <3>4. pc' \in [Threads -> Labels]
      BY <1>0, <3>3 DEF TypeOK, Labels
    <3> QED BY <1>0, <3>1, <3>2, <3>3, <3>4, SegTyped DEF TypeOK, app
  <2>2. CASE a # old[t]
    BY <1>0, <1>14, <2>0, <2>2 DEF FlushCAS, TypeOK, shared, app
  <2> QED BY <2>1, <2>2
<1>15. CASE FlushPush(t)
  <2>1. <<desc[t]>> \o partial \in Seq(Sbs)
    <3>1. desc[t] \in Sbs /\ partial \in Seq(Sbs)
      BY <1>0, <1>15 DEF CoreInv, LocalsOK, LocalsAt, TypeOK, FlushPush, At
    <3> QED BY <3>1
  <2> QED BY <1>0, <1>15, <2>1 DEF FlushPush, TypeOK, Goto, Labels, app, local
<1>16. CASE FlushRetire(t)
  BY <1>0, <1>16, AnchorTyped DEF FlushRetire, Erase, TypeOK, Goto, Labels, app, local
<1>17. CASE FlushDone(t)
  <2>1. Return(t) /\ UNCHANGED <<queue, partial, curr, anchor, heap, app, halted>>
    BY <1>17 DEF FlushDone
  <2>2. cache' \in [Threads -> Caches] /\ link' \in [Blocks -> Addrs]
    <3>1. CASE goal[t] = "free"
      <4>1. blk[t] \in Blocks
        BY <1>17, <3>1 DEF CoreInv, LocalsOK, LocalsAt, FlushDone, At
      <4>2. Cached(blk[t], cache[t].size + 1, cache[t].max) \in Caches
        BY <1>0, <4>1, ThreadTyped, CacheTyped, AddrTyped
      <4>3. PushBlock(t, blk[t])
        BY <1>17, <3>1 DEF FlushDone
      <4> QED BY <1>0, <4>2, <4>3, ThreadTyped DEF PushBlock, TypeOK
    <3>2. CASE goal[t] # "free"
      BY <1>0, <1>17, <3>2, CacheTyped DEF FlushDone, TypeOK
    <3> QED BY <3>1, <3>2
  <2> QED BY <1>0, <2>1, <2>2, ReturnTyped DEF TypeOK, app
<1>18. CASE MallocMiss(t)
  BY <1>0, <1>18 DEF MallocMiss, TypeOK, Goto, Labels, Goals, shared, app
<1>19. CASE MallocLarge(t)
  BY <1>0, <1>19 DEF MallocLarge, TypeOK, Goto, Labels, Goals, shared, app
<1>20. CASE FreeLarge(t)
  <2>1. PICK d \in big : /\ big' = big \ {d}
                         /\ span' = [span EXCEPT ![t] = [lo |-> d, hi |-> d]]
    BY <1>20 DEF FreeLarge
  <2>2. [lo |-> d, hi |-> d] \in Spans
    BY <1>0, <2>1, SegTyped DEF TypeOK
  <2> QED BY <1>0, <1>20, <2>1, <2>2 DEF FreeLarge, TypeOK, Goto, Labels, Goals, shared
<1>21. CASE FreeSmall(t)
  <2>1. PICK b \in user :
          /\ user' = user \ {b}
          /\ \/ PushBlock(t, b) /\ UNCHANGED <<pc, blk, goal>>
             \/ /\ blk' = [blk EXCEPT ![t] = b]
                /\ goal' = [goal EXCEPT ![t] = "free"]
                /\ Goto(t, "flush")
                /\ UNCHANGED <<link, cache>>
    BY <1>21 DEF FreeSmall
  <2>2. b \in Blocks /\ b \in Addrs
    BY <1>0, <2>1, AddrTyped DEF TypeOK
  <2>3. Cached(b, cache[t].size + 1, cache[t].max) \in Caches
    BY <1>0, <2>2, ThreadTyped, CacheTyped
  <2>4. /\ cache' \in [Threads -> Caches] /\ link' \in [Blocks -> Addrs]
        /\ pc' \in [Threads -> Labels] /\ goal' \in [Threads -> Goals]
        /\ blk' \in [Threads -> Addrs]
    <3>1. CASE PushBlock(t, b) /\ UNCHANGED <<pc, blk, goal>>
      BY <1>0, <2>2, <2>3, <3>1, ThreadTyped DEF PushBlock, TypeOK
    <3>2. CASE /\ blk' = [blk EXCEPT ![t] = b]
               /\ goal' = [goal EXCEPT ![t] = "free"]
               /\ Goto(t, "flush")
               /\ UNCHANGED <<link, cache>>
      BY <1>0, <2>2, <3>2 DEF TypeOK, Goto, Labels, Goals
    <3> QED BY <2>1, <3>1, <3>2
  <2> QED BY <1>0, <1>21, <2>1, <2>4 DEF FreeSmall, TypeOK
<1>22. CASE ThreadExit(t)
  BY <1>0, <1>22 DEF ThreadExit, TypeOK, Goto, Labels, Goals, shared, app
<1> QED
  BY <1>1, <1>2, <1>3, <1>4, <1>5, <1>6, <1>7, <1>8, <1>9, <1>10, <1>11, <1>12,
     <1>13, <1>14, <1>15, <1>16, <1>17, <1>18, <1>19, <1>20, <1>21, <1>22
  DEF Step, Call
-----------------------------------------------------------------------------
(* What one thread's step leaves alone *)

\* A step of one thread changes no other thread's locals.
LEMMA OthersUnchanged ==
  ASSUME TypeOK, NEW t \in Threads, Step(t) \/ Call(t), NEW u \in Threads, u # t
  PROVE  /\ pc'[u] = pc[u] /\ desc'[u] = desc[u] /\ old'[u] = old[u]
         /\ seg'[u] = seg[u] /\ span'[u] = span[u] /\ blk'[u] = blk[u]
         /\ goal'[u] = goal[u] /\ cache'[u] = cache[u]
<1> USE DEF TypeOK, Goto
<1>1. CASE Pop(t)
  BY <1>1 DEF Pop, Return, Abort, local
<1>2. CASE HeapPopPartial(t)
  BY <1>2 DEF HeapPopPartial
<1>3. CASE Reserve(t)
  BY <1>3 DEF Reserve, RetireEmpty, Erase, Abort, local
<1>4. CASE TakeAll(t)
  BY <1>4 DEF TakeAll, RetireEmpty, Erase, Abort, local
<1>5. CASE TakePart(t)
  BY <1>5 DEF TakePart, local
<1>6. CASE PushPart(t)
  BY <1>6 DEF PushPart, local
<1>7. CASE SbAlloc(t)
  BY <1>7 DEF SbAlloc
<1>8. CASE ExpandLoad(t)
  BY <1>8 DEF ExpandLoad, Abort, local
<1>9. CASE ExpandCAS(t)
  BY <1>9 DEF ExpandCAS
<1>10. CASE Organize(t)
  BY <1>10, ZenonT(60) DEF Organize, Erase, Abort, Return, local
<1>11. CASE NewSb(t)
  BY <1>11 DEF NewSb
<1>12. CASE LargeBlock(t)
  BY <1>12 DEF LargeBlock, Return
<1>13. CASE FlushTake(t)
  BY <1>13 DEF FlushTake, Abort, local
<1>14. CASE FlushCAS(t)
  BY <1>14 DEF FlushCAS
<1>15. CASE FlushPush(t)
  BY <1>15 DEF FlushPush, local
<1>16. CASE FlushRetire(t)
  BY <1>16 DEF FlushRetire, Erase, local
<1>17. CASE FlushDone(t)
  BY <1>17 DEF FlushDone, Return, PushBlock, local
<1>18. CASE MallocMiss(t)
  BY <1>18 DEF MallocMiss
<1>19. CASE MallocLarge(t)
  BY <1>19 DEF MallocLarge
<1>20. CASE FreeLarge(t)
  BY <1>20 DEF FreeLarge
<1>21. CASE FreeSmall(t)
  BY <1>21 DEF FreeSmall, PushBlock
<1>22. CASE ThreadExit(t)
  BY <1>22 DEF ThreadExit
<1> QED
  BY <1>1, <1>2, <1>3, <1>4, <1>5, <1>6, <1>7, <1>8, <1>9, <1>10, <1>11, <1>12,
     <1>13, <1>14, <1>15, <1>16, <1>17, <1>18, <1>19, <1>20, <1>21, <1>22
  DEF Step, Call
\* So what the other threads hold stays the same.
LEMMA OthersHold ==
  ASSUME TypeOK, NEW t \in Threads, Step(t) \/ Call(t), NEW u \in Threads, u # t
  PROVE  Spare(u)' = Spare(u) /\ Carry(u)' = Carry(u)
  BY OthersUnchanged DEF Spare, Carry
-----------------------------------------------------------------------------
(* Superblocks that are not in use by the class *)

\* Superblocks carved earlier stay below those carved later.
LEMMA RangeGrows ==
  ASSUME NEW m \in Nat, NEW n \in Nat, m <= n, NEW d \in 1 .. m - 1
  PROVE  d \in 1 .. n - 1 /\ d \notin m .. n - 1
  OBVIOUS

\* Superblocks only move between the queue, the whole objects and the hands of
\* the thread that takes the step, and new ones come from beyond curr.
LEMMA SparesMove ==
  ASSUME SparesApart, curr \in Nat, curr' \in Nat, 1 <= curr, curr <= curr',
         NEW t \in Threads,
         \A u \in Threads : u # t => Spare(u)' = Spare(u),
         NoDup(queue)',
         Elems(queue)' \cap big' = {},
         Spare(t)' \cap Elems(queue)' = {}, Spare(t)' \cap big' = {},
         Elems(queue)' \cup big' \cup Spare(t)'
           \subseteq Elems(queue) \cup big \cup Spare(t) \cup (curr .. curr' - 1)
  PROVE  SparesApart' /\ Used \subseteq Used'
<1> DEFINE U == Elems(queue) \cup big \cup Spare(t)
           V == Elems(queue)' \cup big' \cup Spare(t)'
<1>1. V \subseteq U \cup (curr .. curr' - 1)
  OBVIOUS
<1>2. U \subseteq 1 .. curr - 1
  BY DEF SparesApart
<1>3. V \subseteq 1 .. curr' - 1
  BY <1>1, <1>2
<1>4. ASSUME NEW u \in Threads, u # t
      PROVE  /\ Spare(u)' \subseteq 1 .. curr' - 1
             /\ Spare(u)' \cap V = {}
  <2>1. Spare(u)' = Spare(u)
    BY <1>4
  <2>2. Spare(u) \subseteq 1 .. curr - 1 /\ Spare(u) \cap U = {}
    BY <1>4 DEF SparesApart
  <2> QED BY <1>1, <2>1, <2>2
<1>5. ASSUME NEW u \in Threads, NEW w \in Threads, u # w
      PROVE  Spare(u)' \cap Spare(w)' = {}
  <2>1. CASE u # t /\ w # t
    BY <1>5, <2>1 DEF SparesApart
  <2>2. CASE u = t \/ w = t
    BY <1>4, <1>5, <2>2
  <2> QED BY <2>1, <2>2
<1>6. SparesApart'
  <2>1. ASSUME NEW u \in Threads
        PROVE  /\ Spare(u)' \subseteq 1 .. curr' - 1
               /\ Spare(u)' \cap Elems(queue)' = {} /\ Spare(u)' \cap big' = {}
    <3>1. CASE u = t
      BY <1>3, <3>1
    <3>2. CASE u # t
      BY <1>4, <3>2
    <3> QED BY <3>1, <3>2
  <2>2. Elems(queue)' \subseteq 1 .. curr' - 1 /\ big' \subseteq 1 .. curr' - 1
    BY <1>3
  <2> QED BY <1>5, <2>1, <2>2 DEF SparesApart
<1>7. ASSUME NEW d \in Used PROVE d \in Used'
  <2>1. /\ d \in 1 .. curr - 1 /\ d \notin U
        /\ \A u \in Threads : d \notin Spare(u)
    BY DEF Used
  <2>2. d \in 1 .. curr' - 1 /\ d \notin V
    <3> HIDE DEF U, V
    <3>1. d \in 1 .. curr' - 1 /\ d \notin curr .. curr' - 1
      BY <2>1, RangeGrows
    <3> QED BY <1>1, <2>1, <3>1
  <2>3. \A u \in Threads : d \notin Spare(u)'
    BY <2>1, <2>2
  <2> QED BY <2>2, <2>3 DEF Used
<1> QED BY <1>6, <1>7

\* A step that leaves the queue, the whole objects and curr alone, and that is not
\* one of small_sb_alloc, changes no superblock's standing.
LEMMA SparesStay ==
  ASSUME SparesApart, NEW t \in Threads, UNCHANGED <<queue, big, curr>>,
         \A u \in Threads : Spare(u)' = Spare(u)
  PROVE  SparesApart' /\ Used' = Used
<1>1. SparesApart'
  BY DEF SparesApart, NoDup, Elems
<1>2. Used' = Used
  BY DEF Used, Elems
<1> QED BY <1>1, <1>2
\* A thread outside small_sb_alloc has no spare superblock.
LEMMA NoSpare ==
  ASSUME NEW t \in Threads, pc[t] \notin {"use_sb", "organize"}
  PROVE  Spare(t) = {}
  BY DEF Spare

\* The steps outside small_sb_alloc, organize_sb_list and the whole objects.
LEMMA PlainSteps ==
  ASSUME CoreInv, NEW t \in Threads,
         \/ Pop(t) \/ HeapPopPartial(t) \/ Reserve(t) \/ TakeAll(t) \/ TakePart(t)
         \/ PushPart(t) \/ ExpandLoad(t) \/ FlushTake(t) \/ FlushCAS(t)
         \/ FlushPush(t) \/ FlushRetire(t) \/ FlushDone(t) \/ MallocMiss(t)
         \/ MallocLarge(t) \/ FreeSmall(t) \/ ThreadExit(t)
  PROVE  SparesApart' /\ Used' = Used /\ big' = big /\ \A u \in Threads : Spare(u)' = Spare(u)
<1>1. TypeOK /\ (Step(t) \/ Call(t))
  BY DEF CoreInv, Step, Call
<1>2. /\ UNCHANGED <<queue, big, curr>>
      /\ pc[t] \notin {"use_sb", "organize"} /\ pc'[t] \notin {"use_sb", "organize"}
  <2>0. pc \in [Threads -> Labels]
    BY <1>1 DEF TypeOK
  <2> USE <2>0 DEF At, Goto
  <2>1. CASE Pop(t)
    BY <2>1 DEF Pop, Return, Abort, local, app, shared
  <2>2. CASE HeapPopPartial(t)
    BY <2>2 DEF HeapPopPartial, app
  <2>3. CASE Reserve(t)
    BY <2>3 DEF Reserve, RetireEmpty, Abort, local, app, shared
  <2>4. CASE TakeAll(t)
    BY <2>4 DEF TakeAll, RetireEmpty, Abort, local, app, shared
  <2>5. CASE TakePart(t)
    BY <2>5 DEF TakePart, local, shared, app
  <2>6. CASE PushPart(t)
    BY <2>6 DEF PushPart, local, app
  <2>7. CASE ExpandLoad(t)
    BY <2>7 DEF ExpandLoad, Abort, local, shared, app
  <2>8. CASE FlushTake(t)
    BY <2>8 DEF FlushTake, Abort, local, shared, app
  <2>9. CASE FlushCAS(t)
    BY <2>9 DEF FlushCAS, shared, app
  <2>10. CASE FlushPush(t)
    BY <2>10 DEF FlushPush, local, app
  <2>11. CASE FlushRetire(t)
    BY <2>11 DEF FlushRetire, local, app
  <2>12. CASE FlushDone(t)
    BY <2>12 DEF FlushDone, Return, app
  <2>13. CASE MallocMiss(t)
    BY <2>13 DEF MallocMiss, shared, app
  <2>14. CASE MallocLarge(t)
    BY <2>14 DEF MallocLarge, shared, app
  <2>15. CASE FreeSmall(t)
    BY <2>15 DEF FreeSmall
  <2>16. CASE ThreadExit(t)
    BY <2>16 DEF ThreadExit, shared, app
  <2> QED BY <2>1, <2>2, <2>3, <2>4, <2>5, <2>6, <2>7, <2>8, <2>9, <2>10, <2>11, <2>12, <2>13, <2>14, <2>15, <2>16
<1>3. Spare(t) = {} /\ Spare(t)' = {}
  BY <1>2 DEF Spare
<1>4. \A u \in Threads : Spare(u)' = Spare(u)
  BY <1>1, <1>3, OthersHold
<1> QED BY <1>2, <1>4, SparesStay DEF CoreInv
\* The remaining steps move superblocks as SparesMove describes.
LEMMA SparesStep ==
  ASSUME CoreInv, NEW t \in Threads, Step(t) \/ Call(t)
  PROVE  SparesApart' /\ Used \subseteq Used'
<1>0. /\ TypeOK /\ SparesApart /\ LocalsOK
      /\ queue \in Seq(Sbs) /\ curr \in Nat /\ 1 <= curr
      /\ NoDup(queue) /\ Elems(queue) \cap big = {}
      /\ Spare(t) \cap Elems(queue) = {} /\ Spare(t) \cap big = {}
      /\ Spare(t) \subseteq 1 .. curr - 1
  <2>1. TypeOK /\ SparesApart /\ LocalsOK
    BY DEF CoreInv
  <2>2. queue \in Seq(Sbs) /\ curr \in 1 .. NSb
    BY <2>1 DEF TypeOK
  <2>3. curr \in Nat /\ 1 <= curr
    BY <2>2, ConstantsAssumption
  <2>4. /\ NoDup(queue) /\ Elems(queue) \cap big = {}
        /\ Spare(t) \cap Elems(queue) = {} /\ Spare(t) \cap big = {}
        /\ Spare(t) \subseteq 1 .. curr - 1
    BY <2>1 DEF SparesApart
  <2> QED BY <2>1, <2>2, <2>3, <2>4
<1>00. pc \in [Threads -> Labels]
  BY <1>0 DEF TypeOK
<1>000. \A u \in Threads : u # t => Spare(u)' = Spare(u)
  BY <1>0, OthersHold
<1>1. CASE SbAlloc(t)
  <2>1. CASE queue = <<>>
    <3>1. UNCHANGED <<queue, big, curr>> /\ pc[t] = "sb_alloc" /\ pc'[t] = "expand"
      BY <1>00, <1>1, <2>1 DEF SbAlloc, At, Goto, app
    <3>2. Spare(t) = {} /\ Spare(t)' = {}
      BY <3>1 DEF Spare
    <3>3. \A u \in Threads : Spare(u)' = Spare(u)
      BY <1>000, <3>2
    <3> QED BY <1>0, <3>1, <3>3, SparesStay
  <2>2. CASE queue # <<>>
    <3>1. /\ queue' = Tail(queue) /\ UNCHANGED <<big, curr>>
          /\ desc'[t] = Head(queue) /\ pc[t] = "sb_alloc" /\ pc'[t] = "use_sb"
      BY <1>0, <1>00, <1>1, <2>2 DEF SbAlloc, At, Goto, app, TypeOK
    <3>2. Spare(t) = {} /\ Spare(t)' = {Head(queue)}
      BY <3>1 DEF Spare
    <3>3. /\ NoDup(queue)' /\ Head(queue) \in Elems(queue)
          /\ Elems(queue)' = Elems(queue) \ {Head(queue)}
      <4>1. /\ NoDup(Tail(queue)) /\ Head(queue) \in Elems(queue)
            /\ Elems(Tail(queue)) = Elems(queue) \ {Head(queue)}
        BY <1>0, <2>2, TailNoDup
      <4> QED BY <3>1, <4>1
    <3>4. /\ Elems(queue)' \cap big' = {}
          /\ Spare(t)' \cap Elems(queue)' = {} /\ Spare(t)' \cap big' = {}
          /\ Elems(queue)' \cup big' \cup Spare(t)'
               \subseteq Elems(queue) \cup big \cup Spare(t) \cup (curr .. curr' - 1)
          /\ curr' \in Nat /\ curr <= curr'
      BY <1>0, <3>1, <3>2, <3>3
    <3> QED BY <1>0, <1>000, <3>3, <3>4, SparesMove
  <2> QED BY <2>1, <2>2
<1>2. CASE ExpandCAS(t)
  <2>1. CASE curr # span[t].lo
    <3>1. UNCHANGED <<queue, big, curr>> /\ pc[t] = "expand_cas" /\ pc'[t] = "sb_alloc"
      BY <1>00, <1>2, <2>1 DEF ExpandCAS, At, Goto, app
    <3>2. Spare(t) = {} /\ Spare(t)' = {}
      BY <3>1 DEF Spare
    <3>3. \A u \in Threads : Spare(u)' = Spare(u)
      BY <1>000, <3>2
    <3> QED BY <1>0, <3>1, <3>3, SparesStay
  <2>2. CASE curr = span[t].lo
    <3>1. /\ curr' = curr + Expand /\ UNCHANGED <<queue, big>>
          /\ desc'[t] = curr /\ pc[t] = "expand_cas" /\ pc'[t] = "organize"
          /\ span'[t] = [lo |-> curr + 1, hi |-> span[t].hi]
          /\ span[t].hi = curr + Expand - 1
      BY <1>0, <1>00, <1>2, <2>2 DEF ExpandCAS, At, Goto, app, TypeOK, LocalsOK, LocalsAt
    <3>2. Spare(t) = {} /\ Spare(t)' \subseteq curr .. curr' - 1
      <4>1. Spare(t) = {}
        BY <3>1 DEF Spare
      <4>2. Spare(t)' \subseteq (curr + 1 .. span[t].hi) \cup {curr}
        BY <3>1 DEF Spare
      <4> QED BY <1>0, <3>1, <4>1, <4>2, ConstantsAssumption
    <3>3. NoDup(queue)' /\ Elems(queue)' = Elems(queue)
      BY <1>0, <3>1 DEF NoDup, Elems
    <3>4. curr' \in Nat /\ curr <= curr'
      BY <1>0, <3>1, ConstantsAssumption
    <3>5. /\ \A d \in Elems(queue) \cup big : d \notin curr .. curr' - 1
      BY <1>0 DEF SparesApart
    <3>6. /\ Elems(queue)' \cap big' = {}
          /\ Spare(t)' \cap Elems(queue)' = {} /\ Spare(t)' \cap big' = {}
          /\ Elems(queue)' \cup big' \cup Spare(t)'
               \subseteq Elems(queue) \cup big \cup Spare(t) \cup (curr .. curr' - 1)
      BY <1>0, <3>1, <3>2, <3>3, <3>5
    <3> QED BY <1>0, <1>000, <3>3, <3>4, <3>6, SparesMove
  <2> QED BY <2>1, <2>2
<1>3. CASE Organize(t)
  <2>0. /\ span[t].lo \in Sbs /\ span[t].hi \in Sbs /\ span[t].lo <= span[t].hi
        /\ goal[t] # "free" => desc[t] \notin span[t].lo .. span[t].hi
        /\ pc[t] = "organize"
    BY <1>0, <1>3 DEF LocalsOK, LocalsAt, Organize, At
  <2>1. CASE queue' = queue
    <3>1. Abort("queue is full")
      <4>1. queue' # Append(queue, span[t].lo)
        BY <1>0, <2>1
      <4> QED BY <1>3, <4>1 DEF Organize
    <3>2. /\ UNCHANGED <<queue, big, curr>>
          /\ \A u \in Threads : Spare(u)' = Spare(u)
      BY <3>1 DEF Abort, shared, app, local, Spare
    <3> QED BY <1>0, <3>2, SparesStay
  <2>2. CASE queue' # queue
    <3>1. /\ queue' = Append(queue, span[t].lo) /\ UNCHANGED <<big, curr>>
          /\ \/ /\ span[t].lo < span[t].hi
                /\ span' = [span EXCEPT ![t] = [lo |-> @.lo + 1, hi |-> @.hi]]
                /\ UNCHANGED <<pc, desc, old, seg, blk, goal>>
             \/ /\ span[t].lo = span[t].hi /\ goal[t] \in {"small", "large"}
                /\ span' = [span EXCEPT ![t] = NoSpan]
                /\ Goto(t, "use_sb")
                /\ UNCHANGED <<desc, old, seg, blk, goal>>
             \/ /\ span[t].lo = span[t].hi /\ goal[t] = "free"
                /\ Return(t)
      BY <1>3, <2>2 DEF Organize, Abort, shared, app
    <3>2. span[t].lo \in Spare(t) /\ Spare(t)' \subseteq Spare(t) \ {span[t].lo}
      <4>0. /\ span[t].lo \in Int /\ span[t].hi \in Int
            /\ span[t].lo \in Spare(t)
            /\ Spare(t) = (span[t].lo .. span[t].hi)
                          \cup (IF goal[t] # "free" THEN {desc[t]} ELSE {})
        <5>1. span[t].lo \in Int /\ span[t].hi \in Int
          BY <2>0, ConstantsAssumption DEF Sbs
        <5>2. Spare(t) = (span[t].lo .. span[t].hi)
                          \cup (IF goal[t] # "free" THEN {desc[t]} ELSE {})
          BY <2>0 DEF Spare
        <5> QED BY <2>0, <5>1, <5>2
      <4>1. CASE /\ span[t].lo < span[t].hi
                 /\ span' = [span EXCEPT ![t] = [lo |-> @.lo + 1, hi |-> @.hi]]
                 /\ UNCHANGED <<pc, desc, old, seg, blk, goal>>
        <5>1. span'[t] = [lo |-> span[t].lo + 1, hi |-> span[t].hi]
          BY <1>0, <4>1 DEF TypeOK
        <5>2. Spare(t)' = (span[t].lo + 1 .. span[t].hi)
                          \cup (IF goal[t] # "free" THEN {desc[t]} ELSE {})
          BY <2>0, <4>1, <5>1 DEF Spare
        <5> QED BY <2>0, <4>0, <5>2
      <4>2. CASE /\ span[t].lo = span[t].hi /\ goal[t] \in {"small", "large"}
                 /\ span' = [span EXCEPT ![t] = NoSpan]
                 /\ Goto(t, "use_sb")
                 /\ UNCHANGED <<desc, old, seg, blk, goal>>
        <5>1. Spare(t)' = {desc[t]}
          BY <1>00, <4>2 DEF Spare, Goto
        <5> QED BY <2>0, <4>0, <4>2, <5>1
      <4>3. CASE span[t].lo = span[t].hi /\ goal[t] = "free" /\ Return(t)
        <5>1. Spare(t)' = {}
          BY <1>00, <4>3 DEF Spare, Return, Goto
        <5> QED BY <4>0, <5>1
      <4> QED BY <3>1, <4>1, <4>2, <4>3
    <3>3. /\ NoDup(queue)' /\ Elems(queue)' = Elems(queue) \cup {span[t].lo}
      <4>1. /\ NoDup(Append(queue, span[t].lo))
            /\ Elems(Append(queue, span[t].lo)) = Elems(queue) \cup {span[t].lo}
        <5>1. span[t].lo \notin Elems(queue)
          BY <1>0, <3>2
        <5> QED BY <1>0, <2>0, <5>1, AppendNoDup
      <4> QED BY <3>1, <4>1 DEF NoDup, Elems
    <3>4. /\ Elems(queue)' \cap big' = {}
          /\ Spare(t)' \cap Elems(queue)' = {} /\ Spare(t)' \cap big' = {}
          /\ Elems(queue)' \cup big' \cup Spare(t)'
               \subseteq Elems(queue) \cup big \cup Spare(t) \cup (curr .. curr' - 1)
          /\ curr' \in Nat /\ curr <= curr'
      BY <1>0, <3>1, <3>2, <3>3
    <3> QED BY <1>0, <1>000, <3>3, <3>4, SparesMove
  <2> QED BY <2>1, <2>2
<1>4. CASE NewSb(t)
  <2>1. UNCHANGED <<queue, big, curr>> /\ pc[t] = "use_sb" /\ pc'[t] \in {"pop", "push_part"}
    BY <1>00, <1>4 DEF NewSb, At, Goto, app
  <2>2. Spare(t)' = {}
    BY <2>1 DEF Spare
  <2>3. NoDup(queue)' /\ Elems(queue)' = Elems(queue)
    BY <1>0, <2>1 DEF NoDup, Elems
  <2>4. /\ Elems(queue)' \cap big' = {}
        /\ Spare(t)' \cap Elems(queue)' = {} /\ Spare(t)' \cap big' = {}
        /\ Elems(queue)' \cup big' \cup Spare(t)'
             \subseteq Elems(queue) \cup big \cup Spare(t) \cup (curr .. curr' - 1)
        /\ curr' \in Nat /\ curr <= curr'
    BY <1>0, <2>1, <2>2, <2>3
  <2> QED BY <1>0, <1>000, <2>3, <2>4, SparesMove
<1>5. CASE LargeBlock(t)
  <2>1. /\ UNCHANGED <<queue, curr>> /\ big' = big \cup {desc[t]}
        /\ pc[t] = "use_sb" /\ pc'[t] = "idle"
    BY <1>00, <1>5 DEF LargeBlock, At, Goto, Return
  <2>2. Spare(t) = {desc[t]} /\ Spare(t)' = {}
    BY <2>1 DEF Spare
  <2>3. NoDup(queue)' /\ Elems(queue)' = Elems(queue)
    BY <1>0, <2>1 DEF NoDup, Elems
  <2>4. /\ Elems(queue)' \cap big' = {}
        /\ Spare(t)' \cap Elems(queue)' = {} /\ Spare(t)' \cap big' = {}
        /\ Elems(queue)' \cup big' \cup Spare(t)'
             \subseteq Elems(queue) \cup big \cup Spare(t) \cup (curr .. curr' - 1)
        /\ curr' \in Nat /\ curr <= curr'
    BY <1>0, <2>1, <2>2, <2>3
  <2> QED BY <1>0, <1>000, <2>3, <2>4, SparesMove
<1>6. CASE FreeLarge(t)
  <2>1. PICK d \in big :
          /\ big' = big \ {d} /\ UNCHANGED <<queue, curr>>
          /\ span' = [span EXCEPT ![t] = [lo |-> d, hi |-> d]]
          /\ goal' = [goal EXCEPT ![t] = "free"]
          /\ pc[t] = "idle" /\ pc' = [pc EXCEPT ![t] = "organize"]
    BY <1>6 DEF FreeLarge, At, Goto, shared
  <2>2. Spare(t)' = {d}
    <3>1. pc'[t] = "organize" /\ goal'[t] = "free" /\ span'[t] = [lo |-> d, hi |-> d]
      BY <1>0, <2>1 DEF TypeOK
    <3>2. d \in Int
      <4>1. d \in Sbs
        BY <1>0, <2>1 DEF TypeOK
      <4> QED BY <4>1, ConstantsAssumption DEF Sbs
    <3>3. Spare(t)' = d .. d
      BY <3>1 DEF Spare
    <3> QED BY <3>2, <3>3
  <2>3. NoDup(queue)' /\ Elems(queue)' = Elems(queue)
    BY <1>0, <2>1 DEF NoDup, Elems
  <2>4. /\ Elems(queue)' \cap big' = {}
        /\ Spare(t)' \cap Elems(queue)' = {} /\ Spare(t)' \cap big' = {}
        /\ Elems(queue)' \cup big' \cup Spare(t)'
             \subseteq Elems(queue) \cup big \cup Spare(t) \cup (curr .. curr' - 1)
        /\ curr' \in Nat /\ curr <= curr'
    BY <1>0, <2>1, <2>2, <2>3
  <2> QED BY <1>0, <1>000, <2>3, <2>4, SparesMove
<1>7. CASE ~(SbAlloc(t) \/ ExpandCAS(t) \/ Organize(t) \/ NewSb(t)
             \/ LargeBlock(t) \/ FreeLarge(t))
  BY <1>7, PlainSteps DEF Step, Call
<1> QED BY <1>1, <1>2, <1>3, <1>4, <1>5, <1>6, <1>7
-----------------------------------------------------------------------------
(* Anchors *)

\* The anchor of a used superblock that thread t has not popped from the partial
\* list changes in a step of t only when t flushes blocks into it.
LEMMA AnchorFrame ==
  ASSUME CoreInv, NEW t \in Threads, Step(t) \/ Call(t),
         NEW d \in Used, d \notin Carry(t)
  PROVE  \/ anchor'[d] = anchor[d]
         \/ /\ FlushCAS(t) /\ d = desc[t] /\ anchor[d] = old[t]
            /\ anchor'[d] = Returned(anchor[d], seg[t].head[2], seg[t].num, DescMax(d))
<1>0. /\ TypeOK /\ SparesApart /\ LocalsOK /\ anchor \in [Sbs -> Anchors]
      /\ curr \in 1 .. NSb /\ d \in 1 .. curr - 1 /\ d \notin Spare(t)
  BY DEF CoreInv, TypeOK, Used
<1>1. d \in Sbs
  BY <1>0, ConstantsAssumption DEF Sbs
<1>2. CASE Reserve(t) \/ TakeAll(t)
  <2>1. desc[t] # d
    BY <1>2 DEF Carry, Reserve, TakeAll, At
  <2> QED BY <1>0, <1>1, <1>2, <2>1
          DEF Reserve, TakeAll, RetireEmpty, Erase, Abort, shared
<1>3. CASE TakePart(t) \/ FlushRetire(t)
  <2>1. desc[t] # d
    BY <1>3 DEF Carry, TakePart, FlushRetire, At
  <2> QED BY <1>0, <1>1, <1>3, <2>1 DEF TakePart, FlushRetire, Erase, shared
<1>4. CASE Organize(t)
  <2>1. span[t].lo # d
    <3>1. /\ pc[t] = "organize" /\ span[t].lo \in Sbs /\ span[t].hi \in Sbs
          /\ span[t].lo <= span[t].hi
      BY <1>0, <1>4 DEF LocalsOK, LocalsAt, Organize, At
    <3>2. span[t].lo \in span[t].lo .. span[t].hi
      BY <3>1, ConstantsAssumption DEF Sbs
    <3>3. span[t].lo \in Spare(t)
      BY <3>1, <3>2 DEF Spare
    <3> QED BY <1>0, <3>3
  <2> QED BY <1>0, <1>1, <1>4, <2>1 DEF Organize, Erase, Abort, shared
<1>5. CASE NewSb(t) \/ LargeBlock(t)
  <2>1. desc[t] # d
    <3>1. Spare(t) = {desc[t]}
      BY <1>5 DEF Spare, NewSb, LargeBlock, At
    <3> QED BY <1>0, <3>1
  <2> QED BY <1>0, <1>1, <1>5, <2>1 DEF NewSb, LargeBlock
<1>6. CASE FlushCAS(t)
  BY <1>0, <1>1, <1>6 DEF FlushCAS, shared
<1>7. CASE ~(Reserve(t) \/ TakeAll(t) \/ TakePart(t) \/ FlushRetire(t) \/ Organize(t)
             \/ NewSb(t) \/ LargeBlock(t) \/ FlushCAS(t))
  <2>1. CASE Pop(t)
    BY <2>1 DEF Pop, Abort, shared
  <2>2. CASE HeapPopPartial(t)
    BY <2>2 DEF HeapPopPartial
  <2>3. CASE PushPart(t)
    BY <2>3 DEF PushPart
  <2>4. CASE SbAlloc(t)
    BY <2>4 DEF SbAlloc
  <2>5. CASE ExpandLoad(t)
    BY <2>5 DEF ExpandLoad, Abort, shared
  <2>6. CASE ExpandCAS(t)
    BY <2>6 DEF ExpandCAS
  <2>7. CASE FlushTake(t)
    BY <2>7 DEF FlushTake, Abort, shared
  <2>8. CASE FlushPush(t)
    BY <2>8 DEF FlushPush
  <2>9. CASE FlushDone(t)
    BY <2>9 DEF FlushDone
  <2>10. CASE MallocMiss(t)
    BY <2>10 DEF MallocMiss, shared
  <2>11. CASE MallocLarge(t)
    BY <2>11 DEF MallocLarge, shared
  <2>12. CASE FreeLarge(t)
    BY <2>12 DEF FreeLarge, shared
  <2>13. CASE FreeSmall(t)
    BY <2>13 DEF FreeSmall
  <2>14. CASE ThreadExit(t)
    BY <2>14 DEF ThreadExit, shared
  <2> QED BY <1>7, <2>1, <2>2, <2>3, <2>4, <2>5, <2>6, <2>7, <2>8, <2>9, <2>10, <2>11, <2>12, <2>13, <2>14
          DEF Step, Call
<1> QED BY <1>2, <1>3, <1>4, <1>5, <1>6, <1>7

\* Returning blocks to a superblock that is not FULL keeps its state or empties
\* it, and never lowers its count.
LEMMA ReturnedFacts ==
  ASSUME NEW a \in Anchors, NEW i \in 0 .. MaxCount - 1, NEW n \in Nat, n >= 1,
         NEW m \in Nat
  PROVE  /\ a.state # "FULL" => Returned(a, i, n, m).state \in {a.state, "EMPTY"}
         /\ a.state = "FULL" => Returned(a, i, n, m).state \in {"PARTIAL", "EMPTY"}
         /\ Returned(a, i, n, m).count >= a.count
<1>1. a.count \in Nat
  BY AnchorTyped
<1> QED BY <1>1 DEF Returned
-----------------------------------------------------------------------------
(* Locals *)

\* A step of thread t keeps what is known of the locals of another thread u: the
\* blocks u is about to take out of a superblock cannot be taken by t.
LEMMA LocalsOther ==
  ASSUME CoreInv, NEW t \in Threads, Step(t) \/ Call(t), NEW u \in Threads, u # t
  PROVE  LocalsAt(u)'
<1>0. TypeOK /\ LocalsAt(u) /\ anchor \in [Sbs -> Anchors]
  BY DEF CoreInv, LocalsOK, TypeOK
<1>1. /\ pc'[u] = pc[u] /\ desc'[u] = desc[u] /\ old'[u] = old[u]
      /\ seg'[u] = seg[u] /\ span'[u] = span[u] /\ blk'[u] = blk[u]
      /\ goal'[u] = goal[u]
  BY <1>0, OthersUnchanged
<1>2. curr \in Nat /\ curr' \in Nat /\ curr <= curr'
  <2>1. curr \in Nat
    <3>1. curr \in 1 .. NSb
      BY <1>0 DEF TypeOK
    <3> QED BY <3>1, ConstantsAssumption
  <2>2. CASE ExpandCAS(t)
    BY <2>1, <2>2, ConstantsAssumption DEF ExpandCAS
  <2>3. CASE ~ExpandCAS(t)
    <3>1. curr' = curr
      BY <2>3 DEF Step, Call, Pop, HeapPopPartial, Reserve, TakeAll, TakePart, PushPart,
            SbAlloc, ExpandLoad, Organize, NewSb, LargeBlock, FlushTake, FlushCAS,
            FlushPush, FlushRetire, FlushDone, MallocMiss, MallocLarge, FreeLarge,
            FreeSmall, ThreadExit, Abort, RetireEmpty, shared
    <3> QED BY <2>1, <3>1
  <2> QED BY <2>2, <2>3
<1>3. pc[u] = "expand_cas" => span[u].lo <= curr'
  <2> SUFFICES ASSUME pc[u] = "expand_cas" PROVE span[u].lo <= curr'
    OBVIOUS
  <2>1. span[u].lo \in Sbs /\ span[u].lo <= curr
    BY <1>0 DEF LocalsAt
  <2>2. span[u].lo \in Int
    BY <2>1, ConstantsAssumption DEF Sbs
  <2> QED BY <1>2, <2>1, <2>2
<1>4. pc[u] = "take_part" => seg[u].num < anchor'[desc[u]].count
  <2> SUFFICES ASSUME pc[u] = "take_part" PROVE seg[u].num < anchor'[desc[u]].count
    OBVIOUS
  <2>1. /\ desc[u] \in Used /\ desc[u] \notin Carry(t)
    <3>1. desc[u] \in Carry(u)
      BY DEF Carry
    <3> QED BY <3>1 DEF CoreInv, PartialsApart
  <2>2. /\ seg[u].num < anchor[desc[u]].count /\ anchor[desc[u]] \in Anchors
        /\ seg[u].num \in Nat /\ anchor[desc[u]].count \in Nat
    <3>1. seg[u].num < anchor[desc[u]].count /\ desc[u] \in Sbs
      BY <1>0 DEF LocalsAt
    <3>2. anchor[desc[u]] \in Anchors
      BY <1>0, <3>1
    <3> QED BY <1>0, <3>1, <3>2, AnchorTyped, ThreadTyped
  <2>3. CASE anchor'[desc[u]] = anchor[desc[u]]
    BY <2>2, <2>3
  <2>4. CASE /\ FlushCAS(t) /\ desc[u] = desc[t]
             /\ anchor'[desc[u]] = Returned(anchor[desc[u]], seg[t].head[2], seg[t].num, DescMax(desc[u]))
    <3>1. seg[t].head \in Blocks /\ seg[t].num >= 1 /\ seg[t].num \in Nat
      <4>1. LocalsAt(t) /\ pc[t] = "flush_cas"
        BY <2>4 DEF CoreInv, LocalsOK, FlushCAS, At
      <4> QED BY <1>0, <4>1, ThreadTyped DEF LocalsAt
    <3>2. seg[t].head[2] \in 0 .. MaxCount - 1 /\ DescMax(desc[u]) \in Nat
      <4>1. desc[u] \in Sbs
        BY <1>0 DEF LocalsAt
      <4> QED BY <1>0, <3>1, <4>1, AddrTyped, DescMaxTyped
    <3>3. Returned(anchor[desc[u]], seg[t].head[2], seg[t].num, DescMax(desc[u])).count
            >= anchor[desc[u]].count
      BY <2>2, <3>1, <3>2, ReturnedFacts
    <3>4. Returned(anchor[desc[u]], seg[t].head[2], seg[t].num, DescMax(desc[u])).count \in Nat
      BY <2>2, <3>1, <3>2, AnchorTyped
    <3> QED BY <2>2, <2>4, <3>3, <3>4
  <2> QED BY <2>1, <2>3, <2>4, AnchorFrame
<1> QED BY <1>0, <1>1, <1>3, <1>4 DEF LocalsAt
\* Nothing is known of the locals at the labels before a superblock is obtained.
LEMMA LocalsPlain ==
  ASSUME NEW t \in Threads, pc'[t] \in {"idle", "pop", "pop_partial", "sb_alloc", "expand"}
  PROVE  LocalsAt(t)'
  BY DEF LocalsAt

\* An abort changes no local.
LEMMA LocalsAbort ==
  ASSUME NEW t \in Threads, NEW w, LocalsAt(t), Abort(w)
  PROVE  LocalsAt(t)'
  BY DEF LocalsAt, Abort, shared, app, local

\* A step of thread t establishes what is known of its locals at the next label.
LEMMA LocalsSelf ==
  ASSUME CoreInv, NEW t \in Threads, Step(t) \/ Call(t)
  PROVE  LocalsAt(t)'
<1>0. TypeOK /\ LocalsAt(t) /\ pc \in [Threads -> Labels]
  BY DEF CoreInv, LocalsOK, TypeOK
<1>1. CASE Pop(t)
  <2>1. CASE Abort("bad link")
    BY <1>0, <2>1, LocalsAbort
  <2>2. CASE Return(t)
    BY <1>0, <2>2, LocalsPlain DEF Return, Goto
  <2> QED BY <1>1, <2>1, <2>2 DEF Pop
<1>2. CASE HeapPopPartial(t)
  <2>1. CASE partial = <<>>
    BY <1>0, <1>2, <2>1, LocalsPlain DEF HeapPopPartial, Goto
  <2>2. CASE partial # <<>>
    <3>1. Head(partial) \in Sbs
      <4>1. partial \in Seq(Sbs)
        BY <1>0 DEF TypeOK
      <4> QED BY <2>2, <4>1
    <3>2. pc'[t] = "reserve" /\ desc'[t] = Head(partial)
      BY <1>0, <1>2, <2>2 DEF HeapPopPartial, Goto, TypeOK
    <3> QED BY <3>1, <3>2 DEF LocalsAt
  <2> QED BY <2>1, <2>2
<1>3. CASE Reserve(t)
  <2> DEFINE d == desc[t]
             a == anchor[d]
             last == Follow(AddrOf(d, a.avail), cache[t].max - 1)
  <2>0. d \in Sbs /\ a \in Anchors /\ a.count \in Nat /\ cache[t].max \in Nat
    <3>1. d \in Sbs
      BY <1>0, <1>3 DEF LocalsAt, Reserve, At
    <3>2. a \in Anchors
      BY <1>0, <3>1 DEF TypeOK
    <3> QED BY <1>0, <3>1, <3>2, AnchorTyped, ThreadTyped
  <2>1. CASE RetireEmpty(t)
    BY <1>0, <2>1, LocalsPlain DEF RetireEmpty, Goto
  <2>2. CASE Goto(t, "take_all") /\ UNCHANGED desc
    <3>1. pc'[t] = "take_all" /\ desc'[t] = d
      BY <1>0, <2>2 DEF Goto
    <3> QED BY <2>0, <3>1 DEF LocalsAt
  <2>3. CASE /\ a.count > cache[t].max /\ link[last] \in Blocks
             /\ old' = [old EXCEPT ![t] = a]
             /\ seg' = [seg EXCEPT ![t] = [head |-> AddrOf(d, a.avail),
                                           tail |-> link[last], num |-> cache[t].max]]
             /\ Goto(t, "take_part")
             /\ UNCHANGED <<anchor, desc>>
    <3> HIDE DEF last
    <3>1. /\ pc'[t] = "take_part" /\ desc'[t] = d /\ old'[t] = a /\ anchor'[d] = a
          /\ seg'[t] = [head |-> AddrOf(d, a.avail), tail |-> link[last],
                        num |-> cache[t].max]
      BY <1>0, <2>3 DEF Goto, TypeOK
    <3>2. seg'[t].num < a.count /\ seg'[t].tail \in Blocks
      BY <2>0, <2>3, <3>1
    <3> QED BY <2>0, <3>1, <3>2 DEF LocalsAt
  <2>4. CASE Abort("bad link")
    BY <1>0, <2>4, LocalsAbort
  <2> QED BY <1>3, <2>1, <2>2, <2>3, <2>4 DEF Reserve
<1>4. CASE TakeAll(t)
  <2>1. CASE Abort("assert")
    BY <1>0, <2>1, LocalsAbort
  <2>2. CASE RetireEmpty(t)
    BY <1>0, <2>2, LocalsPlain DEF RetireEmpty, Goto
  <2>3. CASE Goto(t, IF anchor[desc[t]].count = 0 THEN "sb_alloc" ELSE "pop")
    BY <1>0, <2>3, LocalsPlain DEF Goto
  <2>4. CASE UNCHANGED <<pc, desc>>
    <3>1. pc'[t] = "take_all" /\ desc'[t] \in Sbs
      BY <1>0, <1>4, <2>4 DEF LocalsAt, TakeAll, At
    <3> QED BY <3>1 DEF LocalsAt
  <2> QED BY <1>4, <2>1, <2>2, <2>3, <2>4 DEF TakeAll
<1>5. CASE TakePart(t)
  <2>0. /\ pc[t] = "take_part" /\ desc[t] \in Sbs /\ seg[t].tail \in Blocks
        /\ seg[t].num < anchor[desc[t]].count
    BY <1>0, <1>5 DEF LocalsAt, TakePart, At
  <2>1. CASE anchor[desc[t]] = old[t]
    <3>1. pc'[t] = "push_part" /\ desc'[t] = desc[t]
      BY <1>0, <1>5, <2>1 DEF TakePart, Goto, local
    <3> QED BY <2>0, <3>1 DEF LocalsAt
  <2>2. CASE anchor[desc[t]] # old[t]
    <3>1. /\ pc'[t] = "take_part" /\ desc'[t] = desc[t] /\ seg'[t] = seg[t]
          /\ anchor' = anchor /\ old'[t] = anchor[desc[t]]
      BY <1>0, <1>5, <2>0, <2>2 DEF TakePart, shared, TypeOK
    <3> QED BY <2>0, <3>1 DEF LocalsAt
  <2> QED BY <2>1, <2>2
<1>6. CASE PushPart(t) \/ MallocMiss(t) \/ MallocLarge(t)
  BY <1>0, <1>6, LocalsPlain DEF PushPart, MallocMiss, MallocLarge, Goto
<1>7. CASE SbAlloc(t)
  <2>1. CASE queue = <<>>
    BY <1>0, <1>7, <2>1, LocalsPlain DEF SbAlloc, Goto
  <2>2. CASE queue # <<>>
    <3>1. Head(queue) \in Sbs
      <4>1. queue \in Seq(Sbs)
        BY <1>0 DEF TypeOK
      <4> QED BY <2>2, <4>1
    <3>2. pc'[t] = "use_sb" /\ desc'[t] = Head(queue)
      BY <1>0, <1>7, <2>2 DEF SbAlloc, Goto, TypeOK
    <3> QED BY <3>1, <3>2 DEF LocalsAt
  <2> QED BY <2>1, <2>2
<1>8. CASE ExpandLoad(t)
  <2>0. curr \in 1 .. NSb
    BY <1>0 DEF TypeOK
  <2>1. CASE Abort("out of space")
    BY <1>0, <2>1, LocalsAbort
  <2>2. CASE /\ curr + Expand <= NSb /\ Goto(t, "expand_cas") /\ UNCHANGED shared
             /\ span' = [span EXCEPT ![t] = [lo |-> curr, hi |-> curr + Expand - 1]]
    <3>1. /\ pc'[t] = "expand_cas" /\ curr' = curr
          /\ span'[t] = [lo |-> curr, hi |-> curr + Expand - 1]
      BY <1>0, <2>2 DEF Goto, TypeOK, shared
    <3>2. curr \in Sbs /\ curr + Expand - 1 \in Sbs
      BY <2>0, <2>2, ConstantsAssumption DEF Sbs
    <3>3. /\ span'[t].lo = curr /\ span'[t].hi = curr + Expand - 1 /\ curr <= curr'
      BY <2>0, <3>1, ConstantsAssumption
    <3> QED BY <3>1, <3>2, <3>3 DEF LocalsAt
  <2> QED BY <1>8, <2>1, <2>2 DEF ExpandLoad
<1>9. CASE ExpandCAS(t)
  <2>1. CASE curr # span[t].lo
    BY <1>0, <1>9, <2>1, LocalsPlain DEF ExpandCAS, Goto
  <2>2. CASE curr = span[t].lo
    <3>0. span[t].lo \in Sbs /\ span[t].hi \in Sbs /\ span[t].hi = curr + Expand - 1
      BY <1>0, <1>9, <2>2 DEF LocalsAt, ExpandCAS, At
    <3>1. /\ pc'[t] = "organize" /\ desc'[t] = curr
          /\ span'[t] = [lo |-> curr + 1, hi |-> span[t].hi]
      BY <1>0, <1>9, <2>2 DEF ExpandCAS, Goto, TypeOK
    <3>2. /\ curr + 1 \in Sbs /\ curr + 1 <= span[t].hi
          /\ curr \notin curr + 1 .. span[t].hi
      BY <2>2, <3>0, ConstantsAssumption DEF Sbs
    <3>3. span'[t].lo = curr + 1 /\ span'[t].hi = span[t].hi
      BY <3>1
    <3> QED BY <3>0, <3>1, <3>2, <3>3 DEF LocalsAt
  <2> QED BY <2>1, <2>2
<1>10. CASE Organize(t)
  <2>0. /\ pc[t] = "organize" /\ span[t].lo \in Sbs /\ span[t].hi \in Sbs
        /\ goal[t] # "free" => desc[t] \notin span[t].lo .. span[t].hi
    BY <1>0, <1>10 DEF LocalsAt, Organize, At
  <2>00. span[t].lo \in Int /\ span[t].hi \in Int
    BY <2>0, ConstantsAssumption DEF Sbs
  <2>1. CASE Abort("queue is full")
    BY <1>0, <2>1, LocalsAbort
  <2>2. CASE /\ span[t].lo < span[t].hi
             /\ span' = [span EXCEPT ![t] = [lo |-> @.lo + 1, hi |-> @.hi]]
             /\ UNCHANGED <<pc, desc, old, seg, blk, goal>>
    <3>1. /\ pc'[t] = "organize" /\ desc'[t] = desc[t] /\ goal'[t] = goal[t]
          /\ span'[t] = [lo |-> span[t].lo + 1, hi |-> span[t].hi]
      BY <1>0, <2>0, <2>2 DEF TypeOK
    <3>2. span'[t].lo = span[t].lo + 1 /\ span'[t].hi = span[t].hi
      BY <3>1
    <3>3. span[t].lo + 1 \in Sbs /\ span[t].lo + 1 <= span[t].hi
      BY <2>0, <2>2, ConstantsAssumption DEF Sbs
    <3>4. goal[t] # "free" => desc[t] \notin span[t].lo + 1 .. span[t].hi
      BY <2>0, <2>00
    <3> QED BY <2>0, <3>1, <3>2, <3>3, <3>4 DEF LocalsAt
  <2>3. CASE goal[t] \in {"small", "large"} /\ Goto(t, "use_sb") /\ UNCHANGED desc
    <3>1. pc'[t] = "use_sb" /\ desc'[t] = desc[t]
      BY <1>0, <2>3 DEF Goto
    <3>2. desc[t] \in Sbs
      <4>1. desc[t] \in Spare(t)
        BY <2>0, <2>3 DEF Spare
      <4>2. desc[t] \in 1 .. curr - 1 /\ curr \in 1 .. NSb
        BY <1>0, <4>1 DEF CoreInv, SparesApart, TypeOK
      <4> QED BY <4>2, ConstantsAssumption DEF Sbs
    <3> QED BY <3>1, <3>2 DEF LocalsAt
  <2>4. CASE Return(t)
    BY <1>0, <2>4, LocalsPlain DEF Return, Goto
  <2> QED BY <1>10, <2>1, <2>2, <2>3, <2>4 DEF Organize
<1>11. CASE NewSb(t)
  <2>1. pc'[t] \in {"pop", "push_part"} /\ desc'[t] = desc[t]
    BY <1>0, <1>11 DEF NewSb, Goto
  <2>2. desc[t] \in Sbs
    BY <1>0, <1>11 DEF LocalsAt, NewSb, At
  <2> QED BY <2>1, <2>2 DEF LocalsAt
<1>12. CASE LargeBlock(t) \/ FlushDone(t)
  BY <1>0, <1>12, LocalsPlain DEF LargeBlock, FlushDone, Return, Goto
<1>13. CASE FlushTake(t)
  <2> DEFINE b == cache[t].head
  <2>1. CASE b \in Blocks
    <3>1. PICK n \in 1 .. cache[t].size :
             /\ SameSb(b, n, b[1])
             /\ seg' = [seg EXCEPT ![t] =
                          [head |-> b, tail |-> Follow(b, n - 1), num |-> n]]
      BY <1>13, <2>1 DEF FlushTake
    <3>2. n \in Nat /\ n >= 1 /\ n - 1 \in 0 .. n - 1
      <4>1. cache[t].size \in Nat
        BY <1>0, ThreadTyped
      <4> QED BY <4>1
    <3>3. Follow(b, n - 1) \in Blocks
      BY <3>1, <3>2 DEF SameSb
    <3>4. /\ desc'[t] = b[1] /\ pc'[t] = "flush_cas" /\ blk'[t] = blk[t]
          /\ goal'[t] = goal[t] /\ pc[t] = "flush"
      BY <1>0, <1>13, <2>1 DEF FlushTake, Goto, At, TypeOK
    <3>5. seg'[t] = [head |-> b, tail |-> Follow(b, n - 1), num |-> n]
      BY <1>0, <3>1 DEF TypeOK
    <3> HIDE DEF b
    <3>6. seg'[t].head = b /\ seg'[t].tail = Follow(b, n - 1) /\ seg'[t].num = n
      BY <3>5
    <3>7. b[1] \in Sbs
      BY <2>1, AddrTyped
    <3>8. goal[t] = "free" => blk[t] \in Blocks
      BY <1>0, <3>4 DEF LocalsAt
    <3> QED BY <2>1, <3>2, <3>3, <3>4, <3>6, <3>7, <3>8 DEF LocalsAt
  <2>2. CASE b \notin Blocks
    <3>1. Abort("bad link")
      BY <1>13, <2>2 DEF FlushTake
    <3> QED BY <1>0, <3>1, LocalsAbort
  <2> QED BY <2>1, <2>2
<1>14. CASE FlushCAS(t)
  <2>0. /\ pc[t] = "flush_cas" /\ desc[t] \in Sbs
        /\ goal[t] = "free" => blk[t] \in Blocks
    BY <1>0, <1>14 DEF LocalsAt, FlushCAS, At
  <2>1. CASE anchor[desc[t]] = old[t]
    <3>1. /\ pc'[t] \in {"flush", "retire", "push_flush"} /\ desc'[t] = desc[t]
          /\ blk'[t] = blk[t] /\ goal'[t] = goal[t]
      BY <1>0, <1>14, <2>1 DEF FlushCAS, Goto
    <3> QED BY <2>0, <3>1 DEF LocalsAt
  <2>2. CASE anchor[desc[t]] # old[t]
    <3>1. UNCHANGED <<pc, desc, seg, blk, goal>>
      BY <1>14, <2>2 DEF FlushCAS
    <3> QED BY <1>0, <2>0, <3>1 DEF LocalsAt
  <2> QED BY <2>1, <2>2
<1>15. CASE FlushPush(t) \/ FlushRetire(t)
  <2>1. /\ pc'[t] = "flush" /\ blk'[t] = blk[t] /\ goal'[t] = goal[t]
        /\ pc[t] \in {"push_flush", "retire"}
    BY <1>0, <1>15 DEF FlushPush, FlushRetire, Goto, At, local
  <2> QED BY <1>0, <2>1 DEF LocalsAt
<1>16. CASE FreeLarge(t)
  <2>1. PICK d \in big :
          /\ span' = [span EXCEPT ![t] = [lo |-> d, hi |-> d]]
          /\ goal' = [goal EXCEPT ![t] = "free"]
          /\ Goto(t, "organize")
    BY <1>16 DEF FreeLarge
  <2>2. d \in Sbs
    BY <1>0, <2>1 DEF TypeOK
  <2>3. /\ pc'[t] = "organize" /\ goal'[t] = "free" /\ span'[t] = [lo |-> d, hi |-> d]
    BY <1>0, <2>1 DEF TypeOK, Goto
  <2>4. d <= d
    BY <2>2, ConstantsAssumption DEF Sbs
  <2> QED BY <2>2, <2>3, <2>4 DEF LocalsAt
<1>17. CASE FreeSmall(t)
  <2>1. CASE UNCHANGED pc
    BY <1>0, <1>17, <2>1, LocalsPlain DEF FreeSmall, At
  <2>2. CASE ~UNCHANGED pc
    <3>1. PICK b \in user : blk' = [blk EXCEPT ![t] = b] /\ Goto(t, "flush")
      BY <1>17, <2>2 DEF FreeSmall
    <3>2. blk'[t] \in Blocks /\ pc'[t] = "flush"
      BY <1>0, <3>1 DEF TypeOK, Goto
    <3> QED BY <3>2 DEF LocalsAt
  <2> QED BY <2>1, <2>2
<1>18. CASE ThreadExit(t)
  <2>1. pc'[t] = "flush" /\ goal'[t] = "exit"
    BY <1>0, <1>18 DEF ThreadExit, Goto, TypeOK
  <2> QED BY <2>1 DEF LocalsAt
<1> QED
  BY <1>1, <1>2, <1>3, <1>4, <1>5, <1>6, <1>7, <1>8, <1>9, <1>10, <1>11, <1>12,
     <1>13, <1>14, <1>15, <1>16, <1>17, <1>18
  DEF Step, Call
-----------------------------------------------------------------------------
(* Steps that leave blocks alone, and a superblock put to use *)

\* Steps that neither write a block nor a cache nor take a block from the
\* application.
LEMMA QuietSteps ==
  ASSUME TypeOK, NEW t \in Threads,
         \/ HeapPopPartial(t) \/ TakePart(t) \/ SbAlloc(t) \/ ExpandLoad(t)
         \/ ExpandCAS(t) \/ Organize(t) \/ LargeBlock(t) \/ FlushPush(t)
         \/ FlushRetire(t) \/ MallocMiss(t) \/ MallocLarge(t) \/ FreeLarge(t)
         \/ ThreadExit(t)
  PROVE  /\ UNCHANGED <<user, link, cache>>
         /\ seg'[t] \in {seg[t], NoSeg} /\ blk'[t] \in {blk[t], NoBlock}
         /\ pc'[t] # "flush_cas"
<1>0. /\ pc \in [Threads -> Labels] /\ seg \in [Threads -> Segs]
      /\ blk \in [Threads -> Addrs]
  BY DEF TypeOK
<1> USE <1>0 DEF At, Goto
<1>1. CASE HeapPopPartial(t)
  BY <1>1 DEF HeapPopPartial, app
<1>2. CASE TakePart(t)
  BY <1>2 DEF TakePart, app, shared, local
<1>3. CASE SbAlloc(t)
  BY <1>3 DEF SbAlloc, app
<1>4. CASE ExpandLoad(t)
  BY <1>4 DEF ExpandLoad, Abort, app, shared, local
<1>5. CASE ExpandCAS(t)
  BY <1>5 DEF ExpandCAS, app
<1>6. CASE Organize(t)
  BY <1>6 DEF Organize, Erase, Return, Abort, app, shared, local
<1>7. CASE LargeBlock(t)
  BY <1>7 DEF LargeBlock, Return
<1>8. CASE FlushPush(t)
  BY <1>8 DEF FlushPush, app, local
<1>9. CASE FlushRetire(t)
  BY <1>9 DEF FlushRetire, app, local
<1>10. CASE MallocMiss(t) \/ MallocLarge(t)
  BY <1>10 DEF MallocMiss, MallocLarge, app, shared
<1>11. CASE FreeLarge(t)
  BY <1>11 DEF FreeLarge, shared
<1>12. CASE ThreadExit(t)
  BY <1>12 DEF ThreadExit, app, shared
<1> QED
  BY <1>1, <1>2, <1>3, <1>4, <1>5, <1>6, <1>7, <1>8, <1>9, <1>10, <1>11, <1>12

\* malloc_from_newsb puts the superblock it has obtained to use.
LEMMA NewSbUsed ==
  ASSUME CoreInv, NEW t \in Threads, NewSb(t)
  PROVE  desc[t] \in Used'
<1>0. TypeOK /\ Step(t) /\ pc \in [Threads -> Labels]
  BY DEF CoreInv, TypeOK, Step
<1>1. /\ desc[t] \in Spare(t) /\ pc'[t] \in {"pop", "push_part"}
      /\ UNCHANGED <<queue, big, curr>>
  BY <1>0 DEF NewSb, At, Goto, Spare, app
<1>2. Spare(t)' = {} /\ \A u \in Threads : u # t => Spare(u)' = Spare(u)
  BY <1>0, <1>1, OthersHold DEF Spare
<1>3. /\ desc[t] \in 1 .. curr - 1 /\ desc[t] \notin Elems(queue) /\ desc[t] \notin big
      /\ \A u \in Threads : u # t => desc[t] \notin Spare(u)
  BY <1>1 DEF CoreInv, SparesApart
<1>4. Elems(queue)' = Elems(queue)
  BY <1>1 DEF Elems
<1> QED BY <1>1, <1>2, <1>3, <1>4 DEF Used

-----------------------------------------------------------------------------
(* The partial list *)

\* A step of thread t leaves free blocks in every superblock of the list, and of
\* another thread: the only writes there are those of flush_cache.
LEMMA FreeBlocksStay ==
  ASSUME CoreInv, NEW t \in Threads, Step(t) \/ Call(t),
         NEW d \in Used, d \notin Carry(t), anchor[d].state \in {"PARTIAL", "EMPTY"}
  PROVE  anchor'[d].state \in {"PARTIAL", "EMPTY"}
<1>0. TypeOK /\ anchor \in [Sbs -> Anchors] /\ curr \in 1 .. NSb /\ d \in 1 .. curr - 1
  BY DEF CoreInv, TypeOK, Used
<1>00. anchor[d] \in Anchors /\ DescMax(d) \in Nat
  <2>1. d \in Sbs
    BY <1>0, ConstantsAssumption DEF Sbs
  <2> QED BY <1>0, <2>1, DescMaxTyped
<1>1. CASE anchor'[d] = anchor[d]
  BY <1>1
<1>2. CASE /\ FlushCAS(t)
           /\ anchor'[d] = Returned(anchor[d], seg[t].head[2], seg[t].num, DescMax(d))
  <2>1. seg[t].head \in Blocks /\ seg[t].num >= 1 /\ seg[t].num \in Nat
    <3>1. LocalsAt(t) /\ pc[t] = "flush_cas"
      BY <1>2 DEF CoreInv, LocalsOK, FlushCAS, At
    <3> QED BY <1>0, <3>1, ThreadTyped DEF LocalsAt
  <2>2. seg[t].head[2] \in 0 .. MaxCount - 1
    BY <2>1, AddrTyped
  <2> QED BY <1>00, <1>2, <2>1, <2>2, ReturnedFacts
<1> QED BY <1>1, <1>2, AnchorFrame

\* Superblocks only move between the partial list and the hands of the thread
\* that takes the step; one that is new there has free blocks and was nobody's.
LEMMA PartialsMove ==
  ASSUME CoreInv, NEW t \in Threads, Step(t) \/ Call(t),
         NoDup(partial)',
         \A d \in Elems(partial)' :
            \/ d \in Elems(partial)
            \/ d \in Carry(t) /\ anchor'[d].state \in {"PARTIAL", "EMPTY"},
         \A d \in Carry(t)' :
            /\ d \in Used' /\ d \notin Elems(partial)'
            /\ anchor'[d].state \in {"PARTIAL", "EMPTY"}
            /\ \A u \in Threads : u # t => d \notin Carry(u)
  PROVE  PartialsApart'
<1>0. TypeOK /\ PartialsApart /\ Used \subseteq Used'
  BY SparesStep DEF CoreInv
<1>1. \A u \in Threads : u # t => Carry(u)' = Carry(u)
  BY <1>0, OthersHold
<1>2. Elems(partial)' \subseteq Used'
  BY <1>0 DEF PartialsApart
<1>3. ASSUME NEW d \in Elems(partial)' PROVE anchor'[d].state \in {"PARTIAL", "EMPTY"}
  <2>1. CASE d \in Elems(partial)
    <3>1. d \in Used /\ d \notin Carry(t) /\ anchor[d].state \in {"PARTIAL", "EMPTY"}
      BY <1>0, <2>1 DEF PartialsApart
    <3> QED BY <3>1, FreeBlocksStay
  <2> QED BY <2>1
<1>4. ASSUME NEW u \in Threads, u # t
      PROVE  /\ Carry(u) \subseteq Used'
             /\ Carry(u) \cap Elems(partial)' = {}
             /\ \A d \in Carry(u) : anchor'[d].state \in {"PARTIAL", "EMPTY"}
             /\ Carry(t)' \cap Carry(u) = {}
  <2>1. /\ Carry(u) \subseteq Used /\ Carry(u) \cap Elems(partial) = {}
        /\ Carry(u) \cap Carry(t) = {}
        /\ \A d \in Carry(u) : anchor[d].state \in {"PARTIAL", "EMPTY"}
    BY <1>0, <1>4 DEF PartialsApart
  <2>2. ASSUME NEW d \in Carry(u) PROVE anchor'[d].state \in {"PARTIAL", "EMPTY"}
    <3>1. d \in Used /\ d \notin Carry(t) /\ anchor[d].state \in {"PARTIAL", "EMPTY"}
      BY <2>1
    <3> QED BY <3>1, FreeBlocksStay
  <2> QED BY <1>0, <1>4, <2>1, <2>2
<1>5. ASSUME NEW u \in Threads, NEW v \in Threads, u # v
      PROVE  Carry(u)' \cap Carry(v)' = {}
  <2>1. CASE u = t \/ v = t
    BY <1>1, <1>4, <1>5, <2>1
  <2>2. CASE u # t /\ v # t
    BY <1>0, <1>1, <1>5, <2>2 DEF PartialsApart
  <2> QED BY <2>1, <2>2
<1>6. ASSUME NEW u \in Threads
      PROVE  /\ Carry(u)' \subseteq Used'
             /\ Carry(u)' \cap Elems(partial)' = {}
             /\ \A d \in Carry(u)' : anchor'[d].state \in {"PARTIAL", "EMPTY"}
  BY <1>1, <1>4
<1> QED BY <1>2, <1>3, <1>5, <1>6 DEF PartialsApart

\* The thread has, or keeps, no superblock of the list.
LEMMA PartialsNone ==
  ASSUME CoreInv, NEW t \in Threads, Step(t) \/ Call(t), UNCHANGED partial,
         pc'[t] \notin {"reserve", "take_all", "take_part", "push_part",
                        "push_flush", "retire"}
  PROVE  PartialsApart'
<1>1. Carry(t)' = {}
  BY DEF Carry
<1>2. NoDup(partial)' /\ Elems(partial)' = Elems(partial)
  BY DEF CoreInv, PartialsApart, NoDup, Elems
<1> QED BY <1>1, <1>2, PartialsMove

\* The thread keeps the superblock it has popped, and leaves free blocks in it.
LEMMA PartialsSame ==
  ASSUME CoreInv, NEW t \in Threads, Step(t) \/ Call(t), UNCHANGED partial,
         Carry(t)' = Carry(t),
         \A d \in Carry(t) : anchor'[d] = anchor[d] \/ anchor'[d].state = "PARTIAL"
  PROVE  PartialsApart'
<1>1. PartialsApart /\ Used \subseteq Used'
  BY SparesStep DEF CoreInv
<1>2. NoDup(partial)' /\ Elems(partial)' = Elems(partial)
  BY <1>1 DEF PartialsApart, NoDup, Elems
<1>3. \A d \in Carry(t) :
        /\ d \in Used' /\ d \notin Elems(partial)
        /\ anchor'[d].state \in {"PARTIAL", "EMPTY"}
        /\ \A u \in Threads : u # t => d \notin Carry(u)
  BY <1>1 DEF PartialsApart
<1> QED BY <1>2, <1>3, PartialsMove

\* heap_push_partial of the superblock the thread has.
LEMMA PartialsPush ==
  ASSUME CoreInv, NEW t \in Threads, Step(t) \/ Call(t),
         pc[t] \in {"push_part", "push_flush"}, pc'[t] \in {"pop", "flush"},
         partial' = <<desc[t]>> \o partial, UNCHANGED anchor
  PROVE  PartialsApart'
<1>1. /\ Carry(t) = {desc[t]} /\ Carry(t)' = {}
  BY DEF Carry
<1>2. /\ partial \in Seq(Sbs) /\ desc[t] \in Sbs /\ NoDup(partial)
      /\ desc[t] \notin Elems(partial) /\ anchor[desc[t]].state \in {"PARTIAL", "EMPTY"}
  <2>1. TypeOK /\ LocalsAt(t) /\ PartialsApart
    BY DEF CoreInv, LocalsOK
  <2>2. partial \in Seq(Sbs) /\ desc[t] \in Sbs
    BY <2>1 DEF TypeOK, LocalsAt
  <2> QED BY <1>1, <2>1, <2>2 DEF PartialsApart
<1>3. NoDup(partial)' /\ Elems(partial)' = Elems(partial) \cup {desc[t]}
  <2>1. /\ NoDup(<<desc[t]>> \o partial)
        /\ Elems(<<desc[t]>> \o partial) = Elems(partial) \cup {desc[t]}
    BY <1>2, ConsNoDup
  <2> QED BY <2>1
<1> QED BY <1>1, <1>2, <1>3, PartialsMove

\* After every step each superblock is once on the list, with one thread, or
\* neither.
LEMMA PartialsStep ==
  ASSUME CoreInv, NEW t \in Threads, Step(t) \/ Call(t)
  PROVE  PartialsApart'
<1>0. /\ TypeOK /\ LocalsAt(t) /\ PartialsApart /\ Used \subseteq Used'
      /\ pc \in [Threads -> Labels] /\ anchor \in [Sbs -> Anchors]
      /\ desc \in [Threads -> Sbs \cup {NoSb}]
  BY SparesStep DEF CoreInv, LocalsOK, TypeOK
<1>1. CASE \/ SbAlloc(t) \/ ExpandCAS(t) \/ LargeBlock(t)
           \/ FlushRetire(t) \/ FlushDone(t) \/ MallocMiss(t) \/ MallocLarge(t)
           \/ FreeLarge(t) \/ FreeSmall(t) \/ ThreadExit(t)
  <2>1. /\ UNCHANGED partial
        /\ pc'[t] \notin {"reserve", "take_all", "take_part", "push_part",
                          "push_flush", "retire"}
    <3> USE <1>0 DEF At, Goto
    <3>1. CASE SbAlloc(t) \/ ExpandCAS(t)
      BY <3>1 DEF SbAlloc, ExpandCAS
    <3>2. CASE LargeBlock(t) \/ FlushRetire(t) \/ FlushDone(t)
      BY <3>2 DEF LargeBlock, FlushRetire, FlushDone, Return
    <3>3. CASE MallocMiss(t) \/ MallocLarge(t) \/ ThreadExit(t) \/ FreeLarge(t)
      BY <3>3 DEF MallocMiss, MallocLarge, ThreadExit, FreeLarge, shared
    <3>4. CASE FreeSmall(t)
      BY <3>4 DEF FreeSmall
    <3> QED BY <1>1, <3>1, <3>2, <3>3, <3>4
  <2> QED BY <2>1, PartialsNone
<1>2. CASE Pop(t) \/ ExpandLoad(t) \/ Organize(t) \/ FlushTake(t)
  <2>1. /\ UNCHANGED partial
        /\ pc'[t] \notin {"reserve", "take_all", "take_part", "push_part",
                          "push_flush", "retire"}
    <3> USE <1>0 DEF At, Goto, Abort, shared
    <3>1. CASE Pop(t)
      BY <3>1 DEF Pop, Return
    <3>2. CASE ExpandLoad(t)
      BY <3>2 DEF ExpandLoad
    <3>3. CASE Organize(t)
      BY <3>3 DEF Organize, Return
    <3>4. CASE FlushTake(t)
      BY <3>4 DEF FlushTake
    <3> QED BY <1>2, <3>1, <3>2, <3>3, <3>4
  <2> QED BY <2>1, PartialsNone
<1>3. CASE HeapPopPartial(t)
  <2>1. CASE partial = <<>>
    <3>1. UNCHANGED partial /\ pc'[t] = "sb_alloc"
      BY <1>0, <1>3, <2>1 DEF HeapPopPartial, Goto
    <3> QED BY <3>1, PartialsNone
  <2>2. CASE partial # <<>>
    <3>1. /\ partial' = Tail(partial) /\ UNCHANGED anchor
          /\ desc'[t] = Head(partial) /\ pc'[t] = "reserve"
      BY <1>0, <1>3, <2>2 DEF HeapPopPartial, Goto
    <3>2. Carry(t)' = {Head(partial)}
      BY <3>1 DEF Carry
    <3>3. /\ NoDup(partial)' /\ Head(partial) \in Elems(partial)
          /\ Elems(partial)' = Elems(partial) \ {Head(partial)}
      <4>1. partial \in Seq(Sbs) /\ NoDup(partial)
        BY <1>0 DEF TypeOK, PartialsApart
      <4>2. /\ NoDup(Tail(partial)) /\ Head(partial) \in Elems(partial)
            /\ Elems(Tail(partial)) = Elems(partial) \ {Head(partial)}
        BY <2>2, <4>1, TailNoDup
      <4> QED BY <3>1, <4>2
    <3>4. /\ Head(partial) \in Used'
          /\ anchor'[Head(partial)].state \in {"PARTIAL", "EMPTY"}
          /\ \A u \in Threads : u # t => Head(partial) \notin Carry(u)
      BY <1>0, <3>1, <3>3 DEF PartialsApart
    <3> QED BY <3>2, <3>3, <3>4, PartialsMove
  <2> QED BY <2>1, <2>2
<1>4. CASE Reserve(t)
  <2>0. pc[t] = "reserve"
    BY <1>4 DEF Reserve, At
  <2>1. CASE RetireEmpty(t)
    <3>1. UNCHANGED partial /\ pc'[t] = "pop_partial"
      BY <1>0, <2>1 DEF RetireEmpty, Goto
    <3> QED BY <3>1, PartialsNone
  <2>2. CASE /\ UNCHANGED <<partial, anchor, desc>>
             /\ Goto(t, "take_all") \/ Goto(t, "take_part") \/ UNCHANGED pc
    <3>1. pc'[t] \in {"reserve", "take_all", "take_part"}
      BY <1>0, <2>0, <2>2 DEF Goto
    <3>2. Carry(t)' = Carry(t)
      BY <2>0, <2>2, <3>1 DEF Carry
    <3> QED BY <2>2, <3>2, PartialsSame
  <2> QED BY <1>4, <2>1, <2>2 DEF Reserve, Abort, shared, local
<1>5. CASE TakeAll(t)
  <2>0. pc[t] = "take_all"
    BY <1>5 DEF TakeAll, At
  <2>1. CASE RetireEmpty(t)
    <3>1. UNCHANGED partial /\ pc'[t] = "pop_partial"
      BY <1>0, <2>1 DEF RetireEmpty, Goto
    <3> QED BY <3>1, PartialsNone
  <2>2. CASE /\ UNCHANGED partial
             /\ Goto(t, IF anchor[desc[t]].count = 0 THEN "sb_alloc" ELSE "pop")
    <3>1. pc'[t] \in {"sb_alloc", "pop"}
      BY <1>0, <2>2 DEF Goto
    <3> QED BY <2>2, <3>1, PartialsNone
  <2>3. CASE UNCHANGED <<partial, anchor, desc, pc>>
    <3>1. Carry(t)' = Carry(t)
      BY <2>3 DEF Carry
    <3> QED BY <2>3, <3>1, PartialsSame
  <2> QED BY <1>5, <2>1, <2>2, <2>3 DEF TakeAll, Abort, shared, local
<1>6. CASE TakePart(t)
  <2>0. pc[t] = "take_part" /\ desc[t] \in Sbs
    BY <1>0, <1>6 DEF TakePart, At, LocalsAt
  <2>1. CASE anchor[desc[t]] = old[t]
    <3>1. /\ UNCHANGED partial /\ desc'[t] = desc[t] /\ pc'[t] = "push_part"
          /\ anchor'[desc[t]].state = "PARTIAL"
      BY <1>0, <1>6, <2>0, <2>1 DEF TakePart, Goto, local
    <3>2. Carry(t) = {desc[t]} /\ Carry(t)' = Carry(t)
      BY <2>0, <3>1 DEF Carry
    <3> QED BY <3>1, <3>2, PartialsSame
  <2>2. CASE anchor[desc[t]] # old[t]
    <3>1. UNCHANGED <<partial, anchor, desc, pc>>
      BY <1>6, <2>2 DEF TakePart, shared
    <3>2. Carry(t)' = Carry(t)
      BY <3>1 DEF Carry
    <3> QED BY <3>1, <3>2, PartialsSame
  <2> QED BY <2>1, <2>2
<1>7. CASE PushPart(t) \/ FlushPush(t)
  <2>1. /\ pc[t] \in {"push_part", "push_flush"} /\ pc'[t] \in {"pop", "flush"}
        /\ partial' = <<desc[t]>> \o partial /\ UNCHANGED anchor
    BY <1>0, <1>7 DEF PushPart, FlushPush, At, Goto
  <2> QED BY <2>1, PartialsPush
<1>8. CASE NewSb(t)
  <2>0. /\ pc[t] = "use_sb" /\ desc[t] \in Sbs /\ UNCHANGED <<partial, desc>>
    BY <1>0, <1>8 DEF NewSb, At, LocalsAt
  <2>1. CASE Goto(t, "pop")
    <3>1. pc'[t] = "pop"
      BY <1>0, <2>1 DEF Goto
    <3> QED BY <2>0, <3>1, PartialsNone
  <2>2. CASE /\ Goto(t, "push_part")
             /\ anchor' = [anchor EXCEPT ![desc[t]] =
                  [avail |-> cache[t].max, count |-> MaxCount - cache[t].max,
                   state |-> "PARTIAL"]]
    <3>1. pc'[t] = "push_part" /\ anchor'[desc[t]].state = "PARTIAL"
      BY <1>0, <2>0, <2>2 DEF Goto
    <3>2. Carry(t)' = {desc[t]} /\ Spare(t) = {desc[t]}
      BY <2>0, <3>1 DEF Carry, Spare
    <3>3. desc[t] \notin Used
      BY <3>2 DEF Used
    <3>4. desc[t] \notin Elems(partial) /\ \A u \in Threads : desc[t] \notin Carry(u)
      BY <1>0, <3>3 DEF PartialsApart
    <3>5. desc[t] \in Used'
      BY <1>8, NewSbUsed
    <3>6. NoDup(partial)' /\ Elems(partial)' = Elems(partial)
      BY <1>0, <2>0 DEF PartialsApart, NoDup, Elems
    <3> QED BY <3>1, <3>2, <3>4, <3>5, <3>6, PartialsMove
  <2> QED BY <1>8, <2>1, <2>2 DEF NewSb
<1>9. CASE FlushCAS(t)
  <2> DEFINE d == desc[t]
             a == anchor[d]
             new == Returned(a, seg[t].head[2], seg[t].num, DescMax(d))
  <2>0. /\ pc[t] = "flush_cas" /\ d \in Sbs /\ a \in Anchors /\ d \in Used
    <3>1. pc[t] = "flush_cas" /\ d \in Sbs
      BY <1>0, <1>9 DEF FlushCAS, At, LocalsAt
    <3> QED BY <1>0, <3>1 DEF CoreInv, RunsUsed
  <2>1. CASE a = old[t] /\ a.state = "FULL"
    <3>1. /\ UNCHANGED partial /\ desc'[t] = d /\ pc'[t] \in {"retire", "push_flush"}
          /\ anchor'[d] = new
      BY <1>0, <1>9, <2>0, <2>1 DEF FlushCAS, Goto
    <3>2. new.state \in {"PARTIAL", "EMPTY"}
      <4>1. seg[t].head \in Blocks /\ seg[t].num >= 1 /\ seg[t].num \in Nat
        BY <1>0, <2>0, ThreadTyped DEF LocalsAt
      <4>2. seg[t].head[2] \in 0 .. MaxCount - 1 /\ DescMax(d) \in Nat
        BY <1>0, <2>0, <4>1, AddrTyped, DescMaxTyped
      <4> QED BY <2>0, <2>1, <4>1, <4>2, ReturnedFacts
    <3>3. Carry(t)' = {d}
      BY <3>1 DEF Carry
    <3>4. d \notin Elems(partial) /\ \A u \in Threads : d \notin Carry(u)
      BY <1>0, <2>1 DEF PartialsApart
    <3>5. NoDup(partial)' /\ Elems(partial)' = Elems(partial)
      BY <1>0, <3>1 DEF PartialsApart, NoDup, Elems
    <3> HIDE DEF new
    <3> QED BY <1>0, <2>0, <3>1, <3>2, <3>3, <3>4, <3>5, PartialsMove
  <2>2. CASE ~(a = old[t] /\ a.state = "FULL")
    <3>1. UNCHANGED partial /\ pc'[t] \in {"flush", "flush_cas"}
      BY <1>0, <1>9, <2>0, <2>2 DEF FlushCAS, Goto, shared
    <3> QED BY <3>1, PartialsNone
  <2> QED BY <2>1, <2>2
<1> QED
  BY <1>1, <1>2, <1>3, <1>4, <1>5, <1>6, <1>7, <1>8, <1>9 DEF Step, Call
-----------------------------------------------------------------------------
(* The theorems *)

\* The warmed-up allocator satisfies the invariant.
LEMMA InitCore == Init => CoreInv
<1> SUFFICES ASSUME Init PROVE CoreInv
  OBVIOUS
<1> USE ConstantsAssumption
<1>1. /\ queue = [i \in 1 .. Expand - 1 |-> i] /\ partial = <<>> /\ curr = Expand
      /\ user = {} /\ big = {}
      /\ \A t \in Threads : /\ pc[t] = "idle" /\ cache[t] = Fresh
                            /\ seg[t] = NoSeg /\ blk[t] = NoBlock
      /\ \A b \in Blocks : link[b] = NoBlock
  BY DEF Init
<1>2. queue \in Seq(Sbs) /\ Len(queue) = Expand - 1 /\ partial \in Seq(Sbs)
  <2>1. queue \in [1 .. Expand - 1 -> Sbs] /\ Expand - 1 \in Nat
    BY <1>1 DEF Sbs
  <2>2. queue \in Seq(Sbs)
    BY <2>1
  <2>3. Len(queue) = Expand - 1
    BY <1>1, <2>1, <2>2
  <2> QED BY <1>1, <2>2, <2>3
<1>3. TypeOK
  <2>1. "idle" \in Labels /\ "none" \in Goals /\ curr \in 1 .. NSb
    BY <1>1 DEF Labels, Goals
  <2> QED BY <1>2, <2>1, AddrTyped, AnchorTyped, CacheTyped, SegTyped DEF Init, TypeOK
<1>4. Elems(queue) = 1 .. curr - 1 /\ NoDup(queue) /\ Elems(partial) = {} /\ NoDup(partial)
  BY <1>1, <1>2 DEF Elems, NoDup
<1>5. \A t \in Threads : Spare(t) = {} /\ Carry(t) = {}
  BY <1>1 DEF Spare, Carry
<1>6. SparesApart
  BY <1>1, <1>4, <1>5 DEF SparesApart
<1>7. RunsUsed
  BY <1>1 DEF RunsUsed
<1>8. PartialsApart
  BY <1>4, <1>5 DEF PartialsApart
<1>9. LocalsOK
  BY <1>1 DEF LocalsOK, LocalsAt
<1> QED BY <1>3, <1>6, <1>7, <1>8, <1>9 DEF CoreInv

\* A step keeps what does not depend on links: everything but RunsUsed, which needs
\* that the lists of blocks lead to blocks of the class.
LEMMA NextCore ==
  ASSUME CoreInv, [Next]_vars
  PROVE  TypeOK' /\ SparesApart' /\ PartialsApart' /\ LocalsOK'
<1>1. ASSUME NEW t \in Threads, Step(t) \/ Call(t)
      PROVE  TypeOK' /\ SparesApart' /\ PartialsApart' /\ LocalsOK'
  <2>1. LocalsOK'
    <3>1. \A u \in Threads : LocalsAt(u)'
      BY <1>1, LocalsSelf, LocalsOther
    <3> QED BY <3>1 DEF LocalsOK
  <2> QED BY <1>1, <2>1, TypeStep, SparesStep, PartialsStep
<1>2. CASE UNCHANGED vars
  <2>1. UNCHANGED <<queue, partial, curr, anchor, heap, link, cache, user, big, pc,
                    desc, old, seg, span, blk, goal, halted>>
    BY <1>2 DEF vars, shared, app, local
  <2>2. TypeOK'
    BY <2>1 DEF CoreInv, TypeOK
  <2>3. \A t \in Threads : Spare(t)' = Spare(t) /\ Carry(t)' = Carry(t)
    BY <2>1 DEF Spare, Carry
  <2>4. /\ Elems(queue)' = Elems(queue) /\ Elems(partial)' = Elems(partial)
        /\ NoDup(queue)' = NoDup(queue) /\ NoDup(partial)' = NoDup(partial)
    BY <2>1 DEF Elems, NoDup
  <2>5. SparesApart' /\ Used' = Used
    BY <2>1, <2>3, <2>4 DEF CoreInv, SparesApart, Used
  <2>6. PartialsApart'
    BY <2>1, <2>3, <2>4, <2>5 DEF CoreInv, PartialsApart
  <2>7. LocalsOK'
    BY <2>1 DEF CoreInv, LocalsOK, LocalsAt
  <2> QED BY <2>2, <2>5, <2>6, <2>7
<1> QED BY <1>1, <1>2 DEF Next, Dead

\* The invariant says where every superblock is.
LEMMA InvOwnedOnce == CoreInv => DescriptorOwnedOnce
<1> SUFFICES ASSUME CoreInv PROVE DescriptorOwnedOnce
  OBVIOUS
<1>1. SparesApart /\ PartialsApart
  BY DEF CoreInv
<1>2. /\ Used \subseteq 1 .. curr - 1 /\ Used \cap Elems(queue) = {} /\ Used \cap big = {}
      /\ \A t \in Threads : Used \cap Spare(t) = {}
  BY DEF Used
<1>3. ASSUME NEW t \in Threads
      PROVE  /\ Holding(t) \cap (Elems(queue) \cup Elems(partial) \cup big) = {}
             /\ Holding(t) \subseteq 1 .. curr - 1
             /\ \A u \in Threads \ {t} : Holding(t) \cap Holding(u) = {}
  <2>1. /\ Spare(t) \subseteq 1 .. curr - 1
        /\ Spare(t) \cap Elems(queue) = {} /\ Spare(t) \cap big = {}
        /\ \A u \in Threads \ {t} : Spare(t) \cap Spare(u) = {}
    BY <1>1 DEF SparesApart
  <2>2. /\ Elems(partial) \subseteq Used
        /\ Carry(t) \cap Elems(partial) = {}
        /\ \A u \in Threads : Carry(u) \subseteq Used
        /\ \A u \in Threads \ {t} : Carry(t) \cap Carry(u) = {}
    BY <1>1 DEF PartialsApart
  <2>3. Holding(t) \cap (Elems(queue) \cup Elems(partial) \cup big) = {}
    BY <1>2, <2>1, <2>2 DEF Holding
  <2>4. Holding(t) \subseteq 1 .. curr - 1
    BY <1>2, <2>1, <2>2 DEF Holding
  <2>5. ASSUME NEW u \in Threads \ {t} PROVE Holding(t) \cap Holding(u) = {}
    <3>1. /\ Spare(t) \cap Spare(u) = {} /\ Carry(t) \cap Carry(u) = {}
          /\ Spare(t) \cap Carry(u) = {} /\ Carry(t) \cap Spare(u) = {}
      BY <1>2, <2>1, <2>2
    <3> QED BY <3>1 DEF Holding
  <2> QED BY <2>3, <2>4, <2>5
<1>4. /\ NoDup(queue) /\ Elems(queue) \subseteq 1 .. curr - 1 /\ big \subseteq 1 .. curr - 1
      /\ Elems(queue) \cap big = {}
  BY <1>1 DEF SparesApart
<1>5. /\ NoDup(partial) /\ Elems(partial) \subseteq Used
      /\ \A d \in Elems(partial) : anchor[d].state \in {"PARTIAL", "EMPTY"}
  BY <1>1 DEF PartialsApart
<1> QED BY <1>2, <1>3, <1>4, <1>5 DEF DescriptorOwnedOnce
-----------------------------------------------------------------------------
(***************************************************************************)
(* Who has a block of a size class whose thread caches take whole          *)
(* superblocks (InitMax = MaxCount, block sizes of 128 bytes and more).    *)
(***************************************************************************)

\* A fresh cache takes a whole superblock.
Whole == InitMax = MaxCount

\* Where a block can be: with the application, with nobody, in the hands of a thread
\* that frees it, in a thread's cache, in the run a thread flushes, or in the free
\* chain of a superblock.
App == <<"app", NoSb>>
Nobody == <<"nobody", NoSb>>
HandOf(t) == <<"hand", t>>
CacheOf(t) == <<"cache", t>>
RunOf(t) == <<"run", t>>
ChainOf(d) == <<"chain", d>>
Places ==
  {App, Nobody} \cup ({"hand", "cache", "run"} \X Threads) \cup ({"chain"} \X Sbs)

\* The blocks at place p, when own says where every block is.
Of(own, p) == {b \in Blocks : own[b] = p}

\* The length of the free chain of d.  The anchors of whole objects say nothing: a
\* collection leaves PARTIAL in them.
FreeLen(d) ==
  IF heap[d] # "small" THEN 0
  ELSE IF anchor[d].state = "EMPTY" THEN MaxCount
  ELSE IF anchor[d].state = "PARTIAL" THEN anchor[d].count ELSE 0

CacheTracked(own, t) == Chain(Of(own, CacheOf(t)), cache[t].head, cache[t].size, link)
RunTracked(own, t) ==
  IF pc[t] = "flush_cas"
  THEN /\ ChainTo(Of(own, RunOf(t)), seg[t].head, seg[t].num, link, seg[t].tail)
       /\ \A b \in Of(own, RunOf(t)) : b[1] = desc[t]
  ELSE Of(own, RunOf(t)) = {}
ChainTracked(own, d) ==
  /\ Chain(Of(own, ChainOf(d)), AddrOf(d, anchor[d].avail), FreeLen(d), link)
  /\ \A b \in Of(own, ChainOf(d)) : b[1] = d

\* own says where every block is.
Tracks(own) ==
  /\ own \in [Blocks -> Places]
  /\ \A b \in Blocks : own[b] = Nobody <=> heap[b[1]] # "small"
  /\ \A b \in Blocks : own[b] = App <=> b \in user
  /\ \A t \in Threads, b \in Blocks : own[b] = HandOf(t) <=> blk[t] = b
  /\ \A t \in Threads : CacheTracked(own, t) /\ RunTracked(own, t)
  /\ \A d \in Sbs : ChainTracked(own, d)

\* The anchors and the descriptors of superblocks: those of whole objects are with the
\* application or a thread that frees them.
Outs == big \cup UNION {Spare(t) : t \in Threads}
AnchorAt(d) ==
  /\ heap[d] = "small" => d \in Used /\ anchor[d].state # "ERROR"
  /\ heap[d] = "large" => d \in Outs
  /\ anchor[d].state = "EMPTY" => heap[d] = "small"
  /\ anchor[d].state = "PARTIAL" => heap[d] # "none"
  /\ anchor[d].state \in {"FULL", "ERROR"} => anchor[d].count = 0
  /\ anchor[d].state = "PARTIAL" => anchor[d].count \in 1 .. MaxCount - 1
AnchorsOK == \A d \in Sbs : AnchorAt(d)

\* What a thread is about, when caches take whole superblocks: in fill_cache its
\* cache is empty, and it never takes a part of a superblock.
Fills(t) ==
  \/ pc[t] \in {"pop_partial", "reserve", "take_all"}
  \/ pc[t] \in {"sb_alloc", "expand", "expand_cas", "organize", "use_sb"} /\ goal[t] = "small"
WholeAt(t) ==
  /\ cache[t].max = MaxCount
  /\ pc[t] \notin {"take_part", "push_part"}
  /\ Fills(t) => cache[t].size = 0
  /\ pc[t] = "take_all" => old[t].state = "PARTIAL"
  /\ pc[t] = "retire" => anchor[desc[t]].state = "EMPTY"
  /\ \/ blk[t] = NoBlock
     \/ pc[t] \in {"flush", "flush_cas", "push_flush", "retire"} /\ goal[t] = "free"
WholeOK == \A t \in Threads : WholeAt(t)

BlockInv ==
  /\ WholeOK /\ AnchorsOK /\ NeverOffTheList
  /\ \E own : Tracks(own)
-----------------------------------------------------------------------------
(* Places *)

\* The places are different from one another.
LEMMA PlacesApart ==
  /\ App # Nobody /\ App \in Places /\ Nobody \in Places
  /\ \A t \in Threads :
       /\ HandOf(t) \in Places /\ CacheOf(t) \in Places /\ RunOf(t) \in Places
       /\ HandOf(t) \notin {App, Nobody} /\ CacheOf(t) \notin {App, Nobody}
       /\ RunOf(t) \notin {App, Nobody}
       /\ \A u \in Threads :
            /\ HandOf(t) # CacheOf(u) /\ HandOf(t) # RunOf(u) /\ CacheOf(t) # RunOf(u)
            /\ t # u => /\ HandOf(t) # HandOf(u) /\ CacheOf(t) # CacheOf(u)
                        /\ RunOf(t) # RunOf(u)
       /\ \A d \in Sbs : ChainOf(d) \notin {HandOf(t), CacheOf(t), RunOf(t)}
  /\ \A d \in Sbs :
       /\ ChainOf(d) \in Places /\ ChainOf(d) \notin {App, Nobody}
       /\ \A c \in Sbs : c # d => ChainOf(c) # ChainOf(d)
  BY DEF App, Nobody, HandOf, CacheOf, RunOf, ChainOf, Places

\* And there are no others.
LEMMA PlacesAll ==
  ASSUME NEW p \in Places
  PROVE  \/ p \in {App, Nobody}
         \/ \E t \in Threads : p \in {HandOf(t), CacheOf(t), RunOf(t)}
         \/ \E d \in Sbs : p = ChainOf(d)
<1>1. CASE p \in {App, Nobody}
  BY <1>1
<1>2. CASE p \in {"hand", "cache", "run"} \X Threads
  <2>1. PICK k \in {"hand", "cache", "run"}, t \in Threads : p = <<k, t>>
    BY <1>2
  <2> QED BY <2>1 DEF HandOf, CacheOf, RunOf
<1>3. CASE p \in {"chain"} \X Sbs
  <2>1. PICK d \in Sbs : p = <<"chain", d>>
    BY <1>3
  <2> QED BY <2>1 DEF ChainOf
<1> QED BY <1>1, <1>2, <1>3 DEF Places

\* Follow walks along a list of blocks.
LEMMA FollowCounts ==
  ASSUME NEW e, NEW S \in SUBSET Blocks, NEW h, NEW n \in Nat, Counts(e, S, h, n, link),
         NEW m \in 0 .. n - 1
  PROVE  Follow(h, m) = e[m]
<1> DEFINE step(g) ==
      [k \in 0 .. m |-> IF k = 0 THEN h
                        ELSE IF g[k - 1] \in Blocks THEN link[g[k - 1]]
                        ELSE NoBlock]
           g == [k \in 0 .. m |-> e[k]]
           f == CHOOSE f : f = step(f)
<1>0. m \in Nat /\ n > 0
  OBVIOUS
<1>1. Follow(h, m) = f[m]
  BY DEF Follow
<1>2. g = step(g)
  <2>1. ASSUME NEW k \in 0 .. m
        PROVE  g[k] = IF k = 0 THEN h
                      ELSE IF g[k - 1] \in Blocks THEN link[g[k - 1]] ELSE NoBlock
    <3>1. CASE k = 0
      BY <1>0, <3>1 DEF Counts
    <3>2. CASE k # 0
      <4>1. k - 1 \in 0 .. m /\ k - 1 \in 0 .. n - 2 /\ k - 1 \in 0 .. n - 1 /\ (k - 1) + 1 = k
        BY <3>2
      <4>2. e[k - 1] \in Blocks /\ link[e[k - 1]] = e[k]
        BY <4>1 DEF Counts
      <4> QED BY <3>2, <4>1, <4>2
    <3> QED BY <3>1, <3>2
  <2> QED BY <2>1
<1>3. f = step(f)
  <2> HIDE DEF step, g
  <2> QED BY <1>2
<1>4. f[0] = h /\ \A k \in 0 .. m - 1 : f[k] \in S => f[k + 1] = link[f[k]]
  <2> HIDE DEF f
  <2>1. \A k \in 0 .. m : f[k] = IF k = 0 THEN h
                ELSE IF f[k - 1] \in Blocks THEN link[f[k - 1]] ELSE NoBlock
    BY <1>3
  <2>2. ASSUME NEW k \in 0 .. m - 1, f[k] \in S PROVE f[k + 1] = link[f[k]]
    <3>1. k + 1 \in 0 .. m /\ (k + 1) - 1 = k /\ k + 1 # 0
      BY <1>0
    <3> QED BY <2>1, <2>2, <3>1
  <2> QED BY <1>0, <2>1, <2>2
<1> HIDE DEF f, step, g
<1>5. \A k \in 0 .. m : f[k] = e[k]
  <2>1. Walks(f, h, m, S, link)
    BY <1>4 DEF Walks
  <2> QED BY <2>1, ChainWalk
<1> QED BY <1>0, <1>1, <1>5

\* So the blocks of a list are those that the model finds by following its links.
LEMMA ListOfChain ==
  ASSUME NEW S \in SUBSET Blocks, NEW h, NEW n \in Nat, Chain(S, h, n, link)
  PROVE  ListOf(h, n) = S
<1>1. PICK e : Counts(e, S, h, n, link)
  BY DEF Chain
<1>2. \A k \in 0 .. n - 1 : Follow(h, k) = e[k]
  BY <1>1, FollowCounts
<1>3. ListOf(h, n) = {e[k] : k \in 0 .. n - 1}
  BY <1>2 DEF ListOf
<1> QED BY <1>1, <1>3 DEF Counts
-----------------------------------------------------------------------------
(* A superblock has MaxCount blocks *)

\* The blocks of a superblock; there are MaxCount of them.
BlocksIn(d) == {d} \X (0 .. MaxCount - 1)

\* They are the blocks whose first part is d.
LEMMA BlocksInSize ==
  ASSUME NEW d \in Sbs
  PROVE  /\ BlocksIn(d) = {b \in Blocks : b[1] = d}
         /\ IsFiniteSet(BlocksIn(d)) /\ Cardinality(BlocksIn(d)) = MaxCount
<1>1. IsFiniteSet({d}) /\ Cardinality({d}) = 1
  BY FS_Singleton
<1>2. IsFiniteSet(0 .. MaxCount - 1) /\ Cardinality(0 .. MaxCount - 1) = MaxCount
  BY ConstantsAssumption, FS_Interval
<1>3. /\ IsFiniteSet({d} \X (0 .. MaxCount - 1))
      /\ Cardinality({d} \X (0 .. MaxCount - 1)) = MaxCount
  <2> DEFINE D == {d}
             I == 0 .. MaxCount - 1
  <2>1. IsFiniteSet(D) /\ IsFiniteSet(I) /\ Cardinality(D) = 1 /\ Cardinality(I) = MaxCount
    BY <1>1, <1>2
  <2> HIDE DEF D, I
  <2>2. IsFiniteSet(D \X I) /\ Cardinality(D \X I) = Cardinality(D) * Cardinality(I)
    BY <2>1, FS_Product, Zenon
  <2>3. IsFiniteSet(D \X I) /\ Cardinality(D \X I) = MaxCount
    BY <2>1, <2>2, ConstantsAssumption
  <2> QED BY <2>3 DEF D, I
<1>4. BlocksIn(d) = {b \in Blocks : b[1] = d}
  <2>1. ASSUME NEW b \in BlocksIn(d) PROVE b \in Blocks /\ b[1] = d
    BY DEF Blocks, BlocksIn
  <2>2. ASSUME NEW b \in Blocks, b[1] = d PROVE b \in BlocksIn(d)
    BY <2>2 DEF Blocks, BlocksIn
  <2> QED BY <2>1, <2>2
<1> QED BY <1>3, <1>4 DEF BlocksIn

\* A free chain of MaxCount blocks is all of the superblock: nobody has a block of a
\* superblock marked EMPTY.
LEMMA EmptyAll ==
  ASSUME NEW own, Tracks(own), NEW d \in Sbs, anchor[d].state = "EMPTY",
         heap[d] = "small"
  PROVE  \A b \in Blocks : b[1] = d => own[b] = ChainOf(d)
<1> DEFINE S == Of(own, ChainOf(d))
<1>1. Chain(S, AddrOf(d, anchor[d].avail), MaxCount, link) /\ \A b \in S : b[1] = d
  BY DEF Tracks, ChainTracked, FreeLen
<1>2. IsFiniteSet(S) /\ Cardinality(S) = MaxCount
  <2> HIDE DEF S
  <2> QED BY <1>1, ChainSize, ConstantsAssumption
<1>3. S \in SUBSET BlocksIn(d)
  BY <1>1, BlocksInSize DEF Of
<1>4. S = BlocksIn(d)
  <2> HIDE DEF S
  <2> QED BY <1>2, <1>3, BlocksInSize, FS_Subset
<1> QED BY <1>4, BlocksInSize DEF Of

\* The blocks a thread flushes into a superblock have room in its free chain.
LEMMA RunFits ==
  ASSUME TypeOK, AnchorsOK, NEW own, Tracks(own), NEW t \in Threads, pc[t] = "flush_cas",
         desc[t] \in Sbs
  PROVE  FreeLen(desc[t]) + seg[t].num <= MaxCount
<1> DEFINE d == desc[t]
           S == Of(own, ChainOf(d))
           R == Of(own, RunOf(t))
<1>0. FreeLen(d) \in Nat /\ seg[t].num \in Nat
  <2>1. anchor[d] \in Anchors
    BY DEF TypeOK
  <2> QED BY <2>1, AnchorTyped, ThreadTyped, ConstantsAssumption DEF FreeLen
<1>1. /\ Chain(S, AddrOf(d, anchor[d].avail), FreeLen(d), link) /\ \A b \in S : b[1] = d
      /\ Chain(R, seg[t].head, seg[t].num, link) /\ \A b \in R : b[1] = d
  BY DEF Tracks, ChainTracked, RunTracked, ChainTo, Chain
<1>2. S \cap R = {} /\ S \cup R \in SUBSET BlocksIn(d)
  BY <1>1, BlocksInSize, PlacesApart DEF Of
<1> HIDE DEF S, R, d
<1>3. /\ IsFiniteSet(S) /\ Cardinality(S) = FreeLen(d)
      /\ IsFiniteSet(R) /\ Cardinality(R) = seg[t].num
  BY <1>0, <1>1, ChainSize
<1>4. Cardinality(S \cup R) = FreeLen(d) + seg[t].num
  BY <1>0, <1>2, <1>3, FS_Union, FS_EmptySet
<1>5. Cardinality(S \cup R) <= MaxCount
  BY <1>2, BlocksInSize, FS_Subset DEF d
<1> QED BY <1>4, <1>5 DEF d
-----------------------------------------------------------------------------
(* Moving blocks from place to place *)

\* The places that a step of thread t in the superblocks C may touch.
Near(t, C) ==
  {App, Nobody, HandOf(t), CacheOf(t), RunOf(t)} \cup {ChainOf(c) : c \in C}

\* Blocks that keep their place and their links leave the lists there as they are, so
\* that only the lists of t and of C need a look.
LEMMA TracksMove ==
  ASSUME TypeOK, NEW t \in Threads, Step(t) \/ Call(t), NEW own, Tracks(own),
         NEW C \in SUBSET Sbs, NEW own2 \in [Blocks -> Places],
         \A b \in Blocks : own2[b] # own[b] => own[b] \in Near(t, C) /\ own2[b] \in Near(t, C),
         \A b \in Blocks : link'[b] # link[b] => own[b] \in Near(t, C) /\ own2[b] \in Near(t, C),
         \A d \in Sbs : d \notin C =>
           /\ FreeLen(d)' = FreeLen(d)
           /\ anchor'[d].avail = anchor[d].avail \/ FreeLen(d) = 0,
         \A b \in Blocks : own2[b] = Nobody <=> heap'[b[1]] # "small",
         \A b \in Blocks : own2[b] = App <=> b \in user',
         \A b \in Blocks : own2[b] = HandOf(t) <=> blk'[t] = b,
         CacheTracked(own2, t)', RunTracked(own2, t)', \A c \in C : ChainTracked(own2, c)'
  PROVE  Tracks(own2)'
<1>1. ASSUME NEW u \in Threads, u # t
      PROVE  /\ \A b \in Blocks : own2[b] = HandOf(u) <=> blk'[u] = b
             /\ CacheTracked(own2, u)' /\ RunTracked(own2, u)'
  <2>1. /\ pc'[u] = pc[u] /\ desc'[u] = desc[u] /\ seg'[u] = seg[u] /\ blk'[u] = blk[u]
        /\ cache'[u] = cache[u] /\ cache[u].size \in Nat /\ seg[u].num \in Nat
    BY <1>1, OthersUnchanged, ThreadTyped
  <2>2. HandOf(u) \notin Near(t, C) /\ CacheOf(u) \notin Near(t, C) /\ RunOf(u) \notin Near(t, C)
    BY <1>1, PlacesApart DEF Near
  <2>3. \A b \in Blocks : own2[b] = HandOf(u) <=> own[b] = HandOf(u)
    BY <2>2
  <2>4. /\ Of(own2, CacheOf(u)) = Of(own, CacheOf(u))
        /\ \A b \in Of(own, CacheOf(u)) : link'[b] = link[b]
    BY <2>2 DEF Of
  <2>5. /\ Of(own2, RunOf(u)) = Of(own, RunOf(u))
        /\ \A b \in Of(own, RunOf(u)) : link'[b] = link[b]
    BY <2>2 DEF Of
  <2>6. CacheTracked(own2, u)'
    <3>1. Chain(Of(own, CacheOf(u)), cache[u].head, cache[u].size, link)
      BY DEF Tracks, CacheTracked
    <3>2. Chain(Of(own, CacheOf(u)), cache[u].head, cache[u].size, link')
      BY <2>1, <2>4, <3>1, ChainFrame
    <3> QED BY <2>1, <2>4, <3>2 DEF CacheTracked
  <2>7. RunTracked(own2, u)'
    <3>1. CASE pc[u] = "flush_cas"
      <4>1. /\ ChainTo(Of(own, RunOf(u)), seg[u].head, seg[u].num, link, seg[u].tail)
            /\ \A b \in Of(own, RunOf(u)) : b[1] = desc[u]
        BY <3>1 DEF Tracks, RunTracked
      <4>2. ChainTo(Of(own, RunOf(u)), seg[u].head, seg[u].num, link', seg[u].tail)
        BY <2>1, <2>5, <4>1, ChainToFrame
      <4> QED BY <2>1, <2>5, <3>1, <4>1, <4>2 DEF RunTracked
    <3>2. CASE pc[u] # "flush_cas"
      <4>1. Of(own, RunOf(u)) = {}
        BY <3>2 DEF Tracks, RunTracked
      <4> QED BY <2>1, <2>5, <3>2, <4>1 DEF RunTracked
    <3> QED BY <3>1, <3>2
  <2> QED BY <2>1, <2>3, <2>6, <2>7 DEF Tracks
<1>2. ASSUME NEW d \in Sbs, d \notin C PROVE ChainTracked(own2, d)'
  <2>1. ChainOf(d) \notin Near(t, C)
    BY <1>2, PlacesApart DEF Near
  <2>2. /\ Of(own2, ChainOf(d)) = Of(own, ChainOf(d))
        /\ \A b \in Of(own, ChainOf(d)) : link'[b] = link[b]
    BY <2>1 DEF Of
  <2>3. /\ Chain(Of(own, ChainOf(d)), AddrOf(d, anchor[d].avail), FreeLen(d), link)
        /\ \A b \in Of(own, ChainOf(d)) : b[1] = d
    BY DEF Tracks, ChainTracked
  <2>4. FreeLen(d) \in Nat
    <3>1. anchor[d] \in Anchors
      BY DEF TypeOK
    <3> QED BY <3>1, AnchorTyped, ConstantsAssumption DEF FreeLen
  <2>5. Chain(Of(own, ChainOf(d)), AddrOf(d, anchor'[d].avail), FreeLen(d), link')
    <3>1. CASE anchor'[d].avail = anchor[d].avail
      BY <2>2, <2>3, <2>4, <3>1, ChainFrame
    <3>2. CASE FreeLen(d) = 0
      <4>1. Of(own, ChainOf(d)) = {}
        BY <2>3, <2>4, <3>2, ChainHead
      <4> QED BY <3>2, <4>1, ChainEmpty
    <3> QED BY <1>2, <3>1, <3>2
  <2>6. FreeLen(d)' = FreeLen(d)
    BY <1>2
  <2> QED BY <2>2, <2>3, <2>5, <2>6 DEF ChainTracked
<1>3. \A u \in Threads, b \in Blocks : own2[b] = HandOf(u) <=> blk'[u] = b
  BY <1>1
<1>4. \A u \in Threads : CacheTracked(own2, u)' /\ RunTracked(own2, u)'
  BY <1>1
<1>5. \A d \in Sbs : ChainTracked(own2, d)'
  BY <1>2
<1> QED BY <1>3, <1>4, <1>5 DEF Tracks

\* Superblocks that a step leaves alone.
ChainKept(d) ==
  /\ heap'[d] = "small" <=> heap[d] = "small"
  /\ FreeLen(d)' = FreeLen(d)
  /\ anchor'[d].avail = anchor[d].avail \/ FreeLen(d) = 0

\* Steps that move no block.
LEMMA TracksSame ==
  ASSUME TypeOK, NEW t \in Threads, Step(t) \/ Call(t), NEW own, Tracks(own),
         UNCHANGED <<link, user>>,
         cache'[t] = cache[t], blk'[t] = blk[t],
         \/ pc[t] # "flush_cas" /\ pc'[t] # "flush_cas"
         \/ pc'[t] = pc[t] /\ seg'[t] = seg[t] /\ desc'[t] = desc[t],
         \A d \in Sbs : ChainKept(d)
  PROVE  Tracks(own)'
<1>1. \A b \in Blocks : own[b] = Nobody <=> heap'[b[1]] # "small"
  BY AddrTyped DEF Tracks, ChainKept
<1>2. \A b \in Blocks : (own[b] = App <=> b \in user') /\ (own[b] = HandOf(t) <=> blk'[t] = b)
  BY DEF Tracks
<1>3. CacheTracked(own, t)'
  BY DEF Tracks, CacheTracked
<1>4. RunTracked(own, t)'
  <2>1. RunTracked(own, t)
    BY DEF Tracks
  <2> QED BY <2>1 DEF RunTracked
<1>5. own \in [Blocks -> Places]
  BY DEF Tracks
<1>6. /\ {} \in SUBSET Sbs /\ \A c \in {} : ChainTracked(own, c)'
      /\ \A b \in Blocks : link'[b] = link[b] /\ own[b] = own[b]
  OBVIOUS
<1>7. \A d \in Sbs : d \notin {} =>
           /\ FreeLen(d)' = FreeLen(d)
           /\ anchor'[d].avail = anchor[d].avail \/ FreeLen(d) = 0
  BY DEF ChainKept
<1> QED BY <1>1, <1>2, <1>3, <1>4, <1>5, <1>6, <1>7, TracksMove

\* A superblock marked EMPTY is retired: its blocks are nobody's.
LEMMA TracksRetire ==
  ASSUME TypeOK, NEW t \in Threads, Step(t) \/ Call(t), NEW own, Tracks(own),
         NEW d \in Sbs, anchor[d].state = "EMPTY", heap[d] = "small", Erase(d),
         UNCHANGED <<link, user, cache>>, blk'[t] = blk[t],
         pc[t] # "flush_cas", pc'[t] # "flush_cas"
  PROVE  \E own2 : Tracks(own2)'
<1>1. PICK own2 : own2 = [b \in Blocks |-> IF b[1] = d THEN Nobody ELSE own[b]]
  OBVIOUS
<1>2. \A b \in Blocks : own2[b] = IF b[1] = d THEN Nobody ELSE own[b]
  BY <1>1
<1>3. own \in [Blocks -> Places] /\ own2 \in [Blocks -> Places]
  BY <1>1, PlacesApart DEF Tracks
<1>4. \A b \in Blocks : b[1] = d <=> own[b] = ChainOf(d)
  <2>1. \A b \in Blocks : b[1] = d => own[b] = ChainOf(d)
    BY EmptyAll
  <2>2. \A b \in Blocks : own[b] = ChainOf(d) => b[1] = d
    BY DEF Tracks, ChainTracked, Of
  <2> QED BY <2>1, <2>2
<1>5. \A b \in Blocks : own2[b] # own[b] => own[b] \in Near(t, {d}) /\ own2[b] \in Near(t, {d})
  BY <1>2, <1>4 DEF Near
<1>6. /\ anchor' = [anchor EXCEPT ![d] = Erased] /\ heap' = [heap EXCEPT ![d] = "none"]
      /\ heap \in [Sbs -> {"none", "small", "large"}] /\ anchor \in [Sbs -> Anchors]
  BY DEF Erase, TypeOK
<1>7. \A b \in Blocks : own2[b] = Nobody <=> heap'[b[1]] # "small"
  BY <1>2, <1>6, AddrTyped DEF Tracks
<1>8. \A b \in Blocks : /\ own2[b] = App <=> b \in user'
                        /\ own2[b] = HandOf(t) <=> blk'[t] = b
  BY <1>2, <1>4, PlacesApart DEF Tracks
<1>9. /\ Of(own2, CacheOf(t)) = Of(own, CacheOf(t)) /\ Of(own2, RunOf(t)) = Of(own, RunOf(t))
      /\ Of(own2, ChainOf(d)) = {}
  BY <1>2, <1>4, PlacesApart DEF Of
<1>10. CacheTracked(own2, t)' /\ RunTracked(own2, t)'
  BY <1>9 DEF Tracks, CacheTracked, RunTracked
<1>11. ChainTracked(own2, d)'
  <2>1. FreeLen(d)' = 0
    BY <1>6 DEF FreeLen, Erased
  <2> QED BY <1>9, <2>1, ChainEmpty DEF ChainTracked
<1>12. \A c \in Sbs : c \notin {d} => FreeLen(c)' = FreeLen(c) /\ anchor'[c].avail = anchor[c].avail
  BY <1>6 DEF FreeLen
<1>13. Tracks(own2)'
  <2>1. \A c \in {d} : ChainTracked(own2, c)'
    BY <1>11
  <2>2. \A b \in Blocks : link'[b] = link[b]
    OBVIOUS
  <2>3. {d} \in SUBSET Sbs
    OBVIOUS
  <2> QED BY <1>3, <1>5, <1>7, <1>8, <1>10, <1>12, <2>1, <2>2, <2>3, TracksMove
<1> QED BY <1>13
-----------------------------------------------------------------------------
(* The steps that move blocks *)

\* What the tracking says of the lists of a thread.
LEMMA TrackedThread ==
  ASSUME TypeOK, WholeOK, NEW own, Tracks(own), NEW t \in Threads
  PROVE  /\ own \in [Blocks -> Places]
         /\ Chain(Of(own, CacheOf(t)), cache[t].head, cache[t].size, link)
         /\ cache[t].size \in Nat
         /\ cache[t].size > 0 => /\ cache[t].head \in Blocks
                                 /\ own[cache[t].head] = CacheOf(t)
         /\ cache[t].size = 0 => Of(own, CacheOf(t)) = {}
         /\ pc[t] # "flush_cas" => Of(own, RunOf(t)) = {}
         /\ pc[t] \notin {"flush", "flush_cas", "push_flush", "retire"} \/ goal[t] # "free"
              => Of(own, HandOf(t)) = {} /\ blk[t] = NoBlock
<1>1. /\ own \in [Blocks -> Places] /\ CacheTracked(own, t) /\ RunTracked(own, t)
      /\ \A b \in Blocks : own[b] = HandOf(t) <=> blk[t] = b
  BY DEF Tracks
<1>2. Chain(Of(own, CacheOf(t)), cache[t].head, cache[t].size, link) /\ cache[t].size \in Nat
  BY <1>1, ThreadTyped DEF CacheTracked
<1>3. /\ cache[t].size > 0 => cache[t].head \in Of(own, CacheOf(t))
      /\ cache[t].size = 0 => Of(own, CacheOf(t)) = {}
  BY <1>2, ChainHead
<1>4. pc[t] # "flush_cas" => Of(own, RunOf(t)) = {}
  BY <1>1 DEF RunTracked
<1>5. pc[t] \notin {"flush", "flush_cas", "push_flush", "retire"} \/ goal[t] # "free"
              => Of(own, HandOf(t)) = {} /\ blk[t] = NoBlock
  BY <1>1, AddrTyped DEF WholeOK, WholeAt, Of
<1>6. cache[t].size > 0 => cache[t].head \in Blocks /\ own[cache[t].head] = CacheOf(t)
  BY <1>3 DEF Of
<1> QED BY <1>1, <1>2, <1>3, <1>4, <1>5, <1>6

\* return cache->Pop(): the first block of the list goes to the application.
LEMMA TracksPop ==
  ASSUME CoreInv, WholeOK, NEW own, Tracks(own), NEW t \in Threads, Pop(t)
  PROVE  cache[t].head \in Blocks /\ \E own2 : Tracks(own2)'
<1>0. TypeOK /\ Step(t)
  BY DEF CoreInv, Step
<1> DEFINE h == cache[t].head
<1>1. /\ cache[t].size \in Nat /\ cache[t].size > 0 /\ h \in Blocks /\ own[h] = CacheOf(t)
      /\ own \in [Blocks -> Places]
      /\ Chain(Of(own, CacheOf(t)), h, cache[t].size, link)
  BY <1>0, TrackedThread DEF Pop
<1>2. /\ user' = user \cup {h} /\ cache'[t] = Cached(link[h], cache[t].size - 1, cache[t].max)
      /\ link' = [link EXCEPT ![h] = NoBlock] /\ blk'[t] = NoBlock /\ pc'[t] = "idle"
      /\ anchor' = anchor /\ heap' = heap /\ pc[t] \in {"idle", "pop"}
      /\ link \in [Blocks -> Addrs]
  BY <1>0, <1>1 DEF Pop, Return, Goto, TypeOK, At
<1>3. Of(own, HandOf(t)) = {} /\ Of(own, RunOf(t)) = {}
  BY <1>0, <1>2, TrackedThread
<1>4. PICK own2 : own2 = [own EXCEPT ![h] = App]
  OBVIOUS
<1>5. own2 \in [Blocks -> Places] /\ \A b \in Blocks : own2[b] = IF b = h THEN App ELSE own[b]
  BY <1>1, <1>4, PlacesApart
<1>6. /\ Of(own2, CacheOf(t)) = Of(own, CacheOf(t)) \ {h}
      /\ Of(own2, RunOf(t)) = {} /\ Of(own2, HandOf(t)) = {}
  BY <1>1, <1>3, <1>5, PlacesApart DEF Of
<1>7. CacheTracked(own2, t)'
  <2>1. Chain(Of(own, CacheOf(t)) \ {h}, link[h], cache[t].size - 1, link)
    BY <1>1, ChainPop
  <2>2. \A b \in Of(own, CacheOf(t)) \ {h} : link'[b] = link[b]
    BY <1>2 DEF Of
  <2>3. Chain(Of(own, CacheOf(t)) \ {h}, link[h], cache[t].size - 1, link')
    BY <1>1, <2>1, <2>2, ChainFrame
  <2> QED BY <1>2, <1>6, <2>3 DEF CacheTracked, Cached
<1>8. RunTracked(own2, t)'
  BY <1>2, <1>6 DEF RunTracked
<1>9. \A b \in Blocks : own2[b] = Nobody <=> heap'[b[1]] # "small"
  BY <1>1, <1>2, <1>5, PlacesApart DEF Tracks
<1>10. \A b \in Blocks : own2[b] = App <=> b \in user'
  BY <1>2, <1>5 DEF Tracks
<1>11. \A b \in Blocks : own2[b] = HandOf(t) <=> blk'[t] = b
  BY <1>2, <1>6, AddrTyped DEF Of
<1>12. /\ \A b \in Blocks : own2[b] # own[b] => own[b] \in Near(t, {}) /\ own2[b] \in Near(t, {})
       /\ \A b \in Blocks : link'[b] # link[b] => own[b] \in Near(t, {}) /\ own2[b] \in Near(t, {})
  BY <1>1, <1>2, <1>5 DEF Near
<1>13. \A d \in Sbs : d \notin {} =>
           /\ FreeLen(d)' = FreeLen(d)
           /\ anchor'[d].avail = anchor[d].avail \/ FreeLen(d) = 0
  BY <1>2 DEF FreeLen
<1>14. {} \in SUBSET Sbs /\ \A c \in {} : ChainTracked(own2, c)'
  OBVIOUS
<1>15. Tracks(own2)'
  BY <1>0, <1>5, <1>7, <1>8, <1>9, <1>10, <1>11, <1>12, <1>13, <1>14, TracksMove
<1> QED BY <1>1, <1>15

\* A superblock with free blocks that is on the partial list or with a thread is one of
\* the class.
LEMMA CarriedSmall ==
  ASSUME CoreInv, AnchorsOK, NEW d \in Sbs, d \in Used, anchor[d].state \in {"PARTIAL", "EMPTY"}
  PROVE  heap[d] = "small"
<1>1. heap[d] \in {"none", "small", "large"} /\ d \notin Outs
  BY DEF CoreInv, TypeOK, Used, Outs
<1> QED BY <1>1 DEF AnchorsOK, AnchorAt

\* The CAS of malloc_from_partial: the free chain becomes the thread's list.
LEMMA TracksTakeAll ==
  ASSUME CoreInv, WholeOK, AnchorsOK, NEW own, Tracks(own), NEW t \in Threads, TakeAll(t),
         NEW d, d = desc[t], anchor[d] = old[t], old[t].state = "PARTIAL"
  PROVE  \E own2 : Tracks(own2)'
<1>0. TypeOK /\ Step(t) /\ d \in Sbs
  BY DEF CoreInv, Step, LocalsOK, LocalsAt, TakeAll, At
<1>1. /\ cache[t].size = 0 /\ pc[t] = "take_all"
      /\ own \in [Blocks -> Places]
  BY DEF WholeOK, WholeAt, Fills, TakeAll, At, Tracks
<1>2. /\ anchor' = [anchor EXCEPT ![d] = AllTaken]
      /\ cache'[t] = Cached(AddrOf(d, anchor[d].avail), anchor[d].count, cache[t].max)
      /\ pc'[t] \in {"sb_alloc", "pop"} /\ UNCHANGED <<link, heap, user, blk>>
      /\ anchor \in [Sbs -> Anchors]
  BY <1>0 DEF TakeAll, TypeOK, Goto, app, local
<1>3. /\ Of(own, HandOf(t)) = {} /\ Of(own, RunOf(t)) = {} /\ Of(own, CacheOf(t)) = {}
      /\ blk[t] = NoBlock
  BY <1>0, <1>1, TrackedThread
<1>4. PICK own2 : own2 = [b \in Blocks |-> IF own[b] = ChainOf(d) THEN CacheOf(t) ELSE own[b]]
  OBVIOUS
<1>5. /\ own2 \in [Blocks -> Places]
      /\ \A b \in Blocks : own2[b] = IF own[b] = ChainOf(d) THEN CacheOf(t) ELSE own[b]
  BY <1>1, <1>4, PlacesApart
<1>6. /\ Of(own2, CacheOf(t)) = Of(own, ChainOf(d)) /\ Of(own2, ChainOf(d)) = {}
      /\ Of(own2, RunOf(t)) = {} /\ Of(own2, HandOf(t)) = {}
  BY <1>0, <1>3, <1>5, PlacesApart DEF Of
<1>7. CacheTracked(own2, t)'
  <2>1. Chain(Of(own, ChainOf(d)), AddrOf(d, anchor[d].avail), anchor[d].count, link)
    <3>1. d \in Carry(t)
      BY <1>1 DEF Carry
    <3>2. heap[d] = "small"
      BY <1>0, <3>1, CarriedSmall DEF CoreInv, PartialsApart
    <3> QED BY <1>0, <3>2 DEF Tracks, ChainTracked, FreeLen
  <2> QED BY <1>2, <1>6, <2>1 DEF CacheTracked, Cached
<1>8. RunTracked(own2, t)'
  BY <1>2, <1>6 DEF RunTracked
<1>9. \A b \in Blocks : own2[b] = Nobody <=> heap'[b[1]] # "small"
  BY <1>0, <1>2, <1>5, PlacesApart DEF Tracks
<1>10. \A b \in Blocks : own2[b] = App <=> b \in user'
  BY <1>0, <1>2, <1>5, PlacesApart DEF Tracks
<1>11. \A b \in Blocks : own2[b] = HandOf(t) <=> blk'[t] = b
  BY <1>2, <1>3, <1>6, AddrTyped DEF Of
<1>12. /\ \A b \in Blocks : own2[b] # own[b] => own[b] \in Near(t, {d}) /\ own2[b] \in Near(t, {d})
       /\ \A b \in Blocks : link'[b] = link[b]
  BY <1>2, <1>5 DEF Near
<1>13. \A c \in Sbs : c \notin {d} =>
           /\ FreeLen(c)' = FreeLen(c)
           /\ anchor'[c].avail = anchor[c].avail \/ FreeLen(c) = 0
  BY <1>2 DEF FreeLen
<1>14. {d} \in SUBSET Sbs /\ \A c \in {d} : ChainTracked(own2, c)'
  <2>1. FreeLen(d)' = 0
    BY <1>0, <1>2 DEF FreeLen, AllTaken
  <2>2. ChainTracked(own2, d)'
    BY <1>6, <2>1, ChainEmpty DEF ChainTracked
  <2> QED BY <1>0, <2>2
<1>15. Tracks(own2)'
  BY <1>0, <1>5, <1>7, <1>8, <1>9, <1>10, <1>11, <1>12, <1>13, <1>14, TracksMove
<1> QED BY <1>15

\* malloc_from_newsb threads all the blocks of a superblock that had no owner.
LEMMA TracksNewSb ==
  ASSUME CoreInv, WholeOK, AnchorsOK, NEW own, Tracks(own), NEW t \in Threads, NewSb(t)
  PROVE  \E own2 : Tracks(own2)'
<1>a. PICK d : d = desc[t]
  OBVIOUS
<1>0. TypeOK /\ Step(t) /\ d \in Sbs /\ pc[t] = "use_sb" /\ goal[t] = "small"
  BY <1>a DEF CoreInv, Step, LocalsOK, LocalsAt, NewSb, At
<1>1. /\ cache[t].size = 0 /\ cache[t].max = MaxCount /\ own \in [Blocks -> Places]
      /\ MaxCount \in Nat /\ MaxCount >= 2
  BY <1>0, ConstantsAssumption DEF WholeOK, WholeAt, Fills, Tracks
<1>2. /\ heap' = [heap EXCEPT ![d] = "small"] /\ anchor' = [anchor EXCEPT ![d] = AllTaken]
      /\ link' = [b \in Blocks |-> IF b[1] = d /\ b[2] < MaxCount - 1
                                   THEN <<d, b[2] + 1>> ELSE link[b]]
      /\ cache'[t] = Cached(<<d, 0>>, MaxCount, Grown(MaxCount))
      /\ pc'[t] = "pop" /\ UNCHANGED <<user, blk>>
      /\ anchor \in [Sbs -> Anchors] /\ heap \in [Sbs -> {"none", "small", "large"}]
  <2>1. ~(cache[t].max < MaxCount)
    BY <1>1
  <2>2. /\ heap' = [heap EXCEPT ![desc[t]] = "small"]
        /\ anchor' = [anchor EXCEPT ![desc[t]] = AllTaken]
        /\ link' = [b \in Blocks |-> IF b[1] = desc[t] /\ b[2] < MaxCount - 1
                                     THEN <<desc[t], b[2] + 1>> ELSE link[b]]
        /\ cache' = [cache EXCEPT ![t] =
                        Cached(<<desc[t], 0>>, MaxCount, Grown(cache[t].max))]
        /\ pc' = [pc EXCEPT ![t] = "pop"]
    BY <2>1, Zenon DEF NewSb, Goto
  <2>3. UNCHANGED <<user, blk>>
    BY DEF NewSb, app
  <2> QED BY <1>a, <1>0, <1>1, <2>2, <2>3 DEF TypeOK
<1>3. /\ Of(own, HandOf(t)) = {} /\ Of(own, RunOf(t)) = {} /\ Of(own, CacheOf(t)) = {}
      /\ blk[t] = NoBlock
  BY <1>0, <1>1, TrackedThread
<1>4. heap[d] # "small"
  <2>1. d \in Spare(t)
    BY <1>a, <1>0 DEF Spare
  <2> QED BY <1>0, <2>1 DEF AnchorsOK, AnchorAt, Used
<1>5. \A b \in Blocks : b[1] = d => own[b] = Nobody
  BY <1>4 DEF Tracks
<1>6. PICK own2 : own2 = [b \in Blocks |-> IF b[1] = d THEN CacheOf(t) ELSE own[b]]
  OBVIOUS
<1>7. /\ own2 \in [Blocks -> Places]
      /\ \A b \in Blocks : own2[b] = IF b[1] = d THEN CacheOf(t) ELSE own[b]
  BY <1>1, <1>6, PlacesApart
<1>8. /\ Of(own2, CacheOf(t)) = BlocksIn(d)
      /\ Of(own2, RunOf(t)) = {} /\ Of(own2, HandOf(t)) = {}
  BY <1>0, <1>3, <1>7, BlocksInSize, PlacesApart DEF Of
<1>9. CacheTracked(own2, t)'
  <2> DEFINE e == [k \in 0 .. MaxCount - 1 |-> <<d, k>>]
  <2>1. e \in [0 .. MaxCount - 1 -> BlocksIn(d)]
    BY DEF BlocksIn
  <2>2. \A b \in BlocksIn(d) : \E k \in 0 .. MaxCount - 1 : e[k] = b
    BY DEF BlocksIn
  <2>3. \A j, k \in 0 .. MaxCount - 1 : e[j] = e[k] => j = k
    OBVIOUS
  <2>4. e[0] = <<d, 0>>
    BY <1>1
  <2>5. ASSUME NEW k \in 0 .. MaxCount - 2 PROVE link'[e[k]] = e[k + 1]
    <3>1. k \in 0 .. MaxCount - 1 /\ k + 1 \in 0 .. MaxCount - 1 /\ k < MaxCount - 1
      BY <1>1
    <3>2. <<d, k>> \in Blocks
      BY <1>0, <3>1, AddrTyped
    <3> QED BY <1>2, <3>1, <3>2
  <2> HIDE DEF e
  <2>6. Counts(e, BlocksIn(d), <<d, 0>>, MaxCount, link')
    BY <2>1, <2>2, <2>3, <2>4, <2>5 DEF Counts
  <2>7. Chain(BlocksIn(d), <<d, 0>>, MaxCount, link')
    BY <2>6 DEF Chain
  <2> QED BY <1>2, <1>8, <2>7 DEF CacheTracked, Cached
<1>10. RunTracked(own2, t)'
  BY <1>2, <1>8 DEF RunTracked
<1>11. \A b \in Blocks : own2[b] = Nobody <=> heap'[b[1]] # "small"
  BY <1>0, <1>2, <1>7, AddrTyped, PlacesApart DEF Tracks
<1>12. \A b \in Blocks : own2[b] = App <=> b \in user'
  BY <1>0, <1>2, <1>5, <1>7, PlacesApart DEF Tracks
<1>13. \A b \in Blocks : own2[b] = HandOf(t) <=> blk'[t] = b
  BY <1>2, <1>3, <1>8, AddrTyped DEF Of
<1>14. /\ \A b \in Blocks : own2[b] # own[b] => own[b] \in Near(t, {}) /\ own2[b] \in Near(t, {})
       /\ \A b \in Blocks : link'[b] # link[b] => own[b] \in Near(t, {}) /\ own2[b] \in Near(t, {})
  BY <1>2, <1>5, <1>7 DEF Near
<1>15. ASSUME NEW c \in Sbs, c \notin {}
       PROVE  /\ FreeLen(c)' = FreeLen(c)
              /\ anchor'[c].avail = anchor[c].avail \/ FreeLen(c) = 0
  <2>1. CASE c = d
    <3>1. heap[d] # "small"
      BY <1>0, <1>4
    <3>2. anchor'[d].state = "FULL"
      BY <1>0, <1>2 DEF AllTaken
    <3> QED BY <2>1, <3>1, <3>2 DEF FreeLen
  <2>2. CASE c # d
    BY <1>2, <2>2 DEF FreeLen
  <2> QED BY <2>1, <2>2
<1>16. {} \in SUBSET Sbs /\ \A c \in {} : ChainTracked(own2, c)'
  OBVIOUS
<1>17. Tracks(own2)'
  BY <1>0, <1>7, <1>9, <1>10, <1>11, <1>12, <1>13, <1>14, <1>15, <1>16, TracksMove
<1> QED BY <1>17

\* do_free of a block: it goes to the front of the thread's list, or waits in the
\* thread's hands until the cache has been flushed.
LEMMA TracksFreeSmall ==
  ASSUME CoreInv, WholeOK, NEW own, Tracks(own), NEW t \in Threads, FreeSmall(t)
  PROVE  \E own2 : Tracks(own2)'
<1>0. TypeOK /\ Call(t)
  BY DEF CoreInv, Call
<1>1. PICK b \in user :
        /\ user' = user \ {b} /\ UNCHANGED <<anchor, heap>> /\ pc[t] = "idle"
        /\ \/ PushBlock(t, b) /\ UNCHANGED <<pc, blk>>
           \/ /\ blk' = [blk EXCEPT ![t] = b] /\ pc' = [pc EXCEPT ![t] = "flush"]
              /\ UNCHANGED <<link, cache>>
  BY DEF FreeSmall, At, Goto
<1>2. /\ b \in Blocks /\ own[b] = App /\ own \in [Blocks -> Places]
      /\ pc \in [Threads -> Labels] /\ blk \in [Threads -> Addrs]
      /\ link \in [Blocks -> Addrs] /\ cache \in [Threads -> Caches]
  BY <1>0 DEF TypeOK, Tracks
<1>3. /\ Chain(Of(own, CacheOf(t)), cache[t].head, cache[t].size, link)
      /\ cache[t].size \in Nat
      /\ Of(own, RunOf(t)) = {} /\ Of(own, HandOf(t)) = {} /\ blk[t] = NoBlock
  BY <1>0, <1>1, TrackedThread
<1>4. /\ \A d \in Sbs : d \notin {} =>
           /\ FreeLen(d)' = FreeLen(d)
           /\ anchor'[d].avail = anchor[d].avail \/ FreeLen(d) = 0
      /\ {} \in SUBSET Sbs
  BY <1>1 DEF FreeLen
<1>5. pc'[t] # "flush_cas"
  BY <1>1, <1>2
<1>6. CASE PushBlock(t, b) /\ UNCHANGED <<pc, blk>>
  <2>1. PICK own2 : own2 = [own EXCEPT ![b] = CacheOf(t)]
    OBVIOUS
  <2>2. /\ own2 \in [Blocks -> Places]
        /\ \A x \in Blocks : own2[x] = IF x = b THEN CacheOf(t) ELSE own[x]
    BY <1>2, <2>1, PlacesApart
  <2>3. /\ Of(own2, CacheOf(t)) = Of(own, CacheOf(t)) \cup {b} /\ b \notin Of(own, CacheOf(t))
        /\ Of(own2, RunOf(t)) = {} /\ Of(own2, HandOf(t)) = {}
    BY <1>2, <1>3, <2>2, PlacesApart DEF Of
  <2>4. /\ link' = [link EXCEPT ![b] = cache[t].head]
        /\ cache'[t] = Cached(b, cache[t].size + 1, cache[t].max)
    BY <1>2, <1>6 DEF PushBlock
  <2>5. CacheTracked(own2, t)'
    <3>1. link'[b] = cache[t].head /\ \A x \in Of(own, CacheOf(t)) : link'[x] = link[x]
      BY <1>2, <2>3, <2>4 DEF Of
    <3>2. Chain(Of(own, CacheOf(t)), cache[t].head, cache[t].size, link')
      BY <1>3, <3>1, ChainFrame
    <3>3. Chain(Of(own, CacheOf(t)) \cup {b}, b, cache[t].size + 1, link')
      BY <1>3, <2>3, <3>1, <3>2, ChainPush
    <3> QED BY <2>3, <2>4, <3>3 DEF CacheTracked, Cached
  <2>6. RunTracked(own2, t)'
    BY <1>5, <2>3 DEF RunTracked
  <2>7. /\ \A x \in Blocks : own2[x] = Nobody <=> heap'[x[1]] # "small"
        /\ \A x \in Blocks : own2[x] = App <=> x \in user'
    BY <1>1, <1>2, <2>2, PlacesApart DEF Tracks
  <2>8. \A x \in Blocks : own2[x] = HandOf(t) <=> blk'[t] = x
    BY <1>3, <1>6, <2>3, AddrTyped DEF Of
  <2>9. /\ \A x \in Blocks : own2[x] # own[x] => own[x] \in Near(t, {}) /\ own2[x] \in Near(t, {})
        /\ \A x \in Blocks : link'[x] # link[x] => own[x] \in Near(t, {}) /\ own2[x] \in Near(t, {})
    BY <1>2, <2>2, <2>4 DEF Near
  <2>10. \A c \in {} : ChainTracked(own2, c)'
    OBVIOUS
  <2>11. Tracks(own2)'
    BY <1>0, <1>4, <2>2, <2>5, <2>6, <2>7, <2>8, <2>9, <2>10, TracksMove
  <2> QED BY <2>11
<1>7. CASE /\ blk' = [blk EXCEPT ![t] = b] /\ pc' = [pc EXCEPT ![t] = "flush"]
           /\ UNCHANGED <<link, cache>>
  <2>1. PICK own2 : own2 = [own EXCEPT ![b] = HandOf(t)]
    OBVIOUS
  <2>2. /\ own2 \in [Blocks -> Places]
        /\ \A x \in Blocks : own2[x] = IF x = b THEN HandOf(t) ELSE own[x]
    BY <1>2, <2>1, PlacesApart
  <2>3. /\ Of(own2, CacheOf(t)) = Of(own, CacheOf(t))
        /\ Of(own2, RunOf(t)) = {} /\ Of(own2, HandOf(t)) = {b}
    BY <1>2, <1>3, <2>2, PlacesApart DEF Of
  <2>4. CacheTracked(own2, t)'
    BY <1>3, <1>7, <2>3 DEF CacheTracked
  <2>5. RunTracked(own2, t)'
    BY <1>5, <2>3 DEF RunTracked
  <2>6. /\ \A x \in Blocks : own2[x] = Nobody <=> heap'[x[1]] # "small"
        /\ \A x \in Blocks : own2[x] = App <=> x \in user'
    BY <1>1, <1>2, <2>2, PlacesApart DEF Tracks
  <2>7. \A x \in Blocks : own2[x] = HandOf(t) <=> blk'[t] = x
    BY <1>2, <1>7, <2>3 DEF Of
  <2>8. /\ \A x \in Blocks : own2[x] # own[x] => own[x] \in Near(t, {}) /\ own2[x] \in Near(t, {})
        /\ \A x \in Blocks : link'[x] = link[x]
    BY <1>2, <1>7, <2>2 DEF Near
  <2>9. \A c \in {} : ChainTracked(own2, c)'
    OBVIOUS
  <2>10. Tracks(own2)'
    BY <1>0, <1>4, <2>2, <2>4, <2>5, <2>6, <2>7, <2>8, <2>9, TracksMove
  <2> QED BY <2>10
<1> QED BY <1>1, <1>6, <1>7

\* A round of flush_cache: the first n blocks of the list are cut off it.
LEMMA TracksFlushTake ==
  ASSUME CoreInv, WholeOK, NEW own, Tracks(own), NEW t \in Threads, FlushTake(t)
  PROVE  cache[t].head \in Blocks /\ \E own2 : Tracks(own2)'
<1>a. PICK h, m : h = cache[t].head /\ m = cache[t].size
  OBVIOUS
<1>0. TypeOK /\ Step(t) /\ pc[t] = "flush" /\ m > 0
  BY <1>a DEF CoreInv, Step, FlushTake, At
<1>1. /\ m \in Nat /\ h \in Blocks /\ own[h] = CacheOf(t) /\ own \in [Blocks -> Places]
      /\ Chain(Of(own, CacheOf(t)), h, m, link) /\ Of(own, RunOf(t)) = {}
  BY <1>a, <1>0, TrackedThread
<1>2. PICK n \in 1 .. m :
        /\ SameSb(h, n, h[1])
        /\ seg' = [seg EXCEPT ![t] = [head |-> h, tail |-> Follow(h, n - 1), num |-> n]]
        /\ cache' = [cache EXCEPT ![t] = Cached(link[Follow(h, n - 1)], @.size - n, @.max)]
  BY <1>a, <1>1 DEF FlushTake
<1>3. /\ desc'[t] = h[1] /\ pc'[t] = "flush_cas" /\ UNCHANGED <<link, anchor, heap, user, blk>>
      /\ seg'[t] = [head |-> h, tail |-> Follow(h, n - 1), num |-> n]
      /\ cache'[t] = Cached(link[Follow(h, n - 1)], m - n, cache[t].max)
  BY <1>a, <1>0, <1>1, <1>2 DEF FlushTake, Goto, TypeOK, shared, app
<1>4. PICK e : Counts(e, Of(own, CacheOf(t)), h, m, link)
  BY <1>1 DEF Chain
<1>5. \A k \in 0 .. m - 1 : Follow(h, k) = e[k]
  <2>1. Of(own, CacheOf(t)) \in SUBSET Blocks
    BY DEF Of
  <2> QED BY <1>1, <1>4, <2>1, FollowCounts
<1> DEFINE A == {e[k] : k \in 0 .. n - 1}
<1>6. /\ n \in Nat /\ m - n \in Nat /\ Follow(h, n - 1) = e[n - 1]
      /\ \A k \in 0 .. n - 1 : k \in 0 .. m - 1
  <2>1. n \in Nat /\ m - n \in Nat /\ n - 1 \in 0 .. m - 1
    BY <1>1
  <2> QED BY <1>1, <1>5, <2>1
<1>7. \A b \in A : b[1] = h[1]
  BY <1>2, <1>5, <1>6 DEF SameSb
<1>8. /\ A \subseteq Of(own, CacheOf(t)) /\ ChainTo(A, h, n, link, e[n - 1])
      /\ Chain(Of(own, CacheOf(t)) \ A, link[e[n - 1]], m - n, link)
  BY <1>1, <1>4, ChainCut
<1>9. PICK B : B = A
  OBVIOUS
<1>10. PICK own2 : own2 = [b \in Blocks |-> IF b \in B THEN RunOf(t) ELSE own[b]]
  OBVIOUS
<1>11. /\ own2 \in [Blocks -> Places]
       /\ \A b \in Blocks : own2[b] = IF b \in B THEN RunOf(t) ELSE own[b]
       /\ \A b \in B : b \in Blocks /\ own[b] = CacheOf(t)
  BY <1>1, <1>8, <1>9, <1>10, PlacesApart DEF Of
<1> HIDE DEF A
<1>12. /\ Of(own2, CacheOf(t)) = Of(own, CacheOf(t)) \ B
       /\ Of(own2, RunOf(t)) = B
  BY <1>1, <1>11, PlacesApart DEF Of
<1>13. CacheTracked(own2, t)'
  BY <1>3, <1>6, <1>8, <1>9, <1>12 DEF CacheTracked, Cached
<1>14. RunTracked(own2, t)'
  <2>1. ChainTo(B, h, n, link', e[n - 1])
    BY <1>3, <1>8, <1>9
  <2>2. seg'[t].head = h /\ seg'[t].num = n /\ seg'[t].tail = e[n - 1]
    BY <1>3, <1>6
  <2> QED BY <1>3, <1>7, <1>9, <1>12, <2>1, <2>2 DEF RunTracked
<1>15. /\ \A b \in Blocks : own2[b] = Nobody <=> heap'[b[1]] # "small"
       /\ \A b \in Blocks : own2[b] = App <=> b \in user'
       /\ \A b \in Blocks : own2[b] = HandOf(t) <=> blk'[t] = b
  BY <1>3, <1>11, PlacesApart DEF Tracks
<1>16. /\ \A b \in Blocks : own2[b] # own[b] => own[b] \in Near(t, {}) /\ own2[b] \in Near(t, {})
       /\ \A b \in Blocks : link'[b] = link[b]
  BY <1>3, <1>11 DEF Near
<1>17. \A d \in Sbs : d \notin {} =>
           /\ FreeLen(d)' = FreeLen(d)
           /\ anchor'[d].avail = anchor[d].avail \/ FreeLen(d) = 0
  BY <1>3 DEF FreeLen
<1>18. {} \in SUBSET Sbs /\ \A c \in {} : ChainTracked(own2, c)'
  OBVIOUS
<1>19. Tracks(own2)'
  BY <1>0, <1>11, <1>13, <1>14, <1>15, <1>16, <1>17, <1>18, TracksMove
<1> QED BY <1>a, <1>1, <1>19

\* The superblock that a thread flushes into is one of the class, and not all of its
\* blocks are free.
LEMMA FlushTarget ==
  ASSUME CoreInv, AnchorsOK, NEW own, Tracks(own), NEW t \in Threads, pc[t] = "flush_cas",
         NEW d, d = desc[t]
  PROVE  /\ d \in Sbs /\ heap[d] = "small" /\ anchor[d].state \in {"FULL", "PARTIAL"}
         /\ anchor[d].count \in Nat /\ FreeLen(d) = anchor[d].count
         /\ seg[t].num \in Nat /\ seg[t].num >= 1 /\ anchor[d].count + seg[t].num <= MaxCount
         /\ seg[t].head \in Blocks /\ seg[t].head[1] = d /\ own[seg[t].head] = RunOf(t)
         /\ seg[t].tail \in Blocks /\ own[seg[t].tail] = RunOf(t)
<1>1. /\ d \in Sbs /\ seg[t].num >= 1 /\ seg[t].num \in Nat /\ TypeOK
      /\ anchor[d] \in Anchors
  BY ThreadTyped DEF CoreInv, LocalsOK, LocalsAt, TypeOK
<1>2. /\ ChainTo(Of(own, RunOf(t)), seg[t].head, seg[t].num, link, seg[t].tail)
      /\ \A b \in Of(own, RunOf(t)) : b[1] = d
  BY DEF Tracks, RunTracked
<1>3. seg[t].head \in Of(own, RunOf(t)) /\ seg[t].tail \in Of(own, RunOf(t))
  <2>1. PICK e : /\ Counts(e, Of(own, RunOf(t)), seg[t].head, seg[t].num, link)
                 /\ e[seg[t].num - 1] = seg[t].tail
    BY <1>2 DEF ChainTo
  <2>2. 0 \in 0 .. seg[t].num - 1 /\ seg[t].num - 1 \in 0 .. seg[t].num - 1
    BY <1>1
  <2> QED BY <1>1, <2>1, <2>2 DEF Counts
<1>4. /\ seg[t].head \in Blocks /\ seg[t].head[1] = d /\ own[seg[t].head] = RunOf(t)
      /\ seg[t].tail \in Blocks /\ own[seg[t].tail] = RunOf(t)
  BY <1>2, <1>3 DEF Of
<1>5. heap[d] = "small"
  BY <1>4, PlacesApart DEF Tracks
<1>6. anchor[d].state # "EMPTY"
  <2>1. own[seg[t].head] # ChainOf(d)
    BY <1>1, <1>4, PlacesApart
  <2> QED BY <1>1, <1>4, <1>5, <2>1, EmptyAll
<1>7. anchor[d].state \in {"FULL", "PARTIAL"} /\ anchor[d].count \in Nat
  BY <1>1, <1>5, <1>6, AnchorTyped DEF AnchorsOK, AnchorAt
<1>8. FreeLen(d) = anchor[d].count
  BY <1>1, <1>5, <1>7 DEF FreeLen, AnchorsOK, AnchorAt
<1>9. anchor[d].count + seg[t].num <= MaxCount
  BY <1>1, <1>8, RunFits
<1> QED BY <1>1, <1>4, <1>5, <1>7, <1>8, <1>9

\* The CAS of flush_cache: the run goes to the front of the free chain.
LEMMA TracksFlushCAS ==
  ASSUME CoreInv, WholeOK, AnchorsOK, NEW own, Tracks(own), NEW t \in Threads, FlushCAS(t),
         anchor[desc[t]] = old[t]
  PROVE  \E own2 : Tracks(own2)'
<1>a. PICK d, a : d = desc[t] /\ a = anchor[d]
  OBVIOUS
<1>0. TypeOK /\ Step(t) /\ pc[t] = "flush_cas"
  BY DEF CoreInv, Step, FlushCAS, At
<1>1. /\ d \in Sbs /\ heap[d] = "small" /\ a.state \in {"FULL", "PARTIAL"}
      /\ a.count \in Nat /\ FreeLen(d) = a.count
      /\ seg[t].num \in Nat /\ seg[t].num >= 1 /\ a.count + seg[t].num <= MaxCount
      /\ seg[t].head \in Blocks /\ seg[t].head[1] = d /\ own[seg[t].head] = RunOf(t)
      /\ seg[t].tail \in Blocks /\ own[seg[t].tail] = RunOf(t)
  BY <1>a, <1>0, FlushTarget
<1>2. /\ link' = [link EXCEPT ![seg[t].tail] = AddrOf(d, a.avail)]
      /\ anchor' = [anchor EXCEPT ![d] = Returned(a, seg[t].head[2], seg[t].num, DescMax(d))]
      /\ pc'[t] \in {"flush", "retire", "push_flush"}
      /\ UNCHANGED <<heap, user, cache, blk>>
      /\ link \in [Blocks -> Addrs] /\ anchor \in [Sbs -> Anchors]
  BY <1>a, <1>0 DEF FlushCAS, TypeOK, Goto, app
<1>3. /\ own \in [Blocks -> Places]
      /\ ChainTo(Of(own, RunOf(t)), seg[t].head, seg[t].num, link, seg[t].tail)
      /\ \A b \in Of(own, RunOf(t)) : b[1] = d
      /\ Chain(Of(own, ChainOf(d)), AddrOf(d, a.avail), a.count, link)
      /\ \A b \in Of(own, ChainOf(d)) : b[1] = d
      /\ Chain(Of(own, CacheOf(t)), cache[t].head, cache[t].size, link)
      /\ cache[t].size \in Nat
  BY <1>a, <1>0, <1>1, TrackedThread DEF Tracks, RunTracked, ChainTracked
<1>4. PICK own2 : own2 = [b \in Blocks |-> IF own[b] = RunOf(t) THEN ChainOf(d) ELSE own[b]]
  OBVIOUS
<1>5. /\ own2 \in [Blocks -> Places]
      /\ \A b \in Blocks : own2[b] = IF own[b] = RunOf(t) THEN ChainOf(d) ELSE own[b]
  BY <1>1, <1>3, <1>4, PlacesApart
<1>6. /\ Of(own2, CacheOf(t)) = Of(own, CacheOf(t)) /\ Of(own2, RunOf(t)) = {}
      /\ Of(own2, ChainOf(d)) = Of(own, RunOf(t)) \cup Of(own, ChainOf(d))
      /\ Of(own, RunOf(t)) \cap Of(own, ChainOf(d)) = {}
      /\ seg[t].tail \notin Of(own, ChainOf(d)) /\ seg[t].tail \notin Of(own, CacheOf(t))
  BY <1>1, <1>3, <1>5, PlacesApart DEF Of
<1>7. /\ link'[seg[t].tail] = AddrOf(d, a.avail)
      /\ \A b \in Blocks : b # seg[t].tail => link'[b] = link[b]
  BY <1>1, <1>2
<1>8. CacheTracked(own2, t)'
  <2>1. \A b \in Of(own, CacheOf(t)) : link'[b] = link[b]
    BY <1>6, <1>7 DEF Of
  <2>2. Chain(Of(own, CacheOf(t)), cache[t].head, cache[t].size, link')
    BY <1>3, <2>1, ChainFrame
  <2> QED BY <1>2, <1>6, <2>2 DEF CacheTracked
<1>9. RunTracked(own2, t)'
  BY <1>2, <1>6 DEF RunTracked
<1>10. ChainTracked(own2, d)'
  <2>1. ChainTo(Of(own, RunOf(t)), seg[t].head, seg[t].num, link', seg[t].tail)
    <3>1. \A b \in Of(own, RunOf(t)) \ {seg[t].tail} : link'[b] = link[b]
      BY <1>7 DEF Of
    <3> QED BY <1>1, <1>3, <3>1, ChainToFrame
  <2>2. Chain(Of(own, ChainOf(d)), AddrOf(d, a.avail), a.count, link')
    <3>1. \A b \in Of(own, ChainOf(d)) : link'[b] = link[b]
      BY <1>6, <1>7 DEF Of
    <3> QED BY <1>1, <1>3, <3>1, ChainFrame
  <2>3. Chain(Of(own, RunOf(t)) \cup Of(own, ChainOf(d)), seg[t].head,
              seg[t].num + a.count, link')
    <3>1. PICK S, T, n, m, lk : /\ S = Of(own, RunOf(t)) /\ T = Of(own, ChainOf(d))
                               /\ n = seg[t].num /\ m = a.count /\ lk = link'
      OBVIOUS
    <3>2. n \in Nat /\ n > 0 /\ m \in Nat /\ S \cap T = {} /\ lk[seg[t].tail] = AddrOf(d, a.avail)
      BY <1>1, <1>6, <1>7, <3>1
    <3>3. ChainTo(S, seg[t].head, n, lk, seg[t].tail) /\ Chain(T, AddrOf(d, a.avail), m, lk)
      BY <2>1, <2>2, <3>1
    <3>4. Chain(S \cup T, seg[t].head, n + m, lk)
      BY <3>2, <3>3, ChainJoin
    <3> QED BY <3>1, <3>4
  <2>4. anchor'[d] = Returned(a, seg[t].head[2], seg[t].num, DescMax(d))
    BY <1>1, <1>2
  <2>5. FreeLen(d)' = seg[t].num + a.count
    <3>1. DescMax(d) = MaxCount
      BY <1>0, <1>1, DescMaxTyped
    <3> QED BY <1>1, <1>2, <2>4, <3>1, ConstantsAssumption DEF FreeLen, Returned
  <2>6. AddrOf(d, anchor'[d].avail) = seg[t].head
    <3>1. anchor'[d].avail = seg[t].head[2]
      BY <2>4 DEF Returned
    <3>2. seg[t].head = <<d, seg[t].head[2]>> /\ seg[t].head[2] < MaxCount
      BY <1>1, ConstantsAssumption DEF Blocks
    <3> QED BY <3>1, <3>2 DEF AddrOf
  <2>7. \A b \in Of(own2, ChainOf(d)) : b[1] = d
    BY <1>3, <1>6
  <2> QED BY <1>6, <2>3, <2>5, <2>6, <2>7 DEF ChainTracked
<1>11. /\ \A b \in Blocks : own2[b] = Nobody <=> heap'[b[1]] # "small"
       /\ \A b \in Blocks : own2[b] = App <=> b \in user'
       /\ \A b \in Blocks : own2[b] = HandOf(t) <=> blk'[t] = b
  BY <1>1, <1>2, <1>5, PlacesApart DEF Tracks
<1>12. /\ \A b \in Blocks : own2[b] # own[b] => own[b] \in Near(t, {d}) /\ own2[b] \in Near(t, {d})
       /\ \A b \in Blocks : link'[b] # link[b] => own[b] \in Near(t, {d}) /\ own2[b] \in Near(t, {d})
  BY <1>1, <1>5, <1>7 DEF Near
<1>13. \A c \in Sbs : c \notin {d} =>
           /\ FreeLen(c)' = FreeLen(c)
           /\ anchor'[c].avail = anchor[c].avail \/ FreeLen(c) = 0
  BY <1>2 DEF FreeLen
<1>14. {d} \in SUBSET Sbs /\ \A c \in {d} : ChainTracked(own2, c)'
  BY <1>1, <1>10
<1>15. Tracks(own2)'
  BY <1>0, <1>5, <1>8, <1>9, <1>11, <1>12, <1>13, <1>14, TracksMove
<1> QED BY <1>15

\* The end of a flush: do_free puts the block it holds into the cache, which is empty;
\* the cache of a thread that ends is empty too, so no block is lost with it.
LEMMA TracksFlushDone ==
  ASSUME CoreInv, WholeOK, NEW own, Tracks(own), NEW t \in Threads, FlushDone(t)
  PROVE  \E own2 : Tracks(own2)'
<1>0. TypeOK /\ Step(t) /\ pc[t] = "flush" /\ cache[t].size = 0
  BY DEF CoreInv, Step, FlushDone, At
<1>1. /\ own \in [Blocks -> Places] /\ Of(own, CacheOf(t)) = {} /\ Of(own, RunOf(t)) = {}
      /\ goal[t] # "free" => Of(own, HandOf(t)) = {}
  BY <1>0, TrackedThread
<1>2. /\ pc'[t] = "idle" /\ blk'[t] = NoBlock /\ UNCHANGED <<anchor, heap, user>>
      /\ link \in [Blocks -> Addrs] /\ cache \in [Threads -> Caches]
  BY <1>0 DEF FlushDone, Return, Goto, TypeOK, app
<1>3. /\ \A d \in Sbs : d \notin {} =>
           /\ FreeLen(d)' = FreeLen(d)
           /\ anchor'[d].avail = anchor[d].avail \/ FreeLen(d) = 0
      /\ {} \in SUBSET Sbs
  BY <1>2 DEF FreeLen
<1>4. CASE goal[t] = "free"
  <2>a. PICK b : b = blk[t]
    OBVIOUS
  <2>1. /\ b \in Blocks /\ own[b] = HandOf(t) /\ \A x \in Blocks : own[x] = HandOf(t) => x = b
    BY <1>0, <1>4, <2>a DEF CoreInv, LocalsOK, LocalsAt, Tracks
  <2>2. PICK own2 : own2 = [own EXCEPT ![b] = CacheOf(t)]
    OBVIOUS
  <2>3. /\ own2 \in [Blocks -> Places]
        /\ \A x \in Blocks : own2[x] = IF x = b THEN CacheOf(t) ELSE own[x]
    BY <1>1, <2>1, <2>2, PlacesApart
  <2>4. /\ Of(own2, CacheOf(t)) = {b} /\ Of(own2, RunOf(t)) = {} /\ Of(own2, HandOf(t)) = {}
    BY <1>1, <2>1, <2>3, PlacesApart DEF Of
  <2>5. /\ link' = [link EXCEPT ![b] = cache[t].head]
        /\ cache'[t] = Cached(b, 1, cache[t].max)
    BY <1>0, <1>2, <1>4, <2>a DEF FlushDone, PushBlock
  <2>6. CacheTracked(own2, t)'
    <3>1. Chain({b}, b, 1, link')
      BY ChainOne DEF ChainTo, Chain
    <3> QED BY <2>4, <2>5, <3>1 DEF CacheTracked, Cached
  <2>7. RunTracked(own2, t)'
    BY <1>2, <2>4 DEF RunTracked
  <2>8. /\ \A x \in Blocks : own2[x] = Nobody <=> heap'[x[1]] # "small"
        /\ \A x \in Blocks : own2[x] = App <=> x \in user'
    BY <1>2, <2>1, <2>3, PlacesApart DEF Tracks
  <2>9. \A x \in Blocks : own2[x] = HandOf(t) <=> blk'[t] = x
    BY <1>2, <2>4, AddrTyped DEF Of
  <2>10. /\ \A x \in Blocks : own2[x] # own[x] => own[x] \in Near(t, {}) /\ own2[x] \in Near(t, {})
         /\ \A x \in Blocks : link'[x] # link[x] => own[x] \in Near(t, {}) /\ own2[x] \in Near(t, {})
    BY <1>2, <2>1, <2>3, <2>5 DEF Near
  <2>11. \A c \in {} : ChainTracked(own2, c)'
    OBVIOUS
  <2>12. Tracks(own2)'
    BY <1>0, <1>3, <2>3, <2>6, <2>7, <2>8, <2>9, <2>10, <2>11, TracksMove
  <2> QED BY <2>12
<1>5. CASE goal[t] # "free"
  <2>1. link' = link /\ cache'[t] = Fresh
    BY <1>0, <1>2, <1>5 DEF FlushDone
  <2>2. CacheTracked(own, t)'
    BY <1>1, <2>1, ChainEmpty DEF CacheTracked, Fresh, Cached
  <2>3. RunTracked(own, t)'
    BY <1>1, <1>2 DEF RunTracked
  <2>4. /\ \A x \in Blocks : own[x] = Nobody <=> heap'[x[1]] # "small"
        /\ \A x \in Blocks : own[x] = App <=> x \in user'
        /\ \A x \in Blocks : own[x] = HandOf(t) <=> blk'[t] = x
    BY <1>1, <1>2, <1>5, AddrTyped DEF Tracks, Of
  <2>5. /\ \A x \in Blocks : link'[x] = link[x] /\ own[x] = own[x]
        /\ \A c \in {} : ChainTracked(own, c)'
    BY <2>1
  <2>6. Tracks(own)'
    BY <1>0, <1>1, <1>3, <2>2, <2>3, <2>4, <2>5, TracksMove
  <2> QED BY <2>6
<1> QED BY <1>4, <1>5
-----------------------------------------------------------------------------
(* Every step *)

\* Only do_malloc of a whole object makes a descriptor one.
LEMMA LargesMade ==
  ASSUME CoreInv, NEW t \in Threads, Step(t) \/ Call(t), NEW d \in Sbs,
         heap'[d] = "large", heap[d] # "large"
  PROVE  LargeBlock(t) /\ d \in big'
<1>0. /\ heap \in [Sbs -> {"none", "small", "large"}] /\ LocalsAt(t)
  BY DEF CoreInv, TypeOK, LocalsOK
<1>1. CASE LargeBlock(t)
  <2>1. heap' = [heap EXCEPT ![desc[t]] = "large"] /\ big' = big \cup {desc[t]}
    BY <1>1 DEF LargeBlock
  <2> QED BY <1>0, <1>1, <2>1
<1>2. CASE ~LargeBlock(t)
  <2>1. \/ heap' = heap
        \/ \E c \in Sbs, h \in {"none", "small"} : heap' = [heap EXCEPT ![c] = h]
    <3> USE <1>0 DEF At, LocalsAt
    <3>1. CASE Reserve(t)
      BY <3>1 DEF Reserve, RetireEmpty, Erase, Abort, shared
    <3>2. CASE TakeAll(t)
      BY <3>2 DEF TakeAll, RetireEmpty, Erase, Abort, shared
    <3>3. CASE Organize(t)
      BY <3>3 DEF Organize, Erase, Abort, shared
    <3>4. CASE NewSb(t)
      BY <3>4 DEF NewSb
    <3>5. CASE FlushRetire(t)
      BY <3>5 DEF FlushRetire, Erase
    <3>6. CASE \/ Pop(t) \/ HeapPopPartial(t) \/ TakePart(t) \/ PushPart(t) \/ SbAlloc(t)
               \/ ExpandLoad(t) \/ ExpandCAS(t) \/ FlushTake(t) \/ FlushCAS(t)
               \/ FlushPush(t) \/ FlushDone(t)
      BY <3>6 DEF Pop, HeapPopPartial, TakePart, PushPart, SbAlloc, ExpandLoad, ExpandCAS,
                  FlushTake, FlushCAS, FlushPush, FlushDone, Abort, shared
    <3>7. CASE Call(t)
      BY <3>7 DEF Call, MallocMiss, MallocLarge, FreeLarge, FreeSmall, ThreadExit, shared
    <3> QED BY <1>2, <3>1, <3>2, <3>3, <3>4, <3>5, <3>6, <3>7 DEF Step
  <2> QED BY <1>0, <2>1
<1> QED BY <1>1, <1>2

\* A whole object stays with the application or with the thread that frees it until its
\* descriptor is erased.
LEMMA LargesStep ==
  ASSUME CoreInv, AnchorsOK, NEW t \in Threads, Step(t) \/ Call(t), NEW d \in Sbs,
         heap'[d] = "large"
  PROVE  d \in Outs'
<1>0. /\ TypeOK /\ pc \in [Threads -> Labels] /\ LocalsAt(t) /\ SparesApart
      /\ heap \in [Sbs -> {"none", "small", "large"}] /\ goal \in [Threads -> Goals]
      /\ span \in [Threads -> Spans] /\ desc \in [Threads -> Sbs \cup {NoSb}]
  BY DEF CoreInv, TypeOK, LocalsOK
<1>1. \A u \in Threads : u # t => Spare(u)' = Spare(u)
  BY <1>0, OthersHold
<1>2. CASE d \in big'
  BY <1>2 DEF Outs
<1>3. CASE \E u \in Threads : u # t /\ d \in Spare(u)
  BY <1>1, <1>3 DEF Outs
<1>4. CASE d \notin big' /\ \A u \in Threads : u # t => d \notin Spare(u)
  <2>0. heap[d] = "large"
    BY <1>4, LargesMade
  <2>1. d \in big \/ d \in Spare(t)
    BY <1>4, <2>0 DEF AnchorsOK, AnchorAt, Outs
  <2>2. CASE \/ Pop(t) \/ HeapPopPartial(t) \/ Reserve(t) \/ TakeAll(t) \/ TakePart(t)
             \/ PushPart(t) \/ ExpandLoad(t) \/ FlushTake(t) \/ FlushCAS(t)
             \/ FlushPush(t) \/ FlushRetire(t) \/ FlushDone(t) \/ MallocMiss(t)
             \/ MallocLarge(t) \/ FreeSmall(t) \/ ThreadExit(t)
    <3>1. big' = big /\ Spare(t)' = Spare(t)
      BY <2>2, PlainSteps
    <3> QED BY <1>4, <2>1, <3>1 DEF Outs
  <2>3. CASE SbAlloc(t) \/ ExpandCAS(t)
    <3>1. big' = big /\ Spare(t) = {}
      BY <1>0, <2>3 DEF SbAlloc, ExpandCAS, At, Spare, app
    <3> QED BY <1>4, <2>1, <3>1
  <2>4. CASE FreeLarge(t)
    <3>1. Spare(t) = {} /\ pc'[t] = "organize"
      BY <1>0, <2>4 DEF FreeLarge, At, Goto, Spare
    <3>2. PICK c \in big : big' = big \ {c} /\ span' = [span EXCEPT ![t] = [lo |-> c, hi |-> c]]
      BY <2>4 DEF FreeLarge
    <3>3. d = c /\ d \in Int
      BY <1>4, <2>1, <3>1, <3>2, ConstantsAssumption DEF Sbs
    <3>4. span'[t].lo = d /\ span'[t].hi = d
      BY <1>0, <3>2, <3>3
    <3>5. d \in Spare(t)'
      BY <3>1, <3>3, <3>4 DEF Spare
    <3> QED BY <3>5 DEF Outs
  <2>5. CASE NewSb(t) \/ LargeBlock(t)
    <3>1. heap'[desc[t]] = "small" \/ desc[t] \in big'
      BY <1>0, <2>5 DEF NewSb, LargeBlock, At, LocalsAt
    <3>2. big \subseteq big'
      BY <2>5 DEF NewSb, LargeBlock, app
    <3>3. Spare(t) = {desc[t]}
      BY <2>5 DEF NewSb, LargeBlock, At, Spare
    <3> QED BY <1>4, <2>1, <3>1, <3>2, <3>3
  <2>6. CASE Organize(t)
    <3>1. /\ pc[t] = "organize" /\ span[t].lo \in Sbs /\ span[t].hi \in Sbs
          /\ span[t].lo <= span[t].hi /\ big' = big
      BY <1>0, <2>6 DEF Organize, At, LocalsAt, Abort, app
    <3>2. d \in Spare(t)
      BY <1>4, <2>1, <3>1
    <3>3. CASE Abort("queue is full")
      <4>1. Spare(t)' = Spare(t)
        BY <3>3 DEF Abort, Spare, local
      <4> QED BY <3>2, <4>1 DEF Outs
    <3>4. CASE ~Abort("queue is full")
      <4>1. d # span[t].lo
        BY <1>0, <2>6, <3>1, <3>4 DEF Organize, Erase
      <4>2. d \in span[t].lo + 1 .. span[t].hi \/ (goal[t] # "free" /\ d = desc[t])
        <5>1. d \in span[t].lo .. span[t].hi \/ (goal[t] # "free" /\ d = desc[t])
          BY <3>1, <3>2 DEF Spare
        <5> QED BY <3>1, <4>1, <5>1, ConstantsAssumption DEF Sbs
      <4>3. CASE span[t].lo < span[t].hi
        <5>0. span[t].lo # span[t].hi
          BY <3>1, <4>3, ConstantsAssumption DEF Sbs
        <5>1. /\ span' = [span EXCEPT ![t] = [lo |-> @.lo + 1, hi |-> @.hi]]
              /\ UNCHANGED <<pc, desc, goal>>
          BY <2>6, <3>1, <3>4, <5>0 DEF Organize
        <5>2. /\ span'[t].lo = span[t].lo + 1 /\ span'[t].hi = span[t].hi
              /\ pc'[t] = "organize" /\ goal'[t] = goal[t] /\ desc'[t] = desc[t]
          BY <1>0, <3>1, <5>1
        <5>3. Spare(t)' = (span[t].lo + 1 .. span[t].hi)
                          \cup (IF goal[t] # "free" THEN {desc[t]} ELSE {})
          BY <5>2 DEF Spare
        <5>4. d \in Spare(t)'
          BY <4>2, <5>3
        <5> QED BY <5>4 DEF Outs
      <4>4. CASE ~(span[t].lo < span[t].hi)
        <5>1. goal[t] # "free" /\ d = desc[t] /\ span[t].lo = span[t].hi
          BY <3>1, <4>2, <4>4, ConstantsAssumption DEF Sbs
        <5>2. pc' = [pc EXCEPT ![t] = "use_sb"] /\ desc' = desc
          BY <2>6, <3>1, <3>4, <4>4, <5>1 DEF Organize, Goto
        <5>3. pc'[t] = "use_sb" /\ desc'[t] = d
          BY <1>0, <5>1, <5>2
        <5>4. d \in Spare(t)'
          BY <5>3 DEF Spare
        <5> QED BY <5>4 DEF Outs
      <4> QED BY <4>3, <4>4
    <3> QED BY <3>3, <3>4
  <2> QED BY <2>2, <2>3, <2>4, <2>5, <2>6 DEF Step, Call
<1> QED BY <1>2, <1>3, <1>4

\* A retired superblock, and one that is put into the queue, is described as free.
LEMMA AnchorsErase ==
  ASSUME TypeOK, AnchorsOK, NEW d \in Sbs, Erase(d), Used \subseteq Used',
         \A c \in Sbs : heap'[c] = "large" => c \in Outs'
  PROVE  AnchorsOK'
<1>1. /\ anchor' = [anchor EXCEPT ![d] = Erased] /\ heap' = [heap EXCEPT ![d] = "none"]
      /\ heap \in [Sbs -> {"none", "small", "large"}] /\ anchor \in [Sbs -> Anchors]
  BY DEF Erase, TypeOK
<1>2. ASSUME NEW c \in Sbs PROVE AnchorAt(c)'
  <2>1. CASE c = d
    BY <1>1, <2>1 DEF AnchorAt, Erased
  <2>2. CASE c # d
    BY <1>1, <2>2 DEF AnchorsOK, AnchorAt
  <2> QED BY <2>1, <2>2
<1> QED BY <1>2 DEF AnchorsOK

\* Steps that leave the descriptors alone.
LEMMA DescriptorsKept ==
  ASSUME NEW t \in Threads,
         \/ Pop(t) \/ HeapPopPartial(t) \/ PushPart(t) \/ SbAlloc(t) \/ ExpandLoad(t)
         \/ ExpandCAS(t) \/ FlushTake(t) \/ FlushPush(t) \/ FlushDone(t) \/ MallocMiss(t)
         \/ MallocLarge(t) \/ FreeLarge(t) \/ FreeSmall(t) \/ ThreadExit(t)
         \/ Reserve(t) /\ anchor[desc[t]].state # "EMPTY"
         \/ TakeAll(t) /\ (anchor[desc[t]] = old[t] => old[t].state # "PARTIAL")
                       /\ (old[t].state = "PARTIAL" => anchor[desc[t]].state # "EMPTY")
         \/ FlushCAS(t) /\ anchor[desc[t]] # old[t]
         \/ Organize(t) /\ Len(queue) = QueueCap
  PROVE  UNCHANGED <<anchor, heap>>
<1> USE DEF Abort, shared
<1>1. CASE Pop(t) \/ HeapPopPartial(t) \/ PushPart(t) \/ SbAlloc(t) \/ ExpandLoad(t)
           \/ ExpandCAS(t)
  BY <1>1 DEF Pop, HeapPopPartial, PushPart, SbAlloc, ExpandLoad, ExpandCAS
<1>2. CASE FlushTake(t) \/ FlushPush(t) \/ FlushDone(t) \/ MallocMiss(t) \/ MallocLarge(t)
           \/ FreeLarge(t) \/ FreeSmall(t) \/ ThreadExit(t)
  BY <1>2 DEF FlushTake, FlushPush, FlushDone, MallocMiss, MallocLarge, FreeLarge,
              FreeSmall, ThreadExit
<1>3. CASE Reserve(t) /\ anchor[desc[t]].state # "EMPTY"
  BY <1>3 DEF Reserve
<1>4. CASE TakeAll(t) /\ (anchor[desc[t]] = old[t] => old[t].state # "PARTIAL")
                      /\ (old[t].state = "PARTIAL" => anchor[desc[t]].state # "EMPTY")
  BY <1>4 DEF TakeAll
<1>5. CASE FlushCAS(t) /\ anchor[desc[t]] # old[t]
  BY <1>5 DEF FlushCAS
<1>6. CASE Organize(t) /\ Len(queue) = QueueCap
  <2>1. ~(Len(queue) < QueueCap)
    BY <1>6, ConstantsAssumption
  <2>2. Abort("queue is full")
    BY <1>6, <2>1, Zenon DEF Organize
  <2> QED BY <2>2
<1> QED BY <1>1, <1>2, <1>3, <1>4, <1>5, <1>6

\* The descriptors are right after every step.
LEMMA AnchorsStep ==
  ASSUME CoreInv, WholeOK, AnchorsOK, NEW own, Tracks(own), NEW t \in Threads,
         Step(t) \/ Call(t)
  PROVE  AnchorsOK'
<1>0. /\ TypeOK /\ Used \subseteq Used' /\ anchor \in [Sbs -> Anchors]
      /\ heap \in [Sbs -> {"none", "small", "large"}]
      /\ LocalsAt(t) /\ WholeAt(t)
      /\ \A c \in Sbs : heap'[c] = "large" => c \in Outs'
  BY SparesStep, LargesStep DEF CoreInv, TypeOK, LocalsOK, WholeOK
<1>1. CASE UNCHANGED <<anchor, heap>>
  BY <1>0, <1>1 DEF AnchorsOK, AnchorAt
<1>2. CASE Reserve(t) /\ anchor[desc[t]].state = "EMPTY"
  <2>1. Erase(desc[t]) /\ desc[t] \in Sbs
    BY <1>0, <1>2 DEF Reserve, RetireEmpty, LocalsAt, At
  <2> QED BY <1>0, <2>1, AnchorsErase
<1>3. CASE TakeAll(t) /\ anchor[desc[t]] # old[t] /\ old[t].state = "PARTIAL"
           /\ anchor[desc[t]].state = "EMPTY"
  <2>1. Erase(desc[t]) /\ desc[t] \in Sbs
    BY <1>0, <1>3 DEF TakeAll, RetireEmpty, LocalsAt, At
  <2> QED BY <1>0, <2>1, AnchorsErase
<1>4. CASE TakeAll(t) /\ anchor[desc[t]] = old[t] /\ old[t].state = "PARTIAL"
  <2>1. /\ anchor' = [anchor EXCEPT ![desc[t]] = AllTaken] /\ heap' = heap
        /\ desc[t] \in Sbs
    BY <1>0, <1>4 DEF TakeAll, LocalsAt, At
  <2> QED BY <1>0, <2>1 DEF AnchorsOK, AnchorAt, AllTaken
<1>5. CASE Organize(t) /\ Len(queue) # QueueCap
  <2>1. Erase(span[t].lo) /\ span[t].lo \in Sbs
    BY <1>0, <1>5 DEF Organize, LocalsAt, At
  <2> QED BY <1>0, <2>1, AnchorsErase
<1>6. CASE NewSb(t)
  <2>1. ~(cache[t].max < MaxCount)
    BY <1>0, ConstantsAssumption DEF WholeAt
  <2>2. /\ heap' = [heap EXCEPT ![desc[t]] = "small"]
        /\ anchor' = [anchor EXCEPT ![desc[t]] = AllTaken]
        /\ desc[t] \in Sbs
    BY <1>0, <1>6, <2>1 DEF NewSb, LocalsAt, At
  <2>3. desc[t] \in Used'
    BY <1>6, NewSbUsed
  <2> QED BY <1>0, <2>2, <2>3 DEF AnchorsOK, AnchorAt, AllTaken
<1>7. CASE LargeBlock(t)
  <2>1. /\ heap' = [heap EXCEPT ![desc[t]] = "large"]
        /\ anchor' = [anchor EXCEPT ![desc[t]] = [avail |-> 0, count |-> 0, state |-> "FULL"]]
        /\ desc[t] \in Sbs
    BY <1>0, <1>7 DEF LargeBlock, LocalsAt, At
  <2> QED BY <1>0, <2>1 DEF AnchorsOK, AnchorAt
<1>8. CASE FlushCAS(t) /\ anchor[desc[t]] = old[t]
  <2>a. PICK d, a : d = desc[t] /\ a = anchor[d]
    OBVIOUS
  <2>1. /\ anchor' = [anchor EXCEPT ![d] = Returned(a, seg[t].head[2], seg[t].num, DescMax(d))]
        /\ heap' = heap /\ pc[t] = "flush_cas"
    BY <1>8, <2>a DEF FlushCAS, At
  <2>2. /\ d \in Sbs /\ heap[d] = "small" /\ a.state \in {"FULL", "PARTIAL"}
        /\ a.count \in Nat /\ FreeLen(d) = a.count
        /\ seg[t].num \in Nat /\ seg[t].num >= 1 /\ a.count + seg[t].num <= MaxCount
    BY <2>a, <2>1, FlushTarget
  <2>3. ASSUME NEW c \in Sbs PROVE AnchorAt(c)'
    <3>1. CASE c = d
      <4>1. anchor'[c] = Returned(a, seg[t].head[2], seg[t].num, DescMax(d))
        BY <1>0, <2>1, <2>2, <3>1
      <4>2. /\ anchor'[c].state \in {"EMPTY", "PARTIAL"}
            /\ anchor'[c].state = "PARTIAL" => anchor'[c].count \in 1 .. MaxCount - 1
        <5>1. DescMax(d) = MaxCount
          BY <1>0, <2>2, DescMaxTyped DEF CoreInv
        <5> QED BY <2>2, <4>1, <5>1, ConstantsAssumption DEF Returned
      <4>3. c \in Used'
        BY <1>0, <2>2, <3>1 DEF AnchorsOK, AnchorAt
      <4> QED BY <2>1, <2>2, <3>1, <4>2, <4>3 DEF AnchorAt
    <3>2. CASE c # d
      BY <1>0, <2>1, <3>2 DEF AnchorsOK, AnchorAt
    <3> QED BY <3>1, <3>2
  <2> QED BY <2>3 DEF AnchorsOK
<1>9. CASE FlushRetire(t)
  <2>1. Erase(desc[t]) /\ desc[t] \in Sbs
    BY <1>0, <1>9 DEF FlushRetire, LocalsAt, At
  <2> QED BY <1>0, <2>1, AnchorsErase
<1>10. ~TakePart(t)
  BY <1>0 DEF TakePart, At, WholeAt
<1> QED BY <1>1, <1>2, <1>3, <1>4, <1>5, <1>6, <1>7, <1>8, <1>9, <1>10, DescriptorsKept
        DEF Step, Call

\* A thread in fill_cache has popped a superblock that has free blocks, but not all of
\* them more than its cache takes.
LEMMA CarriedAnchor ==
  ASSUME CoreInv, AnchorsOK, NEW t \in Threads, pc[t] \in {"reserve", "take_all", "retire"}
  PROVE  /\ desc[t] \in Sbs /\ anchor[desc[t]] \in Anchors
         /\ anchor[desc[t]].state \in {"PARTIAL", "EMPTY"}
         /\ anchor[desc[t]].state = "PARTIAL" => anchor[desc[t]].count \in 1 .. MaxCount - 1
<1>1. desc[t] \in Sbs /\ anchor[desc[t]] \in Anchors
  BY DEF CoreInv, LocalsOK, LocalsAt, TypeOK
<1>2. desc[t] \in Carry(t)
  BY DEF Carry
<1> QED BY <1>1, <1>2 DEF CoreInv, PartialsApart, AnchorsOK, AnchorAt

\* What a thread is about stays right in its own steps.
LEMMA WholeSelf ==
  ASSUME Whole, CoreInv, WholeOK, AnchorsOK, NEW own, Tracks(own), NEW t \in Threads,
         Step(t) \/ Call(t)
  PROVE  WholeAt(t)'
<1>0. /\ TypeOK /\ WholeAt(t) /\ pc \in [Threads -> Labels] /\ cache \in [Threads -> Caches]
      /\ goal \in [Threads -> Goals] /\ old \in [Threads -> Anchors]
      /\ blk \in [Threads -> Addrs] /\ desc \in [Threads -> Sbs \cup {NoSb}]
      /\ anchor \in [Sbs -> Anchors] /\ cache[t].size \in Nat
  BY ThreadTyped DEF CoreInv, TypeOK, WholeOK
<1>m. Grown(MaxCount) = MaxCount /\ Fresh.max = MaxCount /\ Fresh.size = 0
  BY ConstantsAssumption DEF Grown, Fresh, Cached, Whole
<1> USE <1>0 DEF WholeAt, Fills, At, Goto, Return
<1>1. CASE Pop(t)
  <2>1. cache[t].head \in Blocks
    BY <1>1, TracksPop
  <2>2. /\ cache' = [cache EXCEPT ![t] = Cached(link[cache[t].head], @.size - 1, @.max)]
        /\ pc' = [pc EXCEPT ![t] = "idle"] /\ blk' = [blk EXCEPT ![t] = NoBlock]
    BY <1>1, <2>1 DEF Pop
  <2> QED BY <2>2 DEF Cached
<1>2. CASE HeapPopPartial(t)
  BY <1>2 DEF HeapPopPartial
<1>3. CASE Reserve(t)
  <2>1. /\ desc[t] \in Sbs /\ anchor[desc[t]].state \in {"PARTIAL", "EMPTY"}
        /\ anchor[desc[t]].state = "PARTIAL" => ~(anchor[desc[t]].count > cache[t].max)
    <3>1. pc[t] = "reserve"
      BY <1>3 DEF Reserve
    <3>2. anchor[desc[t]].count \in 1 .. MaxCount - 1 => ~(anchor[desc[t]].count > cache[t].max)
      BY ConstantsAssumption
    <3> QED BY <3>1, <3>2, CarriedAnchor
  <2>2. CASE anchor[desc[t]].state = "EMPTY"
    BY <1>3, <2>2 DEF Reserve, RetireEmpty
  <2>3. CASE anchor[desc[t]].state = "PARTIAL"
    BY <1>3, <2>1, <2>3 DEF Reserve, shared
  <2> QED BY <2>1, <2>2, <2>3
<1>4. CASE TakeAll(t)
  <2>1. /\ desc[t] \in Sbs /\ anchor[desc[t]].state \in {"PARTIAL", "EMPTY"}
        /\ anchor[desc[t]].state = "PARTIAL" => anchor[desc[t]].count # 0
        /\ old[t].state = "PARTIAL" /\ pc[t] = "take_all"
    BY <1>4, CarriedAnchor, ConstantsAssumption DEF TakeAll
  <2>2. CASE anchor[desc[t]] = old[t]
    <3>1. /\ cache' = [cache EXCEPT ![t] = Cached(AddrOf(desc[t], anchor[desc[t]].avail),
                                                 anchor[desc[t]].count, @.max)]
          /\ pc' = [pc EXCEPT ![t] = "pop"] /\ UNCHANGED <<blk, goal>>
      BY <1>4, <2>1, <2>2 DEF TakeAll, local
    <3> QED BY <2>1, <3>1 DEF Cached
  <2>3. CASE anchor[desc[t]] # old[t] /\ anchor[desc[t]].state = "EMPTY"
    BY <1>4, <2>1, <2>3 DEF TakeAll, RetireEmpty
  <2>4. CASE anchor[desc[t]] # old[t] /\ anchor[desc[t]].state # "EMPTY"
    <3>1. old' = [old EXCEPT ![t] = anchor[desc[t]]] /\ UNCHANGED <<cache, pc, blk, goal>>
      BY <1>4, <2>1, <2>4 DEF TakeAll
    <3>2. old'[t].state = "PARTIAL"
      BY <2>1, <2>4, <3>1
    <3> QED BY <2>1, <3>1, <3>2
  <2> QED BY <2>2, <2>3, <2>4
<1>5. CASE SbAlloc(t)
  BY <1>5 DEF SbAlloc
<1>6. CASE ExpandLoad(t)
  BY <1>6 DEF ExpandLoad, Abort, local, shared
<1>7. CASE ExpandCAS(t)
  BY <1>7 DEF ExpandCAS
<1>8. CASE Organize(t)
  BY <1>8 DEF Organize, Abort, local, shared
<1>9. CASE NewSb(t)
  <2>1. ~(cache[t].max < MaxCount)
    BY ConstantsAssumption
  <2>2. /\ cache' = [cache EXCEPT ![t] =
                       Cached(<<desc[t], 0>>, MaxCount, Grown(cache[t].max))]
        /\ pc' = [pc EXCEPT ![t] = "pop"] /\ blk' = blk /\ pc[t] = "use_sb"
    BY <1>9, <2>1, Zenon DEF NewSb
  <2>3. cache'[t].max = MaxCount /\ pc'[t] = "pop" /\ blk'[t] = NoBlock
    BY <1>m, <2>2 DEF Cached
  <2> QED BY <2>3
<1>10. CASE LargeBlock(t)
  BY <1>10 DEF LargeBlock, shared, app
<1>11. CASE FlushTake(t)
  <2>1. cache[t].head \in Blocks
    BY <1>11, TracksFlushTake
  <2>2. PICK h, n : cache' = [cache EXCEPT ![t] = Cached(h, @.size - n, @.max)]
    <3>1. \E n \in 1 .. cache[t].size :
            cache' = [cache EXCEPT ![t] =
              Cached(link[Follow(cache[t].head, n - 1)], @.size - n, @.max)]
      BY <1>11, <2>1, Zenon DEF FlushTake
    <3> QED BY <3>1
  <2>3. cache'[t].max = MaxCount
    BY <2>2 DEF Cached
  <2> QED BY <1>11, <2>1, <2>3 DEF FlushTake
<1>12. CASE FlushCAS(t)
  <2>1. CASE anchor[desc[t]] = old[t]
    <3>1. /\ desc[t] \in Sbs /\ desc' = desc /\ cache' = cache /\ blk' = blk /\ goal' = goal
          /\ anchor' = [anchor EXCEPT ![desc[t]] =
                          Returned(anchor[desc[t]], seg[t].head[2], seg[t].num, DescMax(desc[t]))]
          /\ pc' = [pc EXCEPT ![t] =
               IF anchor[desc[t]].state # "FULL" THEN "flush"
               ELSE IF Returned(anchor[desc[t]], seg[t].head[2], seg[t].num, DescMax(desc[t])).state = "EMPTY"
               THEN "retire" ELSE "push_flush"]
      BY <1>12, <2>1, FlushTarget DEF FlushCAS
    <3>2. /\ pc'[t] \in {"flush", "retire", "push_flush"} /\ pc[t] = "flush_cas"
          /\ pc'[t] = "retire" => anchor'[desc'[t]].state = "EMPTY"
      BY <1>12, <3>1 DEF FlushCAS
    <3> QED BY <3>1, <3>2
  <2>2. CASE anchor[desc[t]] # old[t]
    BY <1>12, <2>2 DEF FlushCAS
  <2> QED BY <2>1, <2>2
<1>13. CASE FlushPush(t)
  BY <1>13 DEF FlushPush, local
<1>14. CASE FlushRetire(t)
  BY <1>14 DEF FlushRetire, local
<1>15. CASE FlushDone(t)
  BY <1>m, <1>15 DEF FlushDone, PushBlock, Cached
<1>16. CASE MallocMiss(t)
  BY <1>16 DEF MallocMiss, shared, app
<1>17. CASE MallocLarge(t)
  BY <1>17 DEF MallocLarge, shared, app
<1>18. CASE FreeLarge(t)
  BY <1>18 DEF FreeLarge, shared, app
<1>19. CASE FreeSmall(t)
  BY <1>19 DEF FreeSmall, PushBlock, Cached
<1>20. CASE ThreadExit(t)
  BY <1>20 DEF ThreadExit, shared, app
<1>21. ~TakePart(t) /\ ~PushPart(t)
  BY DEF TakePart, PushPart
<1> QED BY <1>1, <1>2, <1>3, <1>4, <1>5, <1>6, <1>7, <1>8, <1>9, <1>10, <1>11, <1>12,
           <1>13, <1>14, <1>15, <1>16, <1>17, <1>18, <1>19, <1>20, <1>21
        DEF Step, Call

\* And in the steps of the others.
LEMMA WholeOther ==
  ASSUME CoreInv, WholeOK, AnchorsOK, NEW own, Tracks(own), NEW t \in Threads,
         Step(t) \/ Call(t), NEW u \in Threads, u # t
  PROVE  WholeAt(u)'
<1>1. /\ pc'[u] = pc[u] /\ desc'[u] = desc[u] /\ old'[u] = old[u] /\ blk'[u] = blk[u]
      /\ goal'[u] = goal[u] /\ cache'[u] = cache[u] /\ WholeAt(u)
  BY OthersUnchanged DEF CoreInv, WholeOK
<1>2. ASSUME pc[u] = "retire" PROVE anchor'[desc[u]] = anchor[desc[u]]
  <2>1. desc[u] \in Carry(u)
    BY <1>2 DEF Carry
  <2>2. desc[u] \in Used /\ desc[u] \notin Carry(t)
    BY <2>1 DEF CoreInv, PartialsApart
  <2>3. anchor[desc[u]].state = "EMPTY"
    BY <1>1, <1>2 DEF WholeAt
  <2>4. ~(FlushCAS(t) /\ desc[u] = desc[t])
    BY <2>3, FlushTarget DEF FlushCAS, At
  <2> QED BY <2>2, <2>4, AnchorFrame
<1> QED BY <1>1, <1>2 DEF WholeAt, Fills

\* A superblock whose descriptor does not change keeps its free chain.
LEMMA SameChains ==
  ASSUME UNCHANGED <<anchor, heap>>
  PROVE  \A d \in Sbs : ChainKept(d)
  BY DEF ChainKept, FreeLen

\* So does one that has none, while it goes into the free queue or to the application.
LEMMA SpareChains ==
  ASSUME CoreInv, AnchorsOK, NEW t \in Threads,
         \/ Organize(t) /\ Len(queue) # QueueCap
         \/ LargeBlock(t)
  PROVE  \A d \in Sbs : ChainKept(d)
<1>0. /\ anchor \in [Sbs -> Anchors] /\ heap \in [Sbs -> {"none", "small", "large"}]
      /\ LocalsAt(t)
  BY DEF CoreInv, TypeOK, LocalsOK
<1>1. PICK d, a, h :
        /\ d \in Sbs /\ d \in Spare(t)
        /\ anchor' = [anchor EXCEPT ![d] = a] /\ heap' = [heap EXCEPT ![d] = h]
        /\ a.state \in {"ERROR", "FULL"} /\ h # "small"
  <2>1. CASE Organize(t) /\ Len(queue) # QueueCap
    <3>1. Erase(span[t].lo) /\ pc[t] = "organize"
      BY <2>1 DEF Organize, At
    <3>2. span[t].lo \in Spare(t) /\ span[t].lo \in Sbs
      BY <1>0, <3>1 DEF Spare, LocalsAt, Sbs
    <3>3. Erased.state = "ERROR" /\ "none" # "small"
      BY DEF Erased
    <3> QED BY <3>1, <3>2, <3>3 DEF Erase
  <2>2. CASE LargeBlock(t)
    <3>1. desc[t] \in Spare(t) /\ desc[t] \in Sbs
      BY <1>0, <2>2 DEF LargeBlock, At, Spare, LocalsAt
    <3>2. /\ heap' = [heap EXCEPT ![desc[t]] = "large"]
          /\ anchor' = [anchor EXCEPT ![desc[t]] = [avail |-> 0, count |-> 0, state |-> "FULL"]]
      BY <2>2 DEF LargeBlock
    <3>3. [avail |-> 0, count |-> 0, state |-> "FULL"].state = "FULL"
      OBVIOUS
    <3> QED BY <3>1, <3>2, <3>3
  <2> QED BY <2>1, <2>2
<1>2. d \notin Used
  BY <1>1 DEF Used
<1>3. heap[d] # "small"
  BY <1>1, <1>2 DEF AnchorsOK, AnchorAt
<1>4. ASSUME NEW c \in Sbs PROVE ChainKept(c)
  <2>1. CASE c = d
    <3>1. anchor'[c] = a /\ heap'[c] = h
      BY <1>0, <1>1, <2>1
    <3> QED BY <1>1, <1>3, <2>1, <3>1 DEF ChainKept, FreeLen
  <2>2. CASE c # d
    <3>1. anchor'[c] = anchor[c] /\ heap'[c] = heap[c]
      BY <1>0, <1>1, <2>2
    <3> QED BY <3>1 DEF ChainKept, FreeLen
  <2> QED BY <2>1, <2>2
<1> QED BY <1>4

\* After every step it is known where the blocks are.
LEMMA TracksStep ==
  ASSUME CoreInv, WholeOK, AnchorsOK, NEW own, Tracks(own), NEW t \in Threads,
         Step(t) \/ Call(t)
  PROVE  \E own2 : Tracks(own2)'
<1>0. /\ TypeOK /\ WholeAt(t) /\ LocalsAt(t) /\ pc \in [Threads -> Labels]
      /\ blk \in [Threads -> Addrs] /\ old \in [Threads -> Anchors]
  BY DEF CoreInv, TypeOK, WholeOK, LocalsOK
<1>1. CASE Pop(t) \/ NewSb(t) \/ FreeSmall(t) \/ FlushTake(t) \/ FlushDone(t)
  BY <1>1, TracksPop, TracksNewSb, TracksFreeSmall, TracksFlushTake, TracksFlushDone
<1>2. CASE Reserve(t) /\ anchor[desc[t]].state = "EMPTY"
  <2>1. /\ Erase(desc[t]) /\ desc[t] \in Sbs /\ pc[t] = "reserve" /\ pc'[t] = "pop_partial"
        /\ UNCHANGED <<link, user, cache, blk>>
    BY <1>0, <1>2 DEF Reserve, RetireEmpty, LocalsAt, At, Goto, app
  <2>2. heap[desc[t]] = "small"
    BY <1>2, <2>1 DEF AnchorsOK, AnchorAt
  <2> QED BY <1>0, <1>2, <2>1, <2>2, TracksRetire
<1>3. CASE Reserve(t) /\ anchor[desc[t]].state # "EMPTY"
  <2>1. /\ pc[t] = "reserve" /\ pc'[t] = "take_all"
        /\ UNCHANGED <<link, user, cache, blk, anchor, heap>>
    <3>1. pc[t] = "reserve"
      BY <1>3 DEF Reserve, At
    <3>2. ~(anchor[desc[t]].count > cache[t].max)
      BY <1>0, <1>3, <3>1, CarriedAnchor, ConstantsAssumption DEF WholeAt
    <3> QED BY <1>0, <1>3, <3>1, <3>2 DEF Reserve, Goto, app, shared
  <2> QED BY <1>0, <2>1, SameChains, TracksSame
<1>4. CASE TakeAll(t)
  <2>1. pc[t] = "take_all" /\ old[t].state = "PARTIAL" /\ desc[t] \in Sbs
    BY <1>0, <1>4 DEF TakeAll, At, WholeAt, LocalsAt
  <2>2. CASE anchor[desc[t]] = old[t]
    BY <1>4, <2>1, <2>2, TracksTakeAll
  <2>3. CASE anchor[desc[t]] # old[t] /\ anchor[desc[t]].state = "EMPTY"
    <3>1. Erase(desc[t]) /\ pc'[t] = "pop_partial" /\ UNCHANGED <<link, user, cache, blk>>
      BY <1>0, <1>4, <2>1, <2>3 DEF TakeAll, RetireEmpty, Goto, app
    <3>2. heap[desc[t]] = "small"
      BY <2>1, <2>3 DEF AnchorsOK, AnchorAt
    <3> QED BY <1>0, <2>1, <2>3, <3>1, <3>2, TracksRetire
  <2>4. CASE anchor[desc[t]] # old[t] /\ anchor[desc[t]].state # "EMPTY"
    <3>1. UNCHANGED <<link, user, cache, blk, pc, anchor, heap>>
      BY <1>4, <2>1, <2>4 DEF TakeAll, shared, app
    <3> QED BY <1>0, <2>1, <3>1, SameChains, TracksSame
  <2> QED BY <2>2, <2>3, <2>4
<1>5. CASE FlushCAS(t) /\ anchor[desc[t]] = old[t]
  BY <1>5, TracksFlushCAS
<1>6. CASE FlushCAS(t) /\ anchor[desc[t]] # old[t]
  <2>1. UNCHANGED <<link, user, cache, blk, pc, seg, desc, anchor, heap>>
    BY <1>6 DEF FlushCAS, shared, app
  <2> QED BY <1>0, <2>1, SameChains, TracksSame
<1>7. CASE FlushRetire(t)
  <2>1. /\ Erase(desc[t]) /\ desc[t] \in Sbs /\ pc[t] = "retire" /\ pc'[t] = "flush"
        /\ UNCHANGED <<link, user, cache, blk>>
    BY <1>0, <1>7 DEF FlushRetire, LocalsAt, At, Goto, app, local
  <2>2. anchor[desc[t]].state = "EMPTY" /\ heap[desc[t]] = "small"
    BY <1>0, <2>1 DEF WholeAt, AnchorsOK, AnchorAt
  <2> QED BY <1>0, <2>1, <2>2, TracksRetire
<1>8. CASE \/ HeapPopPartial(t) \/ SbAlloc(t) \/ ExpandLoad(t) \/ ExpandCAS(t)
           \/ Organize(t) \/ LargeBlock(t) \/ FlushPush(t) \/ MallocMiss(t)
           \/ MallocLarge(t) \/ FreeLarge(t) \/ ThreadExit(t)
  <2>1. UNCHANGED <<user, link, cache>> /\ blk'[t] \in {blk[t], NoBlock} /\ pc'[t] # "flush_cas"
    BY <1>0, <1>8, QuietSteps
  <2>2. pc[t] \notin {"flush", "flush_cas", "retire"}
    BY <1>8 DEF HeapPopPartial, SbAlloc, ExpandLoad, ExpandCAS, Organize, LargeBlock,
                FlushPush, MallocMiss, MallocLarge, FreeLarge, ThreadExit, At
  <2>3. blk'[t] = blk[t]
    <3>1. CASE FlushPush(t)
      BY <3>1 DEF FlushPush, local
    <3>2. CASE ~FlushPush(t)
      <4>1. pc[t] # "push_flush"
        BY <1>8, <3>2 DEF HeapPopPartial, SbAlloc, ExpandLoad, ExpandCAS, Organize,
                     LargeBlock, MallocMiss, MallocLarge, FreeLarge, ThreadExit, At
      <4> QED BY <1>0, <2>1, <2>2, <4>1 DEF WholeAt
    <3> QED BY <3>1, <3>2
  <2>4. \A d \in Sbs : ChainKept(d)
    <3>1. CASE (Organize(t) /\ Len(queue) # QueueCap) \/ LargeBlock(t)
      BY <3>1, SpareChains
    <3>2. CASE ~((Organize(t) /\ Len(queue) # QueueCap) \/ LargeBlock(t))
      BY <1>8, <3>2, DescriptorsKept, SameChains
    <3> QED BY <3>1, <3>2
  <2> QED BY <1>0, <2>1, <2>2, <2>3, <2>4, TracksSame
<1>9. ~TakePart(t) /\ ~PushPart(t)
  BY <1>0 DEF TakePart, PushPart, At, WholeAt
<1> QED BY <1>1, <1>2, <1>3, <1>4, <1>5, <1>6, <1>7, <1>8, <1>9 DEF Step, Call

\* No step follows a bad link or meets an anchor it asserts not to meet.
LEMMA NoBadLink ==
  ASSUME CoreInv, WholeOK, AnchorsOK, NeverOffTheList, NEW own, Tracks(own),
         NEW t \in Threads, Step(t) \/ Call(t)
  PROVE  NeverOffTheList'
<1>0. WholeAt(t) /\ halted \notin {"bad link", "assert"}
  BY DEF WholeOK, NeverOffTheList
<1>1. CASE halted' = halted
  BY <1>0, <1>1 DEF NeverOffTheList
<1>2. CASE Pop(t)
  <2>1. cache[t].head \in Blocks
    BY <1>2, TracksPop
  <2> QED BY <1>1, <1>2, <2>1 DEF Pop
<1>3. CASE FlushTake(t)
  <2>1. cache[t].head \in Blocks
    BY <1>3, TracksFlushTake
  <2>2. halted' = halted
    BY <1>3, <2>1, Zenon DEF FlushTake
  <2> QED BY <1>1, <2>2
<1>4. CASE Reserve(t)
  <2>1. pc[t] = "reserve"
    BY <1>4 DEF Reserve, At
  <2>2. anchor[desc[t]].state # "EMPTY" => ~(anchor[desc[t]].count > cache[t].max)
    <3>1. cache[t].max = MaxCount
      BY <1>0 DEF WholeAt
    <3>2. anchor[desc[t]].count \in 1 .. MaxCount - 1 => ~(anchor[desc[t]].count > cache[t].max)
      BY <3>1, ConstantsAssumption
    <3> QED BY <2>1, <3>2, CarriedAnchor
  <2> QED BY <1>1, <1>4, <2>2 DEF Reserve
<1>5. CASE TakeAll(t)
  <2>1. old[t].state = "PARTIAL"
    BY <1>0, <1>5 DEF TakeAll, At, WholeAt
  <2> QED BY <1>1, <1>5, <2>1 DEF TakeAll
<1>6. CASE ExpandLoad(t)
  BY <1>1, <1>6 DEF ExpandLoad, Abort, NeverOffTheList
<1>7. CASE Organize(t)
  BY <1>1, <1>7 DEF Organize, Abort, NeverOffTheList
<1>8. CASE \/ HeapPopPartial(t) \/ TakePart(t) \/ PushPart(t) \/ SbAlloc(t) \/ ExpandCAS(t)
           \/ NewSb(t) \/ LargeBlock(t)
  <2>1. halted' = halted
    BY <1>8 DEF HeapPopPartial, TakePart, PushPart, SbAlloc, ExpandCAS, NewSb, LargeBlock
  <2> QED BY <1>1, <2>1
<1>9. CASE FlushCAS(t) \/ FlushPush(t) \/ FlushRetire(t) \/ FlushDone(t) \/ Call(t)
  <2>1. halted' = halted
    BY <1>9 DEF FlushCAS, FlushPush, FlushRetire, FlushDone, Call, MallocMiss, MallocLarge,
                FreeLarge, FreeSmall, ThreadExit
  <2> QED BY <1>1, <2>1
<1> QED BY <1>2, <1>3, <1>4, <1>5, <1>6, <1>7, <1>8, <1>9 DEF Step
-----------------------------------------------------------------------------
(* The theorems *)

\* In the warmed-up allocator no superblock is in use.
LEMMA InitBlocks ==
  ASSUME Whole, Init
  PROVE  BlockInv
<1>1. /\ \A t \in Threads : /\ pc[t] = "idle" /\ cache[t] = Fresh /\ blk[t] = NoBlock
      /\ \A d \in Sbs : anchor[d] = Erased /\ heap[d] = "none"
      /\ user = {} /\ halted = "no"
  BY DEF Init
<1>2. Fresh.max = MaxCount /\ Fresh.size = 0 /\ Erased.state = "ERROR" /\ Erased.count = 0
  BY DEF Fresh, Cached, Whole, Erased
<1>3. WholeOK
  BY <1>1, <1>2 DEF WholeOK, WholeAt, Fills
<1>4. AnchorsOK
  BY <1>1, <1>2 DEF AnchorsOK, AnchorAt
<1>5. PICK own : own = [b \in Blocks |-> Nobody]
  OBVIOUS
<1>6. \A b \in Blocks : own[b] = Nobody
  BY <1>5
<1>7. \A p \in Places : p # Nobody => Of(own, p) = {}
  BY <1>6 DEF Of
<1>8. Tracks(own)
  <2>1. own \in [Blocks -> Places]
    BY <1>5, PlacesApart
  <2>2. \A b \in Blocks : heap[b[1]] # "small" /\ b # NoBlock
    BY <1>1, AddrTyped
  <2>3. \A b \in Blocks : (own[b] = Nobody <=> heap[b[1]] # "small") /\ (own[b] = App <=> b \in user)
    BY <1>1, <1>6, <2>2, PlacesApart
  <2>4. \A t \in Threads, b \in Blocks : own[b] = HandOf(t) <=> blk[t] = b
    BY <1>1, <1>6, <2>2, PlacesApart
  <2>5. ASSUME NEW t \in Threads PROVE CacheTracked(own, t) /\ RunTracked(own, t)
    <3>1. Of(own, CacheOf(t)) = {} /\ Of(own, RunOf(t)) = {}
      BY <1>7, PlacesApart
    <3>2. Chain({}, cache[t].head, 0, link)
      BY ChainEmpty
    <3> QED BY <1>1, <1>2, <3>1, <3>2 DEF CacheTracked, RunTracked
  <2>6. ASSUME NEW d \in Sbs PROVE ChainTracked(own, d)
    <3>1. Of(own, ChainOf(d)) = {} /\ FreeLen(d) = 0
      BY <1>1, <1>2, <1>7, PlacesApart DEF FreeLen
    <3>2. Chain({}, AddrOf(d, anchor[d].avail), 0, link)
      BY ChainEmpty
    <3> QED BY <3>1, <3>2 DEF ChainTracked
  <2> QED BY <2>1, <2>3, <2>4, <2>5, <2>6 DEF Tracks
<1> QED BY <1>1, <1>3, <1>4, <1>8 DEF BlockInv, NeverOffTheList

\* The invariant is inductive, together with the one on superblocks.
LEMMA NextBlocks ==
  ASSUME Whole, CoreInv, BlockInv, [Next]_vars
  PROVE  BlockInv'
<1>0. PICK own : Tracks(own)
  BY DEF BlockInv
<1>1. ASSUME NEW t \in Threads, Step(t) \/ Call(t) PROVE BlockInv'
  <2>1. \A u \in Threads : WholeAt(u)'
    BY <1>0, <1>1, WholeSelf, WholeOther DEF BlockInv
  <2>2. WholeOK'
    BY <2>1 DEF WholeOK
  <2>3. AnchorsOK'
    BY <1>0, <1>1, AnchorsStep DEF BlockInv
  <2>4. NeverOffTheList'
    BY <1>0, <1>1, NoBadLink DEF BlockInv
  <2>5. \E own2 : Tracks(own2)'
    BY <1>0, <1>1, TracksStep DEF BlockInv
  <2> QED BY <2>2, <2>3, <2>4, <2>5 DEF BlockInv
<1>2. CASE UNCHANGED vars
  <2>1. UNCHANGED <<queue, partial, curr, anchor, heap, link, cache, user, big, pc,
                    desc, old, seg, span, blk, goal, halted>>
    BY <1>2 DEF vars, shared, app, local
  <2>2. \A t \in Threads : Spare(t)' = Spare(t)
    BY <2>1 DEF Spare
  <2>3. Used' = Used
    BY <2>1, <2>2 DEF Used, Elems
  <2>0. Outs' = Outs
    BY <2>1, <2>2 DEF Outs
  <2>4. WholeOK' /\ AnchorsOK' /\ NeverOffTheList'
    BY <2>0, <2>1, <2>3 DEF BlockInv, WholeOK, WholeAt, Fills, AnchorsOK, AnchorAt,
                            NeverOffTheList
  <2>5. \A d \in Sbs : FreeLen(d)' = FreeLen(d)
    BY <2>1 DEF FreeLen
  <2>6. /\ \A t \in Threads : CacheTracked(own, t)' /\ RunTracked(own, t)'
        /\ \A d \in Sbs : ChainTracked(own, d)'
    BY <1>0, <2>1, <2>5 DEF Tracks, CacheTracked, RunTracked, ChainTracked
  <2>7. Tracks(own)'
    BY <1>0, <2>1, <2>6 DEF Tracks
  <2> QED BY <2>4, <2>7 DEF BlockInv
<1> QED BY <1>1, <1>2 DEF Next, Dead

\* What the model finds by following links is what own says.
LEMMA OwnersFound ==
  ASSUME CoreInv, WholeOK, NEW own, Tracks(own)
  PROVE  /\ \A t \in Threads : ListOf(cache[t].head, cache[t].size) = Of(own, CacheOf(t))
         /\ \A t \in Threads : InFlight(t) = Of(own, RunOf(t)) \cup Of(own, HandOf(t))
         /\ \A d \in Sbs : heap[d] = "small" => FreeBlocks(d) = Of(own, ChainOf(d))
<1>0. TypeOK
  BY DEF CoreInv
<1>1. ASSUME NEW t \in Threads
      PROVE  ListOf(cache[t].head, cache[t].size) = Of(own, CacheOf(t))
  <2>1. Chain(Of(own, CacheOf(t)), cache[t].head, cache[t].size, link) /\ cache[t].size \in Nat
    BY <1>0, TrackedThread
  <2>2. Of(own, CacheOf(t)) \in SUBSET Blocks
    BY DEF Of
  <2> QED BY <2>1, <2>2, ListOfChain
<1>2. ASSUME NEW t \in Threads
      PROVE  InFlight(t) = Of(own, RunOf(t)) \cup Of(own, HandOf(t))
  <2>1. {blk[t]} \cap Blocks = Of(own, HandOf(t))
    BY DEF Tracks, Of
  <2>2. RunTracked(own, t) /\ seg[t].num \in Nat /\ pc[t] \notin {"take_part", "push_part"}
    BY <1>0, ThreadTyped DEF Tracks, WholeOK, WholeAt
  <2>3. CASE pc[t] = "flush_cas"
    <3>1. Chain(Of(own, RunOf(t)), seg[t].head, seg[t].num, link)
      BY <2>2, <2>3 DEF RunTracked, ChainTo, Chain
    <3>2. Of(own, RunOf(t)) \in SUBSET Blocks
      BY DEF Of
    <3>3. ListOf(seg[t].head, seg[t].num) = Of(own, RunOf(t))
      BY <2>2, <3>1, <3>2, ListOfChain
    <3> QED BY <2>1, <2>3, <3>3 DEF InFlight
  <2>4. CASE pc[t] # "flush_cas"
    BY <2>1, <2>2, <2>4 DEF RunTracked, InFlight
  <2> QED BY <2>3, <2>4
<1>3. ASSUME NEW d \in Sbs, heap[d] = "small" PROVE FreeBlocks(d) = Of(own, ChainOf(d))
  <2>1. Chain(Of(own, ChainOf(d)), AddrOf(d, anchor[d].avail), FreeLen(d), link)
    BY DEF Tracks, ChainTracked
  <2>2. FreeLen(d) \in Nat
    <3>1. anchor[d] \in Anchors
      BY <1>0 DEF TypeOK
    <3> QED BY <3>1, AnchorTyped, ConstantsAssumption DEF FreeLen
  <2>3. Of(own, ChainOf(d)) \in SUBSET Blocks
    BY DEF Of
  <2>4. CASE anchor[d].state \in {"PARTIAL", "EMPTY"}
    <3>1. FreeBlocks(d) = ListOf(AddrOf(d, anchor[d].avail), FreeLen(d))
      BY <1>3, <2>4 DEF FreeBlocks, FreeLen
    <3> QED BY <2>1, <2>2, <2>3, <3>1, ListOfChain
  <2>5. CASE anchor[d].state \notin {"PARTIAL", "EMPTY"}
    <3>1. FreeLen(d) = 0 /\ FreeBlocks(d) = {}
      BY <1>3, <2>5 DEF FreeBlocks, FreeLen
    <3> QED BY <2>1, <2>2, <3>1, ChainHead
  <2> QED BY <2>4, <2>5
<1> QED BY <1>1, <1>2, <1>3

\* The blocks of a superblock of the class have exactly one owner each.
LEMMA OneOwner ==
  ASSUME CoreInv, BlockInv, NEW b \in Blocks
  PROVE  Cardinality(Owners(b)) = IF heap[b[1]] = "small" THEN 1 ELSE 0
<1>1. PICK own : Tracks(own)
  BY DEF BlockInv
<1>2. /\ \A t \in Threads : ListOf(cache[t].head, cache[t].size) = Of(own, CacheOf(t))
      /\ \A t \in Threads : InFlight(t) = Of(own, RunOf(t)) \cup Of(own, HandOf(t))
      /\ \A d \in Sbs : heap[d] = "small" => FreeBlocks(d) = Of(own, ChainOf(d))
  BY <1>1, OwnersFound DEF BlockInv
<1>3. /\ own[b] \in Places /\ b[1] \in Sbs
      /\ own[b] = Nobody <=> heap[b[1]] # "small"
      /\ own[b] = App <=> b \in user
      /\ \A d \in Sbs : own[b] = ChainOf(d) => b[1] = d
  BY <1>1, AddrTyped DEF Tracks, ChainTracked, Of
<1>4. /\ heap[b[1]] = "small" => (b \in FreeBlocks(b[1]) <=> own[b] = ChainOf(b[1]))
      /\ \A t \in Threads : /\ b \in ListOf(cache[t].head, cache[t].size) <=> own[b] = CacheOf(t)
                            /\ b \in InFlight(t) <=> own[b] \in {RunOf(t), HandOf(t)}
  BY <1>2, <1>3 DEF Of
<1>5. \A o : o \in Owners(b) <=>
        \/ o = <<"app">> /\ own[b] = App
        \/ o = <<"free">> /\ heap[b[1]] = "small" /\ own[b] = ChainOf(b[1])
        \/ \E t \in Threads : o = <<"cache", t>> /\ own[b] = CacheOf(t)
        \/ \E t \in Threads : o = <<"flight", t>> /\ own[b] \in {RunOf(t), HandOf(t)}
  <2>1. \A o : o \in {"cache"} \X Threads <=> \E t \in Threads : o = <<"cache", t>>
    OBVIOUS
  <2>2. \A o : o \in {"flight"} \X Threads <=> \E t \in Threads : o = <<"flight", t>>
    OBVIOUS
  <2> QED BY <1>3, <1>4, <2>1, <2>2 DEF Owners
<1>6. CASE own[b] = Nobody
  <2>1. Owners(b) = {}
    BY <1>3, <1>5, <1>6, PlacesApart
  <2> QED BY <1>3, <1>6, <2>1, FS_EmptySet
<1>7. CASE own[b] # Nobody
  <2>1. \E o : Owners(b) = {o}
    <3>1. CASE own[b] = App
      <4>1. Owners(b) = {<<"app">>}
        BY <1>3, <1>5, <3>1, PlacesApart
      <4> QED BY <4>1
    <3>2. CASE \E t \in Threads : own[b] = CacheOf(t)
      <4>1. PICK t \in Threads : own[b] = CacheOf(t)
        BY <3>2
      <4>2. Owners(b) = {<<"cache", t>>}
        BY <1>3, <1>5, <4>1, PlacesApart
      <4> QED BY <4>2
    <3>3. CASE \E t \in Threads : own[b] \in {RunOf(t), HandOf(t)}
      <4>1. PICK t \in Threads : own[b] \in {RunOf(t), HandOf(t)}
        BY <3>3
      <4>2. Owners(b) = {<<"flight", t>>}
        BY <1>3, <1>5, <4>1, PlacesApart
      <4> QED BY <4>2
    <3>4. CASE \E d \in Sbs : own[b] = ChainOf(d)
      <4>1. own[b] = ChainOf(b[1]) /\ heap[b[1]] = "small"
        BY <1>3, <1>7, <3>4
      <4>2. Owners(b) = {<<"free">>}
        BY <1>3, <1>5, <4>1, PlacesApart
      <4> QED BY <4>2
    <3> QED BY <1>3, <1>7, <3>1, <3>2, <3>3, <3>4, PlacesAll
  <2>2. PICK o : Owners(b) = {o}
    BY <2>1
  <2> QED BY <1>3, <1>7, <2>2, FS_Singleton
<1> QED BY <1>6, <1>7

\* What the invariant gives.
LEMMA BlockInvGives ==
  CoreInv /\ BlockInv =>
    BlockHasOneOwner /\ CacheSizeIsListLength /\ EmptyIsUnused /\ NeverOffTheList
<1> SUFFICES ASSUME CoreInv, BlockInv
             PROVE  BlockHasOneOwner /\ CacheSizeIsListLength /\ EmptyIsUnused /\ NeverOffTheList
  OBVIOUS
<1>1. BlockHasOneOwner
  BY OneOwner DEF BlockHasOneOwner
<1>2. PICK own : Tracks(own)
  BY DEF BlockInv
<1>3. CacheSizeIsListLength
  <2>1. ASSUME NEW t \in Threads
        PROVE  /\ ListOf(cache[t].head, cache[t].size) \subseteq Blocks
               /\ Cardinality(ListOf(cache[t].head, cache[t].size)) = cache[t].size
    <3>1. /\ Chain(Of(own, CacheOf(t)), cache[t].head, cache[t].size, link)
          /\ cache[t].size \in Nat
      BY <1>2, TrackedThread DEF BlockInv, CoreInv
    <3>2. Of(own, CacheOf(t)) \in SUBSET Blocks
      BY DEF Of
    <3>3. ListOf(cache[t].head, cache[t].size) = Of(own, CacheOf(t))
      BY <3>1, <3>2, ListOfChain
    <3> QED BY <3>1, <3>2, <3>3, ChainSize
  <2> QED BY <2>1 DEF CacheSizeIsListLength
<1>4. EmptyIsUnused
  <2>1. ASSUME NEW d \in Sbs, anchor[d].state = "EMPTY", NEW b \in Blocks, b[1] = d
        PROVE  Owners(b) \subseteq {<<"free">>}
    <3>1. own[b] = ChainOf(d)
      BY <1>2, <2>1, EmptyAll DEF BlockInv, AnchorsOK, AnchorAt
    <3>2. b \notin user
      BY <1>2, <2>1, <3>1, PlacesApart DEF Tracks
    <3>3. \A t \in Threads : b \notin ListOf(cache[t].head, cache[t].size) /\ b \notin InFlight(t)
      BY <1>2, <2>1, <3>1, OwnersFound, PlacesApart DEF BlockInv, Of
    <3> QED BY <3>2, <3>3 DEF Owners
  <2> QED BY <2>1 DEF EmptyIsUnused
<1> QED BY <1>1, <1>3, <1>4 DEF BlockInv

\* A thread that flushes has blocks of a superblock of the class.
LEMMA RunsSound == TypeOK /\ LocalsOK /\ BlockInv => RunsUsed
<1> SUFFICES ASSUME TypeOK, LocalsOK, BlockInv, NEW t \in Threads, pc[t] = "flush_cas"
             PROVE  desc[t] \in Used
  BY DEF RunsUsed
<1>1. PICK own : Tracks(own)
  BY DEF BlockInv
<1>2. desc[t] \in Sbs /\ seg[t].num >= 1 /\ seg[t].num \in Nat /\ seg[t].head \in Blocks
  BY ThreadTyped DEF LocalsOK, LocalsAt
<1>3. /\ ChainTo(Of(own, RunOf(t)), seg[t].head, seg[t].num, link, seg[t].tail)
      /\ \A b \in Of(own, RunOf(t)) : b[1] = desc[t]
  BY <1>1 DEF Tracks, RunTracked
<1>4. seg[t].head \in Of(own, RunOf(t))
  BY <1>2, <1>3, ChainHead DEF ChainTo, Chain
<1>5. heap[desc[t]] = "small"
  BY <1>1, <1>3, <1>4, PlacesApart DEF Tracks, Of
<1> QED BY <1>2, <1>5 DEF BlockInv, AnchorsOK, AnchorAt

\* The allocator's own steps keep both invariants of the heap.
LEMMA HeapBoth ==
  ASSUME Whole, CoreInv, BlockInv, [Next]_vars
  PROVE  CoreInv' /\ BlockInv'
<1>1. BlockInv'
  BY NextBlocks
<1>2. TypeOK' /\ SparesApart' /\ PartialsApart' /\ LocalsOK'
  BY NextCore
<1>3. RunsUsed'
  BY <1>1, <1>2, RunsSound, PTL
<1> QED BY <1>1, <1>2, <1>3 DEF CoreInv

\* The invariants of superblocks and blocks hold together, always.
LEMMA BlocksAlways == Whole /\ Spec => [](CoreInv /\ BlockInv)
<1>1. Whole /\ Init => CoreInv /\ BlockInv
  BY InitCore, InitBlocks
<1>2. Whole /\ CoreInv /\ BlockInv /\ [Next]_vars => CoreInv' /\ BlockInv'
  BY HeapBoth
<1>3. Whole => Whole'
  BY DEF Whole
<1> QED BY <1>1, <1>2, <1>3, PTL DEF Spec

\* When the caches of the class take whole superblocks: free, spare and used
\* superblocks are distinct, threads return blocks to used ones only, and only one
\* thread or the partial list has a superblock with free blocks.
THEOREM SuperblockInvariant == Whole /\ Spec => []CoreInv
  BY BlocksAlways, PTL

\* Then the variables of the heap keep their types: no count goes below zero, every
\* index names a superblock of the file and every link is an address, in every
\* interleaving of do_malloc and do_free;
THEOREM TypeCorrect == Whole /\ Spec => []TypeOK
<1>1. CoreInv => TypeOK
  BY DEF CoreInv
<1> QED BY BlocksAlways, <1>1, PTL

\* every superblock is in at most one place: free queue, partial list, whole
\* object, or the hands of one thread (small_sb_alloc, heap_pop_partial,
\* heap_push_partial, large_sb_retire);
THEOREM SuperblockOwnership == Whole /\ Spec => []DescriptorOwnedOnce
  BY BlocksAlways, InvOwnedOnce, PTL

\* no interleaving of do_malloc, do_free, fill_cache and flush_cache gives a block to
\* two owners or loses one;
THEOREM BlockOwnership == Whole /\ Spec => []BlockHasOneOwner
  BY BlocksAlways, BlockInvGives, PTL

\* a thread cache's list has as many different blocks as its _size says, after every
\* Push, Pop, PushList and flush;
THEOREM CacheLists == Whole /\ Spec => []CacheSizeIsListLength
  BY BlocksAlways, BlockInvGives, PTL

\* no thread follows a link that leads to no block, and
\* assert(oldanchor.state == SB_PARTIAL) of malloc_from_partial never fails;
THEOREM ListsLeadToBlocks == Whole /\ Spec => []NeverOffTheList
  BY BlocksAlways, BlockInvGives, PTL

\* and a superblock that flush_cache has marked EMPTY, so that small_sb_retire may
\* erase it, has no block in a cache, in flight or with the application.
THEOREM RetiredIsUnused == Whole /\ Spec => []EmptyIsUnused
  BY BlocksAlways, BlockInvGives, PTL
=============================================================================
