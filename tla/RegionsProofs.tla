--------------------------- MODULE RegionsProofs ---------------------------
(***************************************************************************)
(* Proofs about Pptr, for all addresses, and about Regions: what           *)
(* __nvm_region_allocator hands out, and what _BXP_init finds or builds,   *)
(* for any sizes, layouts and number of threads and processes, whichever   *)
(* step a process or the power ends in.                                    *)
(***************************************************************************)
EXTENDS Regions, TLAPS
-----------------------------------------------------------------------------
(* Relative pointers *)

\* A pptr gives back the pointer it was assigned, the null pointer and the word's own
\* address included: to_pptr_off tells both apart, one by PPTR_PATTERN_POS and one by
\* a distance of 0 with the sign bit set.
THEOREM RoundTrip == ASSUME NEW v \in Nat, NEW p \in Nat PROVE From(To(v, p), p) = v
  <1>1. CASE v = nullptr
    BY <1>1 DEF To, From, NullOff, nullptr
  <1>2. CASE v # nullptr /\ v > p
    BY <1>2 DEF To, From, NullOff, nullptr
  <1>3. CASE v # nullptr /\ ~(v > p)
    BY <1>3 DEF To, From, NullOff, nullptr
  <1> QED BY <1>1, <1>2, <1>3

\* compare_exchange of an atomic_pptr compares words: they are equal exactly when
\* the pointers are, so the CAS in __nvm_region_allocator succeeds exactly when
\* curr_addr is what was loaded.
THEOREM CompareIsExact ==
  ASSUME NEW v \in Nat, NEW w \in Nat, NEW p \in Nat
  PROVE  To(v, p) = To(w, p) <=> v = w
  <1>1. From(To(v, p), p) = v /\ From(To(w, p), p) = w
    BY RoundTrip
  <1> QED BY <1>1, Zenon

\* A file mapped d further on: a pptr and its target move together, so what was
\* stored leads to the target where it is now; null stays null.
THEOREM PositionIndependent ==
  ASSUME NEW v \in Nat, NEW p \in Nat, NEW d \in Int
  PROVE  From(To(v, p), p + d) = IF v = nullptr THEN nullptr ELSE v + d
  <1>1. CASE v = nullptr
    BY <1>1 DEF To, From, NullOff, nullptr
  <1>2. CASE v # nullptr /\ v > p
    BY <1>2 DEF To, From, NullOff, nullptr
  <1>3. CASE v # nullptr /\ ~(v > p)
    BY <1>3 DEF To, From, NullOff, nullptr
  <1> QED BY <1>1, <1>2, <1>3

\* A CrossPtr set in a region that starts at a leads to the same place of it when it
\* starts at b, unless the target is the region's first byte: its distance is the
\* null of translate.
THEOREM CrossPtrMoves ==
  ASSUME NEW v \in Nat, NEW a \in Nat, NEW b \in Nat, v # a
  PROVE  Translate(Untranslate(v, a), b) - b = v - a
  BY DEF Translate, Untranslate
-----------------------------------------------------------------------------
(* The regions *)

\* The steps that change the regions.
RegionNext ==
  \/ Start \/ InitStep \/ Close \/ Die \/ PowerFailure
  \/ \E t \in Threads :
       ExpandCAS(t) \/ ExpandReturn(t) \/ \E r \in RegionIdx : ExpandLoad(t, r)

\* Types: what is constructed, the bits of a self-relative word, the words of a file, the
\* points _BXP_init can be at, an expansion in progress, a piece handed out.
Parts == {"queue", "meta", "buddy"}
Offs == [pattern : BOOLEAN, mag : Nat, neg : BOOLEAN]
Files == [exists : BOOLEAN, curr : Offs, start : Nat, size : Nat]
Points ==
  (RegionIdx \X {"map", "words"}) \cup ((RegionIdx \ {"SB"}) \X {"expand", "start"})
  \cup {<<"QUEUE", "make">>, <<"META", "make">>, <<"META", "sbstart">>, <<"LAST", "buddy">>}
Exps == [do : {"idle", "cas", "flush"}, r : {"SB", "LAR"}, old : Nat, lo : Nat, hi : Nat]
Pieces == [r : {"SB", "LAR"}, lo : Nat, hi : Nat]

\* The type invariant.
RTypeOK ==
  /\ words \in [RegionIdx -> Files] /\ pm \in [RegionIdx -> Files]
  /\ size \in HeapSizes /\ made \subseteq Parts
  /\ base \in [RegionIdx -> Nat] /\ addr \in [RegionIdx -> Nat]
  /\ at \in Points /\ recover \in BOOLEAN /\ torn \in BOOLEAN
  /\ exp \in [Threads -> Exps] /\ spans \in Seq(Pieces)

\* The order in which _BXP_init opens the files.
Pos == [DESC |-> 1, SB |-> 2, LAR |-> 3, QUEUE |-> 4, META |-> 5, LAST |-> 6]

\* The process has begun to open the heap and not failed; it has opened q; it is in
\* the middle of creating a file.
Live == mode \in {"init", "up"}
Passed(q) == Live /\ Pos[q] < Pos[at[1]]
Making == Live /\ at[2] \notin {"map", "buddy"}

\* A word that leads forward, and the distance.
Proper(c) == c.pattern /\ ~c.neg /\ c.mag >= 1
End(r) == words[r].curr.mag
SavedEnd(r) == pm[r].curr.mag

\* The words in memory and in the caches differ in curr_addr only, and memory is behind.
FileOK(r) ==
  /\ words[r].exists = pm[r].exists
  /\ words[r].size = pm[r].size /\ words[r].start = pm[r].start
  /\ SavedEnd(r) <= End(r)
  /\ words[r].size # 0 => words[r].exists /\ Proper(words[r].curr) /\ Proper(pm[r].curr)
FilesOK == \A r \in RegionIdx : FileOK(r)

\* The files are created in order.
Closed == \A p, q \in RegionIdx : Pos[p] < Pos[q] /\ words[q].exists => words[p].exists

\* How far _BXP_init has come.
Progress ==
  /\ mode = "up" => at = <<"LAST", "buddy">> /\ "buddy" \in made
  /\ Live => base \in Layouts
  /\ \A q \in RegionIdx : Passed(q) => words[q].exists /\ words[q].size = FileSize(q)
  /\ Making => words[at[1]].exists /\ "meta" \notin made
  /\ Making => \A q \in RegionIdx : Pos[at[1]] < Pos[q] => ~words[q].exists
  /\ Making /\ at[2] # "words" => words[at[1]].size = FileSize(at[1])

\* A process that found no large region creates that file and all the later ones.
FromScratch ==
  Live /\ ~recover =>
    /\ \A q \in {"LAR", "QUEUE", "META"} :
         /\ Pos[at[1]] < Pos[q] \/ at = <<q, "map">> => ~words[q].exists
         /\ Passed(q) \/ at \in {<<q, "make">>, <<q, "sbstart">>} => words[q].start = 1
    /\ Passed("LAR") \/ at = <<"LAR", "start">> => 1 + Expand <= SavedEnd("LAR")
    /\ Passed("QUEUE") => "queue" \in made
    /\ Passed("META") => "meta" \in made

\* What has been constructed.
MadeOK ==
  /\ "meta" \in made <=> spans # <<>>
  /\ "meta" \in made => words["META"].exists /\ words["SB"].start = spans[1].lo
  /\ "buddy" \in made =>
       /\ made = Parts /\ 1 + Expand <= SavedEnd("LAR")
       /\ \A q \in {"LAR", "QUEUE", "META"} : words[q].start = 1

\* The end of the SB region between the warm-up and its last store.
WarmOK ==
  mode = "init" /\ at = <<"META", "sbstart">> =>
    1 + Expand <= End("SB") /\ End("SB") <= FileSize("SB")

\* Where the descriptors start, unless a process has ended while it created their file.
DescOK ==
  words["DESC"].exists =>
    \/ torn \/ words["DESC"].start = 1
    \/ mode = "init" /\ at \in {"DESC"} \X {"words", "expand", "start"}

\* regions_address of the regions opened so far.
AddrOK ==
  /\ \A q \in RegionIdx \ {"SB"} : Passed(q) => addr[q] = base[q] + words[q].start
  /\ Making /\ at[2] \in {"make", "sbstart"} => addr[at[1]] = base[at[1]] + words[at[1]].start
  /\ Passed("SB") /\ words["META"].exists /\ ~(Making /\ at[1] = "META")
       => addr["SB"] = base["SB"] + words["SB"].start

\* What a thread is about to get, or has got and not yet returned.
Within(lo, hi, r, i) ==
  spans[i].r = r => hi <= base[r] + spans[i].lo \/ base[r] + spans[i].hi <= lo
ExpAt(t) ==
  LET e == exp[t]
      b == base[e.r]
  IN /\ mode \in {"init", "down"} => e.do = "idle"
     /\ e.do # "idle" =>
          /\ b < e.lo /\ e.hi = e.lo + Expand /\ e.lo = e.old
          /\ e.r = "SB" => e.hi <= b + words["SB"].size /\ b + spans[1].hi <= e.lo
     /\ e.do = "flush" =>
          /\ e.hi <= b + End(e.r)
          /\ \A i \in DOMAIN spans : Within(e.lo, e.hi, e.r, i)
          /\ \A u \in Threads : u # t /\ exp[u].do = "flush" /\ exp[u].r = e.r =>
               e.hi <= exp[u].lo \/ exp[u].hi <= e.lo
ExpsOK == \A t \in Threads : ExpAt(t)

\* What has been handed out.
SpanAt(i) ==
  /\ 1 <= spans[i].lo /\ spans[i].hi = spans[i].lo + Expand
  /\ spans[i].hi <= SavedEnd(spans[i].r)
  /\ spans[i].r = "SB" => spans[i].hi <= words["SB"].size
  /\ spans[i].r = "SB" /\ i # 1 => spans[1].hi <= spans[i].lo
SpansOK ==
  /\ \A i \in DOMAIN spans : SpanAt(i)
  /\ spans # <<>> => spans[1].r = "SB"
  /\ HandedOutOnce

\* The inductive invariant.
RInv ==
  /\ RTypeOK /\ FilesOK /\ Closed /\ Progress /\ FromScratch /\ MadeOK /\ WarmOK
  /\ DescOK /\ AddrOK /\ ExpsOK /\ SpansOK
-----------------------------------------------------------------------------
(* Arithmetic *)

\* What the proofs use of the assumptions on sizes and layouts.
LEMMA Sizes1 ==
  /\ SbPages \in Nat /\ SbPages > 0 /\ DescsPerPage \in Nat /\ Expand \in Nat /\ Expand > 0
  /\ \A n \in HeapSizes : n \in Nat /\ n >= Expand
  /\ \A l \in Layouts : l \in [RegionIdx -> Nat] /\ \A r \in RegionIdx : l[r] > 0
<1>1. SbPages \in Nat /\ SbPages > 0 /\ DescsPerPage \in Nat /\ DescsPerPage > 0
  BY RegionsAssumption
<1>2. SbPages * DescsPerPage > 0
  BY <1>1
<1> QED BY <1>1, <1>2, RegionsAssumption

\* The size of a file.
LEMMA FileSizes ==
  ASSUME NEW n \in HeapSizes, NEW r \in RegionIdx
  PROVE  Requested(n)[r] \in Nat /\ FileSizeIn(n, r) \in Nat /\ FileSizeIn(n, r) >= 2
         /\ Requested(n)["LAR"] = Expand
<1>1. n \in Nat /\ n \div SbPages \in Nat
  BY Sizes1
<1>2. (n \div SbPages) \div DescsPerPage \in Nat /\ (n \div SbPages) * SbPages \in Nat
  BY <1>1, Sizes1, RegionsAssumption
<1>3. QueuePages \in Nat /\ MetaPages \in Nat
  BY RegionsAssumption
<1>4. Requested(n)[r] \in Nat
  BY <1>2, <1>3, Sizes1 DEF Requested, RegionIdx
<1> QED BY <1>4 DEF FileSizeIn, Requested

\* A word that leads forward.
LEMMA Forward ==
  ASSUME NEW b \in Nat, NEW v \in Nat, v > b
  PROVE  To(v, b) \in Offs /\ Proper(To(v, b)) /\ To(v, b).mag = v - b
  BY DEF To, Offs, Proper, nullptr

\* A proper self-relative word leads forward (from_pptr_off of a positive offset).
LEMMA Followed ==
  ASSUME NEW c \in Offs, Proper(c), NEW b \in Nat
  PROVE  From(c, b) = b + c.mag /\ From(c, b) \in Nat /\ From(c, b) > b
<1>1. c # NullOff
  BY DEF Proper, NullOff
<1> QED BY <1>1 DEF From, Offs, Proper

\* Rounding up to a multiple of n goes up, to a multiple of n.
LEMMA Aligned ==
  ASSUME NEW a \in Nat, NEW n \in Nat, n > 0
  PROVE  AlignUp(a, n) \in Nat /\ a <= AlignUp(a, n) /\ \E k \in Nat : AlignUp(a, n) = k * n
  BY DEF AlignUp

\* Rounding up to a multiple of 1 changes nothing.
LEMMA AlignedByOne == ASSUME NEW a \in Nat PROVE AlignUp(a, 1) = a
  BY DEF AlignUp

\* The order of the files, spelled out.
LEMMA Order ==
  /\ Pos["DESC"] = 1 /\ Pos["SB"] = 2 /\ Pos["LAR"] = 3 /\ Pos["QUEUE"] = 4 /\ Pos["META"] = 5
  /\ Pos["LAST"] = 6
  /\ Following["DESC"] = "SB" /\ Following["SB"] = "LAR" /\ Following["LAR"] = "QUEUE"
  /\ Following["QUEUE"] = "META"
  /\ \A r \in RegionIdx : r \in {"DESC", "SB", "LAR", "QUEUE", "META"}
  /\ "DESC" \in RegionIdx /\ "SB" \in RegionIdx /\ "LAR" \in RegionIdx /\ "QUEUE" \in RegionIdx
  /\ "META" \in RegionIdx
  BY DEF Pos, Following, RegionIdx

\* The words of a file have their types.
LEMMA WordsTyped ==
  ASSUME NEW w \in Files
  PROVE  /\ w.exists \in BOOLEAN /\ w.curr \in Offs /\ w.start \in Nat /\ w.size \in Nat
         /\ w.curr.mag \in Nat
  BY DEF Files, Offs
-----------------------------------------------------------------------------
(* Initial states *)

\* Before the first process there is no file, and the invariant holds.
LEMMA InitRegions == Init => RInv
<1> SUFFICES ASSUME Init PROVE RInv
  OBVIOUS
<1>1. /\ NoFile \in Files /\ ~NoFile.exists /\ NoFile.size = 0 /\ Idle \in Exps
      /\ Idle.do = "idle"
  BY DEF NoFile, Files, Offs, RawOff, Idle, Exps
<1>2. RTypeOK
  <2>1. <<"DESC", "map">> \in Points /\ nullptr \in Nat
    BY DEF Points, RegionIdx, nullptr
  <2>2. /\ words \in [RegionIdx -> Files] /\ pm \in [RegionIdx -> Files]
        /\ exp \in [Threads -> Exps] /\ spans \in Seq(Pieces)
    BY <1>1 DEF Init
  <2>3. base \in [RegionIdx -> Nat] /\ addr \in [RegionIdx -> Nat]
    BY <2>1 DEF Init
  <2> QED BY <2>1, <2>2, <2>3 DEF Init, RTypeOK
<1>3. /\ \A r \in RegionIdx : words[r] = NoFile /\ pm[r] = NoFile
      /\ mode = "down" /\ made = {} /\ spans = <<>> /\ \A t \in Threads : exp[t] = Idle
  BY DEF Init
<1>4. FilesOK /\ Closed /\ DescOK
  BY <1>1, <1>3, Order, WordsTyped DEF FilesOK, FileOK, Closed, DescOK, End, SavedEnd
<1>5. Progress /\ FromScratch /\ MadeOK /\ WarmOK /\ AddrOK
  BY <1>3 DEF Progress, FromScratch, MadeOK, WarmOK, AddrOK, Live, Passed, Making
<1>6. ExpsOK
  BY <1>1, <1>3 DEF ExpsOK, ExpAt
<1>7. SpansOK
  BY <1>3 DEF SpansOK, HandedOutOnce
<1> QED BY <1>2, <1>4, <1>5, <1>6, <1>7 DEF RInv
-----------------------------------------------------------------------------
(* The steps of _BXP_init *)

\* A flushed store to the words of one file.
LEMMA Stored ==
  ASSUME RTypeOK, FilesOK, NEW r \in RegionIdx, NEW w \in Files, StoreFlushed(r, w),
         w.size # 0 => w.exists /\ Proper(w.curr)
  PROVE  /\ words' \in [RegionIdx -> Files] /\ pm' \in [RegionIdx -> Files] /\ FilesOK'
         /\ words'[r] = w /\ pm'[r] = w
         /\ \A q \in RegionIdx : q # r => words'[q] = words[q] /\ pm'[q] = pm[q]
<1>1. /\ words' \in [RegionIdx -> Files] /\ pm' \in [RegionIdx -> Files]
      /\ words'[r] = w /\ pm'[r] = w
      /\ \A q \in RegionIdx : q # r => words'[q] = words[q] /\ pm'[q] = pm[q]
  BY DEF StoreFlushed, RTypeOK
<1>2. ASSUME NEW q \in RegionIdx PROVE FileOK(q)'
  <2>1. CASE q = r
    <3>1. w.curr.mag \in Nat
      BY WordsTyped
    <3> QED BY <1>1, <2>1, <3>1 DEF FileOK, End, SavedEnd
  <2>2. CASE q # r
    BY <1>1, <2>2 DEF FilesOK, FileOK, End, SavedEnd
  <2> QED BY <2>1, <2>2
<1> QED BY <1>1, <1>2 DEF FilesOK

\* While the metadata is not made, nothing is handed out and no thread asks.
LEMMA NothingYet ==
  ASSUME RInv, mode = "init", "meta" \notin made
  PROVE  /\ spans = <<>> /\ "buddy" \notin made
         /\ \A t \in Threads : exp[t].do = "idle"
  BY DEF RInv, MadeOK, Parts, ExpsOK, ExpAt

\* What is the same for all steps that create a file.
LEMMA BuildStep ==
  ASSUME RInv, mode = "init", "meta" \notin made,
         NEW r \in RegionIdx, NEW w \in Files, StoreFlushed(r, w),
         w.size # 0 => w.exists /\ Proper(w.curr),
         UNCHANGED <<made, open, mode, torn, exp, spans>>,
         at' \in Points, addr' \in [RegionIdx -> Nat]
  PROVE  /\ RTypeOK' /\ FilesOK' /\ MadeOK' /\ ExpsOK' /\ SpansOK'
         /\ words'[r] = w /\ pm'[r] = w
         /\ \A q \in RegionIdx : q # r => words'[q] = words[q] /\ pm'[q] = pm[q]
<1>1. RTypeOK /\ FilesOK
  BY DEF RInv
<1>2. /\ words' \in [RegionIdx -> Files] /\ pm' \in [RegionIdx -> Files] /\ FilesOK'
      /\ words'[r] = w /\ pm'[r] = w
      /\ \A q \in RegionIdx : q # r => words'[q] = words[q] /\ pm'[q] = pm[q]
  BY <1>1, Stored
<1>3. /\ spans = <<>> /\ "buddy" \notin made /\ \A t \in Threads : exp[t].do = "idle"
      /\ UNCHANGED <<made, size, base, recover, mode, torn, exp, spans>>
  BY NothingYet DEF open
<1>4. RTypeOK'
  BY <1>1, <1>2, <1>3 DEF RTypeOK
<1>5. MadeOK'
  BY <1>3 DEF MadeOK
<1>6. ExpsOK'
  BY <1>3 DEF ExpsOK, ExpAt
<1>7. SpansOK'
  BY <1>3 DEF SpansOK, HandedOutOnce
<1> QED BY <1>2, <1>4, <1>5, <1>6, <1>7

\* A process creates the next file (__map_persistent_region).
LEMMA CreateFileStep ==
  ASSUME RInv, NEW r \in RegionIdx, CreateFile(r)
  PROVE  RInv'
<1>1. PICK w : w = [NoFile EXCEPT !.exists = TRUE]
  OBVIOUS
<1>2. w \in Files /\ w.exists /\ w.size = 0
  BY <1>1 DEF NoFile, Files, Offs, RawOff
<1>3. /\ mode = "init" /\ at = <<r, "map">> /\ at' = <<r, "words">> /\ ~words[r].exists
      /\ StoreFlushed(r, w) /\ UNCHANGED <<made, open, addr, mode, torn, starts, exp, spans>>
      /\ UNCHANGED <<size, base, recover>>
  BY <1>1 DEF CreateFile, At, Goto, open
<1>4. \A q \in RegionIdx : Pos[r] < Pos[q] => ~words[q].exists
  BY <1>3 DEF RInv, Closed
<1>5. "meta" \notin made
  BY <1>3, <1>4, Order DEF RInv, MadeOK
<1>6. /\ RTypeOK' /\ FilesOK' /\ MadeOK' /\ ExpsOK' /\ SpansOK'
      /\ words'[r] = w /\ pm'[r] = w
      /\ \A q \in RegionIdx : q # r => words'[q] = words[q] /\ pm'[q] = pm[q]
  <2>1. at' \in Points /\ addr' \in [RegionIdx -> Nat]
    BY <1>3 DEF Points, RInv, RTypeOK
  <2> QED BY <1>2, <1>3, <1>5, <2>1, BuildStep
<1>7. \A q \in RegionIdx : Pos[q] < Pos[r] => words[q].exists /\ words[q].size = FileSize(q)
  BY <1>3 DEF RInv, Progress, Passed, Live
<1>8. Closed'
  BY <1>2, <1>4, <1>6, <1>7 DEF RInv, Closed
<1>9. FileSize(r)' = FileSize(r) /\ \A q \in RegionIdx : FileSize(q)' = FileSize(q)
  BY <1>3 DEF FileSize
<1>10. Progress'
  BY <1>2, <1>3, <1>4, <1>5, <1>6, <1>7, <1>9 DEF RInv, Progress, Passed, Making, Live
<1>11. FromScratch'
  BY <1>2, <1>3, <1>4, <1>6, Order DEF RInv, FromScratch, Passed, Live, SavedEnd
<1>12. WarmOK' /\ DescOK'
  BY <1>2, <1>3, <1>6, Order DEF RInv, WarmOK, DescOK
<1>13. AddrOK'
  BY <1>2, <1>3, <1>4, <1>6, Order DEF RInv, AddrOK, Passed, Making, Live
<1> QED BY <1>6, <1>8, <1>10, <1>11, <1>12, <1>13 DEF RInv

\* What a process knows while it creates file r.
LEMMA InTheMaking ==
  ASSUME RInv, mode = "init", NEW r \in RegionIdx, at[1] = r, at[2] \notin {"map", "buddy"}
  PROVE  /\ words[r].exists /\ "meta" \notin made /\ base[r] \in Nat /\ base[r] > 0
         /\ size \in HeapSizes /\ words[r] \in Files
         /\ \A q \in RegionIdx : Pos[r] < Pos[q] => ~words[q].exists
         /\ \A q \in RegionIdx : Pos[q] < Pos[r] => words[q].exists /\ words[q].size = FileSize(q)
         /\ at[2] # "words" => words[r].size = FileSize(r) /\ Proper(words[r].curr)
<1>1. /\ words[r].exists /\ "meta" \notin made /\ base \in Layouts
      /\ \A q \in RegionIdx : Pos[r] < Pos[q] => ~words[q].exists
      /\ \A q \in RegionIdx : Pos[q] < Pos[r] => words[q].exists /\ words[q].size = FileSize(q)
      /\ at[2] # "words" => words[r].size = FileSize(r)
  BY DEF RInv, Progress, Making, Passed, Live
<1>2. base[r] \in Nat /\ base[r] > 0 /\ size \in HeapSizes /\ words[r] \in Files
  BY <1>1, Sizes1 DEF RInv, RTypeOK
<1>3. FileSize(r) # 0
  BY <1>2, FileSizes DEF FileSize
<1> QED BY <1>1, <1>2, <1>3 DEF RInv, FilesOK, FileOK

\* It writes the words at the start of the file: the mapping's address is stored as a
\* distance, so what FileOK says of them does not depend on where the file is mapped.
LEMMA WriteWordsStep ==
  ASSUME RInv, NEW r \in RegionIdx, WriteWords(r)
  PROVE  RInv'
<1>1. PICK w : w = [words[r] EXCEPT !.curr = To(base[r] + 1, base[r]), !.size = FileSize(r)]
  OBVIOUS
<1>2. /\ mode = "init" /\ at = <<r, "words">>
      /\ at' = IF r = "SB" THEN <<"LAR", "map">> ELSE <<r, "expand">>
      /\ StoreFlushed(r, w) /\ UNCHANGED <<made, open, addr, mode, torn, starts, exp, spans>>
      /\ UNCHANGED <<size, base, recover>>
  BY <1>1, Order DEF WriteWords, At, Goto, open
<1>3. /\ words[r].exists /\ "meta" \notin made /\ base[r] \in Nat /\ base[r] > 0
      /\ size \in HeapSizes /\ words[r] \in Files
      /\ \A q \in RegionIdx : Pos[r] < Pos[q] => ~words[q].exists
      /\ \A q \in RegionIdx : Pos[q] < Pos[r] => words[q].exists /\ words[q].size = FileSize(q)
  BY <1>2, InTheMaking
<1>4. /\ To(base[r] + 1, base[r]) \in Offs /\ Proper(To(base[r] + 1, base[r]))
      /\ FileSize(r) \in Nat
  BY <1>3, Forward, FileSizes DEF FileSize
<1>5. w \in Files /\ w.exists /\ w.size = FileSize(r) /\ Proper(w.curr)
  BY <1>1, <1>3, <1>4 DEF Files
<1>6. /\ RTypeOK' /\ FilesOK' /\ MadeOK' /\ ExpsOK' /\ SpansOK'
      /\ words'[r] = w /\ pm'[r] = w
      /\ \A q \in RegionIdx : q # r => words'[q] = words[q] /\ pm'[q] = pm[q]
  <2>1. at' \in Points /\ addr' \in [RegionIdx -> Nat]
    BY <1>2, Order DEF Points, RInv, RTypeOK
  <2> QED BY <1>2, <1>3, <1>5, <2>1, BuildStep
<1>7. \A q \in RegionIdx : FileSize(q)' = FileSize(q) /\ (words'[q].exists <=> words[q].exists)
  BY <1>2, <1>3, <1>5, <1>6 DEF FileSize
<1>8. Closed'
  BY <1>7 DEF RInv, Closed
<1>9. Progress'
  BY <1>2, <1>3, <1>5, <1>6, <1>7, Order DEF RInv, Progress, Passed, Making, Live
<1>10. FromScratch'
  BY <1>2, <1>3, <1>6, <1>7, Order DEF RInv, FromScratch, Passed, Live, SavedEnd
<1>11. WarmOK' /\ DescOK'
  BY <1>2, <1>6, <1>7, Order DEF RInv, WarmOK, DescOK
<1>12. AddrOK'
  BY <1>2, <1>3, <1>6, <1>7, Order DEF RInv, AddrOK, Passed, Making, Live
<1> QED BY <1>6, <1>8, <1>9, <1>10, <1>11, <1>12 DEF RInv

\* The first piece of a region other than SB.
LEMMA ExpandFirstStep ==
  ASSUME RInv, NEW r \in RegionIdx, ExpandFirst(r)
  PROVE  RInv'
<1>1. PICK w : w = [words[r] EXCEPT !.curr =
                      To(Piece(Curr(r), 1, Requested(size)[r]).hi, base[r])]
  OBVIOUS
<1>2. /\ mode = "init" /\ at = <<r, "expand">> /\ at' = <<r, "start">>
      /\ StoreFlushed(r, w) /\ UNCHANGED <<made, open, addr, mode, torn, starts, exp, spans>>
      /\ UNCHANGED <<size, base, recover>>
  BY <1>1 DEF ExpandFirst, ExpandAlone, At, Goto, open
<1>3. /\ words[r].exists /\ "meta" \notin made /\ base[r] \in Nat /\ base[r] > 0
      /\ size \in HeapSizes /\ words[r] \in Files
      /\ \A q \in RegionIdx : Pos[r] < Pos[q] => ~words[q].exists
      /\ \A q \in RegionIdx : Pos[q] < Pos[r] => words[q].exists /\ words[q].size = FileSize(q)
      /\ words[r].size = FileSize(r) /\ Proper(words[r].curr)
  BY <1>2, InTheMaking
<1>4. /\ words[r].curr \in Offs /\ words[r].curr.mag \in Nat /\ words[r].curr.mag >= 1
      /\ Requested(size)[r] \in Nat /\ Requested(size)["LAR"] = Expand /\ FileSize(r) \in Nat
  BY <1>3, WordsTyped, FileSizes DEF Proper, FileSize
<1>5. /\ Curr(r) \in Nat /\ Curr(r) = base[r] + words[r].curr.mag
      /\ AlignUp(Curr(r), 1) = Curr(r)
  BY <1>3, <1>4, Followed, AlignedByOne DEF Curr
<1>6. PICK v : v = Piece(Curr(r), 1, Requested(size)[r]).hi
  OBVIOUS
<1>7. v \in Nat /\ v > base[r] /\ v - base[r] = words[r].curr.mag + Requested(size)[r]
  BY <1>3, <1>4, <1>5, <1>6 DEF Piece
<1>8. To(v, base[r]) \in Offs /\ Proper(To(v, base[r])) /\ To(v, base[r]).mag = v - base[r]
  BY <1>3, <1>7, Forward
<1>9. /\ w \in Files /\ w.exists /\ w.size = FileSize(r) /\ Proper(w.curr)
      /\ w.start = words[r].start
      /\ r = "LAR" => 1 + Expand <= w.curr.mag
  BY <1>1, <1>3, <1>4, <1>6, <1>7, <1>8 DEF Files
<1>10. /\ RTypeOK' /\ FilesOK' /\ MadeOK' /\ ExpsOK' /\ SpansOK'
       /\ words'[r] = w /\ pm'[r] = w
       /\ \A q \in RegionIdx : q # r => words'[q] = words[q] /\ pm'[q] = pm[q]
  <2>1. at \in Points /\ addr \in [RegionIdx -> Nat]
    BY DEF RInv, RTypeOK
  <2>2. at' \in Points
    BY <1>2, <2>1, Order DEF Points
  <2> QED BY <1>2, <1>3, <1>9, <2>1, <2>2, BuildStep
<1>11. \A q \in RegionIdx : FileSize(q)' = FileSize(q) /\ (words'[q].exists <=> words[q].exists)
  BY <1>2, <1>3, <1>9, <1>10 DEF FileSize
<1>12. Closed'
  BY <1>11 DEF RInv, Closed
<1>13. Progress'
  BY <1>2, <1>3, <1>9, <1>10, <1>11 DEF RInv, Progress, Passed, Making, Live
<1>14. FromScratch'
  BY <1>2, <1>3, <1>9, <1>10, <1>11, Order DEF RInv, FromScratch, Passed, Live, SavedEnd
<1>15. WarmOK' /\ DescOK'
  BY <1>2, <1>9, <1>10, <1>11, Order DEF RInv, WarmOK, DescOK
<1>16. AddrOK'
  BY <1>2, <1>3, <1>9, <1>10, <1>11, Order DEF RInv, AddrOK, Passed, Making, Live
<1> QED BY <1>10, <1>12, <1>13, <1>14, <1>15, <1>16 DEF RInv

\* Where the region starts, for this process and for the later ones.
LEMMA StoreStartStep ==
  ASSUME RInv, NEW r \in RegionIdx, StoreStart(r)
  PROVE  RInv'
<1>1. PICK w : w = [words[r] EXCEPT !.start = StartWord(r, base[r] + 1)]
  OBVIOUS
<1>2. /\ mode = "init" /\ at = <<r, "start">>
      /\ at' = IF r \in {"QUEUE", "META"} THEN <<r, "make">> ELSE <<Following[r], "map">>
      /\ addr' = [addr EXCEPT ![r] = base[r] + 1]
      /\ StoreFlushed(r, w) /\ UNCHANGED <<made, open, mode, torn, starts, exp, spans>>
      /\ UNCHANGED <<size, base, recover>>
  BY <1>1 DEF StoreStart, At, Goto, open
<1>3. /\ words[r].exists /\ "meta" \notin made /\ base[r] \in Nat /\ base[r] > 0
      /\ size \in HeapSizes /\ words[r] \in Files
      /\ \A q \in RegionIdx : Pos[r] < Pos[q] => ~words[q].exists
      /\ \A q \in RegionIdx : Pos[q] < Pos[r] => words[q].exists /\ words[q].size = FileSize(q)
      /\ words[r].size = FileSize(r) /\ Proper(words[r].curr)
  BY <1>2, InTheMaking
<1>4. /\ w \in Files /\ w.exists /\ w.size = FileSize(r) /\ Proper(w.curr)
      /\ w.start = 1 /\ w.curr = words[r].curr
  BY <1>1, <1>3 DEF Files, StartWord
<1>5. r # "SB" /\ addr \in [RegionIdx -> Nat]
  <2>1. at \in Points /\ addr \in [RegionIdx -> Nat]
    BY DEF RInv, RTypeOK
  <2> QED BY <1>2, <2>1 DEF Points
<1>6. /\ RTypeOK' /\ FilesOK' /\ MadeOK' /\ ExpsOK' /\ SpansOK'
      /\ words'[r] = w /\ pm'[r] = w
      /\ \A q \in RegionIdx : q # r => words'[q] = words[q] /\ pm'[q] = pm[q]
  <2>1. addr' \in [RegionIdx -> Nat]
    BY <1>2, <1>3, <1>5
  <2>2. at' \in Points
    BY <1>2, <1>5, Order DEF Points
  <2> QED BY <1>2, <1>3, <1>4, <2>1, <2>2, BuildStep
<1>7. \A q \in RegionIdx : FileSize(q)' = FileSize(q) /\ (words'[q].exists <=> words[q].exists)
  BY <1>2, <1>3, <1>4, <1>6 DEF FileSize
<1>8. Closed'
  BY <1>7 DEF RInv, Closed
<1>9. Progress'
  BY <1>2, <1>3, <1>4, <1>5, <1>6, <1>7, Order DEF RInv, Progress, Passed, Making, Live
<1>10. FromScratch'
  <2>1. 1 + Expand <= SavedEnd("LAR") => 1 + Expand <= SavedEnd("LAR")'
    <3>1. /\ SavedEnd("LAR") \in Nat /\ End("LAR") \in Nat /\ SavedEnd("LAR") <= End("LAR")
          /\ Expand \in Nat
      BY Sizes1, Order, WordsTyped DEF RInv, RTypeOK, FilesOK, FileOK, End, SavedEnd
    <3>2. SavedEnd("LAR")' \in {SavedEnd("LAR"), End("LAR")}
      BY <1>4, <1>6, Order DEF SavedEnd, End
    <3> QED BY <3>1, <3>2
  <2> QED BY <1>2, <1>3, <1>4, <1>5, <1>6, <1>7, <2>1, Order
          DEF RInv, FromScratch, Passed, Live
<1>11. WarmOK' /\ DescOK'
  BY <1>2, <1>4, <1>6, <1>7, Order DEF RInv, WarmOK, DescOK
<1>12. AddrOK'
  BY <1>2, <1>3, <1>4, <1>5, <1>6, <1>7, Order DEF RInv, AddrOK, Passed, Making, Live
<1> QED BY <1>6, <1>8, <1>9, <1>10, <1>11, <1>12 DEF RInv

\* Steps that leave the files, and what is handed out, alone.
LEMMA FilesSame ==
  ASSUME RInv, UNCHANGED <<words, pm, exp, spans>>,
         mode' \in {"init", "down"} => mode \in {"init", "down"},
         mode' \in {"init", "down"} \/ UNCHANGED <<base, size>>
  PROVE  FilesOK' /\ Closed' /\ ExpsOK' /\ SpansOK'
<1>1. FilesOK' /\ Closed'
  BY DEF RInv, FilesOK, FileOK, Closed, End, SavedEnd
<1>2. SpansOK'
  <2>1. \A i \in DOMAIN spans : SpanAt(i)'
    BY DEF RInv, SpansOK, SpanAt, SavedEnd
  <2> QED BY <2>1 DEF RInv, SpansOK, HandedOutOnce
<1>3. ASSUME NEW t \in Threads PROVE ExpAt(t)'
  <2>1. CASE mode' \in {"init", "down"}
    BY <2>1 DEF RInv, ExpsOK, ExpAt
  <2>2. CASE mode' \notin {"init", "down"}
    BY <2>2 DEF RInv, ExpsOK, ExpAt, Within, End, Limit
  <2> QED BY <2>1, <2>2
<1> QED BY <1>1, <1>2, <1>3 DEF ExpsOK

\* An assertion fails.
LEMMA AbortStep ==
  ASSUME RInv, NEW why, why \notin {"down", "init", "up"}, Abort(why),
         mode = "init" => at[2] \notin {"words", "expand", "start"}
  PROVE  RInv'
<1>1. UNCHANGED <<words, pm, made, size, base, recover, addr, at, torn, exp, spans>>
  BY DEF Abort, open
<1>2. mode' = why
  BY DEF Abort
<1>3. RTypeOK'
  BY <1>1 DEF RInv, RTypeOK
<1>4. Progress' /\ FromScratch' /\ WarmOK' /\ AddrOK'
  BY <1>2 DEF Progress, FromScratch, WarmOK, AddrOK, Live, Passed, Making
<1>5. MadeOK'
  BY <1>1 DEF RInv, MadeOK, SavedEnd
<1>6. DescOK'
  <2>1. ~(mode = "init" /\ at \in {"DESC"} \X {"words", "expand", "start"})
    OBVIOUS
  <2> QED BY <1>1, <2>1 DEF RInv, DescOK
<1> QED BY <1>1, <1>2, <1>3, <1>4, <1>5, <1>6, FilesSame DEF RInv

\* The queue of free superblocks is constructed in its region.
LEMMA MakeQueueStep ==
  ASSUME RInv, MakeQueue
  PROVE  RInv'
<1>1. /\ mode = "init" /\ mode' = "init" /\ at = <<"QUEUE", "make">> /\ at' = <<"META", "map">>
      /\ made' = made \cup {"queue"}
      /\ UNCHANGED <<words, pm, size, base, recover, addr, torn, exp, spans>>
  BY DEF MakeQueue, At, Goto, open
<1>2. /\ words["QUEUE"].exists /\ "meta" \notin made /\ ~words["META"].exists
      /\ \A q \in RegionIdx : Pos[q] < Pos["QUEUE"] =>
           words[q].exists /\ words[q].size = FileSize(q)
      /\ words["QUEUE"].size = FileSize("QUEUE")
  BY <1>1, InTheMaking, Order
<1>3. spans = <<>> /\ "buddy" \notin made
  BY <1>1, <1>2, NothingYet
<1>4. RTypeOK'
  <2>1. <<"META", "map">> \in Points
    BY DEF Points, RegionIdx
  <2> QED BY <1>1, <2>1 DEF RInv, RTypeOK, Parts
<1>5. \A q \in RegionIdx : FileSize(q)' = FileSize(q)
  BY <1>1 DEF FileSize
<1>6. Progress'
  BY <1>1, <1>2, <1>5, Order DEF RInv, Progress, Live, Passed, Making
<1>7. FromScratch'
  BY <1>1, <1>2, Order DEF RInv, FromScratch, Live, Passed, SavedEnd
<1>8. MadeOK'
  BY <1>1, <1>2, <1>3 DEF MadeOK
<1>9. WarmOK' /\ DescOK'
  BY <1>1 DEF RInv, WarmOK, DescOK
<1>10. AddrOK'
  BY <1>1, <1>2, Order DEF RInv, AddrOK, Live, Passed, Making
<1> QED BY <1>1, <1>4, <1>6, <1>7, <1>8, <1>9, <1>10, FilesSame DEF RInv

\* The end of the SB region once its file has been written.
LEMMA SbEnd ==
  ASSUME RInv, Live, Pos["SB"] < Pos[at[1]]
  PROVE  /\ words["SB"] \in Files /\ words["SB"].exists /\ words["SB"].size = FileSize("SB")
         /\ Proper(words["SB"].curr) /\ End("SB") \in Nat /\ End("SB") >= 1
         /\ base["SB"] \in Nat /\ base["SB"] > 0 /\ Curr("SB") = base["SB"] + End("SB")
         /\ FileSize("SB") \in Nat /\ FileSize("SB") >= 2
<1>1. words["SB"] \in Files /\ words["SB"].exists /\ words["SB"].size = FileSize("SB")
  BY Order DEF RInv, RTypeOK, Progress, Passed
<1>2. FileSize("SB") \in Nat /\ FileSize("SB") >= 2
  BY Order, FileSizes DEF FileSize, RInv, RTypeOK
<1>3. Proper(words["SB"].curr)
  BY <1>1, <1>2, Order DEF RInv, FilesOK, FileOK
<1>4. base["SB"] \in Nat /\ base["SB"] > 0
  BY Sizes1, Order DEF RInv, Progress
<1>5. End("SB") \in Nat /\ End("SB") >= 1
  BY <1>1, <1>3, WordsTyped DEF End, Proper
<1>6. Curr("SB") = base["SB"] + End("SB")
  BY <1>1, <1>3, <1>4, Followed, WordsTyped DEF Curr, End
<1> QED BY <1>1, <1>2, <1>3, <1>4, <1>5, <1>6

\* The constructor of BaseMeta expands SB: all the earlier regions are open.
LEMMA WarmUpStep ==
  ASSUME RInv, WarmUp
  PROVE  RInv'
<1>0. /\ mode = "init" /\ at = <<"META", "make">>
  BY DEF WarmUp, At
<1>1. /\ words["META"].exists /\ "meta" \notin made
      /\ \A q \in RegionIdx : Pos[q] < Pos["META"] =>
           words[q].exists /\ words[q].size = FileSize(q)
      /\ words["META"].size = FileSize("META")
  BY <1>0, InTheMaking, Order
<1>2. /\ words["SB"] \in Files /\ words["SB"].exists /\ words["SB"].size = FileSize("SB")
      /\ Proper(words["SB"].curr) /\ End("SB") \in Nat /\ End("SB") >= 1
      /\ base["SB"] \in Nat /\ base["SB"] > 0 /\ Curr("SB") = base["SB"] + End("SB")
      /\ FileSize("SB") \in Nat
  BY <1>0, SbEnd, Order DEF Live
<1>3. PICK v : v = Piece(Curr("SB"), SbPages, Expand).hi
  OBVIOUS
<1>4. v \in Nat /\ v >= base["SB"] + End("SB") + Expand /\ Expand \in Nat
  <2>1. Curr("SB") \in Nat /\ SbPages \in Nat /\ SbPages > 0 /\ Expand \in Nat
    BY <1>2, Sizes1
  <2>2. AlignUp(Curr("SB"), SbPages) \in Nat /\ Curr("SB") <= AlignUp(Curr("SB"), SbPages)
    BY <2>1, Aligned
  <2>3. v = AlignUp(Curr("SB"), SbPages) + Expand
    BY <1>3 DEF Piece
  <2> QED BY <1>2, <2>1, <2>2, <2>3
<1>5. CASE v > base["SB"] + FileSize("SB")
  <2>1. ~(v <= base["SB"] + FileSize("SB"))
    BY <1>2, <1>4, <1>5
  <2>2. Abort("warmup sb allocation fails!")
    BY <1>3, <2>1 DEF WarmUp
  <2> QED BY <1>0, <2>2, AbortStep
<1>6. CASE ~(v > base["SB"] + FileSize("SB"))
  <2>1. PICK w : w = [words["SB"] EXCEPT !.curr = To(v, base["SB"])]
    OBVIOUS
  <2>2. /\ StoreFlushed("SB", w) /\ at' = <<"META", "sbstart">>
        /\ UNCHANGED <<made, open, addr, mode, torn, starts, exp, spans>>
    BY <1>3, <1>6, <2>1 DEF WarmUp, ExpandAlone, Goto
  <2>3. /\ To(v, base["SB"]) \in Offs /\ Proper(To(v, base["SB"]))
        /\ To(v, base["SB"]).mag = v - base["SB"]
    BY <1>2, <1>4, Forward
  <2>4. /\ w \in Files /\ w.exists /\ w.size = FileSize("SB") /\ Proper(w.curr)
        /\ w.start = words["SB"].start /\ w.curr.mag = v - base["SB"]
    BY <1>2, <2>1, <2>3 DEF Files
  <2>5. /\ RTypeOK' /\ FilesOK' /\ MadeOK' /\ ExpsOK' /\ SpansOK'
        /\ words'["SB"] = w /\ pm'["SB"] = w
        /\ \A q \in RegionIdx : q # "SB" => words'[q] = words[q] /\ pm'[q] = pm[q]
    <3>1. at' \in Points /\ addr' \in [RegionIdx -> Nat]
      BY <2>2 DEF RInv, RTypeOK, Points
    <3> QED BY <1>0, <1>1, <2>2, <2>4, <3>1, BuildStep, Order
  <2>6. \A q \in RegionIdx : /\ FileSize(q)' = FileSize(q)
                             /\ words'[q].exists <=> words[q].exists
                             /\ words'[q].size = words[q].size
                             /\ words'[q].start = words[q].start
    BY <1>2, <2>2, <2>4, <2>5 DEF FileSize, open
  <2>7. UNCHANGED <<made, size, base, recover, addr, mode, torn>>
    BY <2>2 DEF open
  <2>8. Closed'
    BY <2>6 DEF RInv, Closed
  <2>9. Progress'
    BY <1>0, <1>1, <2>2, <2>6, <2>7, Order DEF RInv, Progress, Passed, Making, Live
  <2>10. FromScratch'
    BY <1>0, <2>2, <2>5, <2>6, <2>7, Order DEF RInv, FromScratch, Passed, Live, SavedEnd
  <2>11. WarmOK'
    BY <1>2, <1>4, <1>6, <2>4, <2>5, <2>6, Order DEF WarmOK, End
  <2>12. DescOK'
    BY <1>0, <2>2, <2>6, <2>7, Order DEF RInv, DescOK
  <2>13. AddrOK'
    BY <1>0, <2>2, <2>6, <2>7, Order DEF RInv, AddrOK, Passed, Making, Live
  <2> QED BY <2>5, <2>8, <2>9, <2>10, <2>11, <2>12, <2>13 DEF RInv
<1> QED BY <1>5, <1>6

\* The constructor ends: the first piece of SB is handed out.
LEMMA MakeMetaStep ==
  ASSUME RInv, MakeMeta
  PROVE  RInv'
<1>0. /\ mode = "init" /\ at = <<"META", "sbstart">>
  BY DEF MakeMeta, At
<1>1. /\ words["META"].exists /\ "meta" \notin made
      /\ \A q \in RegionIdx : Pos[q] < Pos["META"] =>
           words[q].exists /\ words[q].size = FileSize(q)
      /\ words["META"].size = FileSize("META")
  BY <1>0, InTheMaking, Order
<1>2. /\ words["SB"] \in Files /\ words["SB"].exists /\ words["SB"].size = FileSize("SB")
      /\ Proper(words["SB"].curr) /\ End("SB") \in Nat
      /\ base["SB"] \in Nat /\ base["SB"] > 0 /\ Curr("SB") = base["SB"] + End("SB")
      /\ FileSize("SB") \in Nat
  BY <1>0, SbEnd, Order DEF Live
<1>3. 1 + Expand <= End("SB") /\ End("SB") <= FileSize("SB") /\ Expand \in Nat
  BY <1>0, Sizes1 DEF RInv, WarmOK
<1>4. PICK lo, hi : hi = End("SB") /\ lo = hi - Expand
  OBVIOUS
<1>5. lo \in Nat /\ hi \in Nat /\ 1 <= lo /\ hi = lo + Expand
  BY <1>2, <1>3, <1>4
<1>6. PICK w : w = [words["SB"] EXCEPT !.start = lo]
  OBVIOUS
<1>7. spans = <<>> /\ "buddy" \notin made /\ \A t \in Threads : exp[t].do = "idle"
  BY <1>0, <1>1, NothingYet
<1>8. /\ StoreFlushed("SB", w) /\ at' = <<"LAST", "buddy">> /\ mode' = "init"
      /\ addr' = [addr EXCEPT !["SB"] = base["SB"] + lo]
      /\ made' = made \cup {"meta"}
      /\ spans' = <<[r |-> "SB", lo |-> lo, hi |-> hi]>>
      /\ UNCHANGED <<size, base, recover, torn, exp>>
  <2>1. /\ Curr("SB") - Expand = base["SB"] + lo /\ (base["SB"] + lo) - base["SB"] = lo
        /\ Curr("SB") - base["SB"] = hi
    BY <1>2, <1>3, <1>4, <1>5
  <2>2. /\ StoreFlushed("SB", w) /\ at' = <<"LAST", "buddy">> /\ mode' = "init"
        /\ addr' = [addr EXCEPT !["SB"] = base["SB"] + lo]
        /\ made' = made \cup {"meta"}
        /\ UNCHANGED <<size, base, recover, torn, exp>>
    BY <1>0, <1>6, <2>1 DEF MakeMeta, Goto, StartWord, open
  <2>3. spans' = Append(spans, [r |-> "SB", lo |-> lo, hi |-> hi])
    BY <2>1 DEF MakeMeta, HandedOut
  <2>4. Append(<<>>, [r |-> "SB", lo |-> lo, hi |-> hi]) = <<[r |-> "SB", lo |-> lo, hi |-> hi]>>
    OBVIOUS
  <2> QED BY <1>7, <2>2, <2>3, <2>4
<1>9. /\ w \in Files /\ w.exists /\ w.size = FileSize("SB") /\ Proper(w.curr)
      /\ w.start = lo /\ w.curr = words["SB"].curr
  BY <1>2, <1>5, <1>6 DEF Files
<1>10. /\ words' \in [RegionIdx -> Files] /\ pm' \in [RegionIdx -> Files] /\ FilesOK'
       /\ words'["SB"] = w /\ pm'["SB"] = w
       /\ \A q \in RegionIdx : q # "SB" => words'[q] = words[q] /\ pm'[q] = pm[q]
  BY <1>8, <1>9, Stored, Order DEF RInv
<1>11. \A q \in RegionIdx : /\ FileSize(q)' = FileSize(q)
                            /\ words'[q].exists <=> words[q].exists
                            /\ words'[q].size = words[q].size
  BY <1>2, <1>8, <1>9, <1>10 DEF FileSize
<1>12. /\ spans' # <<>> /\ spans' \in Seq(Pieces) /\ DOMAIN spans' = {1}
       /\ spans'[1].r = "SB" /\ spans'[1].lo = lo /\ spans'[1].hi = hi
  BY <1>5, <1>8 DEF Pieces
<1>13. RTypeOK'
  <2>1. <<"LAST", "buddy">> \in Points /\ base["SB"] + lo \in Nat
    BY <1>2, <1>5 DEF Points
  <2>2. addr' \in [RegionIdx -> Nat]
    BY <1>8, <2>1 DEF RInv, RTypeOK
  <2> QED BY <1>8, <1>10, <1>12, <2>1, <2>2 DEF RInv, RTypeOK, Parts
<1>14. Closed'
  BY <1>11 DEF RInv, Closed
<1>15. Progress'
  BY <1>0, <1>1, <1>8, <1>11, Order DEF RInv, Progress, Passed, Making, Live
<1>16. FromScratch'
  BY <1>0, <1>8, <1>10, <1>11, Order DEF RInv, FromScratch, Passed, Live, SavedEnd
<1>17. MadeOK'
  BY <1>1, <1>7, <1>8, <1>9, <1>10, <1>11, <1>12, Order DEF MadeOK
<1>18. WarmOK'
  BY <1>8 DEF WarmOK
<1>19. DescOK'
  BY <1>0, <1>8, <1>10, <1>11, Order DEF RInv, DescOK
<1>20. AddrOK'
  <2>1. \A q \in RegionIdx \ {"SB"} : addr'[q] = addr[q] /\ words'[q].start = words[q].start
    BY <1>8, <1>10 DEF RInv, RTypeOK
  <2>2. addr'["SB"] = base["SB"] + lo
    BY <1>8, Order DEF RInv, RTypeOK
  <2>3. \A q \in RegionIdx \ {"SB"} : addr[q] = base[q] + words[q].start
    BY <1>0, Order DEF RInv, AddrOK, Passed, Making, Live
  <2> QED BY <1>8, <1>9, <1>10, <2>1, <2>2, <2>3 DEF AddrOK, Passed, Making, Live
<1>21. ExpsOK'
  BY <1>7, <1>8 DEF ExpsOK, ExpAt
<1>22. SpansOK'
  <2>1. SpanAt(1)'
    <3>1. SavedEnd("SB")' = hi /\ words'["SB"].size = FileSize("SB")
      BY <1>4, <1>9, <1>10 DEF SavedEnd, End
    <3>2. SavedEnd(spans[1].r)' = hi
      BY <1>12, <3>1 DEF SavedEnd
    <3> QED BY <1>3, <1>4, <1>5, <1>12, <3>1, <3>2 DEF SpanAt
  <2>2. HandedOutOnce'
    BY <1>12 DEF HandedOutOnce
  <2> QED BY <1>12, <2>1, <2>2 DEF SpansOK
<1> QED BY <1>10, <1>13, <1>14, <1>15, <1>16, <1>17, <1>18, <1>19, <1>20, <1>21, <1>22
        DEF RInv

\* A file that exists is opened again: its size must be the one asked for.
LEMMA RemapStep ==
  ASSUME RInv, NEW r \in RegionIdx, Remap(r)
  PROVE  RInv'
<1>0. mode = "init" /\ at = <<r, "map">> /\ words[r].exists /\ size \in HeapSizes
  BY DEF Remap, At, RInv, RTypeOK
<1>1. CASE words[r].size # FileSize(r)
  <2>1. Abort("size")
    BY <1>1 DEF Remap
  <2> QED BY <1>0, <2>1, AbortStep
<1>2. CASE words[r].size = FileSize(r)
  <2>1. /\ addr' = [addr EXCEPT ![r] = HeapStart(r)] /\ mode' = "init"
        /\ at' = IF r = "META" THEN <<"LAST", "buddy">> ELSE <<Following[r], "map">>
        /\ UNCHANGED <<words, pm, made, size, base, recover, torn, exp, spans>>
    BY <1>0, <1>2 DEF Remap, Goto, open
  <2>2. base[r] \in Nat /\ HeapStart(r) = base[r] + words[r].start /\ HeapStart(r) \in Nat
    BY WordsTyped DEF RInv, RTypeOK, HeapStart
  <2>3. RTypeOK'
    <3>1. addr' \in [RegionIdx -> Nat]
      BY <2>1, <2>2 DEF RInv, RTypeOK
    <3>2. at' \in Points
      BY <2>1, Order DEF Points
    <3> QED BY <2>1, <3>1, <3>2 DEF RInv, RTypeOK
  <2>4. \A q \in RegionIdx : FileSize(q)' = FileSize(q)
    BY <2>1 DEF FileSize
  <2>5. \A q \in RegionIdx : Pos[q] < Pos[r] => words[q].exists /\ words[q].size = FileSize(q)
    BY <1>0 DEF RInv, Progress, Passed, Live
  <2>6. Progress'
    BY <1>0, <1>2, <2>1, <2>4, <2>5, Order DEF RInv, Progress, Passed, Making, Live
  <2>7. FromScratch'
    <3>1. ~recover => r \in {"DESC", "SB"}
      BY <1>0, Order DEF RInv, FromScratch, Live
    <3> QED BY <1>0, <2>1, <3>1, Order DEF RInv, FromScratch, Passed, Live
  <2>8. MadeOK' /\ DescOK' /\ WarmOK'
    BY <1>0, <2>1, Order DEF RInv, MadeOK, DescOK, WarmOK, SavedEnd
  <2>9. AddrOK'
    <3>1. addr'[r] = base[r] + words[r].start /\ \A q \in RegionIdx : q # r => addr'[q] = addr[q]
      BY <2>1, <2>2 DEF RInv, RTypeOK
    <3> QED BY <1>0, <2>1, <3>1, Order DEF RInv, AddrOK, Passed, Making, Live
  <2> QED BY <1>0, <2>1, <2>3, <2>6, <2>7, <2>8, <2>9, FilesSame DEF RInv
<1> QED BY <1>1, <1>2

\* The buddy allocator is constructed, or found.
LEMMA StartBuddyStep ==
  ASSUME RInv, StartBuddy
  PROVE  RInv'
<1>0. mode = "init" /\ at = <<"LAST", "buddy">>
  BY DEF StartBuddy, At
<1>1. CASE recover /\ "buddy" \notin made
  <2>1. Abort("walk does not end")
    BY <1>1 DEF StartBuddy
  <2> QED BY <1>0, <2>1, AbortStep
<1>2. CASE ~recover \/ "buddy" \in made
  <2>1. /\ made' = made \cup {"buddy"} /\ mode' = "up"
        /\ UNCHANGED <<words, pm, size, base, recover, addr, at, torn, exp, spans>>
    BY <1>2 DEF StartBuddy, open
  <2>2. /\ "meta" \in made /\ made' = Parts /\ 1 + Expand <= SavedEnd("LAR")
        /\ \A q \in {"LAR", "QUEUE", "META"} : words[q].start = 1
    <3>1. CASE "buddy" \in made
      BY <2>1, <3>1 DEF RInv, MadeOK, Parts
    <3>2. CASE "buddy" \notin made
      <4>1. /\ "meta" \in made /\ "queue" \in made /\ 1 + Expand <= SavedEnd("LAR")
            /\ \A q \in {"LAR", "QUEUE", "META"} : words[q].start = 1
        BY <1>0, <1>2, <3>2, Order DEF RInv, FromScratch, Passed, Live
      <4> QED BY <2>1, <4>1 DEF RInv, RTypeOK, Parts
    <3> QED BY <3>1, <3>2
  <2>3. RTypeOK'
    BY <2>1, <2>2 DEF RInv, RTypeOK
  <2>4. \A q \in RegionIdx : FileSize(q)' = FileSize(q)
    BY <2>1 DEF FileSize
  <2>5. Progress'
    BY <1>0, <2>1, <2>4 DEF RInv, Progress, Passed, Making, Live
  <2>6. FromScratch'
    BY <1>0, <2>1, <2>2, Order DEF RInv, FromScratch, Passed, Live, SavedEnd
  <2>7. MadeOK'
    BY <2>1, <2>2 DEF RInv, MadeOK, SavedEnd, Parts
  <2>8. WarmOK' /\ DescOK'
    BY <1>0, <2>1 DEF RInv, WarmOK, DescOK
  <2>9. AddrOK'
    BY <1>0, <2>1 DEF RInv, AddrOK, Passed, Making, Live
  <2> QED BY <1>0, <2>1, <2>3, <2>5, <2>6, <2>7, <2>8, <2>9, FilesSame DEF RInv
<1> QED BY <1>1, <1>2

\* A new process: other addresses, perhaps another size.
LEMMA StartStep ==
  ASSUME RInv, Start
  PROVE  RInv'
<1>1. /\ mode = "down" /\ mode' = "init" /\ at' = <<"DESC", "map">>
      /\ recover' = words["LAR"].exists /\ base' \in Layouts /\ size' \in HeapSizes
      /\ addr' = [r \in RegionIdx |-> nullptr]
      /\ UNCHANGED <<words, pm, made, torn, exp, spans>>
  BY DEF Start, Goto
<1>2. RTypeOK'
  <2>1. /\ addr' \in [RegionIdx -> Nat] /\ base' \in [RegionIdx -> Nat]
        /\ recover' \in BOOLEAN /\ at' \in Points
    BY <1>1, Sizes1, Order, WordsTyped DEF RInv, RTypeOK, Points, nullptr
  <2> QED BY <1>1, <2>1 DEF RInv, RTypeOK
<1>3. Progress'
  BY <1>1, Order DEF Progress, Passed, Making, Live
<1>4. FromScratch'
  <2>1. ~words["LAR"].exists => ~words["QUEUE"].exists /\ ~words["META"].exists
    BY Order DEF RInv, Closed
  <2> QED BY <1>1, <2>1, Order DEF FromScratch, Passed, Live
<1>5. MadeOK' /\ WarmOK' /\ DescOK'
  BY <1>1 DEF RInv, MadeOK, WarmOK, DescOK, SavedEnd
<1>6. AddrOK'
  BY <1>1, Order DEF AddrOK, Passed, Making, Live
<1> QED BY <1>1, <1>2, <1>3, <1>4, <1>5, <1>6, FilesSame DEF RInv

\* Every step of _BXP_init preserves the invariant.
LEMMA InitStepInv ==
  ASSUME RInv, InitStep
  PROVE  RInv'
  BY CreateFileStep, WriteWordsStep, ExpandFirstStep, StoreStartStep, RemapStep, MakeQueueStep,
     WarmUpStep, MakeMetaStep, StartBuddyStep DEF InitStep
-----------------------------------------------------------------------------
(* The end of a process *)

\* Whatever memory keeps of the last stores, file by file.
LEMMA EndStep ==
  ASSUME RInv, Ended,
         \A r \in RegionIdx : \/ words'[r] = words[r] /\ pm'[r] \in {words[r], pm[r]}
                              \/ words'[r] = pm[r] /\ pm'[r] = pm[r],
         words' \in [RegionIdx -> Files], pm' \in [RegionIdx -> Files]
  PROVE  RInv'
<1>1. /\ mode' = "down" /\ exp' = [t \in Threads |-> Idle]
      /\ torn' = (torn \/ made # Parts)
      /\ UNCHANGED <<made, size, base, recover, addr, at, spans>>
  BY DEF Ended, open, Parts
<1>2. Idle \in Exps /\ Idle.do = "idle"
  BY DEF Idle, Exps
<1>3. RTypeOK'
  BY <1>1, <1>2 DEF RInv, RTypeOK
<1>4. \A r \in RegionIdx :
        /\ words[r] \in Files /\ pm[r] \in Files /\ FileOK(r)
        /\ words[r].curr.mag \in Nat /\ pm[r].curr.mag \in Nat
  BY WordsTyped DEF RInv, RTypeOK, FilesOK
<1>5. ASSUME NEW r \in RegionIdx
      PROVE  /\ FileOK(r)' /\ SavedEnd(r) <= SavedEnd(r)'
             /\ words'[r].exists <=> words[r].exists
             /\ words'[r].size = words[r].size /\ words'[r].start = words[r].start
  BY <1>4 DEF FileOK, End, SavedEnd
<1>6. FilesOK' /\ Closed'
  BY <1>5 DEF RInv, FilesOK, Closed
<1>7. Progress' /\ FromScratch' /\ WarmOK' /\ AddrOK'
  BY <1>1 DEF Progress, FromScratch, WarmOK, AddrOK, Live, Passed, Making
<1>8. MadeOK'
  <2>1. 1 + Expand <= SavedEnd("LAR") => 1 + Expand <= SavedEnd("LAR")'
    <3>1. SavedEnd("LAR") \in Nat /\ SavedEnd("LAR")' \in Nat /\ Expand \in Nat
      BY <1>3, <1>4, Order, Sizes1, WordsTyped DEF SavedEnd, RTypeOK
    <3> QED BY <1>5, <3>1, Order
  <2> QED BY <1>1, <1>5, <2>1, Order DEF RInv, MadeOK
<1>9. DescOK'
  <2>1. mode = "init" /\ at \in {"DESC"} \X {"words", "expand", "start"} => torn'
    <3>1. ASSUME mode = "init", at \in {"DESC"} \X {"words", "expand", "start"}
          PROVE  "meta" \notin made
      BY <3>1, InTheMaking, Order
    <3> QED BY <1>1, <3>1 DEF Parts
  <2> QED BY <1>1, <1>5, <2>1, Order DEF RInv, DescOK
<1>10. ExpsOK'
  BY <1>1, <1>2 DEF ExpsOK, ExpAt
<1>11. SpansOK'
  <2>1. ASSUME NEW i \in DOMAIN spans PROVE SpanAt(i)'
    <3>1. SpanAt(i) /\ spans[i] \in Pieces
      BY <2>1 DEF RInv, SpansOK, RTypeOK
    <3>2. /\ spans[i].r \in RegionIdx /\ spans[i].hi \in Nat
          /\ SavedEnd(spans[i].r) \in Nat /\ SavedEnd(spans[i].r)' \in Nat
      <4>1. spans[i].r \in RegionIdx /\ spans[i].hi \in Nat /\ spans'[i] = spans[i]
        BY <1>1, <3>1, Order DEF Pieces
      <4>2. \A q \in RegionIdx : SavedEnd(q) \in Nat /\ SavedEnd(q)' \in Nat
        BY <1>3, <1>4, WordsTyped DEF SavedEnd, RTypeOK
      <4> QED BY <4>1, <4>2 DEF SavedEnd
    <3>3. spans[i].hi <= SavedEnd(spans[i].r)'
      BY <1>1, <1>5, <3>1, <3>2 DEF SpanAt
    <3> QED BY <1>1, <1>5, <3>1, <3>3, Order DEF SpanAt
  <2> QED BY <1>1, <2>1 DEF RInv, SpansOK, HandedOutOnce
<1> QED BY <1>3, <1>6, <1>7, <1>8, <1>9, <1>10, <1>11 DEF RInv

\* RP_close, the death of the process and a power failure preserve the invariant.
LEMMA EndSteps ==
  ASSUME RInv, Close \/ Die \/ PowerFailure
  PROVE  RInv'
<1>0. words \in [RegionIdx -> Files] /\ pm \in [RegionIdx -> Files]
  BY DEF RInv, RTypeOK
<1>1. CASE Close
  BY <1>0, <1>1, EndStep DEF Close
<1>2. CASE Die
  BY <1>0, <1>2, EndStep DEF Die
<1>3. CASE PowerFailure
  <2>1. PICK lost : words' = [r \in RegionIdx |-> IF r \in lost THEN pm[r] ELSE words[r]]
    BY <1>3 DEF PowerFailure
  <2>2. pm' = words' /\ Ended
    BY <1>3 DEF PowerFailure
  <2>3. \A r \in RegionIdx : words'[r] \in {words[r], pm[r]} /\ pm'[r] = words'[r]
    BY <2>1, <2>2
  <2>4. words' \in [RegionIdx -> Files]
    BY <1>0, <2>1
  <2> QED BY <2>2, <2>3, <2>4, EndStep
<1> QED BY <1>1, <1>2, <1>3
-----------------------------------------------------------------------------
(* __nvm_region_allocator in an open heap *)

\* In an open heap curr_addr leads to the end of its region, past what is handed out.
LEMMA OpenEnd ==
  ASSUME RInv, mode = "up", NEW r \in {"SB", "LAR"}
  PROVE  /\ words[r] \in Files /\ Proper(words[r].curr) /\ words[r].size = FileSize(r)
         /\ base[r] \in Nat /\ base[r] > 0 /\ End(r) \in Nat /\ End(r) >= 1
         /\ SavedEnd(r) \in Nat /\ SavedEnd(r) <= End(r)
         /\ Curr(r) = base[r] + End(r) /\ Limit(r) \in Int /\ made = Parts
         /\ 1 + Expand <= SavedEnd("LAR")
         /\ 1 \in DOMAIN spans /\ spans[1].r = "SB" /\ spans[1].hi \in Nat
         /\ spans[1].hi <= SavedEnd("SB")
<1>1. at = <<"LAST", "buddy">> /\ base \in Layouts /\ size \in HeapSizes /\ Live
  BY DEF RInv, RTypeOK, Progress, Live
<1>2. words[r] \in Files /\ pm[r] \in Files /\ words[r].size = FileSize(r)
  BY <1>1, Order DEF RInv, RTypeOK, Progress, Passed
<1>3. FileSize(r) \in Nat /\ FileSize(r) # 0
  BY <1>1, FileSizes, Order DEF FileSize
<1>4. Proper(words[r].curr) /\ SavedEnd(r) <= End(r)
  BY <1>2, <1>3, Order DEF RInv, FilesOK, FileOK
<1>5. base[r] \in Nat /\ base[r] > 0
  BY <1>1, Sizes1, Order
<1>6. End(r) \in Nat /\ End(r) >= 1 /\ SavedEnd(r) \in Nat
  BY <1>2, <1>4, WordsTyped DEF End, SavedEnd, Proper
<1>7. Curr(r) = base[r] + End(r)
  BY <1>2, <1>4, <1>5, Followed, WordsTyped DEF Curr, End
<1>8. Limit(r) \in Int
  <2>1. size \in Nat /\ SbPages \in Nat /\ SbPages > 0
    BY <1>1, Sizes1
  <2>2. size - size \div 2 \in Int
    BY <2>1
  <2>3. ((size - size \div 2) \div SbPages) \in Int
    BY <2>1, <2>2
  <2>4. ((size - size \div 2) \div SbPages) * SbPages \in Int
    BY <2>1, <2>3
  <2> QED BY <1>3, <2>4 DEF Limit
<1>9. made = Parts /\ 1 + Expand <= SavedEnd("LAR")
  BY DEF RInv, Progress, MadeOK
<1>10. /\ 1 \in DOMAIN spans /\ spans[1].r = "SB" /\ spans[1].hi \in Nat
       /\ spans[1].hi <= SavedEnd("SB")
  <2>1. spans # <<>> /\ spans \in Seq(Pieces)
    BY <1>9 DEF RInv, RTypeOK, MadeOK, Parts
  <2>2. 1 \in DOMAIN spans /\ spans[1] \in Pieces
    BY <2>1
  <2> QED BY <2>1, <2>2 DEF RInv, SpansOK, SpanAt, Pieces
<1> QED BY <1>2, <1>4, <1>5, <1>6, <1>7, <1>8, <1>9, <1>10

\* A step of an open heap that moves the end of a region forward, if anything.
LEMMA Onward ==
  ASSUME RInv, mode = "up", UNCHANGED <<made, open, addr, mode, at, torn>>,
         words' \in [RegionIdx -> Files], pm' \in [RegionIdx -> Files], FilesOK',
         \A q \in RegionIdx : /\ words'[q].exists <=> words[q].exists
                              /\ words'[q].size = words[q].size
                              /\ words'[q].start = words[q].start
                              /\ SavedEnd(q) <= SavedEnd(q)',
         spans' = spans \/ \E s \in Pieces : spans' = Append(spans, s)
  PROVE  /\ Closed' /\ Progress' /\ FromScratch' /\ MadeOK' /\ WarmOK' /\ DescOK' /\ AddrOK'
         /\ spans' \in Seq(Pieces) /\ 1 \in DOMAIN spans' /\ spans'[1] = spans[1]
<1>1. UNCHANGED <<made, size, base, recover, addr, mode, at, torn>>
  BY DEF open
<1>2. /\ spans \in Seq(Pieces) /\ 1 \in DOMAIN spans /\ made = Parts
      /\ 1 + Expand <= SavedEnd("LAR")
  BY OpenEnd DEF RInv, RTypeOK
<1>3. spans' \in Seq(Pieces) /\ 1 \in DOMAIN spans' /\ spans'[1] = spans[1]
  <2>1. CASE spans' = spans
    BY <1>2, <2>1
  <2>2. CASE \E s \in Pieces : spans' = Append(spans, s)
    BY <1>2, <2>2
  <2> QED BY <2>1, <2>2
<1>4. \A q \in RegionIdx : FileSize(q)' = FileSize(q)
  BY <1>1 DEF FileSize
<1>5. Closed'
  BY DEF RInv, Closed
<1>6. Progress'
  BY <1>1, <1>4, Order DEF RInv, Progress, Passed, Making, Live
<1>7. 1 + Expand <= SavedEnd("LAR")'
  <2>1. SavedEnd("LAR") \in Nat /\ SavedEnd("LAR")' \in Nat /\ Expand \in Nat
    BY Order, Sizes1, WordsTyped DEF SavedEnd, RInv, RTypeOK
  <2> QED BY <1>2, <2>1, Order
<1>8. /\ at = <<"LAST", "buddy">> /\ "buddy" \in made
      /\ \A q \in {"LAR", "QUEUE", "META"} : words[q].start = 1
      /\ words["META"].exists /\ words["SB"].start = spans[1].lo
  BY DEF RInv, Progress, MadeOK, Parts
<1>9. MadeOK'
  BY <1>1, <1>2, <1>3, <1>7, <1>8, Order DEF MadeOK, Parts
<1>10. FromScratch'
  BY <1>1, <1>2, <1>7, <1>8, Order DEF FromScratch, Passed, Live, Parts
<1>11. WarmOK' /\ DescOK'
  BY <1>1, Order DEF RInv, WarmOK, DescOK
<1>12. AddrOK'
  BY <1>1, <1>8, Order DEF RInv, AddrOK, Passed, Making, Live
<1> QED BY <1>3, <1>5, <1>6, <1>9, <1>10, <1>11, <1>12

\* The load of curr_addr.
LEMMA ExpandLoadStep ==
  ASSUME RInv, NEW t \in Threads, NEW r \in RegionIdx, ExpandLoad(t, r)
  PROVE  RInv'
<1>0. mode = "up" /\ exp[t].do = "idle" /\ r \in {"SB", "LAR"}
  BY DEF ExpandLoad
<1>1. /\ words[r].size = FileSize(r) /\ base[r] \in Nat /\ base[r] > 0 /\ End(r) \in Nat
      /\ End(r) >= 1 /\ SavedEnd(r) <= End(r) /\ SavedEnd(r) \in Nat
      /\ Curr(r) = base[r] + End(r) /\ Limit(r) \in Int
      /\ 1 + Expand <= SavedEnd("LAR") /\ spans[1].hi \in Nat /\ spans[1].hi <= SavedEnd("SB")
  BY <1>0, OpenEnd
<1>2. PICK c : c = Curr(r)
  OBVIOUS
<1>3. c \in Nat /\ c > base[r] /\ Expand \in Nat /\ c = base[r] + End(r)
  BY <1>1, <1>2, Sizes1
<1>4. Piece(Curr(r), 1, Expand) = [lo |-> c, hi |-> c + Expand]
  BY <1>2, <1>3, AlignedByOne DEF Piece
<1>5. CASE c + Expand > base[r] + Limit(r)
  <2>1. ~(c + Expand <= base[r] + Limit(r))
    BY <1>1, <1>3, <1>5
  <2>2. Piece(Curr(r), 1, Expand).hi = c + Expand
    BY <1>4
  <2>3. Abort("space runs out")
    BY <2>1, <2>2, Zenon DEF ExpandLoad
  <2> QED BY <1>0, <2>3, AbortStep
<1>6. CASE ~(c + Expand > base[r] + Limit(r))
  <2>1. PICK e : e = [do |-> "cas", r |-> r, old |-> c, lo |-> c, hi |-> c + Expand]
    OBVIOUS
  <2>2. /\ c + Expand <= base[r] + Limit(r) /\ exp' = [exp EXCEPT ![t] = e]
        /\ UNCHANGED <<words, pm, made, open, addr, mode, at, torn, starts, spans>>
    <3>1. Piece(Curr(r), 1, Expand).hi = c + Expand /\ Piece(Curr(r), 1, Expand).lo = c
      BY <1>4
    <3>2. c + Expand <= base[r] + Limit(r)
      BY <1>1, <1>3, <1>6
    <3>3. /\ exp' = [exp EXCEPT ![t] = [do |-> "cas", r |-> r, old |-> Curr(r),
                        lo |-> Piece(Curr(r), 1, Expand).lo, hi |-> Piece(Curr(r), 1, Expand).hi]]
          /\ UNCHANGED <<words, pm, made, open, addr, mode, at, torn, starts, spans>>
      BY <1>6, <3>1, Zenon DEF ExpandLoad
    <3> QED BY <1>2, <2>1, <3>1, <3>2, <3>3
  <2>3. e \in Exps /\ e.do = "cas" /\ e.r = r /\ e.lo = c /\ e.old = c /\ e.hi = c + Expand
    BY <1>0, <1>3, <2>1 DEF Exps
  <2>4. exp' \in [Threads -> Exps] /\ exp'[t] = e /\ \A u \in Threads : u # t => exp'[u] = exp[u]
    BY <2>2, <2>3 DEF RInv, RTypeOK
  <2>5. UNCHANGED <<words, pm, size, base, spans, mode>>
    BY <2>2 DEF open
  <2>6. RTypeOK'
    BY <2>2, <2>4, <2>5 DEF RInv, RTypeOK, open
  <2>7. FilesOK' /\ SpansOK'
    <3>1. FilesOK'
      BY <2>5 DEF RInv, FilesOK, FileOK, End, SavedEnd
    <3>2. SpansOK'
      BY <2>5 DEF RInv, SpansOK, SpanAt, HandedOutOnce, SavedEnd
    <3> QED BY <3>1, <3>2
  <2>8. Closed' /\ Progress' /\ FromScratch' /\ MadeOK' /\ WarmOK' /\ DescOK' /\ AddrOK'
    <3>1. \A q \in RegionIdx : SavedEnd(q) \in Nat /\ SavedEnd(q)' = SavedEnd(q)
      BY <2>5, WordsTyped DEF RInv, RTypeOK, SavedEnd
    <3>2. words' \in [RegionIdx -> Files] /\ pm' \in [RegionIdx -> Files]
      BY <2>5 DEF RInv, RTypeOK
    <3>3. \A q \in RegionIdx : SavedEnd(q) <= SavedEnd(q)'
      BY <3>1
    <3> QED BY <1>0, <2>2, <2>5, <2>7, <3>2, <3>3, Onward
  <2>9. ExpAt(t)'
    <3>1. r = "SB" => c + Expand <= base[r] + words["SB"].size /\ base[r] + spans[1].hi <= c
      <4>1. r = "SB" => Limit(r) = words["SB"].size
        BY <1>1 DEF Limit
      <4> QED BY <1>1, <1>3, <2>2, <4>1
    <3> QED BY <1>0, <1>3, <2>3, <2>4, <2>5, <3>1 DEF ExpAt
  <2>10. ASSUME NEW u \in Threads, u # t PROVE ExpAt(u)'
    <3>1. ExpAt(u) /\ exp'[u] = exp[u] /\ exp'[t].do # "flush"
      BY <2>3, <2>4, <2>10 DEF RInv, ExpsOK
    <3>2. End(exp[u].r)' = End(exp[u].r)
      BY <2>5, <3>1 DEF End
    <3>3. \A x \in Threads : x # t => exp'[x] = exp[x]
      BY <2>4
    <3> QED BY <2>5, <3>1, <3>2, <3>3 DEF ExpAt, Within, End
  <2> QED BY <2>6, <2>7, <2>8, <2>9, <2>10 DEF RInv, ExpsOK
<1> QED BY <1>5, <1>6

\* What the invariant says of a thread that is inside the allocator.
LEMMA Expanding ==
  ASSUME RInv, NEW t \in Threads, exp[t].do # "idle"
  PROVE  /\ exp[t] \in Exps /\ exp[t].r \in {"SB", "LAR"} /\ exp[t].r \in RegionIdx
         /\ exp[t].old \in Nat /\ exp[t].lo \in Nat /\ exp[t].hi \in Nat /\ Expand \in Nat
         /\ base[exp[t].r] \in Nat /\ base[exp[t].r] < exp[t].lo
         /\ exp[t].hi = exp[t].lo + Expand /\ exp[t].lo = exp[t].old
         /\ exp[t].hi > base[exp[t].r]
<1>1. exp[t] \in Exps /\ ExpAt(t) /\ Expand \in Nat
  BY Sizes1 DEF RInv, RTypeOK, ExpsOK
<1>2. /\ exp[t].r \in {"SB", "LAR"} /\ exp[t].r \in RegionIdx
      /\ exp[t].old \in Nat /\ exp[t].lo \in Nat /\ exp[t].hi \in Nat
  BY <1>1, Order DEF Exps
<1>3. base[exp[t].r] \in Nat
  BY <1>2 DEF RInv, RTypeOK
<1>4. base[exp[t].r] < exp[t].lo /\ exp[t].hi = exp[t].lo + Expand /\ exp[t].lo = exp[t].old
  BY <1>1 DEF ExpAt
<1> QED BY <1>1, <1>2, <1>3, <1>4

\* The words of region r after a step of the allocator: the end moves forward, if it
\* moves, and what was the end before is in memory.
LEMMA EndMoves ==
  ASSUME RInv, mode = "up", NEW r \in {"SB", "LAR"}, NEW w \in Files,
         Proper(w.curr), End(r) <= w.curr.mag,
         w.exists = words[r].exists, w.size = words[r].size, w.start = words[r].start,
         words' = [words EXCEPT ![r] = w], pm' = [pm EXCEPT ![r] = words[r]]
  PROVE  /\ words' \in [RegionIdx -> Files] /\ pm' \in [RegionIdx -> Files] /\ FilesOK'
         /\ End(r)' = w.curr.mag /\ SavedEnd(r)' = End(r)
         /\ \A q \in RegionIdx : /\ words'[q].exists <=> words[q].exists
                                 /\ words'[q].size = words[q].size
                                 /\ words'[q].start = words[q].start
                                 /\ End(q) \in Nat /\ End(q)' \in Nat /\ End(q) <= End(q)'
                                 /\ SavedEnd(q) \in Nat /\ SavedEnd(q)' \in Nat
                                 /\ SavedEnd(q) <= SavedEnd(q)'
                                 /\ q # r => words'[q] = words[q]
<1>1. /\ words[r] \in Files /\ Proper(words[r].curr) /\ SavedEnd(r) <= End(r)
      /\ words[r].size = FileSize(r)
  BY OpenEnd
<1>2. /\ words' \in [RegionIdx -> Files] /\ pm' \in [RegionIdx -> Files]
      /\ words'[r] = w /\ pm'[r] = words[r] /\ r \in RegionIdx
      /\ \A q \in RegionIdx : q # r => words'[q] = words[q] /\ pm'[q] = pm[q]
  BY <1>1, Order DEF RInv, RTypeOK
<1>3. \A q \in RegionIdx : /\ words[q].curr.mag \in Nat /\ words'[q].curr.mag \in Nat
                           /\ pm[q].curr.mag \in Nat /\ pm'[q].curr.mag \in Nat
                           /\ FileOK(q)
  BY <1>2, WordsTyped DEF RInv, RTypeOK, FilesOK
<1>4. ASSUME NEW q \in RegionIdx
      PROVE  /\ FileOK(q)'
             /\ words'[q].exists <=> words[q].exists
             /\ words'[q].size = words[q].size
             /\ words'[q].start = words[q].start
             /\ End(q) \in Nat /\ End(q)' \in Nat /\ End(q) <= End(q)'
             /\ SavedEnd(q) \in Nat /\ SavedEnd(q)' \in Nat /\ SavedEnd(q) <= SavedEnd(q)'
  <2>1. CASE q = r
    <3>1. /\ FileOK(r) /\ words'[r] = w /\ pm'[r] = words[r] /\ w.curr.mag \in Nat
          /\ words[r].curr.mag \in Nat /\ pm[r].curr.mag \in Nat
          /\ words[r].curr.mag <= w.curr.mag /\ pm[r].curr.mag <= words[r].curr.mag
      BY <1>1, <1>2, <1>3 DEF End, SavedEnd
    <3>2. FileOK(r)'
      BY <1>1, <3>1 DEF FileOK, End, SavedEnd
    <3> QED BY <2>1, <3>1, <3>2 DEF End, SavedEnd
  <2>2. CASE q # r
    BY <1>2, <1>3, <2>2 DEF FileOK, End, SavedEnd
  <2> QED BY <2>1, <2>2
<1>5. End(r)' = w.curr.mag /\ SavedEnd(r)' = End(r)
  BY <1>2 DEF End, SavedEnd
<1> QED BY <1>2, <1>4, <1>5 DEF FilesOK

\* Memory that was handed out before stays so when the ends move.
LEMMA SpansStay ==
  ASSUME RInv, NEW i \in DOMAIN spans, i \in DOMAIN spans', spans'[i] = spans[i],
         spans'[1] = spans[1],
         words'["SB"].size = words["SB"].size,
         \A q \in RegionIdx : /\ SavedEnd(q) \in Nat /\ SavedEnd(q)' \in Nat
                              /\ SavedEnd(q) <= SavedEnd(q)'
  PROVE  SpanAt(i)'
<1>1. spans[i] \in Pieces /\ SpanAt(i)
  BY DEF RInv, RTypeOK, SpansOK
<1>2. spans[i].r \in RegionIdx /\ spans[i].hi \in Nat
  BY <1>1, Order DEF Pieces
<1>3. SavedEnd(spans[i].r)' \in Nat /\ SavedEnd(spans[i].r) <= SavedEnd(spans[i].r)'
  BY <1>2 DEF SavedEnd
<1>4. spans[i].hi <= SavedEnd(spans[i].r)'
  BY <1>1, <1>2, <1>3 DEF SpanAt
<1> QED BY <1>1, <1>4 DEF SpanAt, SavedEnd

\* The compare-and-swap.
LEMMA ExpandCASStep ==
  ASSUME RInv, NEW t \in Threads, ExpandCAS(t)
  PROVE  RInv'
<1>0. mode = "up" /\ exp[t].do = "cas"
  BY DEF ExpandCAS
<1>1. PICK e, r, b : e = exp[t] /\ r = e.r /\ b = base[r]
  OBVIOUS
<1>2. /\ e \in Exps /\ r \in {"SB", "LAR"} /\ r \in RegionIdx /\ e.lo \in Nat /\ e.hi \in Nat
      /\ b \in Nat /\ b < e.lo /\ e.hi = e.lo + Expand /\ e.lo = e.old /\ e.hi > b
      /\ Expand \in Nat
  BY <1>0, <1>1, Expanding
<1>3. /\ words[r] \in Files /\ Proper(words[r].curr) /\ words[r].size = FileSize(r)
      /\ End(r) \in Nat /\ SavedEnd(r) \in Nat /\ SavedEnd(r) <= End(r) /\ Curr(r) = b + End(r)
  BY <1>0, <1>1, <1>2, OpenEnd
<1>4. PICK w : w = IF Curr(r) = e.old THEN [words[r] EXCEPT !.curr = To(e.hi, b)] ELSE words[r]
  OBVIOUS
<1>5. PICK f : f = IF Curr(r) = e.old THEN [e EXCEPT !.do = "flush"] ELSE Idle
  OBVIOUS
<1>6. /\ words' = [words EXCEPT ![r] = w] /\ pm' = [pm EXCEPT ![r] = words[r]]
      /\ exp' = [exp EXCEPT ![t] = f]
      /\ UNCHANGED <<made, open, addr, mode, at, torn, starts, spans>>
  <2>1. CASE Curr(r) = e.old
    <3>1. words' = [words EXCEPT ![r].curr = To(e.hi, b)] /\ exp' = [exp EXCEPT ![t].do = "flush"]
      BY <1>1, <2>1 DEF ExpandCAS
    <3>2. words' = [words EXCEPT ![r] = w] /\ exp' = [exp EXCEPT ![t] = f]
      BY <1>1, <1>4, <1>5, <2>1, <3>1
    <3> QED BY <1>1, <3>2 DEF ExpandCAS
  <2>2. CASE Curr(r) # e.old
    <3>1. words' = words /\ exp' = [exp EXCEPT ![t] = Idle]
      BY <1>1, <2>2 DEF ExpandCAS
    <3>2. words' = [words EXCEPT ![r] = w] /\ exp' = [exp EXCEPT ![t] = f]
      BY <1>2, <1>4, <1>5, <2>2, <3>1 DEF RInv, RTypeOK
    <3> QED BY <1>1, <3>2 DEF ExpandCAS
  <2> QED BY <2>1, <2>2
<1>7. /\ w \in Files /\ Proper(w.curr) /\ End(r) <= w.curr.mag /\ w.exists = words[r].exists
      /\ w.size = words[r].size /\ w.start = words[r].start
      /\ Curr(r) = e.old => w.curr.mag = e.hi - b
  <2>1. CASE Curr(r) = e.old
    <3>1. To(e.hi, b) \in Offs /\ Proper(To(e.hi, b)) /\ To(e.hi, b).mag = e.hi - b
      BY <1>2, Forward
    <3>2. End(r) <= e.hi - b
      BY <1>2, <1>3, <2>1
    <3> QED BY <1>3, <1>4, <2>1, <3>1, <3>2 DEF Files
  <2>2. CASE Curr(r) # e.old
    BY <1>3, <1>4, <2>2 DEF End
  <2> QED BY <2>1, <2>2
<1>8. /\ words' \in [RegionIdx -> Files] /\ pm' \in [RegionIdx -> Files] /\ FilesOK'
      /\ End(r)' = w.curr.mag /\ SavedEnd(r)' = End(r)
      /\ \A q \in RegionIdx : /\ words'[q].exists <=> words[q].exists
                              /\ words'[q].size = words[q].size
                              /\ words'[q].start = words[q].start
                              /\ End(q) \in Nat /\ End(q)' \in Nat /\ End(q) <= End(q)'
                              /\ SavedEnd(q) \in Nat /\ SavedEnd(q)' \in Nat
                              /\ SavedEnd(q) <= SavedEnd(q)'
  BY <1>0, <1>2, <1>6, <1>7, EndMoves
<1>9. UNCHANGED <<made, size, base, recover, addr, mode, at, torn, spans>>
  BY <1>6 DEF open
<1>10. Closed' /\ Progress' /\ FromScratch' /\ MadeOK' /\ WarmOK' /\ DescOK' /\ AddrOK'
  BY <1>0, <1>6, <1>8, <1>9, Onward
<1>11. f \in Exps /\ (f.do = "flush" => Curr(r) = e.old)
  BY <1>2, <1>5 DEF Exps, Idle
<1>12. exp' \in [Threads -> Exps] /\ exp'[t] = f /\ \A u \in Threads : u # t => exp'[u] = exp[u]
  BY <1>6, <1>11 DEF RInv, RTypeOK
<1>13. RTypeOK'
  BY <1>8, <1>9, <1>12 DEF RInv, RTypeOK
<1>14. SpansOK'
  <2>1. \A i \in DOMAIN spans : SpanAt(i)'
    BY <1>8, <1>9, SpansStay, Order
  <2> QED BY <1>9, <2>1 DEF RInv, SpansOK, HandedOutOnce
<1>15. ASSUME Curr(r) = e.old
       PROVE  /\ \A i \in DOMAIN spans : Within(e.lo, e.hi, r, i)
              /\ \A u \in Threads : u # t /\ exp[u].do = "flush" /\ exp[u].r = r =>
                   exp[u].hi <= e.lo
  <2>1. e.lo = b + End(r)
    BY <1>2, <1>3, <1>15
  <2>2. ASSUME NEW i \in DOMAIN spans, spans[i].r = r PROVE b + spans[i].hi <= e.lo
    <3>1. spans[i] \in Pieces /\ SpanAt(i)
      BY DEF RInv, RTypeOK, SpansOK
    <3>2. spans[i].hi \in Nat /\ spans[i].hi <= SavedEnd(r)
      BY <2>2, <3>1 DEF Pieces, SpanAt
    <3> QED BY <1>2, <1>3, <2>1, <3>2
  <2>3. ASSUME NEW u \in Threads, exp[u].do = "flush", exp[u].r = r PROVE exp[u].hi <= e.lo
    BY <1>1, <2>1, <2>3 DEF RInv, ExpsOK, ExpAt
  <2> QED BY <1>1, <2>2, <2>3 DEF Within
<1>16. ExpAt(t)'
  <2>1. CASE Curr(r) = e.old
    <3>1. f.do = "flush" /\ f.r = r /\ f.lo = e.lo /\ f.hi = e.hi /\ f.old = e.old
      BY <1>1, <1>2, <1>5, <2>1 DEF Exps
    <3>2. /\ r = "SB" => e.hi <= b + words["SB"].size /\ b + spans[1].hi <= e.lo
      BY <1>0, <1>1 DEF RInv, ExpsOK, ExpAt
    <3>3. e.hi <= b + End(r)'
      BY <1>2, <1>7, <1>8, <2>1
    <3>4. words'["SB"].size = words["SB"].size
      BY <1>8, Order
    <3>5. \A i \in DOMAIN spans' : Within(e.lo, e.hi, r, i)'
      BY <1>9, <1>15, <2>1 DEF Within
    <3>6. \A u \in Threads : u # t /\ exp'[u].do = "flush" /\ exp'[u].r = r =>
            exp'[u].hi <= e.lo
      BY <1>12, <1>15, <2>1
    <3>7. End(exp[t].r)' = End(r)' /\ base'[exp'[t].r] = b
      BY <1>1, <1>9, <1>12, <3>1 DEF End
    <3>8. \A i \in DOMAIN spans' : Within(exp[t].lo, exp[t].hi, exp[t].r, i)'
      BY <1>12, <3>1, <3>5 DEF Within
    <3> QED BY <1>0, <1>2, <1>9, <1>12, <3>1, <3>2, <3>3, <3>4, <3>6, <3>7, <3>8 DEF ExpAt
  <2>2. CASE Curr(r) # e.old
    BY <1>0, <1>5, <1>9, <1>12, <2>2 DEF ExpAt, Idle
  <2> QED BY <2>1, <2>2
<1>17. ASSUME NEW u \in Threads, u # t PROVE ExpAt(u)'
  <2>1. CASE exp[u].do = "idle"
    BY <1>0, <1>9, <1>12, <1>17, <2>1 DEF ExpAt
  <2>2. CASE exp[u].do # "idle"
    <3>1. PICK x : x = exp[u]
      OBVIOUS
    <3>2. /\ x.r \in RegionIdx /\ x.lo \in Nat /\ x.hi \in Nat /\ base[x.r] \in Nat
          /\ ExpAt(u) /\ exp'[u] = x
      BY <1>12, <1>17, <2>2, <3>1, Expanding DEF RInv, ExpsOK
    <3>3. words'["SB"].size = words["SB"].size
      BY <1>8, Order
    <3>4. x.do = "flush" => x.hi <= base[x.r] + End(x.r)'
      <4>1. End(x.r) \in Nat /\ End(x.r)' \in Nat /\ End(x.r) <= End(x.r)'
        BY <1>8, <3>2 DEF End
      <4> QED BY <3>1, <3>2, <4>1 DEF ExpAt
    <3>5. ASSUME NEW y \in Threads, y # u, exp'[y].do = "flush", exp'[y].r = x.r, x.do = "flush"
          PROVE  x.hi <= exp'[y].lo \/ exp'[y].hi <= x.lo
      <4>1. CASE y = t
        <5>1. Curr(r) = e.old
          BY <1>11, <1>12, <3>5, <4>1
        <5>2. f.lo = e.lo /\ f.r = r
          BY <1>1, <1>2, <1>5, <5>1 DEF Exps
        <5> QED BY <1>12, <1>15, <1>17, <3>1, <3>5, <4>1, <5>1, <5>2
      <4>2. CASE y # t
        BY <1>12, <3>1, <3>2, <3>5, <4>2 DEF ExpAt
      <4> QED BY <4>1, <4>2
    <3>6. x.do = "flush" => \A i \in DOMAIN spans' : Within(x.lo, x.hi, x.r, i)'
      BY <1>9, <3>1, <3>2 DEF ExpAt, Within
    <3>7. End(exp[u].r)' = End(x.r)'
      BY <3>2 DEF End
    <3>8. x.do = "flush" => \A i \in DOMAIN spans' : Within(exp[u].lo, exp[u].hi, exp[u].r, i)'
      BY <3>2, <3>6 DEF Within
    <3>9. /\ base[x.r] < x.lo /\ x.hi = x.lo + Expand /\ x.lo = x.old
          /\ x.r = "SB" => x.hi <= base[x.r] + words["SB"].size /\ base[x.r] + spans[1].hi <= x.lo
      BY <2>2, <3>1, <3>2 DEF ExpAt
    <3> QED BY <1>0, <1>9, <3>2, <3>3, <3>4, <3>5, <3>7, <3>8, <3>9 DEF ExpAt
  <2> QED BY <2>1, <2>2
<1> QED BY <1>8, <1>10, <1>13, <1>14, <1>16, <1>17 DEF RInv, ExpsOK

\* The flush after the compare-and-swap: the caller has the memory.
LEMMA ExpandReturnStep ==
  ASSUME RInv, NEW t \in Threads, ExpandReturn(t)
  PROVE  RInv'
<1>0. mode = "up" /\ exp[t].do = "flush"
  BY DEF ExpandReturn
<1>1. PICK e, r, b : e = exp[t] /\ r = e.r /\ b = base[r]
  OBVIOUS
<1>2. /\ e \in Exps /\ r \in {"SB", "LAR"} /\ r \in RegionIdx /\ e.lo \in Nat /\ e.hi \in Nat
      /\ b \in Nat /\ b < e.lo /\ e.hi = e.lo + Expand /\ Expand \in Nat
  BY <1>0, <1>1, Expanding
<1>3. /\ words[r] \in Files /\ Proper(words[r].curr) /\ End(r) \in Nat
      /\ 1 \in DOMAIN spans /\ spans[1].r = "SB" /\ spans[1].hi \in Nat
      /\ spans[1].hi <= SavedEnd("SB")
  BY <1>0, <1>2, OpenEnd
<1>4. PICK s : s = [r |-> r, lo |-> e.lo - b, hi |-> e.hi - b]
  OBVIOUS
<1>5. s \in Pieces /\ s.r = r /\ s.lo = e.lo - b /\ s.hi = e.hi - b
  BY <1>2, <1>4 DEF Pieces
<1>6. /\ words' = [words EXCEPT ![r] = words[r]] /\ pm' = [pm EXCEPT ![r] = words[r]]
      /\ exp' = [exp EXCEPT ![t] = Idle] /\ spans' = Append(spans, s)
      /\ UNCHANGED <<words, made, open, addr, mode, at, torn, starts>>
  <2>1. words = [words EXCEPT ![r] = words[r]]
    BY <1>2 DEF RInv, RTypeOK
  <2>2. HandedOut(exp[t]) = Append(spans, s)
    BY <1>1, <1>4 DEF HandedOut
  <2> QED BY <1>1, <2>1, <2>2 DEF ExpandReturn
<1>7. /\ words' \in [RegionIdx -> Files] /\ pm' \in [RegionIdx -> Files] /\ FilesOK'
      /\ SavedEnd(r)' = End(r)
      /\ \A q \in RegionIdx : /\ words'[q].exists <=> words[q].exists
                              /\ words'[q].size = words[q].size
                              /\ words'[q].start = words[q].start
                              /\ SavedEnd(q) \in Nat /\ SavedEnd(q)' \in Nat
                              /\ SavedEnd(q) <= SavedEnd(q)'
  <2>1. End(r) <= words[r].curr.mag
    BY <1>3 DEF End
  <2> QED BY <1>0, <1>2, <1>3, <1>6, <2>1, EndMoves
<1>8. UNCHANGED <<words, made, size, base, recover, addr, mode, at, torn>>
  BY <1>6 DEF open
<1>9. /\ Closed' /\ Progress' /\ FromScratch' /\ MadeOK' /\ WarmOK' /\ DescOK' /\ AddrOK'
      /\ spans' \in Seq(Pieces) /\ 1 \in DOMAIN spans' /\ spans'[1] = spans[1]
  <2>1. spans' = spans \/ \E x \in Pieces : spans' = Append(spans, x)
    BY <1>5, <1>6
  <2> QED BY <1>0, <1>6, <1>7, <2>1, Onward
<1>10. Idle \in Exps /\ Idle.do = "idle"
  BY DEF Idle, Exps
<1>11. /\ exp' \in [Threads -> Exps] /\ exp'[t].do = "idle"
       /\ \A u \in Threads : u # t => exp'[u] = exp[u]
  BY <1>6, <1>10 DEF RInv, RTypeOK
<1>12. RTypeOK'
  BY <1>7, <1>8, <1>9, <1>11 DEF RInv, RTypeOK
<1>13. PICK n : n = Len(spans)
  OBVIOUS
<1>14. /\ n \in Nat /\ n >= 1 /\ DOMAIN spans = 1 .. n /\ DOMAIN spans' = 1 .. n + 1
       /\ spans'[n + 1] = s /\ \A i \in 1 .. n : spans'[i] = spans[i]
  <2>1. spans \in Seq(Pieces)
    BY DEF RInv, RTypeOK
  <2> QED BY <1>3, <1>5, <1>6, <1>13, <2>1
<1>15. /\ e.hi <= b + End(r) /\ \A i \in 1 .. n : Within(e.lo, e.hi, r, i)
       /\ r = "SB" => e.hi <= b + words["SB"].size /\ b + spans[1].hi <= e.lo
       /\ \A u \in Threads : u # t /\ exp[u].do = "flush" /\ exp[u].r = r =>
            e.hi <= exp[u].lo \/ exp[u].hi <= e.lo
  BY <1>0, <1>1, <1>14 DEF RInv, ExpsOK, ExpAt
<1>16. SpansOK'
  <2>1. ASSUME NEW i \in 1 .. n PROVE SpanAt(i)'
    <3>1. words'["SB"].size = words["SB"].size
      BY <1>8
    <3>2. i \in DOMAIN spans /\ i \in DOMAIN spans' /\ spans'[i] = spans[i]
      BY <1>14
    <3> QED BY <1>7, <1>9, <3>1, <3>2, SpansStay
  <2>2. SpanAt(n + 1)'
    <3>1. SavedEnd(spans[n + 1].r)' = End(r)
      BY <1>5, <1>7, <1>14 DEF SavedEnd
    <3>2. 1 <= s.lo /\ s.hi = s.lo + Expand /\ s.hi <= End(r)
      BY <1>2, <1>3, <1>5, <1>15
    <3>3. r = "SB" => s.hi <= words["SB"].size /\ spans[1].hi <= s.lo
      <4>1. words["SB"].size \in Nat
        BY WordsTyped, Order DEF RInv, RTypeOK
      <4> QED BY <1>2, <1>3, <1>5, <1>15, <4>1
    <3> QED BY <1>5, <1>8, <1>9, <1>14, <3>1, <3>2, <3>3 DEF SpanAt
  <2>3. ASSUME NEW i \in 1 .. n, spans[i].r = s.r PROVE s.hi <= spans[i].lo \/ spans[i].hi <= s.lo
    <3>1. spans[i] \in Pieces
      BY <1>14 DEF RInv, RTypeOK
    <3>2. spans[i].lo \in Nat /\ spans[i].hi \in Nat
      BY <3>1 DEF Pieces
    <3>3. e.hi <= b + spans[i].lo \/ b + spans[i].hi <= e.lo
      BY <1>1, <1>5, <1>15, <2>3 DEF Within
    <3> QED BY <1>2, <1>5, <3>2, <3>3
  <2>4. HandedOutOnce'
    <3> SUFFICES ASSUME NEW i \in 1 .. n + 1, NEW j \in 1 .. n + 1, i # j,
                        spans'[i].r = spans'[j].r
                 PROVE  spans'[i].hi <= spans'[j].lo \/ spans'[j].hi <= spans'[i].lo
      BY <1>14 DEF HandedOutOnce
    <3>1. CASE i \in 1 .. n /\ j \in 1 .. n
      BY <1>14, <3>1 DEF RInv, SpansOK, HandedOutOnce
    <3>2. CASE i = n + 1 /\ j \in 1 .. n
      BY <1>14, <2>3, <3>2
    <3>3. CASE j = n + 1 /\ i \in 1 .. n
      BY <1>14, <2>3, <3>3
    <3> QED BY <1>14, <3>1, <3>2, <3>3
  <2>5. \A i \in DOMAIN spans' : SpanAt(i)'
    BY <1>14, <2>1, <2>2
  <2> QED BY <1>3, <1>9, <2>4, <2>5 DEF SpansOK
<1>17. ASSUME NEW u \in Threads PROVE ExpAt(u)'
  <2>1. CASE u = t \/ exp[u].do = "idle"
    BY <1>0, <1>8, <1>11, <2>1 DEF ExpAt
  <2>2. CASE u # t /\ exp[u].do # "idle"
    <3>1. PICK x : x = exp[u]
      OBVIOUS
    <3>2. /\ x.r \in RegionIdx /\ x.lo \in Nat /\ x.hi \in Nat /\ base[x.r] \in Nat
          /\ ExpAt(u) /\ exp'[u] = x
      BY <1>11, <2>2, <3>1, Expanding DEF RInv, ExpsOK
    <3>3. /\ base[x.r] < x.lo /\ x.hi = x.lo + Expand /\ x.lo = x.old
          /\ x.r = "SB" => x.hi <= base[x.r] + words["SB"].size /\ base[x.r] + spans[1].hi <= x.lo
      BY <2>2, <3>1, <3>2 DEF ExpAt
    <3>4. End(exp[u].r)' = End(x.r) /\ (x.do = "flush" => x.hi <= base[x.r] + End(x.r))
      BY <1>8, <3>1, <3>2 DEF End, ExpAt
    <3>5. ASSUME NEW y \in Threads, y # u, exp'[y].do = "flush", exp'[y].r = x.r, x.do = "flush"
          PROVE  x.hi <= exp'[y].lo \/ exp'[y].hi <= x.lo
      BY <1>11, <3>1, <3>2, <3>5 DEF ExpAt
    <3>6. ASSUME NEW i \in DOMAIN spans', x.do = "flush"
          PROVE  Within(exp[u].lo, exp[u].hi, exp[u].r, i)'
      <4>1. CASE i \in 1 .. n
        BY <1>8, <1>14, <3>1, <3>2, <3>6, <4>1 DEF ExpAt, Within
      <4>2. CASE i = n + 1
        <5>1. x.r = r => e.hi <= x.lo \/ x.hi <= e.lo
          BY <1>15, <2>2, <3>1, <3>6
        <5>2. s.r = x.r => x.hi <= b + s.lo \/ b + s.hi <= x.lo
          BY <1>2, <1>5, <3>2, <5>1
        <5>3. s.r = x.r => base'[x.r] = b
          BY <1>1, <1>5, <1>8
        <5> QED BY <1>14, <3>2, <4>2, <5>2, <5>3 DEF Within
      <4> QED BY <1>14, <4>1, <4>2
    <3> QED BY <1>0, <1>8, <1>9, <3>2, <3>3, <3>4, <3>5, <3>6 DEF ExpAt
  <2> QED BY <2>1, <2>2
<1> QED BY <1>7, <1>9, <1>12, <1>16, <1>17 DEF RInv, ExpsOK

\* The invariant is kept by every step of the regions, and by the steps that leave
\* them alone.
LEMMA RegionStepInv ==
  ASSUME RInv, RegionNext
  PROVE  RInv'
<1>1. CASE Start
  BY <1>1, StartStep
<1>2. CASE InitStep
  BY <1>2, InitStepInv
<1>3. CASE Close \/ Die \/ PowerFailure
  BY <1>3, EndSteps
<1>4. CASE \E t \in Threads :
             ExpandCAS(t) \/ ExpandReturn(t) \/ \E r \in RegionIdx : ExpandLoad(t, r)
  BY <1>4, ExpandCASStep, ExpandReturnStep, ExpandLoadStep
<1> QED BY <1>1, <1>2, <1>3, <1>4 DEF RegionNext

\* A step that leaves the regions alone.
LEMMA RegionsSame ==
  ASSUME RInv, UNCHANGED rvars
  PROVE  RInv'
<1>1. UNCHANGED <<words, pm, made, size, base, recover, addr, mode, at, torn, exp, spans>>
  BY DEF rvars, open
<1>2. RTypeOK'
  BY <1>1 DEF RInv, RTypeOK
<1>3. FilesOK' /\ Closed' /\ ExpsOK' /\ SpansOK'
  BY <1>1, FilesSame
<1>4. Progress'
  BY <1>1 DEF RInv, Progress, Live, Passed, Making, FileSize
<1>5. FromScratch' /\ MadeOK' /\ DescOK'
  BY <1>1 DEF RInv, FromScratch, MadeOK, DescOK, Live, Passed, SavedEnd
<1>6. WarmOK' /\ AddrOK'
  BY <1>1 DEF RInv, WarmOK, AddrOK, Live, Passed, Making, End, FileSize
<1> QED BY <1>2, <1>3, <1>4, <1>5, <1>6 DEF RInv
-----------------------------------------------------------------------------
(* Where the regions end, and where superblocks begin *)

\* The SB region does not pass the end of its file.
EndsOK == "meta" \in made => End("SB") <= words["SB"].size

\* The first superblock began at a multiple of SBSIZE where the region was mapped then.
AlignOK ==
  /\ mode = "init" /\ at = <<"META", "sbstart">> =>
       \E k \in Nat : base["SB"] + End("SB") = k * SbPages + Expand
  /\ spans # <<>> => \E l \in Layouts, k \in Nat : l["SB"] + spans[1].lo = k * SbPages

EInv == EndsOK /\ AlignOK

\* What has been handed out is not forgotten.
LEMMA SpansGrow ==
  ASSUME RInv, RegionNext \/ UNCHANGED rvars
  PROVE  \/ spans' = spans
         \/ /\ \A i \in DOMAIN spans : i \in DOMAIN spans' /\ spans'[i] = spans[i]
            /\ spans = <<>> \/ spans'[1] = spans[1]
<1>0. spans \in Seq(Pieces)
  BY DEF RInv, RTypeOK
<1>1. spans' = spans \/ \E s : spans' = Append(spans, s)
  <2>1. CASE UNCHANGED rvars
    BY <2>1 DEF rvars
  <2>2. CASE Start \/ Close \/ Die \/ PowerFailure
    BY <2>2 DEF Start, Close, Die, PowerFailure, Ended
  <2>3. CASE InitStep
    <3>1. CASE \E r \in RegionIdx :
                 CreateFile(r) \/ WriteWords(r) \/ ExpandFirst(r) \/ StoreStart(r) \/ Remap(r)
      BY <3>1, Zenon
         DEF CreateFile, WriteWords, ExpandFirst, StoreStart, Remap, Abort
    <3>2. CASE MakeQueue \/ WarmUp \/ StartBuddy
      BY <3>2, Zenon DEF MakeQueue, WarmUp, StartBuddy, Abort
    <3>3. CASE MakeMeta
      BY <3>3 DEF MakeMeta, HandedOut
    <3> QED BY <2>3, <3>1, <3>2, <3>3 DEF InitStep
  <2>4. CASE \E t \in Threads :
               ExpandCAS(t) \/ ExpandReturn(t) \/ \E r \in RegionIdx : ExpandLoad(t, r)
    <3>1. ASSUME NEW t \in Threads, NEW r \in RegionIdx, ExpandLoad(t, r) PROVE spans' = spans
      BY <3>1, Zenon DEF ExpandLoad, Abort
    <3>2. ASSUME NEW t \in Threads, ExpandCAS(t) PROVE spans' = spans
      BY <3>2 DEF ExpandCAS
    <3>3. ASSUME NEW t \in Threads, ExpandReturn(t) PROVE \E s : spans' = Append(spans, s)
      BY <3>3 DEF ExpandReturn, HandedOut
    <3> QED BY <2>4, <3>1, <3>2, <3>3
  <2> QED BY <2>1, <2>2, <2>3, <2>4 DEF RegionNext
<1>2. ASSUME NEW s, spans' = Append(spans, s)
      PROVE  /\ \A i \in DOMAIN spans : i \in DOMAIN spans' /\ spans'[i] = spans[i]
             /\ spans = <<>> \/ spans'[1] = spans[1]
  <2>1. Len(spans) \in Nat /\ DOMAIN spans = 1 .. Len(spans)
    BY <1>0
  <2>2. DOMAIN spans' = 1 .. Len(spans) + 1 /\ \A i \in 1 .. Len(spans) : spans'[i] = spans[i]
    BY <1>0, <1>2
  <2>3. spans # <<>> => 1 \in DOMAIN spans
    BY <1>0
  <2> QED BY <2>1, <2>2, <2>3
<1> QED BY <1>1, <1>2

\* Initially there is nothing.
LEMMA EndsInit == Init => EInv
  BY DEF Init, EInv, EndsOK, AlignOK

\* A step that creates a file, or part of it.
LEMMA EndsBuild ==
  ASSUME RInv, mode = "init", "meta" \notin made, UNCHANGED <<made, spans>>,
         at' # <<"META", "sbstart">>
  PROVE  EInv'
<1>1. spans = <<>>
  BY NothingYet
<1> QED BY <1>1 DEF EInv, EndsOK, AlignOK

\* A step that leaves the files alone.
LEMMA EndsSame ==
  ASSUME RInv, EInv, UNCHANGED <<words, spans>>, "meta" \in made' => "meta" \in made,
         \/ UNCHANGED <<mode, at, base>>
         \/ mode' # "init"
         \/ at' # <<"META", "sbstart">>
  PROVE  EInv'
<1>1. EndsOK'
  BY DEF EInv, EndsOK, End
<1>2. AlignOK'
  <2>1. CASE UNCHANGED <<mode, at, base>>
    BY <2>1 DEF EInv, AlignOK, End
  <2>2. CASE mode' # "init" \/ at' # <<"META", "sbstart">>
    BY <2>2 DEF EInv, AlignOK
  <2> QED BY <2>1, <2>2
<1> QED BY <1>1, <1>2 DEF EInv

\* The steps that create a file, and those that open one.
LEMMA EndsFileSteps ==
  ASSUME RInv, EInv, NEW r \in RegionIdx,
         CreateFile(r) \/ WriteWords(r) \/ ExpandFirst(r) \/ StoreStart(r) \/ Remap(r)
  PROVE  EInv'
<1>1. CASE CreateFile(r)
  <2>1. /\ mode = "init" /\ at' = <<r, "words">> /\ ~words[r].exists
        /\ UNCHANGED <<made, spans>>
    BY <1>1 DEF CreateFile, At, Goto
  <2>2. "meta" \notin made
    <3>1. ~words["META"].exists
      BY <2>1, Order DEF RInv, Closed
    <3> QED BY <3>1 DEF RInv, MadeOK
  <2> QED BY <2>1, <2>2, EndsBuild
<1>2. CASE WriteWords(r) \/ ExpandFirst(r) \/ StoreStart(r)
  <2>1. /\ mode = "init" /\ at \in {<<r, "words">>, <<r, "expand">>, <<r, "start">>}
        /\ at' # <<"META", "sbstart">> /\ UNCHANGED <<made, spans>>
    BY <1>2 DEF WriteWords, ExpandFirst, StoreStart, At, Goto
  <2>2. "meta" \notin made
    BY <2>1, InTheMaking
  <2> QED BY <2>1, <2>2, EndsBuild
<1>3. CASE Remap(r)
  <2>1. /\ UNCHANGED <<words, spans, made>>
        /\ mode' # "init" \/ at' # <<"META", "sbstart">>
    BY <1>3 DEF Remap, Goto, Abort
  <2> QED BY <2>1, EndsSame
<1> QED BY <1>1, <1>2, <1>3

\* The warm-up: the one expansion that is aligned.
LEMMA EndsWarmUp ==
  ASSUME RInv, EInv, WarmUp
  PROVE  EInv'
<1>0. mode = "init" /\ at = <<"META", "make">>
  BY DEF WarmUp, At
<1>1. /\ "meta" \notin made /\ spans = <<>> /\ words["SB"] \in Files
      /\ base["SB"] \in Nat /\ End("SB") \in Nat /\ Curr("SB") = base["SB"] + End("SB")
      /\ FileSize("SB") \in Nat /\ Expand \in Nat /\ SbPages \in Nat /\ SbPages > 0 /\ Expand > 0
  BY <1>0, InTheMaking, SbEnd, NothingYet, Order, Sizes1 DEF Live
<1>2. PICK lo : lo = AlignUp(Curr("SB"), SbPages)
  OBVIOUS
<1>3. lo \in Nat /\ lo >= base["SB"] /\ \E k \in Nat : lo = k * SbPages
  <2>1. Curr("SB") \in Nat /\ Curr("SB") >= base["SB"]
    BY <1>1
  <2>2. PICK c : c = Curr("SB")
    OBVIOUS
  <2>3. c \in Nat /\ lo = AlignUp(c, SbPages)
    BY <1>2, <2>1, <2>2
  <2>4. lo \in Nat /\ c <= lo /\ \E k \in Nat : lo = k * SbPages
    BY <1>1, <2>3, Aligned
  <2> QED BY <1>1, <2>1, <2>2, <2>4
<1>4. Piece(Curr("SB"), SbPages, Expand).hi = lo + Expand
  BY <1>2 DEF Piece
<1>5. CASE lo + Expand > base["SB"] + FileSize("SB")
  <2>1. ~(lo + Expand <= base["SB"] + FileSize("SB"))
    BY <1>1, <1>3, <1>5
  <2>2. Abort("warmup sb allocation fails!")
    BY <1>4, <2>1 DEF WarmUp
  <2>3. mode' = "warmup sb allocation fails!"
    BY <2>2, Zenon DEF Abort
  <2>4. mode' # "init"
    BY <2>3
  <2>5. UNCHANGED <<words, spans, made>>
    BY <2>2, Zenon DEF Abort
  <2> QED BY <2>4, <2>5, EndsSame
<1>6. CASE ~(lo + Expand > base["SB"] + FileSize("SB"))
  <2>1. /\ words' = [words EXCEPT !["SB"] = [words["SB"] EXCEPT !.curr = To(lo + Expand, base["SB"])]]
        /\ at' = <<"META", "sbstart">> /\ UNCHANGED <<made, mode, spans>> /\ base' = base
    BY <1>4, <1>6 DEF WarmUp, ExpandAlone, StoreFlushed, Goto, open
  <2>2. To(lo + Expand, base["SB"]).mag = (lo + Expand) - base["SB"]
    BY <1>1, <1>3, Forward
  <2>3. words \in [RegionIdx -> Files]
    BY DEF RInv, RTypeOK
  <2>4. words'["SB"].curr = To(lo + Expand, base["SB"])
    BY <1>1, <2>1, <2>3, Order DEF Files
  <2>5. base'["SB"] + End("SB")' = lo + Expand
    BY <1>1, <1>3, <2>1, <2>2, <2>4 DEF End
  <2>6. AlignOK'
    BY <1>1, <1>3, <2>1, <2>5 DEF AlignOK
  <2>7. EndsOK'
    BY <1>1, <2>1 DEF EndsOK
  <2> QED BY <2>6, <2>7 DEF EInv
<1> QED BY <1>5, <1>6

\* The end of the BaseMeta constructor.
LEMMA EndsMakeMeta ==
  ASSUME RInv, EInv, MakeMeta
  PROVE  EInv'
<1>0. mode = "init" /\ at = <<"META", "sbstart">>
  BY DEF MakeMeta, At
<1>1. /\ "meta" \notin made /\ spans = <<>> /\ words["SB"] \in Files
      /\ base["SB"] \in Nat /\ End("SB") \in Nat /\ Curr("SB") = base["SB"] + End("SB")
      /\ words["SB"].size = FileSize("SB") /\ Expand \in Nat /\ SbPages \in Nat /\ base \in Layouts
  BY <1>0, InTheMaking, SbEnd, NothingYet, Order, Sizes1 DEF Live, RInv, Progress
<1>2. End("SB") <= FileSize("SB")
  BY <1>0 DEF RInv, WarmOK
<1>3. PICK k \in Nat : base["SB"] + End("SB") = k * SbPages + Expand
  BY <1>0 DEF EInv, AlignOK
<1>4. PICK a : a = Curr("SB") - Expand
  OBVIOUS
<1>5. /\ words' = [words EXCEPT !["SB"] = [words["SB"] EXCEPT !.start = StartWord("SB", a)]]
      /\ at' = <<"LAST", "buddy">>
      /\ spans' = Append(spans, [r |-> "SB", lo |-> a - base["SB"], hi |-> Curr("SB") - base["SB"]])
  BY <1>4 DEF MakeMeta, StoreFlushed, Goto, HandedOut
<1>6. a = k * SbPages /\ k * SbPages \in Int
  BY <1>1, <1>3, <1>4
<1>7. /\ spans' # <<>> /\ DOMAIN spans' = {1} /\ spans'[1].r = "SB"
      /\ spans'[1].lo = a - base["SB"]
  BY <1>1, <1>5
<1>8. base["SB"] + spans'[1].lo = k * SbPages
  BY <1>1, <1>6, <1>7
<1>9. /\ words'["SB"].curr = words["SB"].curr /\ words'["SB"].size = words["SB"].size
  BY <1>1, <1>5, Order DEF RInv, RTypeOK, Files
<1>10. EndsOK'
  BY <1>1, <1>2, <1>9 DEF EndsOK, End
<1>11. AlignOK'
  BY <1>1, <1>5, <1>8 DEF AlignOK
<1> QED BY <1>10, <1>11 DEF EInv

\* The end of a process: what memory keeps is no further than what was stored.
LEMMA EndsOver ==
  ASSUME RInv, EInv, Close \/ Die \/ PowerFailure
  PROVE  EInv'
<1>1. mode' = "down" /\ UNCHANGED <<made, spans>>
  BY DEF Close, Die, PowerFailure, Ended
<1>2. \A r \in RegionIdx : words'[r] \in {words[r], pm[r]}
  <2>1. CASE Close \/ Die
    BY <2>1 DEF Close, Die
  <2>2. CASE PowerFailure
    BY <2>2 DEF PowerFailure
  <2> QED BY <2>1, <2>2
<1>3. \A r \in RegionIdx : /\ End(r) \in Nat /\ SavedEnd(r) \in Nat /\ SavedEnd(r) <= End(r)
                           /\ pm[r].size = words[r].size /\ words[r].size \in Nat
  BY WordsTyped DEF RInv, RTypeOK, FilesOK, FileOK, End, SavedEnd
<1>4. \A r \in RegionIdx : End(r)' \in Nat /\ End(r)' <= End(r) /\ words'[r].size = words[r].size
  BY <1>2, <1>3 DEF End, SavedEnd
<1>5. EndsOK'
  BY <1>1, <1>3, <1>4, Order DEF EInv, EndsOK
<1>6. AlignOK'
  BY <1>1 DEF EInv, AlignOK
<1> QED BY <1>5, <1>6 DEF EInv

\* The expansions of an open heap.
LEMMA EndsExpand ==
  ASSUME RInv, EInv, NEW t \in Threads, ExpandCAS(t) \/ ExpandReturn(t)
  PROVE  EInv'
<1>0. mode = "up" /\ exp[t].do # "idle" /\ UNCHANGED <<mode, made>>
  BY DEF ExpandCAS, ExpandReturn
<1>1. PICK e, r : e = exp[t] /\ r = e.r
  OBVIOUS
<1>2. /\ e \in Exps /\ r \in {"SB", "LAR"} /\ e.hi \in Nat /\ base[r] \in Nat /\ e.hi > base[r]
      /\ e.lo \in Nat /\ e.hi = e.lo + Expand
  BY <1>0, <1>1, Expanding
<1>3. /\ words[r] \in Files /\ words \in [RegionIdx -> Files] /\ End(r) \in Nat
      /\ 1 \in DOMAIN spans /\ "meta" \in made
  BY <1>0, <1>2, OpenEnd DEF RInv, RTypeOK, Parts
<1>4. r = "SB" => e.hi <= base["SB"] + words["SB"].size
  BY <1>0, <1>1 DEF RInv, ExpsOK, ExpAt
<1>5. CASE ExpandCAS(t)
  <2>1. UNCHANGED <<spans, mode, made>>
    BY <1>5 DEF ExpandCAS
  <2>2. words' = words \/ words' = [words EXCEPT ![r].curr = To(e.hi, base[r])]
    BY <1>1, <1>5 DEF ExpandCAS
  <2>3. CASE words' = words
    BY <1>0, <2>1, <2>3, EndsSame
  <2>4. CASE words' = [words EXCEPT ![r].curr = To(e.hi, base[r])]
    <3>1. To(e.hi, base[r]).mag = e.hi - base[r]
      BY <1>2, Forward
    <3>2. /\ words'[r].curr = To(e.hi, base[r]) /\ words'[r].size = words[r].size
          /\ \A q \in RegionIdx : q # r => words'[q] = words[q]
      BY <1>2, <1>3, <2>4, Order DEF Files
    <3>3. EndsOK'
      <4>1. CASE r = "SB"
        <5>1. words["SB"].size \in Nat
          BY <1>3, Order, WordsTyped
        <5> QED BY <1>2, <1>4, <3>1, <3>2, <4>1, <5>1 DEF EndsOK, End
      <4>2. CASE r # "SB"
        BY <1>3, <3>2, <4>2, Order DEF EInv, EndsOK, End
      <4> QED BY <4>1, <4>2
    <3>4. AlignOK'
      BY <1>0, <2>1 DEF EInv, AlignOK
    <3> QED BY <3>3, <3>4 DEF EInv
  <2> QED BY <2>2, <2>3, <2>4
<1>6. CASE ExpandReturn(t)
  <2>1. /\ spans' = Append(spans, [r |-> r, lo |-> e.lo - base[r], hi |-> e.hi - base[r]])
        /\ words' = words
    BY <1>1, <1>6 DEF ExpandReturn, HandedOut
  <2>2. spans \in Seq(Pieces) /\ spans # <<>>
    BY <1>3 DEF RInv, RTypeOK
  <2>3. PICK n : n = Len(spans)
    OBVIOUS
  <2>4. /\ n \in Nat /\ DOMAIN spans = 1 .. n /\ DOMAIN spans' = 1 .. n + 1
        /\ spans'[n + 1].r = r /\ \A i \in 1 .. n : spans'[i] = spans[i]
    BY <2>1, <2>2, <2>3
  <2>5. spans'[1] = spans[1]
    BY <1>3, <2>4
  <2>6. EndsOK'
    BY <1>0, <2>1 DEF EInv, EndsOK, End
  <2>7. AlignOK'
    BY <1>0, <2>2, <2>5 DEF EInv, AlignOK
  <2> QED BY <2>6, <2>7 DEF EInv
<1> QED BY <1>5, <1>6

\* Every step of the regions.
LEMMA EndsStep ==
  ASSUME RInv, EInv, RegionNext \/ UNCHANGED rvars
  PROVE  EInv'
<1>1. CASE UNCHANGED rvars
  <2>1. UNCHANGED <<words, spans, made, mode, at, base>>
    BY <1>1 DEF rvars, open
  <2> QED BY <2>1, EndsSame
<1>2. CASE Start
  <2>1. UNCHANGED <<words, spans, made>> /\ at' = <<"DESC", "map">>
    BY <1>2 DEF Start, Goto
  <2> QED BY <2>1, EndsSame
<1>3. CASE MakeQueue
  <2>1. UNCHANGED <<words, spans>> /\ at' = <<"META", "map">> /\ made' = made \cup {"queue"}
    BY <1>3 DEF MakeQueue, Goto
  <2> QED BY <2>1, EndsSame
<1>4. CASE StartBuddy
  <2>1. CASE recover /\ "buddy" \notin made
    <3>1. Abort("walk does not end")
      BY <1>4, <2>1 DEF StartBuddy
    <3>2. mode' = "walk does not end" /\ UNCHANGED <<words, spans, made>>
      BY <3>1, Zenon DEF Abort
    <3>3. mode' # "init"
      BY <3>2
    <3> QED BY <3>2, <3>3, EndsSame
  <2>2. CASE ~(recover /\ "buddy" \notin made)
    <3>1. UNCHANGED <<words, spans>> /\ mode' = "up" /\ made' = made \cup {"buddy"}
      BY <1>4, <2>2 DEF StartBuddy
    <3> QED BY <3>1, EndsSame
  <2> QED BY <2>1, <2>2
<1>5. CASE \E t \in Threads, r \in RegionIdx : ExpandLoad(t, r)
  <2>1. /\ mode = "up" /\ UNCHANGED <<words, spans, made>>
        /\ mode' = "up" \/ mode' = "space runs out"
    BY <1>5, Zenon DEF ExpandLoad, Abort
  <2>2. mode' # "init"
    BY <2>1
  <2> QED BY <2>1, <2>2, EndsSame
<1>6. CASE InitStep
  BY <1>3, <1>4, <1>6, EndsFileSteps, EndsWarmUp, EndsMakeMeta DEF InitStep
<1>7. CASE \E t \in Threads : ExpandCAS(t) \/ ExpandReturn(t)
  BY <1>7, EndsExpand
<1>8. CASE Close \/ Die \/ PowerFailure
  BY <1>8, EndsOver
<1> QED BY <1>1, <1>2, <1>5, <1>6, <1>7, <1>8 DEF RegionNext
=============================================================================
