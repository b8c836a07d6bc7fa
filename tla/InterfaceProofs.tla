-------------------------- MODULE InterfaceProofs --------------------------
(***************************************************************************)
(* Proofs about Interface: what the public functions rely on when they     *)
(* tell objects apart by their address, for any sizes of heaps and of      *)
(* objects, any number of threads and processes, and files mapped          *)
(* anywhere.                                                               *)
(***************************************************************************)
EXTENDS Interface, RegionsProofs
-----------------------------------------------------------------------------
(* Size classes *)

\* Sizes that get a block of a class.
SmallRequests == {n \in Nat : 0 < n /\ n <= MAX_SZ}
Classes == 0 .. NLIST - 1

\* MAX_SZ as a number.
LEMMA SmallSizes ==
  ASSUME NEW n
  PROVE  n \in SmallRequests <=> n \in Int /\ 1 <= n /\ n <= 24576
  BY DEF SmallRequests, MAX_SZ

\* Index stays inside indextosize and the arrays of lists.
LEMMA IndexIsClass == ASSUME NEW n \in SmallRequests PROVE Index(n) \in Classes
  <1>0. n \in Int /\ 1 <= n /\ n <= 24576
    BY SmallSizes
  <1> USE DEF Classes, NLIST
  <1>1. CASE n <= 128
    BY <1>0, <1>1 DEF Index, IndexIn
  <1>2. CASE n > 128 /\ n <= 1024
    BY <1>0, <1>2 DEF Index, IndexIn
  <1>3. CASE n > 1024 /\ n <= 8192
    BY <1>0, <1>3 DEF Index, IndexIn
  <1>4. CASE n > 8192
    BY <1>0, <1>4 DEF Index, IndexIn
  <1> QED BY <1>0, <1>1, <1>2, <1>3, <1>4

\* The two ways from a size to its class agree: the block size RoundUp computes is
\* the one the table holds at Index, so sizetoindex, which do_malloc looks the
\* rounded size up in, always has it.
THEOREM TablesAgree ==
  ASSUME NEW n \in SmallRequests
  PROVE  getsizefromindex(Index(n)) = RoundUp(n) /\ HasClass(n)
  <1>0. n \in Int /\ 1 <= n /\ n <= 24576
    BY SmallSizes
  <1>1. getsizefromindex(Index(n)) = RoundUp(n)
    <2>1. CASE n <= 128
      BY <1>0, <2>1 DEF Index, IndexIn, getsizefromindex, RoundUp, RoundTo, Step
    <2>2. CASE n > 128 /\ n <= 1024
      BY <1>0, <2>2 DEF Index, IndexIn, getsizefromindex, RoundUp, RoundTo, Step
    <2>3. CASE n > 1024 /\ n <= 8192
      BY <1>0, <2>3 DEF Index, IndexIn, getsizefromindex, RoundUp, RoundTo, Step
    <2>4. CASE n > 8192
      BY <1>0, <2>4 DEF Index, IndexIn, getsizefromindex, RoundUp, RoundTo, Step
    <2> QED BY <1>0, <2>1, <2>2, <2>3, <2>4
  <1>2. HasClass(n)
    <2>1. Index(n) \in 0 .. NLIST - 1
      BY IndexIsClass DEF Classes
    <2> QED BY <1>1, <2>1, Zenon DEF HasClass
  <1> QED BY <1>1, <1>2

\* A class found for a block size is that size's own: going from the table to Index
\* and back changes nothing, so no two classes share blocks.
THEOREM ClassIsItsOwn ==
  ASSUME NEW i \in Classes
  PROVE  getsizefromindex(i) \in SmallRequests /\ Index(getsizefromindex(i)) = i
  <1>0. i \in Int /\ 0 <= i /\ i <= 159
    BY DEF Classes, NLIST
  <1>1. CASE i < 16
    <2>1. getsizefromindex(i) = (i + 1) * 8
      BY <1>0, <1>1 DEF getsizefromindex
    <2>2. (i + 1) * 8 \in SmallRequests
      BY <1>0, <1>1, SmallSizes
    <2>3. Index((i + 1) * 8) = i
      BY <1>0, <1>1 DEF Index, IndexIn
    <2>4. getsizefromindex(i) \in SmallRequests
      BY <2>1, <2>2
    <2>5. Index(getsizefromindex(i)) = i
      BY <2>1, <2>3
    <2> QED BY <2>4, <2>5
  <1>2. CASE i >= 16 /\ i < 72
    <2>1. getsizefromindex(i) = 128 + (i - 15) * 16
      BY <1>0, <1>2 DEF getsizefromindex
    <2>2. 128 + (i - 15) * 16 \in SmallRequests
      BY <1>0, <1>2, SmallSizes
    <2>3. Index(128 + (i - 15) * 16) = i
      BY <1>0, <1>2 DEF Index, IndexIn
    <2>4. getsizefromindex(i) \in SmallRequests
      BY <2>1, <2>2
    <2>5. Index(getsizefromindex(i)) = i
      BY <2>1, <2>3
    <2> QED BY <2>4, <2>5
  <1>3. CASE i >= 72 /\ i < 128
    <2>1. getsizefromindex(i) = 1024 + (i - 71) * 128
      BY <1>0, <1>3 DEF getsizefromindex
    <2>2. 1024 + (i - 71) * 128 \in SmallRequests
      BY <1>0, <1>3, SmallSizes
    <2>3. Index(1024 + (i - 71) * 128) = i
      BY <1>0, <1>3 DEF Index, IndexIn
    <2>4. getsizefromindex(i) \in SmallRequests
      BY <2>1, <2>2
    <2>5. Index(getsizefromindex(i)) = i
      BY <2>1, <2>3
    <2> QED BY <2>4, <2>5
  <1>4. CASE i >= 128
    <2>1. getsizefromindex(i) = 8192 + (i - 127) * 512
      BY <1>0, <1>4 DEF getsizefromindex
    <2>2. 8192 + (i - 127) * 512 \in SmallRequests
      BY <1>0, <1>4, SmallSizes
    <2>3. Index(8192 + (i - 127) * 512) = i
      BY <1>0, <1>4 DEF Index, IndexIn
    <2>4. getsizefromindex(i) \in SmallRequests
      BY <2>1, <2>2
    <2>5. Index(getsizefromindex(i)) = i
      BY <2>1, <2>3
    <2> QED BY <2>4, <2>5
  <1> QED BY <1>0, <1>1, <1>2, <1>3, <1>4

\* _RoundUp gives the least multiple that is not below size, for the four steps.
LEMMA RoundToLeast ==
  ASSUME NEW n \in Nat, NEW q \in Nat
  PROVE  /\ n <= q * 8 => RoundTo(n, 8) <= q * 8
         /\ n <= q * 16 => RoundTo(n, 16) <= q * 16
         /\ n <= q * 128 => RoundTo(n, 128) <= q * 128
         /\ n <= q * 512 => RoundTo(n, 512) <= q * 512
  <1>1. n <= q * 8 => RoundTo(n, 8) <= q * 8
    BY DEF RoundTo
  <1>2. n <= q * 16 => RoundTo(n, 16) <= q * 16
    BY DEF RoundTo
  <1>3. n <= q * 128 => RoundTo(n, 128) <= q * 128
    BY DEF RoundTo
  <1>4. n <= q * 512 => RoundTo(n, 512) <= q * 512
    BY DEF RoundTo
  <1> QED BY <1>1, <1>2, <1>3, <1>4

\* Rounding does not leave the range of its step.
LEMMA RoundUpStaysIn ==
  ASSUME NEW n \in SmallRequests
  PROVE  /\ RoundUp(n) \in Nat
         /\ n <= 128 => RoundUp(n) <= 128
         /\ n <= 1024 => RoundUp(n) <= 1024
         /\ n <= 8192 => RoundUp(n) <= 8192
  <1>0. n \in Int /\ 1 <= n /\ n <= 24576
    BY SmallSizes
  <1>1. CASE n <= 128
    BY <1>0, <1>1 DEF RoundUp, RoundTo, Step
  <1>2. CASE n > 128 /\ n <= 1024
    BY <1>0, <1>2 DEF RoundUp, RoundTo, Step
  <1>3. CASE n > 1024 /\ n <= 8192
    BY <1>0, <1>3 DEF RoundUp, RoundTo, Step
  <1>4. CASE n > 8192
    BY <1>0, <1>4 DEF RoundUp, RoundTo, Step
  <1> QED BY <1>0, <1>1, <1>2, <1>3, <1>4

\* A request gets a block it fits in, and no class with smaller blocks would do:
\* neither a byte short nor a class too far at any boundary between the four steps.
THEOREM LeastClass ==
  ASSUME NEW n \in SmallRequests
  PROVE  /\ n <= RoundUp(n)
         /\ \A i \in Classes : n <= getsizefromindex(i) => RoundUp(n) <= getsizefromindex(i)
  <1>0. n \in Nat /\ 1 <= n /\ n <= 24576
    BY SmallSizes
  <1>1. n <= RoundUp(n)
    BY <1>0 DEF RoundUp, RoundTo, Step
  <1>2. ASSUME NEW i \in Classes, n <= getsizefromindex(i)
        PROVE  RoundUp(n) <= getsizefromindex(i)
    <2>0. i \in Nat /\ i < 160
      BY DEF Classes, NLIST
    <2>1. CASE i < 16
      <3>1. getsizefromindex(i) = (i + 1) * 8 /\ i + 1 \in Nat
        BY <2>0, <2>1 DEF getsizefromindex
      <3>2. RoundUp(n) = RoundTo(n, 8)
        BY <1>0, <1>2, <2>0, <2>1, <3>1 DEF RoundUp, Step
      <3>3. n <= (i + 1) * 8 => RoundTo(n, 8) <= (i + 1) * 8
        BY <1>0, <3>1, RoundToLeast
      <3> QED BY <1>2, <3>1, <3>2, <3>3
    <2>2. CASE i >= 16 /\ i < 72
      <3>1. getsizefromindex(i) = (i - 7) * 16 /\ i - 7 \in Nat
        BY <2>0, <2>2 DEF getsizefromindex
      <3>2. CASE n <= 128
        BY <2>0, <2>2, <3>1, <3>2, RoundUpStaysIn
      <3>3. CASE n > 128
        <4>1. RoundUp(n) = RoundTo(n, 16)
          BY <1>0, <1>2, <2>0, <2>2, <3>1, <3>3 DEF RoundUp, Step
        <4> QED BY <1>0, <1>2, <3>1, <4>1, RoundToLeast
      <3> QED BY <1>0, <3>2, <3>3
    <2>3. CASE i >= 72 /\ i < 128
      <3>1. getsizefromindex(i) = (i - 63) * 128 /\ i - 63 \in Nat
        BY <2>0, <2>3 DEF getsizefromindex
      <3>2. CASE n <= 1024
        BY <2>0, <2>3, <3>1, <3>2, RoundUpStaysIn
      <3>3. CASE n > 1024
        <4>1. RoundUp(n) = RoundTo(n, 128)
          BY <1>0, <1>2, <2>0, <2>3, <3>1, <3>3 DEF RoundUp, Step
        <4> QED BY <1>0, <1>2, <3>1, <4>1, RoundToLeast
      <3> QED BY <1>0, <3>2, <3>3
    <2>4. CASE i >= 128
      <3>1. getsizefromindex(i) = (i - 111) * 512 /\ i - 111 \in Nat
        BY <2>0, <2>4 DEF getsizefromindex
      <3>2. CASE n <= 8192
        BY <2>0, <2>4, <3>1, <3>2, RoundUpStaysIn
      <3>3. CASE n > 8192
        <4>1. RoundUp(n) = RoundTo(n, 512)
          BY <1>0, <3>3 DEF RoundUp, Step
        <4> QED BY <1>0, <1>2, <3>1, <4>1, RoundToLeast
      <3> QED BY <1>0, <3>2, <3>3
    <2> QED BY <2>0, <2>1, <2>2, <2>3, <2>4
  <1> QED BY <1>1, <1>2

\* A request that is not smaller never lands in a smaller block: what BXP_realloc
\* copies, the whole old block, fits the new one.
THEOREM GrowingFits ==
  ASSUME NEW n \in SmallRequests, NEW m \in SmallRequests, n <= m
  PROVE  RoundUp(n) <= RoundUp(m)
  <1>1. n <= getsizefromindex(Index(m))
    <2>1. RoundUp(m) \in Nat
      BY RoundUpStaysIn
    <2>2. m <= RoundUp(m)
      BY LeastClass
    <2>3. n <= RoundUp(m)
      BY <2>1, <2>2, SmallSizes
    <2> QED BY <2>3, TablesAgree
  <1>2. RoundUp(n) <= getsizefromindex(Index(m))
    BY <1>1, LeastClass, IndexIsClass
  <1> QED BY <1>2, TablesAgree
-----------------------------------------------------------------------------
(* The public functions *)

\* Where the SB region is mapped, its superblocks lie alike: desc_lookup shifts
\* addresses, not distances.
Congruent == \A l, m \in Layouts : \E k \in Int : l["SB"] = m["SB"] + k * SbPages

\* The type of an object.
Objects == [home : {"SB", "LAR"}, off : Nat, req : Nat, size : Nat]

\* A block of a size class, a whole superblock, or a large object.
IsClass(o) == o.req \in SmallRequests /\ o.size = RoundUp(o.req)
IsWhole(o) ==
  MAX_SZ < o.req /\ o.req <= SBSIZE /\ o.size = SBSIZE /\ o.off = SbOf(o) * SbPages
IsLarge(o) == o.req > SBSIZE /\ o.size = o.req /\ o.off \in LarChoices

\* An object the interface may have handed out.
Shaped(o) ==
  /\ o \in Objects
  /\ o.home = "LAR" => IsLarge(o)
  /\ o.home = "SB" => o.off >= 1 /\ SbOf(o) \in SbChoices /\ (IsClass(o) \/ IsWhole(o))

\* Its descriptor says how big it is.
HasSize(o, d) == o.home = "SB" => SbOf(o) \in DOMAIN d /\ d[SbOf(o)] = o.size

\* Objects have the shapes above, no two are in one place, the root leads to the named
\* one, and no descriptor speaks of blocks larger than a superblock.
ObjsOK == \A o \in objs : Shaped(o) /\ HasSize(o, dsc)
Apart == \A o, x \in objs : o.home = x.home /\ o.off = x.off => o = x
RootOK == named.home = "SB" => root = named.off /\ root \in Nat /\ root >= 1
DescsOK == \A i \in DOMAIN dsc : dsc[i] \in Nat /\ dsc[i] <= SBSIZE

\* The inductive invariant.
ObjInv == ObjsOK /\ Apart /\ RootOK /\ DescsOK
IInv == RInv /\ EInv /\ ObjInv
-----------------------------------------------------------------------------
(* Arithmetic *)

\* Dividing by the size of a superblock.
LEMMA Quotient ==
  ASSUME NEW d \in Nat, NEW f \in Nat, f < SbPages
  PROVE  (d * SbPages + f) \div SbPages = d
<1>1. SbPages \in Nat /\ SbPages > 0
  BY Sizes1
<1>2. PICK x : x = d * SbPages + f
  OBVIOUS
<1>3. x \in Nat /\ d * SbPages \in Nat /\ d * SbPages <= x /\ x < d * SbPages + SbPages
  BY <1>1, <1>2
<1>4. PICK q : q = x \div SbPages
  OBVIOUS
<1>5. q \in Nat /\ q * SbPages \in Nat /\ q * SbPages <= x /\ x < q * SbPages + SbPages
  BY <1>1, <1>3, <1>4
<1>6. ~(q < d)
  <2>1. ASSUME q < d PROVE (q + 1) * SbPages <= d * SbPages
    BY <1>1, <1>5, <2>1
  <2> QED BY <1>1, <1>3, <1>5, <2>1
<1>7. ~(d < q)
  <2>1. ASSUME d < q PROVE (d + 1) * SbPages <= q * SbPages
    BY <1>1, <1>5, <2>1
  <2> QED BY <1>1, <1>3, <1>5, <2>1
<1> QED BY <1>2, <1>4, <1>5, <1>6, <1>7

\* The superblock an offset is in.
LEMMA InSuperblock ==
  ASSUME NEW x \in Nat
  PROVE  /\ x \div SbPages \in Nat /\ (x \div SbPages) * SbPages \in Nat
         /\ (x \div SbPages) * SbPages <= x /\ x < (x \div SbPages) * SbPages + SbPages
<1>1. SbPages \in Nat /\ SbPages > 0
  BY Sizes1
<1> QED BY <1>1
-----------------------------------------------------------------------------
(* Where objects are *)

\* A superblock in use lies inside the region, and inside its file, and has a
\* descriptor.
LEMMA Choices ==
  ASSUME RInv, NEW d \in SbChoices
  PROVE  /\ d \in Nat /\ d >= 1
         /\ mode = "up" =>
              /\ spans[1].lo \in Nat /\ d * SbPages \in Nat
              /\ spans[1].lo + d * SbPages + SbPages <= End("SB")
              /\ spans[1].lo + d * SbPages + SbPages <= FileSize("SB")
              /\ d < Requested(size)["DESC"] * DescsPerPage
<1>1. /\ SbPages \in Nat /\ SbPages > 0 /\ DescsPerPage \in Nat /\ DescsPerPage >= 2
      /\ Expand \in Nat /\ SbPages * DescsPerPage \in Nat /\ Expand > SbPages * DescsPerPage
      /\ 2 * SbPages <= SbPages * DescsPerPage
  <2>1. SbPages \in Nat /\ SbPages > 0 /\ DescsPerPage \in Nat /\ DescsPerPage >= 2
    BY Sizes1, RegionsAssumption
  <2>2. SbPages * DescsPerPage \in Nat /\ 2 * SbPages <= SbPages * DescsPerPage
    BY <2>1
  <2> QED BY <2>1, <2>2, RegionsAssumption
<1>2. \/ d = 1
      \/ \E i \in DOMAIN spans : /\ spans[i].r = "SB" /\ i > 1
                                 /\ d = (spans[i].lo - spans[1].lo) \div SbPages
  BY DEF SbChoices
<1>3. ASSUME NEW i \in DOMAIN spans
      PROVE  /\ spans[i].lo \in Nat /\ spans[i].hi \in Nat /\ 1 <= spans[i].lo
             /\ spans[i].hi = spans[i].lo + Expand
             /\ 1 \in DOMAIN spans /\ spans[1].r = "SB"
             /\ spans[i].r = "SB" =>
                  /\ spans[i].hi <= SavedEnd("SB") /\ spans[i].hi <= words["SB"].size
                  /\ i # 1 => spans[1].hi <= spans[i].lo
  <2>1. spans \in Seq(Pieces) /\ SpanAt(i)
    BY DEF RInv, RTypeOK, SpansOK
  <2>2. spans[i] \in Pieces /\ 1 \in DOMAIN spans /\ spans # <<>>
    BY <2>1
  <2>3. spans[1].r = "SB"
    BY <2>2 DEF RInv, SpansOK
  <2> QED BY <2>1, <2>2, <2>3 DEF SpanAt, Pieces
<1>4. ASSUME NEW i \in DOMAIN spans, spans[i].r = "SB", i > 1,
             d = (spans[i].lo - spans[1].lo) \div SbPages
      PROVE  /\ d \in Nat /\ d >= 1 /\ d * SbPages \in Nat /\ spans[1].lo \in Nat
             /\ 1 <= spans[1].lo
             /\ spans[1].lo + d * SbPages + Expand <= spans[i].hi
  <2>1. PICK x : x = spans[i].lo - spans[1].lo
    OBVIOUS
  <2>2. /\ spans[1].lo \in Nat /\ 1 <= spans[1].lo /\ spans[i].lo \in Nat
        /\ spans[1].hi = spans[1].lo + Expand
        /\ spans[1].hi <= spans[i].lo /\ spans[i].hi = spans[i].lo + Expand
    BY <1>3, <1>4
  <2>3. x \in Nat /\ x >= Expand /\ d = x \div SbPages
    BY <1>1, <1>4, <2>1, <2>2
  <2>4. d \in Nat /\ d * SbPages \in Nat /\ d * SbPages <= x /\ x < d * SbPages + SbPages
    BY <2>3, InSuperblock
  <2>5. d >= 1
    BY <1>1, <2>3, <2>4
  <2> QED BY <1>1, <2>1, <2>2, <2>4, <2>5
<1>5. d \in Nat /\ d >= 1
  BY <1>2, <1>4
<1>6. ASSUME mode = "up"
      PROVE  /\ spans[1].lo \in Nat /\ d * SbPages \in Nat
             /\ spans[1].lo + d * SbPages + SbPages <= End("SB")
             /\ spans[1].lo + d * SbPages + SbPages <= FileSize("SB")
             /\ d < Requested(size)["DESC"] * DescsPerPage
  <2>1. /\ 1 \in DOMAIN spans /\ spans[1].r = "SB" /\ SavedEnd("SB") <= End("SB")
        /\ SavedEnd("SB") \in Nat /\ End("SB") \in Nat /\ words["SB"].size = FileSize("SB")
        /\ size \in HeapSizes
    BY <1>6, OpenEnd DEF RInv, RTypeOK
  <2>2. FileSize("SB") \in Nat /\ size \in Nat /\ size >= Expand
    BY <2>1, FileSizes, Order, Sizes1 DEF FileSize
  <2>3. PICK s : s = size \div SbPages
    OBVIOUS
  <2>4. s \in Nat /\ s * SbPages \in Nat /\ size < s * SbPages + SbPages
    BY <2>2, <2>3, InSuperblock
  <2>5. FileSize("SB") = s * SbPages + 2
    BY <2>3 DEF FileSize, FileSizeIn, Requested
  <2>6. PICK p : p = s \div DescsPerPage
    OBVIOUS
  <2>7. /\ p \in Nat /\ p * DescsPerPage \in Nat /\ p * DescsPerPage <= s
        /\ s < p * DescsPerPage + DescsPerPage
    BY <1>1, <2>4, <2>6
  <2>8. Requested(size)["DESC"] = p
    BY <2>3, <2>6 DEF Requested
  <2>9. s >= DescsPerPage /\ p * DescsPerPage >= DescsPerPage
    <3>1. SbPages * DescsPerPage < s * SbPages + SbPages
      BY <1>1, <2>2, <2>4
    <3>2. ~(s < DescsPerPage)
      <4>1. ASSUME s < DescsPerPage PROVE (s + 1) * SbPages <= DescsPerPage * SbPages
        BY <1>1, <2>4, <4>1
      <4> QED BY <1>1, <2>4, <3>1, <4>1
    <3>3. p >= 1
      BY <1>1, <2>4, <2>7, <3>2
    <3>4. p * DescsPerPage >= 1 * DescsPerPage
      BY <1>1, <2>7, <3>3
    <3> QED BY <1>1, <2>4, <3>2, <3>4
  <2>10. CASE d = 1
    <3>1. /\ spans[1].lo \in Nat /\ spans[1].hi = spans[1].lo + Expand
          /\ spans[1].hi <= SavedEnd("SB") /\ spans[1].hi <= FileSize("SB")
      BY <1>3, <2>1
    <3> QED BY <1>1, <2>1, <2>2, <2>7, <2>8, <2>9, <2>10, <3>1
  <2>11. CASE d # 1
    <3>1. PICK i \in DOMAIN spans : /\ spans[i].r = "SB" /\ i > 1
                                    /\ d = (spans[i].lo - spans[1].lo) \div SbPages
      BY <1>2, <2>11
    <3>2. /\ d * SbPages \in Nat /\ spans[1].lo \in Nat /\ 1 <= spans[1].lo
          /\ spans[1].lo + d * SbPages + Expand <= spans[i].hi
          /\ spans[i].hi \in Nat /\ spans[i].hi <= SavedEnd("SB") /\ spans[i].hi <= FileSize("SB")
      BY <1>3, <1>4, <2>1, <3>1
    <3>3. d * SbPages + SbPages * DescsPerPage <= s * SbPages
      BY <1>1, <2>2, <2>4, <2>5, <3>2
    <3>4. d + DescsPerPage <= s
      <4>1. ASSUME s < d + DescsPerPage PROVE (s + 1) * SbPages <= (d + DescsPerPage) * SbPages
        BY <1>1, <1>5, <2>4, <4>1
      <4>2. (d + DescsPerPage) * SbPages = d * SbPages + SbPages * DescsPerPage
        BY <1>1, <1>5
      <4> QED BY <1>1, <1>5, <2>4, <3>2, <3>3, <4>1, <4>2
    <3>5. d < p * DescsPerPage
      BY <1>1, <1>5, <2>4, <2>7, <3>4
    <3> QED BY <1>1, <2>1, <2>2, <2>8, <3>2, <3>5
  <2> QED BY <2>10, <2>11
<1> QED BY <1>5, <1>6

\* Where the two regions with objects start in an open heap, torn or not.
LEMMA OpenAddr ==
  ASSUME RInv, mode = "up"
  PROVE  /\ addr["SB"] = base["SB"] + spans[1].lo /\ addr["LAR"] = base["LAR"] + 1
         /\ base["SB"] \in Nat /\ base["LAR"] \in Nat /\ spans[1].lo \in Nat
         /\ addr["SB"] \in Nat /\ addr["LAR"] \in Nat /\ base \in Layouts
<1>1. /\ at = <<"LAST", "buddy">> /\ "buddy" \in made /\ base \in Layouts
      /\ words["META"].exists /\ words["SB"].start = spans[1].lo /\ words["LAR"].start = 1
  BY DEF RInv, Progress, MadeOK, Parts, Live
<1>2. /\ base \in [RegionIdx -> Nat] /\ addr \in [RegionIdx -> Nat]
      /\ spans \in Seq(Pieces) /\ 1 \in DOMAIN spans
  BY OpenEnd DEF RInv, RTypeOK
<1>3. addr["SB"] = base["SB"] + words["SB"].start /\ addr["LAR"] = base["LAR"] + words["LAR"].start
  BY <1>1, Order DEF RInv, AddrOK, Passed, Making, Live
<1>4. spans[1] \in Pieces
  BY <1>2
<1> QED BY <1>1, <1>2, <1>3, <1>4, Order DEF Pieces

\* The sizes of blocks.
LEMMA BlockSizes ==
  ASSUME NEW n \in SmallRequests
  PROVE  RoundUp(n) \in Nat /\ n <= RoundUp(n) /\ RoundUp(n) < SBSIZE /\ HasClass(n)
<1>1. RoundUp(n) = getsizefromindex(Index(n)) /\ HasClass(n) /\ Index(n) \in Classes
  BY TablesAgree, IndexIsClass
<1>2. RoundUp(n) \in SmallRequests
  BY <1>1, ClassIsItsOwn
<1>3. RoundUp(n) \in Nat /\ RoundUp(n) <= 24576
  BY <1>2, SmallSizes
<1> QED BY <1>1, <1>3, LeastClass DEF SBSIZE

\* A place in the large region lies before the end of what has been handed out of it.
LEMMA LarPlaces ==
  ASSUME RInv, NEW f \in LarChoices
  PROVE  f \in Nat /\ (mode = "up" => 1 + f < End("LAR"))
<1>0. SbPages \in Nat /\ Expand \in Nat /\ 2 * SbPages < Expand /\ Expand > 0
  <2>1. SbPages \in Nat /\ SbPages > 0 /\ DescsPerPage \in Nat /\ DescsPerPage >= 2
    BY Sizes1, RegionsAssumption
  <2>2. SbPages * DescsPerPage \in Nat /\ 2 * SbPages <= SbPages * DescsPerPage
    BY <2>1
  <2> QED BY <2>1, <2>2, Sizes1, RegionsAssumption
<1>1. mode = "up" => /\ End("LAR") \in Nat /\ SavedEnd("LAR") \in Nat
                     /\ SavedEnd("LAR") <= End("LAR") /\ 1 + Expand <= SavedEnd("LAR")
  BY OpenEnd
<1>2. CASE f = 0
  BY <1>0, <1>1, <1>2
<1>3. CASE f # 0
  <2>1. PICK i \in DOMAIN spans : spans[i].r = "LAR" /\ f = spans[i].lo - 1 + 2 * SbPages
    BY <1>3 DEF LarChoices
  <2>2. SpanAt(i) /\ spans[i] \in Pieces
    BY DEF RInv, RTypeOK, SpansOK
  <2>3. /\ spans[i].lo \in Nat /\ 1 <= spans[i].lo /\ spans[i].hi = spans[i].lo + Expand
        /\ spans[i].hi <= SavedEnd("LAR")
    BY <2>1, <2>2 DEF SpanAt, Pieces
  <2> QED BY <1>0, <1>1, <2>1, <2>3
<1> QED BY <1>2, <1>3

\* What BXP_malloc may hand out for a request.
LEMMA PlacesShaped ==
  ASSUME RInv, NEW n \in Sizes, NEW o \in Places(n)
  PROVE  /\ Shaped(o) /\ o.req = n /\ \A x \in objs : x.home # o.home \/ x.off # o.off
         /\ o.home = "SB" <=> n <= SBSIZE
         /\ o.home = "SB" /\ SbOf(o) \in DOMAIN dsc => dsc[SbOf(o)] = o.size /\ o.size # SBSIZE
<1>0. n \in Nat /\ n >= 1 /\ SbPages \in Nat /\ SbPages > 0
  BY InterfaceAssumption, Sizes1
<1>1. o \in Result(n) /\ \A x \in objs : x.home # o.home \/ x.off # o.off
  BY DEF Places
<1> USE DEF SBSIZE, MAX_SZ
<1>2. CASE n > SBSIZE
  <2>1. PICK f \in LarChoices : o = [home |-> "LAR", off |-> f, req |-> n, size |-> n]
    <3> HIDE DEF SBSIZE, MAX_SZ
    <3>1. Result(n) = {[home |-> "LAR", off |-> f, req |-> n, size |-> n] : f \in LarChoices}
      <4>1. ~(n > MAX_SZ /\ n <= SBSIZE) /\ ~(n <= MAX_SZ /\ HasClass(n))
        BY <1>0, <1>2 DEF SBSIZE, MAX_SZ
      <4> QED BY <1>2, <4>1 DEF Result
    <3> QED BY <1>1, <3>1
  <2>2. f \in Nat
    BY LarPlaces
  <2>3. o \in Objects /\ o.home = "LAR" /\ IsLarge(o) /\ o.req = n
    BY <1>0, <1>2, <2>1, <2>2 DEF Objects, IsLarge
  <2> QED BY <1>0, <1>1, <1>2, <2>3 DEF Shaped
<1>3. CASE n > MAX_SZ /\ n <= SBSIZE
  <2>1. PICK d \in SbChoices \ DOMAIN dsc :
          o = [home |-> "SB", off |-> d * SbPages, req |-> n, size |-> SBSIZE]
    <3> HIDE DEF SBSIZE, MAX_SZ
    <3>1. Result(n) = {[home |-> "SB", off |-> d * SbPages, req |-> n, size |-> SBSIZE] :
                         d \in SbChoices \ DOMAIN dsc}
      <4>1. ~(n > SBSIZE) /\ ~(n <= MAX_SZ /\ HasClass(n))
        BY <1>0, <1>3 DEF SBSIZE, MAX_SZ
      <4> QED BY <1>3, <4>1 DEF Result
    <3> QED BY <1>1, <3>1
  <2>2. d \in Nat /\ d >= 1
    BY Choices
  <2>3. d * SbPages \in Nat /\ d * SbPages >= 1
    BY <1>0, <2>2
  <2>4. (d * SbPages + 0) \div SbPages = d
    BY <1>0, <2>2, Quotient
  <2>5. SbOf(o) = d
    BY <2>1, <2>3, <2>4 DEF SbOf
  <2>6. o \in Objects /\ o.home = "SB" /\ IsWhole(o) /\ o.req = n /\ o.off >= 1
    BY <1>0, <1>3, <2>1, <2>3, <2>5 DEF Objects, IsWhole
  <2> QED BY <1>1, <1>3, <2>1, <2>5, <2>6 DEF Shaped
<1>4. CASE n <= MAX_SZ
  <2>1. n \in SmallRequests
    BY <1>0, <1>4 DEF SmallRequests
  <2>2. RoundUp(n) \in Nat /\ n <= RoundUp(n) /\ RoundUp(n) < SBSIZE /\ HasClass(n)
    BY <2>1, BlockSizes
  <2>3. o \in {[home |-> "SB", off |-> d * SbPages + f, req |-> n, size |-> RoundUp(n)] :
                 f \in {0, SbPages - 1},
                 d \in {x \in SbChoices : x \in DOMAIN dsc => dsc[x] = RoundUp(n)}}
    <3>1. ~(n > SBSIZE) /\ ~(n > MAX_SZ /\ n <= SBSIZE)
      BY <1>0, <1>4
    <3> HIDE DEF SBSIZE, MAX_SZ
    <3> QED BY <1>1, <1>4, <2>2, <3>1 DEF Result
  <2>4. PICK f \in {0, SbPages - 1}, d \in SbChoices :
          /\ d \in DOMAIN dsc => dsc[d] = RoundUp(n)
          /\ o = [home |-> "SB", off |-> d * SbPages + f, req |-> n, size |-> RoundUp(n)]
    BY <2>3
  <2>5. d \in Nat /\ d >= 1 /\ f \in Nat /\ f < SbPages
    BY <1>0, Choices
  <2>6. d * SbPages \in Nat /\ d * SbPages >= 1
    BY <1>0, <2>5
  <2>7. SbOf(o) = d
    BY <2>4, <2>5, Quotient DEF SbOf
  <2>8. /\ o \in Objects /\ o.home = "SB" /\ IsClass(o) /\ o.req = n /\ o.off >= 1
        /\ o.size = RoundUp(n)
    BY <1>0, <2>1, <2>2, <2>4, <2>5, <2>6 DEF Objects, IsClass
  <2> QED BY <1>0, <1>1, <1>4, <2>2, <2>4, <2>7, <2>8 DEF Shaped
<1> QED BY <1>0, <1>2, <1>3, <1>4

\* An object as big as a superblock is one.
LEMMA WholeIsWhole ==
  ASSUME NEW o, Shaped(o), o.size = SBSIZE
  PROVE  o.home = "SB" /\ o.off = SbOf(o) * SbPages
<1>1. ~IsLarge(o)
  BY DEF IsLarge, SBSIZE
<1>2. ~IsClass(o)
  <2>1. ASSUME NEW n \in SmallRequests PROVE RoundUp(n) # SBSIZE
    <3>1. RoundUp(n) \in Nat /\ RoundUp(n) < SBSIZE
      BY BlockSizes
    <3> QED BY <3>1 DEF SBSIZE
  <2> QED BY <2>1 DEF IsClass
<1> QED BY <1>1, <1>2 DEF Shaped, IsWhole, Objects

\* BXP_malloc adds an object and its descriptor.
LEMMA Adds ==
  ASSUME RInv, ObjsOK, Apart, NEW n \in Sizes, NEW o \in Places(n)
  PROVE  /\ \A x \in objs \cup {o} : Shaped(x) /\ HasSize(x, Described(o))
         /\ \A x, y \in objs \cup {o} : x.home = y.home /\ x.off = y.off => x = y
<1>1. /\ Shaped(o) /\ \A x \in objs : x.home # o.home \/ x.off # o.off
      /\ o.home = "SB" /\ SbOf(o) \in DOMAIN dsc => dsc[SbOf(o)] = o.size
  BY PlacesShaped
<1>2. HasSize(o, Described(o))
  BY DEF HasSize, Described
<1>3. ASSUME NEW x \in objs PROVE HasSize(x, Described(o))
  BY <1>1 DEF ObjsOK, HasSize, Described
<1> QED BY <1>1, <1>2, <1>3 DEF Apart, ObjsOK

\* BXP_free of o among the objects held: a whole superblock takes its descriptor along.
LEMMA Removes ==
  ASSUME NEW held, NEW d, NEW o \in held,
         \A x \in held : Shaped(x) /\ HasSize(x, d),
         \A x, y \in held : x.home = y.home /\ x.off = y.off => x = y
  PROVE  \A x \in held \ {o} : HasSize(x, Freed(o, d))
<1> SUFFICES ASSUME NEW x \in held \ {o}, x.home = "SB"
             PROVE  SbOf(x) \in DOMAIN Freed(o, d) /\ Freed(o, d)[SbOf(x)] = x.size
  BY DEF HasSize
<1>1. SbOf(x) \in DOMAIN d /\ d[SbOf(x)] = x.size
  BY DEF HasSize
<1>2. CASE o.size # SBSIZE
  BY <1>1, <1>2 DEF Freed
<1>3. CASE o.size = SBSIZE
  <2>1. o.home = "SB" /\ o.off = SbOf(o) * SbPages
    BY <1>3, WholeIsWhole
  <2>2. SbOf(x) # SbOf(o)
    <3>1. ASSUME SbOf(x) = SbOf(o) PROVE FALSE
      <4>1. x.size = SBSIZE
        BY <1>1, <1>3, <2>1, <3>1 DEF HasSize
      <4>2. x.off = SbOf(x) * SbPages
        BY <4>1, WholeIsWhole
      <4> QED BY <2>1, <3>1, <4>2
    <3> QED BY <3>1
  <2> QED BY <1>1, <1>3, <2>2 DEF Freed, Restrict
<1> QED BY <1>2, <1>3
-----------------------------------------------------------------------------
(* What an address tells *)

\* desc_lookup, when the SB region is mapped like the first time up to whole
\* superblocks.
LEMMA Lookup ==
  ASSUME RInv, AlignOK, Congruent, mode = "up", NEW o, Shaped(o), o.home = "SB"
  PROVE  DescLookup(Addr(o)) = SbOf(o)
<1>0. SbPages \in Nat /\ SbPages > 0 /\ o.off \in Nat
  BY Sizes1 DEF Shaped, Objects
<1>1. /\ addr["SB"] = base["SB"] + spans[1].lo /\ addr["SB"] \in Nat /\ base["SB"] \in Nat
      /\ spans[1].lo \in Nat /\ base \in Layouts
  BY OpenAddr
<1>2. spans # <<>>
  BY OpenEnd
<1>3. PICK l \in Layouts, k \in Nat : l["SB"] + spans[1].lo = k * SbPages
  BY <1>2 DEF AlignOK
<1>4. PICK m \in Int : base["SB"] = l["SB"] + m * SbPages
  BY <1>1, <1>3 DEF Congruent
<1>5. l["SB"] \in Nat /\ k * SbPages \in Nat /\ m * SbPages \in Int
  BY <1>0, <1>3, <1>4, Sizes1, Order
<1>6. addr["SB"] = (k + m) * SbPages
  <2>1. (k + m) * SbPages = k * SbPages + m * SbPages
    BY <1>0, <1>3, <1>4
  <2> QED BY <1>1, <1>3, <1>4, <1>5, <2>1
<1>7. k + m \in Nat
  <2>1. ASSUME k + m < 0 PROVE (k + m) * SbPages < 0
    BY <1>0, <1>3, <1>4, <2>1
  <2> QED BY <1>1, <1>3, <1>4, <1>6, <2>1
<1>8. PICK d, f : d = SbOf(o) /\ f = o.off - d * SbPages
  OBVIOUS
<1>9. d \in Nat /\ f \in Nat /\ f < SbPages /\ o.off = d * SbPages + f /\ d * SbPages \in Nat
  <2>1. /\ d \in Nat /\ d * SbPages \in Nat /\ d * SbPages <= o.off
        /\ o.off < d * SbPages + SbPages
    BY <1>0, <1>8, InSuperblock DEF SbOf
  <2> QED BY <1>0, <1>8, <2>1
<1>10. Addr(o) = (k + m + d) * SbPages + f
  <2>1. (k + m + d) * SbPages = (k + m) * SbPages + d * SbPages
    BY <1>0, <1>7, <1>9
  <2>2. (k + m) * SbPages \in Nat
    BY <1>1, <1>6
  <2> QED BY <1>0, <1>6, <1>9, <2>1, <2>2 DEF Addr
<1>11. Addr(o) \div SbPages = k + m + d
  BY <1>7, <1>9, <1>10, Quotient
<1>12. addr["SB"] \div SbPages = k + m
  <2>1. ((k + m) * SbPages + 0) \div SbPages = k + m
    BY <1>0, <1>7, Quotient
  <2> QED BY <1>0, <1>1, <1>6, <2>1
<1> QED BY <1>7, <1>8, <1>9, <1>11, <1>12 DEF DescLookup

\* The two files do not overlap.
LEMMA FilesApart ==
  ASSUME RInv, mode = "up"
  PROVE  /\ \/ base["SB"] + FileSize("SB") <= base["LAR"]
            \/ base["LAR"] + FileSize("LAR") <= base["SB"]
         /\ FileSize("SB") \in Nat /\ FileSize("LAR") = Expand + 2
<1>1. size \in HeapSizes /\ base \in Layouts
  BY OpenAddr DEF RInv, RTypeOK
<1>2. \/ base["SB"] + FileSizeIn(size, "SB") <= base["LAR"]
      \/ base["LAR"] + FileSizeIn(size, "LAR") <= base["SB"]
  BY <1>1, Order, RegionsAssumption
<1>3. FileSize("SB") \in Nat /\ FileSize("LAR") = Expand + 2
  BY <1>1, FileSizes, Order DEF FileSize, FileSizeIn
<1> QED BY <1>2, <1>3 DEF FileSize

\* A small object is inside the SB region.
LEMMA SmallInside ==
  ASSUME RInv, mode = "up", NEW o, Shaped(o), o.home = "SB"
  PROVE  /\ InRange("SB", Addr(o)) /\ Addr(o) \in Nat
         /\ base["SB"] <= Addr(o) /\ Addr(o) < base["SB"] + FileSize("SB")
<1>0. o.off \in Nat /\ SbOf(o) \in SbChoices /\ SbPages \in Nat
  BY Sizes1 DEF Shaped, Objects
<1>1. PICK d : d = SbOf(o)
  OBVIOUS
<1>2. o.off < d * SbPages + SbPages
  BY <1>0, <1>1, InSuperblock DEF SbOf
<1>3. /\ spans[1].lo \in Nat /\ d * SbPages \in Nat
      /\ spans[1].lo + d * SbPages + SbPages <= End("SB")
      /\ spans[1].lo + d * SbPages + SbPages <= FileSize("SB")
  BY <1>0, <1>1, Choices
<1>4. addr["SB"] = base["SB"] + spans[1].lo /\ base["SB"] \in Nat
  BY OpenAddr
<1>5. Curr("SB") = base["SB"] + End("SB") /\ End("SB") \in Nat
  BY OpenEnd
<1>6. FileSize("SB") \in Nat
  BY FilesApart
<1>7. Addr(o) = base["SB"] + spans[1].lo + o.off
  BY <1>0, <1>3, <1>4 DEF Addr
<1> QED BY <1>0, <1>2, <1>3, <1>4, <1>5, <1>6, <1>7 DEF InRange

\* A large object is inside the large region.
LEMMA LargeInside ==
  ASSUME RInv, mode = "up", NEW o, Shaped(o), o.home = "LAR"
  PROVE  InRange("LAR", Addr(o)) /\ Addr(o) \in Nat /\ base["LAR"] <= Addr(o)
<1>1. o.off \in Nat /\ 1 + o.off < End("LAR")
  BY LarPlaces DEF Shaped, IsLarge
<1>2. addr["LAR"] = base["LAR"] + 1 /\ base["LAR"] \in Nat
  BY OpenAddr
<1>3. Curr("LAR") = base["LAR"] + End("LAR") /\ End("LAR") \in Nat
  BY OpenEnd
<1> QED BY <1>1, <1>2, <1>3 DEF InRange, Addr

\* No address is in both regions while the large one ends inside its file.
LEMMA RangesApart ==
  ASSUME RInv, EndsOK, mode = "up", Curr("LAR") <= base["LAR"] + words["LAR"].size, NEW p \in Nat
  PROVE  ~(InRange("LAR", p) /\ InRange("SB", p))
<1>1. /\ addr["SB"] = base["SB"] + spans[1].lo /\ addr["LAR"] = base["LAR"] + 1
      /\ base["SB"] \in Nat /\ base["LAR"] \in Nat /\ spans[1].lo \in Nat
  BY OpenAddr
<1>2. /\ Curr("SB") = base["SB"] + End("SB") /\ End("SB") \in Nat
      /\ Curr("LAR") = base["LAR"] + End("LAR") /\ End("LAR") \in Nat
      /\ words["SB"].size = FileSize("SB") /\ words["LAR"].size = FileSize("LAR")
      /\ "meta" \in made
  <2>1. at = <<"LAST", "buddy">>
    BY DEF RInv, Progress
  <2>2. words["LAR"].size = FileSize("LAR")
    BY <2>1, Order DEF RInv, Progress, Passed, Live
  <2> QED BY <2>2, OpenEnd DEF Parts
<1>3. End("SB") <= FileSize("SB")
  BY <1>2 DEF EndsOK
<1>4. /\ \/ base["SB"] + FileSize("SB") <= base["LAR"]
         \/ base["LAR"] + FileSize("LAR") <= base["SB"]
      /\ FileSize("SB") \in Nat /\ FileSize("LAR") \in Nat
  BY FilesApart, Sizes1
<1> QED BY <1>1, <1>2, <1>3, <1>4 DEF InRange

\* BXP_malloc_size of a small object is the size of its block, when descriptors d say so.
LEMMA SizeOfSmall ==
  ASSUME RInv, AlignOK, Congruent, mode = "up", NEW o, Shaped(o), o.home = "SB",
         NEW d, HasSize(o, d)
  PROVE  SizesRead(d, Addr(o)) = {o.size}
<1>1. DescLookup(Addr(o)) = SbOf(o)
  BY Lookup
<1> QED BY <1>1 DEF SizesRead, HasSize

\* A request that is not smaller gets a block that is not smaller.
LEMMA NoSmaller ==
  ASSUME NEW o, NEW x, Shaped(o), Shaped(x), o.home = "SB", o.req <= x.req
  PROVE  o.size <= x.size
<1>1. /\ o.req \in Nat /\ x.req \in Nat /\ o.size \in Nat /\ x.size \in Nat
      /\ x.home \in {"SB", "LAR"} /\ (x.home = "LAR" => IsLarge(x))
      /\ (x.home = "SB" => IsClass(x) \/ IsWhole(x)) /\ (IsClass(o) \/ IsWhole(o))
  BY DEF Shaped, Objects
<1>2. ASSUME NEW n \in SmallRequests
      PROVE  RoundUp(n) \in Nat /\ RoundUp(n) < 65536 /\ n \in Nat /\ n <= 24576
  BY BlockSizes, SmallSizes DEF SBSIZE
<1>3. CASE IsClass(o)
  <2>1. CASE IsClass(x)
    BY <1>3, <2>1, GrowingFits DEF IsClass
  <2>2. CASE IsWhole(x) \/ IsLarge(x)
    BY <1>1, <1>2, <1>3, <2>2 DEF IsClass, IsWhole, IsLarge, SBSIZE
  <2> QED BY <1>1, <2>1, <2>2
<1>4. CASE IsWhole(o)
  <2>1. ~IsClass(x)
    BY <1>1, <1>2, <1>4 DEF IsClass, IsWhole, MAX_SZ
  <2> QED BY <1>1, <1>4, <2>1 DEF IsWhole, IsLarge, SBSIZE
<1> QED BY <1>1, <1>3, <1>4
-----------------------------------------------------------------------------
(* The invariant *)

\* Initially the application holds nothing.
LEMMA InitObjects == IInit => IInv
<1> SUFFICES ASSUME IInit PROVE IInv
  OBVIOUS
<1>1. RInv /\ EInv
  BY InitRegions, EndsInit DEF IInit
<1>2. ObjInv
  BY DEF IInit, ObjInv, ObjsOK, Apart, RootOK, DescsOK, Nothing
<1> QED BY <1>1, <1>2 DEF IInv

\* Superblocks in use stay in use.
LEMMA ShapedKept ==
  ASSUME RInv, RegionNext \/ UNCHANGED rvars, NEW o, Shaped(o)
  PROVE  Shaped(o)'
<1>1. \/ spans' = spans
      \/ /\ \A i \in DOMAIN spans : i \in DOMAIN spans' /\ spans'[i] = spans[i]
         /\ spans = <<>> \/ spans'[1] = spans[1]
  BY SpansGrow
<1>2. SbChoices \subseteq SbChoices'
  <2>1. CASE spans' = spans
    BY <2>1 DEF SbChoices
  <2>2. CASE spans = <<>>
    BY <2>2 DEF SbChoices
  <2>3. CASE /\ \A i \in DOMAIN spans : i \in DOMAIN spans' /\ spans'[i] = spans[i]
             /\ spans'[1] = spans[1]
    BY <2>3 DEF SbChoices
  <2> QED BY <1>1, <2>1, <2>2, <2>3
<1>3. IsClass(o)' <=> IsClass(o)
  BY DEF IsClass
<1>4. LarChoices \subseteq LarChoices'
  BY <1>1 DEF LarChoices
<1>5. (IsWhole(o)' <=> IsWhole(o)) /\ (IsLarge(o) => IsLarge(o)') /\ SbOf(o)' = SbOf(o)
  BY <1>4 DEF IsWhole, IsLarge, SbOf
<1> QED BY <1>2, <1>3, <1>5 DEF Shaped

\* The descriptors after BXP_malloc and after BXP_free.
LEMMA DescsKept ==
  ASSUME DescsOK, NEW o, Shaped(o)
  PROVE  \A i \in DOMAIN Described(o) : /\ Described(o)[i] \in Nat
                                        /\ Described(o)[i] <= SBSIZE
<1>1. o.home = "SB" => o.size \in Nat /\ o.size <= SBSIZE
  <2>1. CASE IsClass(o)
    BY <2>1, BlockSizes DEF IsClass, SBSIZE
  <2>2. CASE IsWhole(o)
    BY <2>2 DEF IsWhole, SBSIZE
  <2> QED BY <2>1, <2>2 DEF Shaped
<1> QED BY <1>1 DEF Described, DescsOK

\* BXP_free takes no object but its own away, whichever allocator it goes to.
LEMMA FreeRemoves ==
  ASSUME NEW held, NEW d, NEW o \in held,
         \A x \in held : Shaped(x) /\ HasSize(x, d),
         \A x, y \in held : x.home = y.home /\ x.off = y.off => x = y,
         \A i \in DOMAIN d : d[i] \in Nat /\ d[i] <= SBSIZE
  PROVE  /\ \A x \in held \ {o} : HasSize(x, AfterFree(o, d))
         /\ \A i \in DOMAIN AfterFree(o, d) :
              AfterFree(o, d)[i] \in Nat /\ AfterFree(o, d)[i] <= SBSIZE
<1>1. \A x \in held \ {o} : HasSize(x, Freed(o, d))
  BY Removes
<1>2. \A i \in DOMAIN Freed(o, d) : i \in DOMAIN d /\ Freed(o, d)[i] = d[i]
  BY DEF Freed, Restrict
<1>3. AfterFree(o, d) \in {d, Freed(o, d)}
  BY DEF AfterFree
<1> QED BY <1>1, <1>2, <1>3

\* BXP_malloc and BXP_calloc.
LEMMA MallocStep ==
  ASSUME IInv, NEW n \in Sizes, Malloc(n) \/ Calloc(n)
  PROVE  ObjInv'
<1>0. RInv /\ ObjInv /\ mode = "up" /\ UNCHANGED rvars
  BY DEF IInv, Malloc, Calloc, Up
<1>1. PICK o \in Places(n) :
        objs' = objs \cup {o} /\ dsc' = Described(o) /\ UNCHANGED <<root, named>>
  BY DEF Malloc, Calloc
<1>2. /\ \A x \in objs' : Shaped(x) /\ HasSize(x, dsc')
      /\ \A x, y \in objs' : x.home = y.home /\ x.off = y.off => x = y
  BY <1>0, <1>1, Adds DEF ObjInv
<1>3. \A x \in objs' : Shaped(x)'
  BY <1>0, <1>2, ShapedKept
<1>4. ObjsOK' /\ Apart' /\ RootOK'
  BY <1>0, <1>1, <1>2, <1>3 DEF ObjsOK, Apart, RootOK, ObjInv, HasSize, SbOf
<1>5. DescsOK'
  <2>1. Shaped(o)
    BY <1>1, <1>2
  <2> QED BY <1>0, <1>1, <2>1, DescsKept DEF ObjInv, DescsOK
<1> QED BY <1>4, <1>5 DEF ObjInv

\* BXP_free.
LEMMA FreeStep ==
  ASSUME IInv, NEW o \in objs, Free(o)
  PROVE  ObjInv'
<1>0. RInv /\ ObjInv
  BY DEF IInv
<1>1. /\ UNCHANGED rvars /\ objs' = objs \ {o} /\ dsc' = AfterFree(o, dsc)
      /\ named' \in {Nothing, named} /\ UNCHANGED <<root, wild>>
  BY DEF Free, Up, Forget
<1>2. /\ \A x \in objs : Shaped(x) /\ HasSize(x, dsc)
      /\ \A x, y \in objs : x.home = y.home /\ x.off = y.off => x = y
      /\ \A i \in DOMAIN dsc : dsc[i] \in Nat /\ dsc[i] <= SBSIZE
  BY <1>0 DEF ObjInv, ObjsOK, Apart, DescsOK
<1>3. /\ \A x \in objs \ {o} : HasSize(x, AfterFree(o, dsc))
      /\ \A i \in DOMAIN AfterFree(o, dsc) :
           AfterFree(o, dsc)[i] \in Nat /\ AfterFree(o, dsc)[i] <= SBSIZE
  BY <1>2, FreeRemoves
<1>4. \A x \in objs : Shaped(x)'
  BY <1>0, <1>1, <1>2, ShapedKept
<1>5. ObjsOK' /\ DescsOK'
  BY <1>1, <1>2, <1>3, <1>4 DEF ObjsOK, HasSize, SbOf, DescsOK
<1>6. Apart' /\ RootOK'
  BY <1>0, <1>1, <1>2 DEF ObjInv, Apart, RootOK, Nothing
<1> QED BY <1>5, <1>6 DEF ObjInv

\* BXP_set_root.
LEMMA SetRootStep ==
  ASSUME IInv, NEW o \in objs, SetRoot(o)
  PROVE  ObjInv'
<1>0. RInv /\ ObjInv /\ mode = "up" /\ UNCHANGED rvars
  BY DEF IInv, SetRoot, Up
<1>1. root' = Addr(o) - addr["SB"] /\ named' = o /\ UNCHANGED <<objs, dsc, wild>>
  BY DEF SetRoot, RootWord, Untranslate
<1>2. Shaped(o) /\ addr["SB"] \in Nat
  BY <1>0, OpenAddr DEF ObjInv, ObjsOK
<1>3. o.home = "SB" => root' = o.off /\ o.off \in Nat /\ o.off >= 1
  BY <1>1, <1>2 DEF Shaped, Objects, Addr
<1>4. \A x \in objs : Shaped(x)'
  BY <1>0, ShapedKept DEF ObjInv, ObjsOK
<1>5. ObjsOK'
  BY <1>0, <1>1, <1>4 DEF ObjInv, ObjsOK, HasSize, SbOf
<1>6. Apart' /\ RootOK' /\ DescsOK'
  BY <1>0, <1>1, <1>3 DEF ObjInv, Apart, RootOK, DescsOK
<1> QED BY <1>5, <1>6 DEF ObjInv

\* BXP_realloc.
LEMMA ReallocStep ==
  ASSUME IInv, NEW o \in objs, NEW n \in Sizes, Realloc(o, n)
  PROVE  ObjInv'
<1>0. RInv /\ ObjInv /\ mode = "up" /\ UNCHANGED rvars /\ UNCHANGED root
  BY DEF IInv, Realloc, Up
<1>1. CASE UNCHANGED <<objs, dsc, wild, named>>
  <2>1. \A x \in objs : Shaped(x)'
    BY <1>0, ShapedKept DEF ObjInv, ObjsOK
  <2> QED BY <1>0, <1>1, <2>1
        DEF ObjInv, ObjsOK, HasSize, SbOf, Apart, RootOK, DescsOK
<1>2. CASE ~UNCHANGED <<objs, dsc, wild, named>>
  <2>1. PICK x \in Places(n) :
          /\ objs' = (objs \ {o}) \cup {x} /\ dsc' = AfterFree(o, Described(x))
          /\ named' \in {Nothing, named}
    BY <1>2 DEF Realloc, Forget
  <2>2. /\ \A y \in objs \cup {x} : Shaped(y) /\ HasSize(y, Described(x))
        /\ \A y, z \in objs \cup {x} : y.home = z.home /\ y.off = z.off => y = z
    BY <1>0, Adds DEF ObjInv
  <2>3. x # o
    BY <1>0, PlacesShaped
  <2>4. \A i \in DOMAIN Described(x) : Described(x)[i] \in Nat /\ Described(x)[i] <= SBSIZE
    BY <1>0, <2>2, DescsKept DEF ObjInv
  <2>5. /\ \A y \in (objs \cup {x}) \ {o} : HasSize(y, AfterFree(o, Described(x)))
        /\ \A i \in DOMAIN AfterFree(o, Described(x)) :
             /\ AfterFree(o, Described(x))[i] \in Nat
             /\ AfterFree(o, Described(x))[i] <= SBSIZE
    BY <2>2, <2>4, FreeRemoves
  <2>6. \A y \in objs \cup {x} : Shaped(y)'
    BY <1>0, <2>2, ShapedKept
  <2>7. objs' \subseteq objs \cup {x} /\ o \notin objs'
    BY <2>1, <2>3
  <2>8. ObjsOK' /\ DescsOK'
    BY <2>1, <2>5, <2>6, <2>7 DEF ObjsOK, HasSize, SbOf, DescsOK
  <2>9. Apart' /\ RootOK'
    BY <1>0, <2>1, <2>2, <2>7 DEF Apart, RootOK, ObjInv, Nothing
  <2> QED BY <2>8, <2>9 DEF ObjInv
<1> QED BY <1>1, <1>2

\* The steps of the regions, and no step.
LEMMA BelowStep ==
  ASSUME IInv, RegionStep \/ UNCHANGED vars
  PROVE  ObjInv' /\ (RegionNext \/ UNCHANGED rvars)
<1>0. RInv /\ ObjInv
  BY DEF IInv
<1>1. RegionNext \/ UNCHANGED rvars
  BY DEF RegionStep, RegionNext, vars
<1>2. CASE UNCHANGED ivars
  <2>1. UNCHANGED <<objs, dsc, root, named, wild>>
    BY <1>2 DEF ivars
  <2>2. \A x \in objs : Shaped(x)'
    BY <1>0, <1>1, ShapedKept DEF ObjInv, ObjsOK
  <2> QED BY <1>0, <1>1, <2>1, <2>2
        DEF ObjInv, ObjsOK, HasSize, SbOf, Apart, RootOK, DescsOK
<1>3. CASE objs' = {} /\ dsc' = <<>> /\ named' = Nothing /\ UNCHANGED <<root, wild>>
  BY <1>0, <1>1, <1>3 DEF ObjInv, ObjsOK, Apart, RootOK, DescsOK, Nothing
<1> QED BY <1>1, <1>2, <1>3 DEF RegionStep, vars

\* Every step.
LEMMA ObjectsStep ==
  ASSUME IInv, [Next]_vars
  PROVE  IInv'
<1>1. ObjInv' /\ (RegionNext \/ UNCHANGED rvars)
  <2>1. CASE RegionStep \/ UNCHANGED vars
    BY <2>1, BelowStep
  <2>2. ASSUME NEW n \in Sizes, Malloc(n) \/ Calloc(n) PROVE ObjInv' /\ UNCHANGED rvars
    BY <2>2, MallocStep DEF Malloc, Calloc, Up
  <2>3. ASSUME NEW o \in objs, Free(o) PROVE ObjInv' /\ UNCHANGED rvars
    BY <2>3, FreeStep DEF Free, Up
  <2>4. ASSUME NEW o \in objs, SetRoot(o) PROVE ObjInv' /\ UNCHANGED rvars
    BY <2>4, SetRootStep DEF SetRoot, Up
  <2>5. ASSUME NEW o \in objs, NEW n \in Sizes, Realloc(o, n)
        PROVE  ObjInv' /\ UNCHANGED rvars
    BY <2>5, ReallocStep DEF Realloc, Up
  <2> QED BY <2>1, <2>2, <2>3, <2>4, <2>5 DEF Next
<1>2. RInv' /\ EInv'
  BY <1>1, RegionStepInv, RegionsSame, EndsStep DEF IInv
<1> QED BY <1>1, <1>2 DEF IInv

\* The invariant holds in every state.
THEOREM InterfaceInvariant == Spec => []IInv
<1>1. IInit => IInv
  BY InitObjects
<1>2. IInv /\ [Next]_vars => IInv'
  BY ObjectsStep
<1> QED BY <1>1, <1>2, PTL DEF Spec
-----------------------------------------------------------------------------
(* What it shows *)

\* Memory that __nvm_region_allocator has handed out is never handed out again: not to
\* the loser of the compare-and-swap, not to a later process, not after a power
\* failure, whichever flush it came before.
THEOREM MemoryHandedOutOnce == Spec => []HandedOutOnce
<1>1. IInv => HandedOutOnce
  BY DEF IInv, RInv, SpansOK
<1> QED BY <1>1, InterfaceInvariant, PTL

\* What __nvm_region_allocator hands out of the superblocks' region lies inside its file,
\* in heaps of any size and whichever threads race for the last piece.  Of the large
\* region it does not hold: _BXP_init sets its FILESIZE to half the heap.
THEOREM SuperblockMemoryInFile == Spec => []SuperblocksInFile
<1>1. ASSUME IInv, NEW i \in DOMAIN spans, spans[i].r = "SB"
      PROVE  1 <= spans[i].lo /\ spans[i].hi <= words["SB"].size
  <2>1. SpanAt(i)
    BY <1>1 DEF IInv, RInv, SpansOK
  <2> QED BY <1>1, <2>1 DEF SpanAt
<1>2. IInv => SuperblocksInFile
  BY <1>1 DEF SuperblocksInFile
<1> QED BY <1>2, InterfaceInvariant, PTL

\* An open heap is complete and its regions start where their creator put them, unless
\* a process ended inside the first _BXP_init.
THEOREM OpenHeapIsComplete == Spec => []OpenIsComplete
<1>1. ASSUME IInv PROVE OpenIsComplete
  <2> SUFFICES ASSUME mode = "up", ~torn
               PROVE  /\ made = Parts
                      /\ addr["SB"] - base["SB"] = spans[1].lo
                      /\ \A r \in RegionIdx \ {"SB"} : addr[r] = base[r] + 1
                      /\ \A i \in DOMAIN spans : base[spans[i].r] + spans[i].hi <= Curr(spans[i].r)
    BY DEF OpenIsComplete, Parts
  <2>1. RInv
    BY <1>1 DEF IInv
  <2>2. made = Parts
    BY <2>1, OpenEnd
  <2>3. addr["SB"] - base["SB"] = spans[1].lo
    BY <2>1, OpenAddr
  <2>4. ASSUME NEW r \in RegionIdx \ {"SB"} PROVE addr[r] = base[r] + 1
    <3>1. at = <<"LAST", "buddy">> /\ "buddy" \in made /\ words["DESC"].exists
      BY <2>1, Order DEF RInv, Progress, Passed, Live
    <3>2. words[r].start = 1
      BY <2>1, <3>1, Order DEF RInv, MadeOK, DescOK
    <3>3. addr[r] = base[r] + words[r].start
      BY <2>1, <3>1, Order DEF RInv, AddrOK, Passed, Live
    <3> QED BY <3>2, <3>3
  <2>5. ASSUME NEW i \in DOMAIN spans
        PROVE  base[spans[i].r] + spans[i].hi <= Curr(spans[i].r)
    <3>1. PICK r : r = spans[i].r
      OBVIOUS
    <3>2. r \in {"SB", "LAR"} /\ spans[i].hi \in Nat /\ SpanAt(i)
      <4>1. spans[i] \in Pieces /\ SpanAt(i)
        BY <2>1 DEF RInv, RTypeOK, SpansOK
      <4> QED BY <3>1, <4>1 DEF Pieces
    <3>3. /\ base[r] \in Nat /\ End(r) \in Nat /\ SavedEnd(r) \in Nat /\ SavedEnd(r) <= End(r)
          /\ Curr(r) = base[r] + End(r)
      BY <2>1, <3>2, OpenEnd
    <3>4. spans[i].hi <= SavedEnd(r)
      BY <3>1, <3>2 DEF SpanAt
    <3> QED BY <3>1, <3>2, <3>3, <3>4
  <2> QED BY <2>2, <2>3, <2>4, <2>5
<1>2. IInv => OpenIsComplete
  BY <1>1
<1> QED BY <1>2, InterfaceInvariant, PTL

\* A root leads to the small object it was last set to, in every later process and
\* wherever that one maps the heap.
THEOREM RootsLeadBack == Spec => []RootsSurvive
<1>1. ASSUME IInv PROVE RootsSurvive
  <2> SUFFICES ASSUME mode = "up", named \in Small PROVE GetRoot = Addr(named)
    BY DEF RootsSurvive
  <2>1. named.home = "SB" /\ root = named.off /\ root \in Nat /\ root >= 1
    BY <1>1 DEF IInv, ObjInv, RootOK, Small
  <2> QED BY <2>1 DEF GetRoot, Translate, Addr
<1>2. IInv => RootsSurvive
  BY <1>1
<1> QED BY <1>2, InterfaceInvariant, PTL

\* BXP_free, which asks whether an address is in the large region, goes to the
\* allocator BXP_malloc went to, in heaps of any size, for as long as the large region
\* has not been expanded past the end of its file.
THEOREM FreeFindsItsAllocator == Spec => []FreedWhereAllocatedInFile
<1>1. ASSUME IInv PROVE FreedWhereAllocatedInFile
  <2> SUFFICES ASSUME mode = "up", NEW o \in objs,
                      Curr("LAR") <= base["LAR"] + words["LAR"].size
               PROVE  /\ InRange("LAR", Addr(o)) = (o.home = "LAR")
                      /\ InRange("SB", Addr(o)) = (o.home = "SB")
    BY DEF FreedWhereAllocatedInFile, FreedWhereAllocated
  <2>0. RInv /\ EndsOK /\ Shaped(o)
    BY <1>1 DEF IInv, EInv, ObjInv, ObjsOK
  <2>1. CASE o.home = "LAR"
    <3>1. InRange("LAR", Addr(o)) /\ Addr(o) \in Nat
      BY <2>0, <2>1, LargeInside
    <3>2. ~InRange("SB", Addr(o))
      BY <2>0, <3>1, RangesApart
    <3> QED BY <2>1, <3>1, <3>2 DEF InRange
  <2>2. CASE o.home = "SB"
    <3>1. InRange("SB", Addr(o)) /\ Addr(o) \in Nat
      BY <2>0, <2>2, SmallInside
    <3>2. ~InRange("LAR", Addr(o))
      BY <2>0, <3>1, RangesApart
    <3> QED BY <2>2, <3>1, <3>2 DEF InRange
  <2> QED BY <2>0, <2>1, <2>2 DEF Shaped, Objects
<1>2. IInv => FreedWhereAllocatedInFile
  BY <1>1
<1> QED BY <1>2, InterfaceInvariant, PTL

\* A pointer finds the descriptor of its superblock, inside the descriptors' file, and
\* the descriptor has the size of its block, in which what was asked for fits: when the
\* SB region is always mapped at
\* the same distance from a multiple of SBSIZE, which mmap does not promise.
THEOREM LookupIsRight == Congruent /\ Spec => []LookupFindsDescriptor
<1>1. ASSUME IInv, Congruent PROVE LookupFindsDescriptor
  <2> SUFFICES ASSUME mode = "up", NEW o \in Small
               PROVE  /\ DescLookup(Addr(o)) = SbOf(o)
                      /\ DescLookup(Addr(o)) < Requested(size)["DESC"] * DescsPerPage
                      /\ SizesRead(dsc, Addr(o)) = {o.size} /\ o.req <= o.size
    BY DEF LookupFindsDescriptor
  <2>0. /\ RInv /\ AlignOK /\ Shaped(o) /\ HasSize(o, dsc) /\ o.home = "SB"
        /\ SbOf(o) \in SbChoices
    BY <1>1 DEF IInv, EInv, ObjInv, ObjsOK, Small, Shaped
  <2>1. DescLookup(Addr(o)) = SbOf(o)
    BY <1>1, <2>0, Lookup
  <2>2. SbOf(o) < Requested(size)["DESC"] * DescsPerPage
    BY <2>0, Choices
  <2>3. SizesRead(dsc, Addr(o)) = {o.size}
    BY <1>1, <2>0, SizeOfSmall
  <2>4. o.req <= o.size
    <3>1. CASE IsClass(o)
      BY <3>1, BlockSizes DEF IsClass
    <3>2. CASE IsWhole(o)
      BY <3>2 DEF IsWhole, SBSIZE
    <3> QED BY <2>0, <3>1, <3>2 DEF Shaped
  <2> QED BY <2>1, <2>2, <2>3, <2>4
<1>2. ASSUME Congruent PROVE Spec => []LookupFindsDescriptor
  <2>1. IInv => LookupFindsDescriptor
    BY <1>1, <1>2
  <2> QED BY <2>1, InterfaceInvariant, PTL
<1> QED BY <1>2

\* A step that writes past the end of a block, on the same condition.
LEMMA OverflowStep ==
  ASSUME IInv, Congruent, Next, ~wild, wild'
  PROVE  CallocOfLarge \/ ReallocShrinks
<1>0. RInv /\ AlignOK /\ ObjsOK /\ Apart /\ DescsOK
  BY DEF IInv, EInv, ObjInv
<1>1. ASSUME NEW n \in Sizes, Calloc(n) PROVE CallocOfLarge
  <2>0. PICK o \in Places(n) : \E real_size \in SizesRead(Described(o), Addr(o)) :
          mode = "up" /\ objs' = objs \cup {o} /\ (wild' <=> wild \/ real_size > o.size)
    BY <1>1 DEF Calloc, Up
  <2>1. PICK real_size \in SizesRead(Described(o), Addr(o)) :
          mode = "up" /\ objs' = objs \cup {o} /\ (wild' <=> wild \/ real_size > o.size)
    BY <2>0
  <2>2. Shaped(o) /\ o \notin objs
    BY <1>0, PlacesShaped
  <2>3. HasSize(o, Described(o))
    BY <1>0, Adds
  <2>4. CASE o.home = "SB"
    <3>1. real_size = o.size /\ o.size \in Nat
      BY <1>0, <2>1, <2>2, <2>3, <2>4, SizeOfSmall DEF Shaped, Objects
    <3> QED BY <2>1, <3>1
  <2>5. CASE o.home = "LAR"
    BY <2>1, <2>2, <2>5 DEF CallocOfLarge
  <2> QED BY <2>2, <2>4, <2>5 DEF Shaped, Objects
<1>2. ASSUME NEW o \in objs, NEW n \in Sizes, Realloc(o, n) PROVE ReallocShrinks
  <2>1. PICK x \in Places(n), old_size \in SizesRead(dsc, Addr(o)) :
          /\ mode = "up" /\ InRange("SB", Addr(o))
          /\ objs' = (objs \ {o}) \cup {x} /\ (wild' <=> wild \/ old_size > x.size)
    BY <1>2 DEF Realloc, Up
  <2>2. /\ Shaped(o) /\ HasSize(o, dsc) /\ Shaped(x) /\ x \notin objs
        /\ o.req \in Nat /\ x.req \in Nat /\ o.size \in Nat /\ x.size \in Nat
        /\ o.home \in {"SB", "LAR"} /\ x.home \in {"SB", "LAR"}
    BY <1>0, PlacesShaped DEF ObjsOK, Shaped, Objects
  <2>3. o \in objs \ objs' /\ x \in objs' \ objs
    BY <2>1, <2>2
  <2>4. ASSUME o.req <= x.req PROVE ~(old_size > x.size)
    <3>1. CASE o.home = "SB"
      <4>1. old_size = o.size
        BY <1>0, <2>1, <2>2, <3>1, SizeOfSmall
      <4> QED BY <2>2, <2>4, <3>1, <4>1, NoSmaller
    <3>2. CASE o.home = "LAR"
      <4>1. old_size \in Nat /\ old_size <= 65536
        BY <1>0, <2>1 DEF SizesRead, DescsOK, SBSIZE
      <4>2. o.req > 65536 /\ x.req > 65536
        BY <2>2, <2>4, <3>2 DEF Shaped, IsLarge, SBSIZE
      <4>3. ~IsClass(x) /\ ~IsWhole(x)
        <5>1. ~IsClass(x)
          BY <4>2, SmallSizes DEF IsClass
        <5>2. ~IsWhole(x)
          BY <2>2, <4>2 DEF IsWhole, SBSIZE
        <5> QED BY <5>1, <5>2
      <4>4. x.size = x.req
        BY <2>2, <4>3 DEF Shaped, IsLarge
      <4> QED BY <2>2, <4>1, <4>2, <4>4
    <3> QED BY <2>2, <3>1, <3>2
  <2>5. x.req < o.req
    BY <2>1, <2>2, <2>4
  <2> QED BY <2>3, <2>5 DEF ReallocShrinks
<1>3. ASSUME RegionStep \/ (\E n \in Sizes : Malloc(n)) \/ \E o \in objs : Free(o) \/ SetRoot(o)
      PROVE  wild' = wild
  BY <1>3 DEF RegionStep, ivars, Malloc, Free, SetRoot
<1> QED BY <1>1, <1>2, <1>3 DEF Next

\* Past the end of a block write only the BXP_calloc of a large object, which takes for
\* its size what lies outside the descriptors, and the BXP_realloc to a smaller size,
\* which copies the whole old block: when the SB region is always mapped at the same
\* distance from a multiple of SBSIZE.
THEOREM OverflowsAreThese == Congruent /\ Spec => OnlyTheseOverflow
<1>1. ASSUME Congruent PROVE Spec => OnlyTheseOverflow
  <2>1. IInv /\ [Next]_vars => [~wild /\ wild' => CallocOfLarge \/ ReallocShrinks]_vars
    BY <1>1, OverflowStep
  <2> QED BY <2>1, InterfaceInvariant, PTL DEF Spec, OnlyTheseOverflow
<1> QED BY <1>1
=============================================================================
