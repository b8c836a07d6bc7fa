------------------------------ MODULE ClassSize ------------------------------
(***************************************************************************)
(* The size classes: which block size a request is rounded up to, which    *)
(* index a block size has, and the table that leads back.                  *)
(***************************************************************************)
EXTENDS Integers

SBSIZE == 65536
MAX_SZ == 24 * 1024
NLIST == 160

\* _RoundUp: (size + align - 1) & ~(align - 1), for a power of two.
RoundTo(size, align) == ((size + align - 1) \div align) * align

\* The step between classes where size is.
Step(size) ==
  IF size <= 128 THEN 8 ELSE IF size <= 1024 THEN 16 ELSE IF size <= 8192 THEN 128 ELSE 512

RoundUp(size) == RoundTo(size, Step(size))

\* _Index, with align instead of its logarithm.
IndexIn(bytes, align) == (bytes + align - 1) \div align - 1

Index(bytes) ==
  IF bytes <= 128 THEN IndexIn(bytes, 8)
  ELSE IF bytes <= 1024 THEN IndexIn(bytes - 128, 16) + 16
  ELSE IF bytes <= 8192 THEN IndexIn(bytes - 1024, 128) + 72
  ELSE IndexIn(bytes - 8192, 512) + 128

getsizefromindex(index) ==
  IF index < 16 THEN (index + 1) * 8
  ELSE IF index < 72 THEN 128 + (index - 15) * 16
  ELSE IF index < 128 THEN 1024 + (index - 71) * 128
  ELSE 8192 + (index - 127) * 512

\* The key of sizetoindex under which do_malloc looks up a size.
HasClass(size) == \E i \in 0 .. NLIST - 1 : getsizefromindex(i) = RoundUp(size)
=============================================================================
