---------------------------- MODULE MCInterface ----------------------------
(* Small instances of Interface for TLC. *)
EXTENDS Interface, FiniteSetsExt, TLC

\* The files below one another, as mmap puts them, s pages further up; g pages are
\* left free above the large region.
Packed(s, g) ==
  LET n == Max(HeapSizes)
      sb == 2000000 + s
      lar == sb - FileSizeIn(n, "LAR") - g
      queue == lar - FileSizeIn(n, "QUEUE")
  IN [DESC |-> sb + FileSizeIn(n, "SB"), SB |-> sb, LAR |-> lar, QUEUE |-> queue,
      META |-> queue - FileSizeIn(n, "META")]

\* SB regions that are whole superblocks apart.
SameInSuperblock == {Packed(0, 0), Packed(48, 3)}

\* SB regions that are pages apart.
AnyPage == {Packed(0, 0), Packed(5, 0)}

\* Threads may be exchanged.
Symmetry == Permutations(Threads)
=============================================================================
