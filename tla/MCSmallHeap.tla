---------------------------- MODULE MCSmallHeap ----------------------------
(* Small instances of SmallHeap for TLC. *)
EXTENDS SmallHeap, TLC

\* Threads are interchangeable in the safety runs.
Symmetry == Permutations(Threads)
=============================================================================
