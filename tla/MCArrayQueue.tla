---------------------------- MODULE MCArrayQueue ----------------------------
(* Small instances of ArrayQueue for TLC. *)
EXTENDS ArrayQueue, TLC

Symmetry == Permutations(Threads) \cup Permutations(Values)
=============================================================================
