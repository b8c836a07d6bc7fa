---------------------------- MODULE MCHeapStray ----------------------------
(***************************************************************************)
(* Behaviours of SmallHeap along one schedule, too long for a search of    *)
(* them all: which thread takes each step, and the label it comes to.      *)
(* Every step is one of SmallHeap.                                         *)
(***************************************************************************)
EXTENDS SmallHeap

CONSTANTS A, B  \* two of the threads
VARIABLE step   \* position in the schedule

By(t, labels) == [i \in DOMAIN labels |-> <<t, labels[i]>>]

Schedule ==
  \* A takes the four blocks of superblock 1, part by part,
  By(A, <<"pop_partial", "sb_alloc", "use_sb", "push_part", "pop", "idle",
          "pop_partial", "reserve", "take_part", "push_part", "pop", "idle", "idle",
          "pop_partial", "reserve", "take_all", "pop", "idle">>)
  \* ends, and returns two: the tail's link is made from the FULL anchor.
  \o By(A, <<"flush", "idle", "idle", "idle", "flush", "flush_cas", "push_flush",
             "flush", "idle">>)
  \* B has superblock 2 as a whole object, and begins to take a part of 1.
  \o By(B, <<"sb_alloc", "use_sb", "idle", "pop_partial", "reserve", "take_part">>)
  \* A returns a third block.
  \o By(A, <<"idle", "flush", "flush_cas", "flush", "idle">>)
  \* B installs the index from before with the count from after, takes what the
  \* count says is left, and uses one block of it;
  \o By(B, <<"take_part", "push_part", "pop", "idle",
             "pop_partial", "reserve", "take_all", "pop", "idle">>)
  \* it ends, and returns the rest of its cache.
  \o By(B, <<"flush", "flush_cas", "retire">>)

Directed ==
  /\ Init /\ step = 1
  /\ [][/\ step \in DOMAIN Schedule /\ step' = step + 1
        /\ LET t == Schedule[step][1] IN
           /\ Step(t) \/ Call(t)
           /\ pc'[t] = Schedule[step][2]]_<<vars, step>>
=============================================================================
