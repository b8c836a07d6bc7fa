----------------------------- MODULE AtomicList -----------------------------
(***************************************************************************)
(* What SmallHeap takes the free queue and the partial list for: a list    *)
(* that is changed in one step, first in first out or last in first out.   *)
(***************************************************************************)
EXTENDS Naturals, Sequences

CONSTANTS Threads, Items, NoItem, Cap, Lifo

VARIABLES
  list,  \* the items, the next to be taken first
  got    \* the last item each thread took

Init == list = <<>> /\ got = [t \in Threads |-> NoItem]

Put(v) ==
  /\ Len(list) < Cap
  /\ list' = IF Lifo THEN <<v>> \o list ELSE Append(list, v)
  /\ UNCHANGED got

Take(t) ==
  /\ list # <<>>
  /\ got' = [got EXCEPT ![t] = Head(list)]
  /\ list' = Tail(list)

Next == (\E v \in Items : Put(v)) \/ (\E t \in Threads : Take(t))

Spec == Init /\ [][Next]_<<list, got>>
=============================================================================
