----------------------------- MODULE ArrayQueue -----------------------------
(***************************************************************************)
(* _ArrayQueue of LockFreeQueue.hpp: the non-blocking array queue that     *)
(* holds the free superblocks.  `rear' carries the last value pushed; it   *)
(* reaches its slot of `nodes' only when the next push, or a pop that      *)
(* finds the queue one element long, helps (finish_enqueue).  One step is  *)
(* one access to shared memory.                                            *)
(***************************************************************************)
EXTENDS Integers, Sequences, FiniteSets

CONSTANTS
  Threads,
  Values,   \* superblocks; each is queued by the thread that owns it
  NoValue,  \* (T)0
  N,        \* slots of the array (80000 in LockFreeQueue)
  Width,    \* bits of a counter (32 in the code)
  MaxLap    \* bound: how often a slot is used, below 2^Width

ASSUME QueueAssumption ==
  /\ N \in Nat /\ N >= 3 /\ NoValue \notin Values
  /\ Width \in Nat /\ MaxLap \in Nat \ {0} /\ MaxLap < 2 ^ Width
  /\ IsFiniteSet(Threads) /\ Cardinality(Threads) <= N
  \* front's index and counter together tell the pops apart, up to the bound (with 80000
  \* slots and 32 bits below 2^25 laps).
  /\ \A p, q \in 0 .. N * MaxLap : p % N = q % N /\ p % 2 ^ Width = q % 2 ^ Width => p = q

VARIABLES
  rear, front, nodes,
  off,      \* superblocks outside the queue that nobody is pushing
  pc, val, oldr, oldf, oldn, newc, ret,  \* where a thread is, and its locals
  got,      \* the last value a thread has popped
  halted    \* assert(0 && "queue is full!")

shared == <<rear, front, nodes>>
local == <<val, oldr, oldf, oldn, newc, ret>>
vars == <<shared, off, pc, local, got, halted>>
-----------------------------------------------------------------------------
MaybeValue == Values \cup {NoValue}
Slots == 0 .. N - 1
Counters == 0 .. 2 ^ Width - 1
Rears == [value : MaybeValue, index : Slots, counter : Counters]
Fronts == [index : Slots, counter : Counters]
Nodes == [value : MaybeValue, counter : Counters]
Rear0 == [value |-> NoValue, index |-> 0, counter |-> 0]
Front0 == [index |-> 1, counter |-> 0]
Node0 == [value |-> NoValue, counter |-> 0]
\* Slot i + k.
Slot(i, k) == (i + k) % N
\* Mutant: the counter is not an unsigned one.
CountSigned(c, k) == c + k
\* uint32_t: c + k.
Count(c, k) == (c + k) % (2 ^ Width)

Init ==
  /\ rear = Rear0 /\ front = Front0 /\ nodes = [i \in Slots |-> Node0]
  /\ off = Values
  /\ pc = [t \in Threads |-> "idle"]
  /\ val = [t \in Threads |-> NoValue]
  /\ oldr = [t \in Threads |-> Rear0]
  /\ oldf = [t \in Threads |-> Front0]
  /\ oldn = [t \in Threads |-> Node0]
  /\ newc = [t \in Threads |-> 0]
  /\ ret = [t \in Threads |-> NoValue]
  /\ got = [t \in Threads |-> NoValue]
  /\ halted = FALSE

At(t, l) == ~halted /\ pc[t] = l
Goto(t, l) == pc' = [pc EXCEPT ![t] = l]

\* A call leaves nothing of its locals behind.
Return(t) ==
  /\ Goto(t, "idle")
  /\ val' = [val EXCEPT ![t] = NoValue]
  /\ oldr' = [oldr EXCEPT ![t] = Rear0]
  /\ oldf' = [oldf EXCEPT ![t] = Front0]
  /\ oldn' = [oldn EXCEPT ![t] = Node0]
  /\ newc' = [newc EXCEPT ![t] = 0]
  /\ ret' = [ret EXCEPT ![t] = NoValue]
-----------------------------------------------------------------------------
(* push *)

Push(t) ==
  /\ At(t, "idle") /\ rear.counter < MaxLap
  /\ \E v \in off : val' = [val EXCEPT ![t] = v] /\ off' = off \ {v}
  /\ Goto(t, "push_rear")
  /\ UNCHANGED <<shared, oldr, oldf, oldn, newc, ret, got, halted>>

PushLoadRear(t) ==
  /\ At(t, "push_rear")
  /\ oldr' = [oldr EXCEPT ![t] = rear]
  /\ Goto(t, "push_front")
  /\ UNCHANGED <<shared, off, val, oldf, oldn, newc, ret, got, halted>>

PushLoadFront(t) ==
  /\ At(t, "push_front")
  /\ oldf' = [oldf EXCEPT ![t] = front]
  /\ Goto(t, "push_check")
  /\ UNCHANGED <<shared, off, val, oldr, oldn, newc, ret, got, halted>>

PushCheck(t) ==
  /\ At(t, "push_check")
  /\ Goto(t, IF rear = oldr[t] THEN "fin" ELSE "push_rear")
  /\ UNCHANGED <<shared, off, local, got, halted>>

\* The assertion, or the counter of the next slot.
PushNext(t) ==
  /\ At(t, "push_next")
  /\ \/ /\ oldf[t].index = Slot(oldr[t].index, 2)
        /\ halted' = TRUE
        /\ UNCHANGED <<pc, newc>>
     \/ /\ oldf[t].index # Slot(oldr[t].index, 2)
        /\ newc' = [newc EXCEPT ![t] = Count(nodes[Slot(oldr[t].index, 1)].counter, 1)]
        /\ Goto(t, "push_cas")
        /\ UNCHANGED halted
  /\ UNCHANGED <<shared, off, val, oldr, oldf, oldn, ret, got>>

PushCAS(t) ==
  /\ At(t, "push_cas")
  /\ \/ /\ rear = oldr[t]
        /\ rear' = [value |-> val[t], index |-> Slot(oldr[t].index, 1),
                    counter |-> newc[t]]
        /\ Return(t)
     \/ /\ rear # oldr[t]
        /\ Goto(t, "push_rear")
        /\ UNCHANGED <<rear, local>>
  /\ UNCHANGED <<front, nodes, off, got, halted>>
-----------------------------------------------------------------------------
(* finish_enqueue, called by push and by pop *)

FinLoad(t) ==
  /\ At(t, "fin")
  /\ oldn' = [oldn EXCEPT ![t] = [value |-> nodes[oldr[t].index].value,
                                  counter |-> Count(oldr[t].counter, -1)]]
  /\ Goto(t, "fin_cas")
  /\ UNCHANGED <<shared, off, val, oldr, oldf, newc, ret, got, halted>>

\* Mutant: the node is written with the counter it had.
FinSameCounter(t) ==
  /\ At(t, "fin_cas")
  /\ nodes' = [nodes EXCEPT ![oldr[t].index].value = oldr[t].value]
  /\ Goto(t, IF val[t] # NoValue THEN "push_next" ELSE "pop_next")
  /\ UNCHANGED <<rear, front, off, local, got, halted>>

\* while(!nodes[index].compare_exchange_weak(old_node, new_node)): a failed CAS
\* loads old_node, so the loop writes the node whatever happened to it.
FinCAS(t) ==
  /\ At(t, "fin_cas")
  /\ \/ /\ nodes[oldr[t].index] = oldn[t]
        /\ nodes' = [nodes EXCEPT ![oldr[t].index] =
                       [value |-> oldr[t].value, counter |-> oldr[t].counter]]
        /\ Goto(t, IF val[t] # NoValue THEN "push_next" ELSE "pop_next")
        /\ UNCHANGED oldn
     \/ /\ nodes[oldr[t].index] # oldn[t]
        /\ oldn' = [oldn EXCEPT ![t] = nodes[oldr[t].index]]
        /\ UNCHANGED <<nodes, pc>>
  /\ UNCHANGED <<rear, front, off, val, oldr, oldf, newc, ret, got, halted>>
-----------------------------------------------------------------------------
(* pop *)

PopLoadFront(t) ==
  /\ At(t, "idle") \/ At(t, "pop_front")
  /\ oldf' = [oldf EXCEPT ![t] = front]
  /\ Goto(t, "pop_rear")
  /\ UNCHANGED <<shared, off, val, oldr, oldn, newc, ret, got, halted>>

PopLoadRear(t) ==
  /\ At(t, "pop_rear")
  /\ oldr' = [oldr EXCEPT ![t] = rear]
  /\ Goto(t, "pop_check")
  /\ UNCHANGED <<shared, off, val, oldf, oldn, newc, ret, got, halted>>

\* Mutant: a pop never helps, so it reads a slot the last push has not reached.
PopNoHelp(t) ==
  /\ At(t, "pop_check")
  /\ Goto(t, IF front # oldf[t] THEN "pop_front" ELSE "pop_next")
  /\ UNCHANGED <<shared, off, local, got, halted>>

PopCheck(t) ==
  /\ At(t, "pop_check")
  /\ Goto(t, IF front # oldf[t] THEN "pop_front"
             ELSE IF oldf[t].index = oldr[t].index THEN "fin" ELSE "pop_next")
  /\ UNCHANGED <<shared, off, local, got, halted>>

\* Empty, or the value of the first slot.
PopNext(t) ==
  /\ At(t, "pop_next")
  /\ \/ /\ oldf[t].index = Slot(oldr[t].index, 1)
        /\ Return(t)
     \/ /\ oldf[t].index # Slot(oldr[t].index, 1)
        /\ ret' = [ret EXCEPT ![t] = nodes[oldf[t].index].value]
        /\ Goto(t, "pop_cas")
        /\ UNCHANGED <<val, oldr, oldf, oldn, newc>>
  /\ UNCHANGED <<shared, off, got, halted>>

PopCAS(t) ==
  /\ At(t, "pop_cas")
  /\ \/ /\ front = oldf[t]
        /\ front' = [index |-> Slot(oldf[t].index, 1), counter |-> Count(oldf[t].counter, 1)]
        /\ off' = off \cup {ret[t]}
        /\ got' = [got EXCEPT ![t] = ret[t]]
        /\ Return(t)
     \/ /\ front # oldf[t]
        /\ Goto(t, "pop_front")
        /\ UNCHANGED <<front, off, got, local>>
  /\ UNCHANGED <<rear, nodes, halted>>
-----------------------------------------------------------------------------
Step(t) ==
  \/ PushLoadRear(t) \/ PushLoadFront(t) \/ PushCheck(t) \/ PushNext(t) \/ PushCAS(t)
  \/ FinLoad(t) \/ FinCAS(t)
  \/ PopLoadFront(t) \/ PopLoadRear(t) \/ PopCheck(t) \/ PopNext(t) \/ PopCAS(t)

Dead == halted /\ UNCHANGED vars

Next == (\E t \in Threads : Push(t) \/ Step(t)) \/ Dead

Spec == Init /\ [][Next]_vars

\* No thread is suspended in finish_enqueue for a whole lap of the array: the
\* slot it is about to write still has the node it was called for, or an older one.
PromptHelpers ==
  \A t \in Threads : pc[t] \in {"fin", "fin_cas"} =>
    /\ nodes[oldr[t].index].counter <= oldr[t].counter
    /\ rear.index = oldr[t].index => rear.counter <= oldr[t].counter

PromptSpec == Init /\ [][Next /\ PromptHelpers']_vars
-----------------------------------------------------------------------------
(* Properties *)

TypeOK ==
  /\ rear \in Rears /\ front \in Fronts /\ nodes \in [Slots -> Nodes]
  /\ off \subseteq Values
  /\ val \in [Threads -> MaybeValue] /\ ret \in [Threads -> MaybeValue] /\ got \in [Threads -> MaybeValue]
  /\ oldr \in [Threads -> Rears] /\ oldf \in [Threads -> Fronts]
  /\ oldn \in [Threads -> Nodes] /\ newc \in [Threads -> Counters]
  /\ halted \in BOOLEAN

\* The values between front and rear; the last of them is in rear.
Queued ==
  [k \in 1 .. (rear.index - front.index + 1) % N |->
     LET i == Slot(front.index, k - 1)
     IN  IF i = rear.index THEN rear.value ELSE nodes[i].value]

\* A superblock is in the queue once, or with its owner: push loses none and pop
\* returns none twice ("Pop the top value from the queue, or empty").
QueuedOnce ==
  /\ \A i, j \in DOMAIN Queued : Queued[i] = Queued[j] => i = j
  /\ {Queued[i] : i \in DOMAIN Queued} \subseteq Values \ off

Atomic == INSTANCE AtomicList
  WITH list <- Queued, Items <- Values, NoItem <- NoValue, Cap <- N - 1, Lifo <- FALSE

\* push and pop take effect at one instant, first in first out: _ArrayQueue
\* implements the queue that SmallHeap uses.
ImplementsQueue == Atomic!Spec
=============================================================================
