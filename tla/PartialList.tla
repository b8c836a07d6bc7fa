---------------------------- MODULE PartialList ----------------------------
(***************************************************************************)
(* heap_push_partial and heap_pop_partial: the list of superblocks with    *)
(* free blocks, a stack linked through Descriptor::next_partial whose head *)
(* shares a word with a counter that every push increments and that wraps  *)
(* around.  One step is one access to shared memory.                       *)
(***************************************************************************)
EXTENDS Integers, Sequences, FiniteSets

CONSTANTS
  Threads,
  Descs,    \* descriptors of the size class
  NoDesc,   \* nullptr
  Wrap      \* values of the counter: 2 ^ (64 - MAX_DESC_OFFSET_BITS)

ASSUME PartialAssumption ==
  NoDesc \notin Descs /\ IsFiniteSet(Descs) /\ Wrap \in Nat \ {0}

VARIABLES
  head,     \* ProcHeap::partial_list: pointer and counter
  next,     \* Descriptor::next_partial
  off,      \* descriptors off the list that nobody is pushing
  pc, mine, oldhead, link,  \* where a thread is, and its locals
  got       \* the last descriptor a thread has popped

vars == <<head, next, off, pc, mine, oldhead, link, got>>

\* What AtomicCrossPtrCnt stores and loads again: the bits of the counter that the
\* offset leaves room for.
Packed(p, c) == [ptr |-> p, cnt |-> c % Wrap]
Head0 == Packed(NoDesc, 0)

Init ==
  /\ head = Head0
  /\ next = [d \in Descs |-> NoDesc]
  /\ off = Descs
  /\ pc = [t \in Threads |-> "idle"]
  /\ mine = [t \in Threads |-> NoDesc]
  /\ oldhead = [t \in Threads |-> Head0]
  /\ link = [t \in Threads |-> NoDesc]
  /\ got = [t \in Threads |-> NoDesc]

At(t, l) == pc[t] = l
Goto(t, l) == pc' = [pc EXCEPT ![t] = l]

Return(t) ==
  /\ Goto(t, "idle")
  /\ mine' = [mine EXCEPT ![t] = NoDesc]
  /\ oldhead' = [oldhead EXCEPT ![t] = Head0]
  /\ link' = [link EXCEPT ![t] = NoDesc]
-----------------------------------------------------------------------------
(* heap_push_partial *)

Push(t) ==
  /\ At(t, "idle")
  /\ \E d \in off : mine' = [mine EXCEPT ![t] = d] /\ off' = off \ {d}
  /\ oldhead' = [oldhead EXCEPT ![t] = head]
  /\ Goto(t, "push_link")
  /\ UNCHANGED <<head, next, link, got>>

PushLink(t) ==
  /\ At(t, "push_link")
  /\ next' = [next EXCEPT ![mine[t]] = oldhead[t].ptr]
  /\ Goto(t, "push_cas")
  /\ UNCHANGED <<head, off, mine, oldhead, link, got>>

\* Mutant: next_partial is set once, before the loop.
PushLinkedOnce(t) ==
  /\ At(t, "push_cas")
  /\ \/ /\ head = oldhead[t]
        /\ head' = Packed(mine[t], oldhead[t].cnt + 1)
        /\ Return(t)
     \/ /\ head # oldhead[t]
        /\ oldhead' = [oldhead EXCEPT ![t] = head]
        /\ UNCHANGED <<head, mine, link, pc>>
  /\ UNCHANGED <<next, off, got>>

\* Mutant: a failed CAS does not load the head again.
PushStale(t) ==
  /\ At(t, "push_cas")
  /\ \/ /\ head = oldhead[t]
        /\ head' = Packed(mine[t], oldhead[t].cnt + 1)
        /\ Return(t)
     \/ /\ head # oldhead[t]
        /\ Goto(t, "push_link")
        /\ UNCHANGED <<head, mine, oldhead, link>>
  /\ UNCHANGED <<next, off, got>>

\* Mutant: the head has no counter.
PushUncounted(t) ==
  /\ At(t, "push_cas")
  /\ \/ /\ head = oldhead[t]
        /\ head' = Packed(mine[t], oldhead[t].cnt)
        /\ Return(t)
     \/ /\ head # oldhead[t]
        /\ oldhead' = [oldhead EXCEPT ![t] = head]
        /\ Goto(t, "push_link")
        /\ UNCHANGED <<head, mine, link>>
  /\ UNCHANGED <<next, off, got>>

PushCAS(t) ==
  /\ At(t, "push_cas")
  /\ \/ /\ head = oldhead[t]
        /\ head' = Packed(mine[t], oldhead[t].cnt + 1)
        /\ Return(t)
     \/ /\ head # oldhead[t]
        /\ oldhead' = [oldhead EXCEPT ![t] = head]
        /\ Goto(t, "push_link")
        /\ UNCHANGED <<head, mine, link>>
  /\ UNCHANGED <<next, off, got>>
-----------------------------------------------------------------------------
(* heap_pop_partial *)

\* Loads the head; returns nullptr when the list is empty.
Pop(t) ==
  /\ At(t, "idle")
  /\ \/ /\ head.ptr # NoDesc
        /\ oldhead' = [oldhead EXCEPT ![t] = head]
        /\ Goto(t, "pop_next")
     \/ /\ head.ptr = NoDesc
        /\ UNCHANGED <<oldhead, pc>>
  /\ UNCHANGED <<head, next, off, mine, link, got>>

PopNext(t) ==
  /\ At(t, "pop_next")
  /\ link' = [link EXCEPT ![t] = next[oldhead[t].ptr]]
  /\ Goto(t, "pop_cas")
  /\ UNCHANGED <<head, next, off, mine, oldhead, got>>

PopCAS(t) ==
  /\ At(t, "pop_cas")
  /\ \/ /\ head = oldhead[t]
        /\ head' = Packed(link[t], oldhead[t].cnt)
        /\ off' = off \cup {oldhead[t].ptr}
        /\ got' = [got EXCEPT ![t] = oldhead[t].ptr]
        /\ Return(t)
     \/ /\ head # oldhead[t] /\ head.ptr # NoDesc
        /\ oldhead' = [oldhead EXCEPT ![t] = head]
        /\ Goto(t, "pop_next")
        /\ UNCHANGED <<head, off, mine, link, got>>
     \/ /\ head # oldhead[t] /\ head.ptr = NoDesc
        /\ Return(t)
        /\ UNCHANGED <<head, off, got>>
  /\ UNCHANGED next

\* small_sb_retire of a descriptor popped from the list erases its link while
\* other threads may still be reading it.
Retire(d) ==
  /\ d \in off
  /\ next' = [next EXCEPT ![d] = NoDesc]
  /\ off' = off \ {d}
  /\ UNCHANGED <<head, pc, mine, oldhead, link, got>>
-----------------------------------------------------------------------------
\* What the counter is for: while a pop is between its load and its CAS, fewer
\* pushes succeed than the counter has values (2^34 in the code).
PromptPops ==
  \A u \in Threads : pc[u] \in {"pop_next", "pop_cas"} =>
    (head.cnt - oldhead[u].cnt + 1) % Wrap # 0

Step(t) == PushLink(t) \/ (PromptPops /\ PushCAS(t)) \/ PopNext(t) \/ PopCAS(t)

Next ==
  \/ \E t \in Threads : Push(t) \/ Pop(t) \/ Step(t)
  \/ \E d \in Descs : Retire(d)

Spec == Init /\ [][Next]_vars /\ \A t \in Threads : WF_vars(Step(t))
-----------------------------------------------------------------------------
(* Properties *)

\* The links nx followed from h.
Walk(h, nx) ==
  LET f[k \in 0 .. Cardinality(Descs)] ==
        IF k = 0 THEN h ELSE IF f[k - 1] = NoDesc THEN NoDesc ELSE nx[f[k - 1]]
  IN  f

\* The list as a sequence.
ListFrom(h, nx) ==
  LET w == Walk(h, nx)
  IN  [k \in 1 .. Cardinality({j \in DOMAIN w : w[j] # NoDesc}) |-> w[k - 1]]
Listed == ListFrom(head.ptr, next)

Atomic == INSTANCE AtomicList
  WITH list <- Listed, Items <- Descs, NoItem <- NoDesc, Cap <- Cardinality(Descs),
       Lifo <- TRUE

\* Push and pop take effect at one instant, last in first out, although a popper
\* reads the link of a descriptor that others may have popped, erased or pushed
\* again: the list implements the one that SmallHeap uses.
ImplementsStack == Atomic!Spec

\* A descriptor is popped by one thread only: it is on the list once, or off it.
ListedOnce ==
  /\ \A i, j \in DOMAIN Listed : Listed[i] = Listed[j] => i = j
  /\ \A i \in DOMAIN Listed :
       Listed[i] \notin off /\ \A t \in Threads : Listed[i] # mine[t]

\* No livelock: with every thread inside a push or a pop scheduled again and
\* again, pushes and pops keep returning while any is in progress.
NoLivelock ==
  \/ []<><<\E t \in Threads : pc[t] # "idle" /\ pc'[t] = "idle">>_vars
  \/ <>[](\A t \in Threads : pc[t] = "idle")
=============================================================================
