-------------------------- MODULE ArrayQueueProofs --------------------------
(***************************************************************************)
(* Proofs about ArrayQueue: push and pop of _ArrayQueue implement a queue  *)
(* that is changed in one step, for any number of slots and threads, while *)
(* no helper is suspended for a whole lap.  The proof numbers the pushes   *)
(* and the pops: what `rear' and a node hold says which push they are of,  *)
(* and what `front' holds, which pop comes next.                           *)
(***************************************************************************)
EXTENDS ArrayQueue, FiniteSetTheorems, TLAPS

\* The number of values of a counter.
M == 2 ^ Width

\* The number of the push that used slot i with counter c.
Lap(i) == IF i = 0 THEN N ELSE i
Pos(i, c) == (c - 1) * N + Lap(i)
PosOf(w) == Pos(w.index, w.counter)
R == PosOf(rear)

\* The number of the pop that comes next when front is w.
Pops == 1 .. N * MaxLap + 1
FrontAt(p) == [index |-> p % N, counter |-> (p - 1) % M]
PopOf(w) == CHOOSE p \in Pops : FrontAt(p) = w
F == PopOf(front)

Labels ==
  {"idle", "push_rear", "push_front", "push_check", "fin", "fin_cas", "push_next", "push_cas",
   "pop_front", "pop_rear", "pop_check", "pop_next", "pop_cas"}
PushLabels == {"push_rear", "push_front", "push_check", "push_next", "push_cas"}
Fin == {"fin", "fin_cas"}

\* The type invariant, and who is pushing.
QTypeOK ==
  /\ TypeOK /\ pc \in [Threads -> Labels]
  /\ \A t \in Threads : pc[t] \in PushLabels => val[t] # NoValue
  /\ \A t \in Threads : pc[t] \notin PushLabels \cup Fin => val[t] = NoValue

\* front is at most N - 1 elements behind rear, and rear stays below the bound.
Busy == {t \in Threads : val[t] # NoValue}
EndsOK ==
  /\ R \in Nat /\ F \in Pops /\ front = FrontAt(F)
  /\ F <= R + 1 /\ R + 2 <= F + N
  /\ R + Cardinality(Busy) <= N * MaxLap

\* The nodes hold the pushes of the last lap, but for the very last one.
NodeOf(w) == [value |-> w.value, counter |-> w.counter]
ArrayOK ==
  \A i \in Slots : i # rear.index =>
    R - N < Pos(i, nodes[i].counter) /\ Pos(i, nodes[i].counter) < R
Done == nodes[rear.index] = NodeOf(rear)

\* w has been in rear: it still is, or it is in its slot, or it is a lap ago.
OldRear(w) ==
  /\ PosOf(w) \in Nat /\ PosOf(w) <= R
  /\ PosOf(w) = R => w = rear
  /\ R - N < PosOf(w) /\ PosOf(w) < R => nodes[w.index] = NodeOf(w)
RearsOK == OldRear(Rear0) /\ \A t \in Threads : OldRear(oldr[t])

\* w has been in front.
OldFront(w) == PopOf(w) \in Pops /\ w = FrontAt(PopOf(w)) /\ PopOf(w) <= F
FrontsOK == \A t \in Threads : OldFront(oldf[t])

\* What a thread knows where it is.
PushAt(t) ==
  /\ pc[t] \in {"push_check", "push_next", "push_cas"} \/ (pc[t] \in Fin /\ val[t] # NoValue) =>
       PosOf(oldr[t]) + 2 <= PopOf(oldf[t]) + N
  /\ pc[t] \in {"push_next", "push_cas"} /\ oldr[t] = rear => Done
  /\ pc[t] = "push_cas" =>
       /\ oldf[t].index # Slot(oldr[t].index, 2)
       /\ oldr[t] = rear => Pos(Slot(rear.index, 1), newc[t]) = R + 1
PopAt(t) ==
  /\ pc[t] = "pop_check" => PopOf(oldf[t]) <= PosOf(oldr[t]) + 1
  /\ pc[t] \in Fin /\ val[t] = NoValue => PosOf(oldr[t]) = PopOf(oldf[t])
  /\ pc[t] = "pop_next" =>
       /\ PopOf(oldf[t]) <= PosOf(oldr[t]) + 1
       /\ PosOf(oldr[t]) + 2 <= PopOf(oldf[t]) + N
       /\ PosOf(oldr[t]) = PopOf(oldf[t]) /\ oldr[t] = rear => Done
  /\ pc[t] = "pop_cas" /\ PopOf(oldf[t]) = F =>
       F <= R /\ ret[t] = nodes[front.index].value /\ (F = R => Done)
ThreadsOK == \A t \in Threads : PushAt(t) /\ PopAt(t)

\* A value is in the queue, outside, or being pushed by one thread.
Elems(L) == {L[i] : i \in DOMAIN L}
OwnedOK ==
  /\ \A i, j \in DOMAIN Queued : Queued[i] = Queued[j] => i = j
  /\ Elems(Queued) \subseteq Values \ off
  /\ \A t \in Threads : val[t] # NoValue =>
       /\ val[t] \notin off /\ val[t] \notin Elems(Queued)
       /\ \A u \in Threads : u # t => val[u] # val[t]

\* The inductive invariant.
QInv ==
  /\ QTypeOK /\ EndsOK /\ ArrayOK /\ RearsOK /\ FrontsOK /\ ThreadsOK /\ OwnedOK
  /\ PromptHelpers
-----------------------------------------------------------------------------
(* Arithmetic *)

\* A product with a factor of at least 1 is no smaller than the other factor.
LEMMA Times ==
  ASSUME NEW k \in Int, NEW n \in Nat, n > 0, k >= 1
  PROVE  k * n >= n
<1>1. PICK j \in Nat : k = j + 1
  <2>1. k - 1 \in Nat /\ k = (k - 1) + 1
    OBVIOUS
  <2> QED BY <2>1
<1>2. j * n >= 0
  OBVIOUS
<1>3. (j + 1) * n = j * n + n
  OBVIOUS
<1> QED BY <1>1, <1>2, <1>3

\* Division with remainder.
LEMMA Divide ==
  ASSUME NEW a \in Int, NEW n \in Nat, n > 0
  PROVE  a % n \in 0 .. n - 1 /\ \E k \in Int : a = k * n + (a % n)
<1>1. a % n \in 0 .. n - 1
  OBVIOUS
<1>2. PICK q \in Int : q = a \div n
  OBVIOUS
<1>3. PICK r \in 0 .. n - 1 : r = a % n
  BY <1>1
<1>4. a = q * n + r
  BY <1>2, <1>3
<1> QED BY <1>3, <1>4, Zenon

\* Two numbers with the same remainder that are less than n apart are equal.
LEMMA Close ==
  ASSUME NEW n \in Nat, n > 0, NEW j \in Int, NEW k \in Int, NEW r \in 0 .. n - 1, NEW s \in 0 .. n - 1,
         j * n + r = k * n + s
  PROVE  j = k /\ r = s
<1>1. (j - k) * n = s - r
  <2>1. (j - k) * n = j * n - k * n
    OBVIOUS
  <2>2. j * n \in Int /\ k * n \in Int
    OBVIOUS
  <2> QED BY <2>1, <2>2
<1>2. ~(j - k >= 1)
  <2>1. j - k >= 1 => (j - k) * n >= n
    BY Times
  <2> QED BY <1>1, <2>1
<1>3. ~(k - j >= 1)
  <2>1. k - j >= 1 => (k - j) * n >= n
    BY Times
  <2>2. (k - j) * n = -((j - k) * n)
    <3>1. (k - j) * n = k * n - j * n /\ (j - k) * n = j * n - k * n
      OBVIOUS
    <3>2. j * n \in Int /\ k * n \in Int
      OBVIOUS
    <3> QED BY <3>1, <3>2
  <2> QED BY <1>1, <2>1, <2>2
<1>4. j = k
  BY <1>2, <1>3
<1> QED BY <1>1, <1>4

\* The remainder is the only one.
LEMMA Remainder ==
  ASSUME NEW a \in Int, NEW n \in Nat, n > 0, NEW k \in Int, NEW r \in 0 .. n - 1, a = k * n + r
  PROVE  a % n = r
<1>1. PICK j \in Int : a = j * n + (a % n)
  BY Divide
<1>2. a % n \in 0 .. n - 1
  BY Divide
<1> QED BY <1>1, <1>2, Close

\* Remainders of sums.
LEMMA ModAdd ==
  ASSUME NEW a \in Int, NEW b \in Int, NEW n \in Nat, n > 0
  PROVE  ((a % n) + b) % n = (a + b) % n
<1>1. PICK k \in Int : a = k * n + (a % n)
  BY Divide
<1>2. a % n \in 0 .. n - 1
  BY Divide
<1>3. PICK r \in 0 .. n - 1 : r = a % n /\ a = k * n + r
  BY <1>1, <1>2, Zenon
<1>4. PICK c \in Int : c = r + b
  OBVIOUS
<1>5. PICK j \in Int : c = j * n + (c % n)
  BY Divide
<1>6. PICK s \in 0 .. n - 1 : s = c % n /\ c = j * n + s
  <2>1. c % n \in 0 .. n - 1
    BY Divide
  <2> QED BY <1>5, <2>1, Zenon
<1>7. a + b = (k + j) * n + s
  <2>1. (k + j) * n = k * n + j * n
    OBVIOUS
  <2>2. k * n \in Int /\ j * n \in Int /\ a = k * n + r /\ c = j * n + s
    BY <1>3, <1>6
  <2> QED BY <1>4, <2>1, <2>2
<1>8. (a + b) % n = s
  <2>1. a + b \in Int /\ k + j \in Int
    OBVIOUS
  <2> QED BY <1>7, <2>1, Remainder
<1> QED BY <1>3, <1>4, <1>6, <1>8, Zenon

\* Numbers less than n apart have different remainders.
LEMMA ModApart ==
  ASSUME NEW a \in Int, NEW b \in Int, NEW n \in Nat, n > 0, a % n = b % n, a < b + n, b < a + n
  PROVE  a = b
<1>1. PICK j \in Int : a = j * n + (a % n)
  BY Divide
<1>2. PICK k \in Int : b = k * n + (b % n)
  BY Divide
<1>3. a % n \in 0 .. n - 1
  BY Divide
<1>4. PICK r \in 0 .. n - 1 : r = a % n /\ a = j * n + r /\ b = k * n + r
  BY <1>1, <1>2, <1>3, Zenon
<1>5. (j - k) * n = a - b
  <2>1. (j - k) * n = j * n - k * n
    OBVIOUS
  <2>2. j * n \in Int /\ k * n \in Int /\ a = j * n + r /\ b = k * n + r
    BY <1>4
  <2> QED BY <2>1, <2>2
<1>6. ~(j - k >= 1)
  <2>1. j - k >= 1 => (j - k) * n >= n
    BY Times
  <2> QED BY <1>5, <2>1
<1>7. ~(k - j >= 1)
  <2>1. k - j >= 1 => (k - j) * n >= n
    BY Times
  <2>2. (k - j) * n = b - a
    <3>1. (k - j) * n = k * n - j * n
      OBVIOUS
    <3>2. j * n \in Int /\ k * n \in Int /\ a = j * n + r /\ b = k * n + r
      BY <1>4
    <3> QED BY <3>1, <3>2
  <2> QED BY <2>1, <2>2
<1>8. j = k
  BY <1>6, <1>7
<1> QED BY <1>4, <1>8, Zenon

\* A lap further is the same slot.
LEMMA ModLap ==
  ASSUME NEW a \in Int, NEW n \in Nat, n > 0
  PROVE  (a + n) % n = a % n
<1>1. PICK k \in Int : a = k * n + (a % n)
  BY Divide
<1>2. a % n \in 0 .. n - 1
  BY Divide
<1>3. PICK r \in 0 .. n - 1 : r = a % n /\ a = k * n + r
  BY <1>1, <1>2, Zenon
<1>4. a + n = (k + 1) * n + r
  <2>1. (k + 1) * n = k * n + n
    OBVIOUS
  <2>2. k * n \in Int /\ a = k * n + r
    BY <1>3
  <2> QED BY <2>1, <2>2
<1>5. a + n \in Int /\ k + 1 \in Int
  OBVIOUS
<1>6. (a + n) % n = r
  BY <1>4, <1>5, Remainder
<1> QED BY <1>3, <1>6

\* Numbers with the same remainder move together.
LEMMA ModMove ==
  ASSUME NEW a \in Int, NEW b \in Int, NEW c \in Int, NEW n \in Nat, n > 0, a % n = b % n
  PROVE  (a + c) % n = (b + c) % n
<1>1. ((a % n) + c) % n = (a + c) % n /\ ((b % n) + c) % n = (b + c) % n
  BY ModAdd
<1> QED BY <1>1

\* The constants.
LEMMA Constants ==
  /\ N \in Nat /\ N >= 3 /\ N > 0 /\ MaxLap \in Nat /\ MaxLap >= 1 /\ M \in Nat /\ M > 0
  /\ MaxLap < M /\ N * MaxLap \in Nat /\ NoValue \notin Values
  /\ 0 \in Slots /\ 1 \in Slots
<1>1. Width \in Nat /\ 2 ^ Width \in Nat /\ MaxLap < 2 ^ Width
  BY QueueAssumption
<1>2. N \in Nat /\ N >= 3 /\ MaxLap \in Nat /\ MaxLap >= 1 /\ NoValue \notin Values
  BY QueueAssumption
<1>3. N * MaxLap \in Nat
  BY <1>2
<1> QED BY <1>1, <1>2, <1>3 DEF M, Slots
-----------------------------------------------------------------------------
(* Pushes and pops by number *)

\* A slot and a counter are those of one push only.
LEMMA PosIs ==
  ASSUME NEW i \in Slots, NEW c \in Nat
  PROVE  Pos(i, c) \in Int /\ Pos(i, c) % N = i /\ Pos(i, c + 1) = Pos(i, c) + N
<1>1. N \in Nat /\ N >= 3 /\ i \in 0 .. N - 1
  BY Constants DEF Slots
<1>2. PICK x \in Int : x = (c - 1) * N
  BY <1>1
<1>3. c * N = x + N /\ ((c + 1) - 1) * N = x + N
  <2>1. c * N = ((c - 1) + 1) * N /\ ((c - 1) + 1) * N = (c - 1) * N + N
    BY <1>1
  <2>2. (c + 1) - 1 = c
    OBVIOUS
  <2> QED BY <1>2, <2>1, <2>2
<1>4. Lap(i) \in 1 .. N
  BY <1>1 DEF Lap
<1>5. Pos(i, c) = x + Lap(i) /\ Pos(i, c + 1) = (x + N) + Lap(i)
  BY <1>2, <1>3 DEF Pos
<1>6. CASE i = 0
  <2>1. Pos(i, c) = c * N + 0
    BY <1>1, <1>3, <1>5, <1>6 DEF Lap
  <2>2. 0 \in 0 .. N - 1 /\ Pos(i, c) \in Int
    BY <1>1, <1>4, <1>5
  <2>3. Pos(i, c) % N = 0
    BY <1>1, <2>1, <2>2, Remainder
  <2> QED BY <1>1, <1>4, <1>5, <1>6, <2>3
<1>7. CASE i # 0
  <2>1. Pos(i, c) = (c - 1) * N + i
    BY <1>7 DEF Pos, Lap
  <2>2. Pos(i, c) \in Int /\ c - 1 \in Int
    BY <1>1, <1>4, <1>5
  <2>3. Pos(i, c) % N = i
    BY <1>1, <2>1, <2>2, Remainder
  <2> QED BY <1>1, <1>4, <1>5, <2>3
<1> QED BY <1>6, <1>7

\* The order of the pushes to a slot is that of their counters.
LEMMA PosOrder ==
  ASSUME NEW i \in Slots, NEW c \in Nat, NEW d \in Nat, c <= d
  PROVE  Pos(i, c) <= Pos(i, d)
<1>1. N \in Nat /\ N > 0
  BY Constants
<1>2. PICK k \in Nat : d = c + k
  <2>1. d - c \in Nat /\ d = c + (d - c)
    OBVIOUS
  <2> QED BY <2>1
<1>3. PICK x \in Int : x = (c - 1) * N
  BY <1>1
<1>4. (d - 1) * N = x + k * N
  <2>1. d - 1 = (c - 1) + k
    BY <1>2
  <2>2. ((c - 1) + k) * N = (c - 1) * N + k * N
    BY <1>1
  <2> QED BY <1>3, <2>1, <2>2
<1>5. k * N \in Nat
  BY <1>1
<1>6. Lap(i) \in Int
  BY <1>1 DEF Lap, Slots
<1> QED BY <1>3, <1>4, <1>5, <1>6 DEF Pos

\* Up to the bound of the pushes, counters are below the bound of the laps.
LEMMA PosBound ==
  ASSUME NEW i \in Slots, NEW c \in Nat, Pos(i, c) <= N * MaxLap
  PROVE  c <= MaxLap
<1>1. N \in Nat /\ N > 0 /\ MaxLap \in Nat
  BY Constants
<1>2. Lap(i) \in Int /\ Lap(i) >= 1
  BY <1>1 DEF Lap, Slots
<1>3. ASSUME c > MaxLap PROVE FALSE
  <2>1. PICK k \in Nat : c - 1 = MaxLap + k
    <3>1. c - 1 - MaxLap \in Nat /\ c - 1 = MaxLap + (c - 1 - MaxLap)
      BY <1>1, <1>3
    <3> QED BY <3>1
  <2>2. (c - 1) * N = MaxLap * N + k * N
    <3>1. (MaxLap + k) * N = MaxLap * N + k * N
      BY <1>1
    <3> QED BY <2>1, <3>1
  <2>3. k * N \in Nat /\ MaxLap * N = N * MaxLap /\ N * MaxLap \in Nat
    BY <1>1
  <2>4. PICK x \in Nat, y \in Nat : x = k * N /\ y = N * MaxLap /\ (c - 1) * N = y + x
    BY <2>2, <2>3
  <2>5. (c - 1) * N + Lap(i) <= y
    BY <2>4 DEF Pos
  <2> QED BY <1>2, <2>4, <2>5
<1> QED BY <1>1, <1>3

\* The slot after that of a push is that of the next one.
LEMMA SlotAfter ==
  ASSUME NEW x \in Int, NEW k \in Int
  PROVE  Slot(x % N, k) = (x + k) % N /\ Slot(x % N, k) \in Slots
<1>1. N \in Nat /\ N > 0
  BY Constants
<1>2. Slot(x % N, k) = (x + k) % N
  BY <1>1, ModAdd DEF Slot
<1>3. x + k \in Int
  OBVIOUS
<1>4. (x + k) % N \in 0 .. N - 1
  BY <1>1, <1>3, Divide
<1> QED BY <1>2, <1>4 DEF Slots

\* What push computes from the counter that the next slot had a lap ago.
LEMMA NextPush ==
  ASSUME NEW i \in Slots, NEW c \in Nat, NEW e \in Nat,
         Pos(i, c) - N < Pos(Slot(i, 1), e), Pos(Slot(i, 1), e) < Pos(i, c)
  PROVE  Pos(Slot(i, 1), e + 1) = Pos(i, c) + 1
<1>1. N \in Nat /\ N >= 3 /\ N > 0
  BY Constants
<1>2. PICK x \in Int : x = Pos(i, c) /\ x % N = i
  BY PosIs
<1>3. Slot(i, 1) = (x + 1) % N /\ Slot(i, 1) \in Slots
  BY <1>2, SlotAfter
<1>4. PICK s \in Slots : s = Slot(i, 1)
  BY <1>3
<1>5. PICK y \in Int : y = Pos(s, e) /\ y % N = s /\ Pos(s, e + 1) = y + N
  BY PosIs
<1>6. PICK z \in Int : z = x + 1 - N
  BY <1>1
<1>7. z % N = s
  <2>1. (z + N) % N = z % N
    BY <1>1, ModLap
  <2>2. z + N = x + 1
    BY <1>1, <1>6
  <2> QED BY <1>3, <1>4, <2>1, <2>2
<1>8. x - N < y /\ y < x
  BY <1>2, <1>4, <1>5
<1>9. y < z + N /\ z < y + N
  BY <1>1, <1>6, <1>8
<1>10. y = z
  BY <1>1, <1>5, <1>7, <1>9, ModApart
<1> QED BY <1>1, <1>2, <1>4, <1>5, <1>6, <1>10

\* Pushes less than a lap apart use different slots.
LEMMA SlotsApart ==
  ASSUME NEW x \in Int, NEW y \in Int, x < y, y < x + N
  PROVE  x % N # y % N
<1>1. N \in Nat /\ N > 0
  BY Constants
<1>2. x < y + N
  BY <1>1
<1> QED BY <1>1, <1>2, ModApart

\* front tells which pop is next.
LEMMA PopIs ==
  ASSUME NEW p \in Pops
  PROVE  PopOf(FrontAt(p)) = p
<1>1. N \in Nat /\ N > 0 /\ N * MaxLap \in Nat /\ M = 2 ^ Width
  BY Constants DEF M
<1>2. ASSUME NEW q \in Pops, FrontAt(q) = FrontAt(p) PROVE q = p
  <2>1. p \in Int /\ q \in Int /\ p - 1 \in 0 .. N * MaxLap /\ q - 1 \in 0 .. N * MaxLap
    BY <1>1 DEF Pops
  <2>2. q % N = p % N /\ (q - 1) % M = (p - 1) % M
    BY <1>2 DEF FrontAt
  <2>3. (q + (-1)) % N = (p + (-1)) % N
    BY <1>1, <2>1, <2>2, ModMove
  <2>4. q + (-1) = q - 1 /\ p + (-1) = p - 1
    BY <2>1
  <2>5. q - 1 = p - 1
    BY <1>1, <2>1, <2>2, <2>3, <2>4, QueueAssumption
  <2> QED BY <2>1, <2>5
<1>3. PopOf(FrontAt(p)) \in Pops /\ FrontAt(PopOf(FrontAt(p))) = FrontAt(p)
  BY DEF PopOf
<1> QED BY <1>2, <1>3

\* What pop writes to front.
LEMMA NextPop ==
  ASSUME NEW p \in Pops
  PROVE  [index |-> Slot(FrontAt(p).index, 1), counter |-> Count(FrontAt(p).counter, 1)]
           = FrontAt(p + 1)
<1>1. N \in Nat /\ N > 0 /\ M \in Nat /\ M > 0 /\ M = 2 ^ Width
  BY Constants DEF M
<1>2. p \in Int
  BY Constants DEF Pops
<1>3. FrontAt(p).index = p % N /\ FrontAt(p).counter = (p - 1) % M
  BY DEF FrontAt
<1>4. Slot(p % N, 1) = (p + 1) % N
  BY <1>2, SlotAfter
<1>5. Count((p - 1) % M, 1) = ((p - 1) + 1) % M
  <2>1. p - 1 \in Int
    BY <1>2
  <2>2. (((p - 1) % M) + 1) % M = ((p - 1) + 1) % M
    BY <1>1, <2>1, ModAdd
  <2> QED BY <1>1, <2>2 DEF Count
<1>6. (p - 1) + 1 = (p + 1) - 1
  BY <1>2
<1> QED BY <1>3, <1>4, <1>5, <1>6 DEF FrontAt
-----------------------------------------------------------------------------
(* The queue as a sequence *)

\* The queue that rear r, front f and nodes nd make; the value of push p.
QOf(r, f, nd) ==
  [k \in 1 .. (r.index - f.index + 1) % N |->
     LET i == Slot(f.index, k - 1) IN IF i = r.index THEN r.value ELSE nd[i].value]
ValAt(r, nd, p) == IF p % N = r.index THEN r.value ELSE nd[p % N].value

\* It is the pushes from the next pop to rear.
LEMMA QueueIs ==
  ASSUME NEW r \in Rears, NEW p \in Pops, NEW nd \in [Slots -> Nodes],
         p <= PosOf(r) + 1, PosOf(r) + 2 <= p + N
  PROVE  /\ PosOf(r) + 1 - p \in 0 .. N - 1
         /\ QOf(r, FrontAt(p), nd) = [k \in 1 .. PosOf(r) + 1 - p |-> ValAt(r, nd, p + k - 1)]
         /\ QOf(r, FrontAt(p), nd) \in Seq(MaybeValue)
<1>1. N \in Nat /\ N >= 3 /\ N > 0 /\ p \in Int
  BY Constants DEF Pops
<1>2. r.index \in Slots /\ r.counter \in Nat /\ r.value \in MaybeValue
  BY Constants DEF Rears, Counters, M
<1>3. PICK x \in Int : x = PosOf(r) /\ x % N = r.index
  BY <1>2, PosIs DEF PosOf
<1>4. PICK n \in 0 .. N - 1 : n = x + 1 - p
  BY <1>1, <1>3
<1>5. PICK i \in Slots : i = p % N
  BY <1>1, Divide DEF Slots
<1>6. i \in 0 .. N - 1
  BY DEF Slots
<1>7. PICK m \in Int : p = m * N + i
  BY <1>1, <1>5, Divide
<1>8. (r.index - i + 1) % N = n
  <2>1. ((x % N) + (1 - i)) % N = (x + (1 - i)) % N
    <3>1. 1 - i \in Int
      BY <1>1, <1>6
    <3> QED BY <1>1, <3>1, ModAdd
  <2>2. x + (1 - i) = m * N + n
    BY <1>1, <1>4, <1>6, <1>7
  <2>3. x + (1 - i) \in Int
    BY <1>1, <1>6
  <2>4. (x + (1 - i)) % N = n
    BY <1>1, <2>2, <2>3, Remainder
  <2>5. r.index - i + 1 = (x % N) + (1 - i)
    BY <1>1, <1>2, <1>3, <1>6 DEF Slots
  <2> QED BY <2>1, <2>4, <2>5
<1>9. ASSUME NEW k \in 1 .. n PROVE Slot(i, k - 1) = (p + k - 1) % N /\ (p + k - 1) % N \in Slots
  <2>1. k - 1 \in Int /\ p + (k - 1) = p + k - 1
    BY <1>1
  <2> QED BY <1>1, <1>5, <2>1, SlotAfter
<1>10. FrontAt(p).index = i
  BY <1>5 DEF FrontAt
<1>11. PICK q : q = QOf(r, FrontAt(p), nd)
  OBVIOUS
<1>12. q = [k \in 1 .. n |-> ValAt(r, nd, p + k - 1)]
  BY <1>8, <1>9, <1>10, <1>11 DEF QOf, ValAt
<1>13. ASSUME NEW k \in 1 .. n PROVE ValAt(r, nd, p + k - 1) \in MaybeValue
  BY <1>2, <1>9 DEF ValAt, Nodes
<1>14. q \in Seq(MaybeValue)
  BY <1>12, <1>13
<1> QED BY <1>3, <1>4, <1>11, <1>12, <1>14

\* push: rear moves on, and what was in it is in its node.
LEMMA QueuePush ==
  ASSUME NEW r \in Rears, NEW s \in Rears, NEW p \in Pops, NEW nd \in [Slots -> Nodes],
         p <= PosOf(r) + 1, PosOf(r) + 3 <= p + N, PosOf(s) = PosOf(r) + 1,
         nd[r.index].value = r.value
  PROVE  QOf(s, FrontAt(p), nd) = Append(QOf(r, FrontAt(p), nd), s.value)
<1>1. N \in Nat /\ N >= 3 /\ N > 0 /\ p \in Int
  BY Constants DEF Pops
<1>2. r.index \in Slots /\ r.counter \in Nat /\ s.index \in Slots /\ s.counter \in Nat
  BY Constants DEF Rears, Counters, M
<1>3. PICK x \in Int : x = PosOf(r) /\ x % N = r.index
  BY <1>2, PosIs DEF PosOf
<1>4. x + 1 = PosOf(s) /\ (x + 1) % N = s.index
  BY <1>2, <1>3, PosIs DEF PosOf
<1>5. PICK a, b : a = QOf(r, FrontAt(p), nd) /\ b = QOf(s, FrontAt(p), nd)
  OBVIOUS
<1>6. PICK n \in 0 .. N - 1 : n = x + 1 - p
  BY <1>1, <1>3
<1>7. a \in Seq(MaybeValue) /\ a = [k \in 1 .. n |-> ValAt(r, nd, p + k - 1)]
  <2>1. PosOf(r) + 2 <= p + N
    BY <1>1, <1>3
  <2> QED BY <1>3, <1>5, <1>6, <2>1, QueueIs
<1>8. b \in Seq(MaybeValue) /\ b = [k \in 1 .. n + 1 |-> ValAt(s, nd, p + k - 1)]
  <2>1. PosOf(s) + 2 <= p + N /\ p <= PosOf(s) + 1 /\ PosOf(s) + 1 - p = n + 1
    BY <1>1, <1>3, <1>4, <1>6
  <2> QED BY <1>5, <2>1, QueueIs
<1>9. ASSUME NEW k \in 1 .. n PROVE ValAt(s, nd, p + k - 1) = ValAt(r, nd, p + k - 1)
  <2>1. PICK y \in Int : y = p + k - 1
    BY <1>1
  <2>2. y < x + 1 /\ x + 1 < y + N
    BY <1>1, <1>3, <1>6, <2>1
  <2>3. y % N # s.index
    BY <1>4, <2>2, SlotsApart
  <2>4. ValAt(s, nd, y) = nd[y % N].value
    BY <2>3 DEF ValAt
  <2>5. ValAt(r, nd, y) = nd[y % N].value
    BY DEF ValAt
  <2> QED BY <2>1, <2>4, <2>5
<1>10. ValAt(s, nd, p + (n + 1) - 1) = s.value
  <2>1. p + (n + 1) - 1 = x + 1
    BY <1>1, <1>6
  <2> QED BY <1>4, <2>1 DEF ValAt
<1>11. Append(a, s.value) = [k \in 1 .. n + 1 |-> IF k = n + 1 THEN s.value ELSE a[k]]
  <2>1. Len(a) = n
    BY <1>7
  <2> QED BY <1>7, <2>1
<1>12. \A k \in 1 .. n + 1 : ValAt(s, nd, p + k - 1) = IF k = n + 1 THEN s.value ELSE a[k]
  <2>1. ASSUME NEW k \in 1 .. n + 1
        PROVE  ValAt(s, nd, p + k - 1) = IF k = n + 1 THEN s.value ELSE a[k]
    <3>1. CASE k = n + 1
      BY <1>10, <3>1
    <3>2. CASE k # n + 1
      <4>1. k \in 1 .. n
        BY <3>2
      <4> QED BY <1>7, <1>9, <3>2, <4>1
    <3> QED BY <3>1, <3>2
  <2> QED BY <2>1
<1> QED BY <1>5, <1>8, <1>11, <1>12

\* pop: front moves on.
LEMMA QueuePop ==
  ASSUME NEW r \in Rears, NEW p \in Pops, p + 1 \in Pops, NEW nd \in [Slots -> Nodes],
         p <= PosOf(r), PosOf(r) + 2 <= p + N
  PROVE  /\ QOf(r, FrontAt(p), nd) # <<>>
         /\ Head(QOf(r, FrontAt(p), nd)) = ValAt(r, nd, p)
         /\ QOf(r, FrontAt(p + 1), nd) = Tail(QOf(r, FrontAt(p), nd))
<1>1. N \in Nat /\ N >= 3 /\ N > 0 /\ p \in Int
  BY Constants DEF Pops
<1>2. PICK x \in Int : x = PosOf(r)
  <2>1. r.index \in Slots /\ r.counter \in Nat
    BY Constants DEF Rears, Counters, M
  <2> QED BY <2>1, PosIs DEF PosOf
<1>3. PICK n \in 1 .. N - 1 : n = x + 1 - p
  BY <1>1, <1>2
<1>4. PICK a, b : a = QOf(r, FrontAt(p), nd) /\ b = QOf(r, FrontAt(p + 1), nd)
  OBVIOUS
<1>5. a \in Seq(MaybeValue) /\ a = [k \in 1 .. n |-> ValAt(r, nd, p + k - 1)]
  <2>1. p <= PosOf(r) + 1
    BY <1>1, <1>2
  <2> QED BY <1>2, <1>3, <1>4, <2>1, QueueIs
<1>6. b \in Seq(MaybeValue) /\ b = [k \in 1 .. n - 1 |-> ValAt(r, nd, (p + 1) + k - 1)]
  <2>1. p + 1 <= PosOf(r) + 1 /\ PosOf(r) + 2 <= (p + 1) + N /\ PosOf(r) + 1 - (p + 1) = n - 1
    BY <1>1, <1>2, <1>3
  <2> QED BY <1>4, <2>1, QueueIs
<1>7. Len(a) = n /\ a # <<>> /\ Head(a) = a[1]
  BY <1>5
<1>8. p + 1 - 1 = p
  BY <1>1
<1>9. a[1] = ValAt(r, nd, p)
  BY <1>5, <1>8
<1>10. Tail(a) = [k \in 1 .. n - 1 |-> a[k + 1]]
  BY <1>5, <1>7
<1>11. ASSUME NEW k \in 1 .. n - 1 PROVE a[k + 1] = ValAt(r, nd, (p + 1) + k - 1)
  <2>1. k + 1 \in 1 .. n /\ p + (k + 1) - 1 = (p + 1) + k - 1
    BY <1>1
  <2> QED BY <1>5, <2>1
<1> QED BY <1>4, <1>6, <1>7, <1>9, <1>10, <1>11

\* finish_enqueue: the queue reads the last value in rear, whatever its node holds.
LEMMA QueueSame ==
  ASSUME NEW r \in Rears, NEW p \in Pops, NEW nd \in [Slots -> Nodes], NEW ne \in [Slots -> Nodes],
         p <= PosOf(r) + 1, PosOf(r) + 2 <= p + N,
         \A i \in Slots : i # r.index => ne[i] = nd[i]
  PROVE  QOf(r, FrontAt(p), ne) = QOf(r, FrontAt(p), nd)
<1>1. N \in Nat /\ N > 0 /\ p \in Int
  BY Constants DEF Pops
<1>2. ASSUME NEW y \in Int PROVE ValAt(r, ne, y) = ValAt(r, nd, y)
  <2>1. y % N \in Slots
    BY <1>1, Divide DEF Slots
  <2> QED BY <2>1 DEF ValAt
<1>3. \A k \in Nat : p + k - 1 \in Int
  BY <1>1
<1>4. PICK n \in Nat : n = PosOf(r) + 1 - p
  <2>1. PosOf(r) + 1 - p \in 0 .. N - 1
    BY QueueIs
  <2>2. PosOf(r) + 1 - p \in Nat
    BY <1>1, <2>1
  <2> QED BY <2>2
<1>5. QOf(r, FrontAt(p), ne) = [k \in 1 .. n |-> ValAt(r, ne, p + k - 1)]
  BY <1>4, QueueIs
<1>6. QOf(r, FrontAt(p), nd) = [k \in 1 .. n |-> ValAt(r, nd, p + k - 1)]
  BY <1>4, QueueIs
<1>7. \A k \in 1 .. n : ValAt(r, ne, p + k - 1) = ValAt(r, nd, p + k - 1)
  BY <1>2, <1>3
<1> QED BY <1>5, <1>6, <1>7

\* A value that is not in the queue is appended.
LEMMA AppendOnce ==
  ASSUME NEW S, NEW L \in Seq(S), NEW v \in S, v \notin Elems(L),
         \A i, j \in DOMAIN L : L[i] = L[j] => i = j
  PROVE  /\ \A i, j \in DOMAIN Append(L, v) : Append(L, v)[i] = Append(L, v)[j] => i = j
         /\ Elems(Append(L, v)) = Elems(L) \cup {v}
<1>1. PICK n \in Nat : n = Len(L) /\ DOMAIN L = 1 .. n
  OBVIOUS
<1>2. PICK K : K = Append(L, v)
  OBVIOUS
<1>3. DOMAIN K = 1 .. n + 1 /\ K[n + 1] = v /\ \A i \in 1 .. n : K[i] = L[i]
  BY <1>1, <1>2
<1>4. \A i \in 1 .. n : L[i] # v
  BY <1>1 DEF Elems
<1>5. ASSUME NEW i \in 1 .. n + 1, NEW j \in 1 .. n + 1, K[i] = K[j] PROVE i = j
  <2>1. i \in 1 .. n \/ i = n + 1
    OBVIOUS
  <2>2. j \in 1 .. n \/ j = n + 1
    OBVIOUS
  <2> QED BY <1>1, <1>3, <1>4, <1>5, <2>1, <2>2
<1>6. Elems(K) = Elems(L) \cup {v}
  <2>1. ASSUME NEW i \in 1 .. n + 1 PROVE K[i] \in Elems(L) \cup {v}
    <3>1. i \in 1 .. n \/ i = n + 1
      OBVIOUS
    <3> QED BY <1>1, <1>3, <3>1 DEF Elems
  <2>2. v \in Elems(K)
    <3>1. n + 1 \in 1 .. n + 1
      OBVIOUS
    <3> QED BY <1>3, <3>1 DEF Elems
  <2>3. ASSUME NEW i \in 1 .. n PROVE L[i] \in Elems(K)
    <3>1. i \in 1 .. n + 1
      OBVIOUS
    <3> QED BY <1>3, <3>1 DEF Elems
  <2> QED BY <1>1, <1>3, <2>1, <2>2, <2>3 DEF Elems
<1> QED BY <1>2, <1>3, <1>5, <1>6

\* The first value is taken.
LEMMA TailOnce ==
  ASSUME NEW S, NEW L \in Seq(S), L # <<>>,
         \A i, j \in DOMAIN L : L[i] = L[j] => i = j
  PROVE  /\ \A i, j \in DOMAIN Tail(L) : Tail(L)[i] = Tail(L)[j] => i = j
         /\ Elems(Tail(L)) = Elems(L) \ {Head(L)} /\ Head(L) \in Elems(L)
<1>1. PICK n \in Nat : n = Len(L) /\ DOMAIN L = 1 .. n /\ n >= 1
  OBVIOUS
<1>2. PICK K : K = Tail(L)
  OBVIOUS
<1>3. DOMAIN K = 1 .. n - 1 /\ \A i \in 1 .. n - 1 : i + 1 \in 1 .. n /\ K[i] = L[i + 1]
  BY <1>1, <1>2
<1>4. Head(L) = L[1] /\ 1 \in 1 .. n
  BY <1>1
<1>5. ASSUME NEW i \in 1 .. n - 1, NEW j \in 1 .. n - 1, K[i] = K[j] PROVE i = j
  <2>1. i + 1 = j + 1
    BY <1>1, <1>3, <1>5
  <2> QED BY <2>1
<1>6. Elems(K) = Elems(L) \ {L[1]}
  <2>1. ASSUME NEW i \in 1 .. n - 1 PROVE K[i] \in Elems(L) /\ K[i] # L[1]
    <3>1. i + 1 \in 1 .. n /\ i + 1 # 1 /\ K[i] = L[i + 1]
      BY <1>3
    <3> QED BY <1>1, <1>4, <3>1 DEF Elems
  <2>2. ASSUME NEW i \in 1 .. n, L[i] # L[1] PROVE L[i] \in Elems(K)
    <3>1. i - 1 \in 1 .. n - 1 /\ (i - 1) + 1 = i
      BY <2>2
    <3>2. K[i - 1] = L[i]
      BY <1>3, <3>1
    <3> QED BY <1>3, <3>1, <3>2 DEF Elems
  <2> QED BY <1>1, <1>3, <2>1, <2>2 DEF Elems
<1>7. Head(L) \in Elems(L)
  BY <1>1, <1>4 DEF Elems
<1> QED BY <1>2, <1>3, <1>4, <1>5, <1>6, <1>7
-----------------------------------------------------------------------------
(* What the invariant says *)

\* The queue as the lemmas see it.
LEMMA QueuedIs ==
  Queued = QOf(rear, front, nodes) /\ Queued' = QOf(rear', front', nodes')
  BY DEF Queued, QOf

\* The types of the words.
LEMMA RearTypes ==
  ASSUME NEW w \in Rears
  PROVE  /\ w.index \in Slots /\ w.counter \in Nat /\ w.counter \in Counters
         /\ w.value \in MaybeValue
         /\ PosOf(w) \in Int /\ PosOf(w) % N = w.index
<1>1. w.index \in Slots /\ w.counter \in Nat /\ w.counter \in Counters /\ w.value \in MaybeValue
  BY Constants DEF Rears, Counters, M
<1> QED BY <1>1, PosIs DEF PosOf

\* Counts and slots stay in their ranges.
LEMMA Ranges ==
  /\ \A c \in Int, k \in Int : Count(c, k) \in Counters
  /\ \A i \in Int, k \in Int : Slot(i, k) \in Slots
  /\ \A c \in Counters : c \in Nat
<1>1. M \in Nat /\ M > 0 /\ N \in Nat /\ N > 0 /\ M = 2 ^ Width
  BY Constants DEF M
<1>2. ASSUME NEW c \in Int, NEW k \in Int PROVE (c + k) % M \in 0 .. M - 1
  <2>1. c + k \in Int
    OBVIOUS
  <2> QED BY <1>1, <2>1, Divide
<1>3. ASSUME NEW c \in Int, NEW k \in Int PROVE (c + k) % N \in 0 .. N - 1
  <2>1. c + k \in Int
    OBVIOUS
  <2> QED BY <1>1, <2>1, Divide
<1>4. \A c \in Counters : c \in Nat
  BY <1>1 DEF Counters
<1> QED BY <1>1, <1>2, <1>3, <1>4 DEF Count, Slot, Counters, Slots

\* What a thread that is at one label knows of the numbers.
LEMMA Numbers ==
  ASSUME QInv
  PROVE  /\ R \in Nat /\ F \in Int /\ F \in Pops /\ front = FrontAt(F) /\ F >= 1
         /\ rear \in Rears /\ nodes \in [Slots -> Nodes] /\ R % N = rear.index
         /\ F % N = front.index
         /\ F <= R + 1 /\ R + 2 <= F + N
         /\ \A t \in Threads :
              /\ oldr[t] \in Rears /\ PosOf(oldr[t]) \in Nat /\ PosOf(oldr[t]) <= R
              /\ PosOf(oldr[t]) % N = oldr[t].index
              /\ PopOf(oldf[t]) \in Pops /\ PopOf(oldf[t]) \in Int /\ PopOf(oldf[t]) <= F
              /\ oldf[t] = FrontAt(PopOf(oldf[t])) /\ PopOf(oldf[t]) % N = oldf[t].index
<1>1. TypeOK /\ EndsOK /\ RearsOK /\ FrontsOK
  BY DEF QInv, QTypeOK
<1>2. Pops \subseteq Int /\ \A p \in Pops : p >= 1
  BY Constants DEF Pops
<1>3. rear \in Rears /\ nodes \in [Slots -> Nodes] /\ \A t \in Threads : oldr[t] \in Rears
  BY <1>1 DEF TypeOK
<1>4. R % N = rear.index
  BY <1>3, RearTypes DEF R
<1>5. \A p \in Pops : FrontAt(p).index = p % N
  BY DEF FrontAt
<1>6. \A t \in Threads : OldRear(oldr[t]) /\ OldFront(oldf[t])
  BY <1>1 DEF RearsOK, FrontsOK
<1>7. /\ R \in Nat /\ F \in Pops /\ front = FrontAt(F)
      /\ F <= R + 1 /\ R + 2 <= F + N
  BY <1>1 DEF EndsOK
<1>8. F % N = front.index
  BY <1>5, <1>7
<1>9. ASSUME NEW t \in Threads
      PROVE  /\ oldr[t] \in Rears /\ PosOf(oldr[t]) \in Nat /\ PosOf(oldr[t]) <= R
             /\ PosOf(oldr[t]) % N = oldr[t].index
             /\ PopOf(oldf[t]) \in Pops /\ PopOf(oldf[t]) \in Int /\ PopOf(oldf[t]) <= F
             /\ oldf[t] = FrontAt(PopOf(oldf[t])) /\ PopOf(oldf[t]) % N = oldf[t].index
  <2>1. oldr[t] \in Rears
    BY <1>3
  <2>2. PosOf(oldr[t]) % N = oldr[t].index
    BY <2>1, RearTypes
  <2>3. PosOf(oldr[t]) \in Nat /\ PosOf(oldr[t]) <= R
    BY <1>6 DEF OldRear
  <2>4. PopOf(oldf[t]) \in Pops /\ oldf[t] = FrontAt(PopOf(oldf[t])) /\ PopOf(oldf[t]) <= F
    BY <1>6 DEF OldFront
  <2>5. PopOf(oldf[t]) % N = oldf[t].index
    BY <1>5, <2>4
  <2> QED BY <1>2, <2>1, <2>2, <2>3, <2>4, <2>5
<1> QED BY <1>2, <1>3, <1>4, <1>7, <1>8, <1>9

\* A step of t that changes nothing but what t itself knows.
LEMMA QueueLocal ==
  ASSUME QInv, NEW t \in Threads, QTypeOK', PromptHelpers',
         UNCHANGED <<rear, front, nodes, off>>,
         val'[t] = val[t] \/ val'[t] = NoValue,
         \A u \in Threads : u # t =>
           /\ pc'[u] = pc[u] /\ val'[u] = val[u] /\ oldr'[u] = oldr[u] /\ oldf'[u] = oldf[u]
           /\ newc'[u] = newc[u] /\ ret'[u] = ret[u],
         OldRear(oldr'[t]), OldFront(oldf'[t]), PushAt(t)', PopAt(t)'
  PROVE  QInv' /\ Queued' = Queued
<1>1. R' = R /\ F' = F /\ Done' = Done
  BY DEF R, F, Done, PosOf, PopOf
<1>2. Queued' = Queued
  BY DEF Queued
<1>3. Busy' \subseteq Busy
  BY DEF Busy
<1>4. EndsOK'
  <2>1. IsFiniteSet(Busy) /\ Cardinality(Busy) \in Nat
    BY QueueAssumption, FS_Subset, FS_CardinalityType DEF Busy
  <2>2. Cardinality(Busy') <= Cardinality(Busy) /\ Cardinality(Busy') \in Nat
    BY <1>3, <2>1, FS_Subset, FS_CardinalityType
  <2>3. R \in Nat /\ F \in Pops /\ front = FrontAt(F) /\ F <= R + 1 /\ R + 2 <= F + N
    BY DEF QInv, EndsOK
  <2>4. R + Cardinality(Busy) <= N * MaxLap
    BY DEF QInv, EndsOK
  <2>5. R + Cardinality(Busy') <= N * MaxLap
    BY <2>1, <2>2, <2>3, <2>4, Constants
  <2> QED BY <1>1, <2>3, <2>5 DEF EndsOK
<1>5. ArrayOK'
  BY <1>1 DEF QInv, ArrayOK
<1>6. ASSUME NEW w, OldRear(w) PROVE OldRear(w)'
  BY <1>1, <1>6 DEF OldRear
<1>7. RearsOK'
  <2>1. OldRear(Rear0)'
    BY <1>6 DEF QInv, RearsOK
  <2>2. ASSUME NEW u \in Threads PROVE OldRear(oldr[u])'
    <3>1. CASE u = t
      BY <1>1, <3>1 DEF OldRear
    <3>2. CASE u # t
      <4>1. OldRear(oldr[u]) /\ oldr'[u] = oldr[u]
        BY <3>2 DEF QInv, RearsOK
      <4> QED BY <1>1, <4>1 DEF OldRear
    <3> QED BY <3>1, <3>2
  <2> QED BY <2>1, <2>2 DEF RearsOK
<1>8. FrontsOK'
  <2>1. ASSUME NEW u \in Threads PROVE OldFront(oldf[u])'
    <3>1. CASE u = t
      BY <1>1, <3>1 DEF OldFront
    <3>2. CASE u # t
      <4>1. OldFront(oldf[u]) /\ oldf'[u] = oldf[u]
        BY <3>2 DEF QInv, FrontsOK
      <4> QED BY <1>1, <4>1 DEF OldFront
    <3> QED BY <3>1, <3>2
  <2> QED BY <2>1 DEF FrontsOK
<1>9. ThreadsOK'
  <2>1. ASSUME NEW u \in Threads PROVE PushAt(u)' /\ PopAt(u)'
    <3>1. CASE u # t
      <4>1. PushAt(u) /\ PopAt(u)
        BY DEF QInv, ThreadsOK
      <4>2. /\ pc'[u] = pc[u] /\ val'[u] = val[u] /\ oldr'[u] = oldr[u] /\ oldf'[u] = oldf[u]
            /\ newc'[u] = newc[u] /\ ret'[u] = ret[u]
        BY <3>1
      <4>3. PushAt(u)'
        BY <1>1, <4>1, <4>2 DEF PushAt
      <4>4. PopAt(u)'
        BY <1>1, <4>1, <4>2 DEF PopAt
      <4> QED BY <4>3, <4>4
    <3> QED BY <3>1
  <2> QED BY <2>1 DEF ThreadsOK
<1>10. OwnedOK'
  <2>1. \A u \in Threads : val'[u] # NoValue => val'[u] = val[u]
    OBVIOUS
  <2>2. ASSUME NEW u \in Threads, val'[u] # NoValue
        PROVE  /\ val'[u] \notin off' /\ val'[u] \notin Elems(Queued')
               /\ \A v \in Threads : v # u => val'[v] # val'[u]
    <3>1. val'[u] = val[u] /\ val[u] # NoValue
      BY <2>1, <2>2
    <3>2. ASSUME NEW v \in Threads, v # u PROVE val'[v] # val[u]
      <4>1. val[v] # val[u]
        BY <3>1, <3>2 DEF QInv, OwnedOK
      <4> QED BY <2>1, <3>1, <4>1
    <3> QED BY <1>2, <3>1, <3>2 DEF QInv, OwnedOK
  <2> QED BY <1>2, <2>2 DEF QInv, OwnedOK
<1> QED BY <1>2, <1>4, <1>5, <1>7, <1>8, <1>9, <1>10 DEF QInv
-----------------------------------------------------------------------------
(* push *)

\* A push starts below the bound, and there are no more threads than slots.
LEMMA QPush ==
  ASSUME QInv, NEW t \in Threads, Push(t), PromptHelpers'
  PROVE  QInv' /\ Queued' = Queued
<1>1. PICK v \in off : val' = [val EXCEPT ![t] = v] /\ off' = off \ {v}
  BY DEF Push
<1>2. /\ pc[t] = "idle" /\ pc' = [pc EXCEPT ![t] = "push_rear"] /\ rear.counter < MaxLap
      /\ UNCHANGED <<rear, front, nodes, oldr, oldf, oldn, newc, ret, got, halted>>
  BY DEF Push, At, Goto, shared
<1>3. QTypeOK /\ TypeOK
  BY DEF QInv, QTypeOK
<1>4. v \in Values /\ v # NoValue
  BY <1>3, Constants DEF TypeOK
<1>5. pc'[t] = "push_rear" /\ val'[t] = v
  BY <1>1, <1>2, <1>3 DEF QTypeOK, TypeOK
<1>6. \A u \in Threads : u # t => pc'[u] = pc[u] /\ val'[u] = val[u]
  BY <1>1, <1>2, <1>3 DEF QTypeOK, TypeOK
<1>7. QTypeOK'
  <2>1. TypeOK'
    BY <1>1, <1>2, <1>3, <1>4 DEF TypeOK, MaybeValue
  <2>2. pc' \in [Threads -> Labels]
    BY <1>2, <1>3 DEF QTypeOK, Labels
  <2>3. ASSUME NEW u \in Threads
        PROVE  /\ pc'[u] \in PushLabels => val'[u] # NoValue
               /\ pc'[u] \notin PushLabels \cup Fin => val'[u] = NoValue
    <3>1. CASE u = t
      BY <1>4, <1>5, <3>1 DEF PushLabels
    <3>2. CASE u # t
      BY <1>3, <1>6, <3>2 DEF QTypeOK
    <3> QED BY <3>1, <3>2
  <2> QED BY <2>1, <2>2, <2>3 DEF QTypeOK
<1>8. R' = R /\ F' = F /\ Done' = Done /\ Queued' = Queued
  BY <1>2 DEF R, F, Done, PosOf, PopOf, Queued
<1>9. EndsOK'
  <2>1. Busy' \subseteq Threads
    BY DEF Busy
  <2>2. Cardinality(Busy') <= Cardinality(Threads) /\ Cardinality(Busy') \in Nat
        /\ Cardinality(Threads) \in Nat /\ Cardinality(Threads) <= N
    BY <2>1, QueueAssumption, FS_Subset, FS_CardinalityType
  <2>3. rear \in Rears /\ rear.index \in Slots /\ rear.counter \in Nat
    BY <1>3, RearTypes DEF TypeOK
  <2>4. R + N <= N * MaxLap
    <3>1. rear.counter <= MaxLap - 1 /\ MaxLap - 1 \in Nat
      BY <1>2, <2>3, Constants
    <3>2. R <= Pos(rear.index, MaxLap - 1)
      BY <2>3, <3>1, PosOrder DEF R, PosOf
    <3>3. Pos(rear.index, MaxLap) = Pos(rear.index, MaxLap - 1) + N
          /\ Pos(rear.index, MaxLap - 1) \in Int
      <4>1. (MaxLap - 1) + 1 = MaxLap
        BY Constants
      <4> QED BY <2>3, <3>1, <4>1, PosIs
    <3>4. Pos(rear.index, MaxLap) <= N * MaxLap
      <4>1. N \in Nat /\ MaxLap \in Nat /\ Lap(rear.index) \in Int /\ Lap(rear.index) <= N
        BY <2>3, Constants DEF Lap, Slots
      <4>2. (MaxLap - 1) * N + N = N * MaxLap
        BY <4>1
      <4>3. (MaxLap - 1) * N \in Int
        BY <4>1
      <4> QED BY <4>1, <4>2, <4>3 DEF Pos
    <3>5. R \in Int /\ N \in Int /\ Pos(rear.index, MaxLap) \in Int
      BY <2>3, Constants, RearTypes, PosIs DEF R
    <3>6. N * MaxLap \in Int
      BY Constants
    <3> QED BY <3>2, <3>3, <3>4, <3>5, <3>6
  <2>5. R \in Nat /\ F \in Pops /\ front = FrontAt(F) /\ F <= R + 1 /\ R + 2 <= F + N
    BY DEF QInv, EndsOK
  <2>6. R + Cardinality(Busy') <= N * MaxLap
    BY <2>2, <2>4, <2>5, Constants
  <2> QED BY <1>2, <1>8, <2>5, <2>6 DEF EndsOK
<1>10. ArrayOK' /\ RearsOK' /\ FrontsOK'
  BY <1>2, <1>8 DEF QInv, ArrayOK, RearsOK, FrontsOK, OldRear, OldFront
<1>11. ThreadsOK'
  <2>1. ASSUME NEW u \in Threads PROVE PushAt(u)' /\ PopAt(u)'
    <3>1. CASE u = t
      BY <1>5, <3>1 DEF PushAt, PopAt, Fin
    <3>2. CASE u # t
      <4>1. PushAt(u) /\ PopAt(u)
        BY DEF QInv, ThreadsOK
      <4>2. PushAt(u)'
        BY <1>2, <1>6, <1>8, <3>2, <4>1 DEF PushAt
      <4>3. PopAt(u)'
        BY <1>2, <1>6, <1>8, <3>2, <4>1 DEF PopAt
      <4> QED BY <4>2, <4>3
    <3> QED BY <3>1, <3>2
  <2> QED BY <2>1 DEF ThreadsOK
<1>12. OwnedOK'
  <2>1. v \notin off' /\ v \notin Elems(Queued') /\ \A u \in Threads : u # t => val[u] # v
    BY <1>1, <1>4, <1>8 DEF QInv, OwnedOK
  <2>2. ASSUME NEW u \in Threads, val'[u] # NoValue
        PROVE  /\ val'[u] \notin off' /\ val'[u] \notin Elems(Queued')
               /\ \A x \in Threads : x # u => val'[x] # val'[u]
    <3>1. CASE u = t
      BY <1>5, <1>6, <2>1, <3>1
    <3>2. CASE u # t
      <4>1. val[u] # NoValue /\ val'[u] = val[u]
        BY <1>6, <2>2, <3>2
      <4>2. val[u] \notin off /\ val[u] \notin Elems(Queued)
            /\ \A x \in Threads : x # u => val[x] # val[u]
        BY <4>1 DEF QInv, OwnedOK
      <4> QED BY <1>1, <1>5, <1>6, <1>8, <2>1, <3>2, <4>1, <4>2
    <3> QED BY <3>1, <3>2
  <2> QED BY <1>1, <1>8, <2>2 DEF QInv, OwnedOK
<1> QED BY <1>7, <1>8, <1>9, <1>10, <1>11, <1>12 DEF QInv

\* What is in rear and front now are words that have been there.
LEMMA Loaded ==
  ASSUME QInv
  PROVE  OldRear(rear) /\ OldFront(front)
<1>1. R \in Nat /\ F \in Pops /\ front = FrontAt(F) /\ F \in Int
  BY Numbers
<1> QED BY <1>1 DEF OldRear, OldFront, R, F

\* push loads rear.
LEMMA QPushLoadRear ==
  ASSUME QInv, NEW t \in Threads, PushLoadRear(t), PromptHelpers'
  PROVE  QInv' /\ Queued' = Queued
<1>1. /\ pc[t] = "push_rear" /\ pc' = [pc EXCEPT ![t] = "push_front"]
      /\ oldr' = [oldr EXCEPT ![t] = rear]
      /\ UNCHANGED <<rear, front, nodes, off, val, oldf, oldn, newc, ret, got, halted>>
  BY DEF PushLoadRear, At, Goto, shared
<1>2. QTypeOK /\ TypeOK
  BY DEF QInv, QTypeOK
<1>3. pc'[t] = "push_front" /\ oldr'[t] = rear
  BY <1>1, <1>2 DEF QTypeOK, TypeOK
<1>4. \A u \in Threads : u # t => pc'[u] = pc[u] /\ oldr'[u] = oldr[u]
  BY <1>1, <1>2 DEF QTypeOK, TypeOK
<1>5. QTypeOK'
  <2>1. TypeOK'
    BY <1>1, <1>2 DEF TypeOK
  <2>2. pc' \in [Threads -> Labels] /\ val[t] # NoValue
    BY <1>1, <1>2 DEF QTypeOK, Labels, PushLabels
  <2> QED BY <1>1, <1>2, <1>3, <1>4, <2>1, <2>2 DEF QTypeOK, PushLabels
<1>6. OldRear(oldr'[t]) /\ OldFront(oldf'[t])
  BY <1>1, <1>3, Loaded, Numbers DEF QInv, FrontsOK
<1>7. PushAt(t)' /\ PopAt(t)'
  BY <1>3 DEF PushAt, PopAt, Fin
<1> QED BY <1>1, <1>4, <1>5, <1>6, <1>7, QueueLocal

\* push loads front, after rear: the queue cannot have been longer than it is.
LEMMA QPushLoadFront ==
  ASSUME QInv, NEW t \in Threads, PushLoadFront(t), PromptHelpers'
  PROVE  QInv' /\ Queued' = Queued
<1>1. /\ pc[t] = "push_front" /\ pc' = [pc EXCEPT ![t] = "push_check"]
      /\ oldf' = [oldf EXCEPT ![t] = front]
      /\ UNCHANGED <<rear, front, nodes, off, val, oldr, oldn, newc, ret, got, halted>>
  BY DEF PushLoadFront, At, Goto, shared
<1>2. QTypeOK /\ TypeOK
  BY DEF QInv, QTypeOK
<1>3. pc'[t] = "push_check" /\ oldf'[t] = front
  BY <1>1, <1>2 DEF QTypeOK, TypeOK
<1>4. \A u \in Threads : u # t => pc'[u] = pc[u] /\ oldf'[u] = oldf[u]
  BY <1>1, <1>2 DEF QTypeOK, TypeOK
<1>5. QTypeOK'
  <2>1. TypeOK'
    BY <1>1, <1>2 DEF TypeOK
  <2>2. pc' \in [Threads -> Labels] /\ val[t] # NoValue
    BY <1>1, <1>2 DEF QTypeOK, Labels, PushLabels
  <2> QED BY <1>1, <1>2, <1>3, <1>4, <2>1, <2>2 DEF QTypeOK, PushLabels
<1>6. OldRear(oldr'[t]) /\ OldFront(oldf'[t])
  BY <1>1, <1>3, Loaded DEF QInv, RearsOK
<1>7. PushAt(t)'
  <2>1. PosOf(oldr[t]) + 2 <= PopOf(front) + N
    <3>1. PosOf(oldr[t]) \in Nat /\ R \in Nat /\ F \in Int /\ PosOf(oldr[t]) <= R /\ R + 2 <= F + N
      BY Numbers
    <3>2. PosOf(oldr[t]) + 2 <= F + N
      BY <3>1, Constants
    <3> QED BY <3>2 DEF F
  <2>2. PosOf(oldr[t])' + 2 <= PopOf(oldf[t])' + N
    BY <1>1, <1>3, <2>1 DEF PosOf, PopOf
  <2> QED BY <1>3, <2>2 DEF PushAt
<1>8. PopAt(t)'
  BY <1>3 DEF PopAt, Fin
<1> QED BY <1>1, <1>4, <1>5, <1>6, <1>7, <1>8, QueueLocal

\* push goes on when rear has not changed.
LEMMA QPushCheck ==
  ASSUME QInv, NEW t \in Threads, PushCheck(t), PromptHelpers'
  PROVE  QInv' /\ Queued' = Queued
<1>1. /\ pc[t] = "push_check"
      /\ pc' = [pc EXCEPT ![t] = IF rear = oldr[t] THEN "fin" ELSE "push_rear"]
      /\ UNCHANGED <<rear, front, nodes, off, val, oldr, oldf, oldn, newc, ret, got, halted>>
  BY DEF PushCheck, At, Goto, shared, local
<1>2. QTypeOK /\ TypeOK
  BY DEF QInv, QTypeOK
<1>3. pc'[t] \in {"fin", "push_rear"} /\ \A u \in Threads : u # t => pc'[u] = pc[u]
  BY <1>1, <1>2 DEF QTypeOK, TypeOK
<1>4. val[t] # NoValue
  BY <1>1, <1>2 DEF QTypeOK, PushLabels
<1>5. QTypeOK'
  <2>1. TypeOK'
    BY <1>1, <1>2 DEF TypeOK
  <2>2. pc' \in [Threads -> Labels]
    BY <1>1, <1>2 DEF QTypeOK, Labels
  <2> QED BY <1>1, <1>2, <1>3, <1>4, <2>1, <2>2 DEF QTypeOK, PushLabels, Fin
<1>6. OldRear(oldr'[t]) /\ OldFront(oldf'[t])
  BY <1>1 DEF QInv, RearsOK, FrontsOK
<1>7. PushAt(t)'
  <2>1. PosOf(oldr[t]) + 2 <= PopOf(oldf[t]) + N
    BY <1>1 DEF QInv, ThreadsOK, PushAt
  <2>2. PosOf(oldr[t])' + 2 <= PopOf(oldf[t])' + N
    BY <1>1, <2>1 DEF PosOf, PopOf
  <2> QED BY <1>3, <2>2 DEF PushAt
<1>8. PopAt(t)'
  BY <1>1, <1>3, <1>4 DEF PopAt, Fin
<1> QED BY <1>1, <1>3, <1>5, <1>6, <1>7, <1>8, QueueLocal
-----------------------------------------------------------------------------
(* finish_enqueue *)

\* The helper loads the node.
LEMMA QFinLoad ==
  ASSUME QInv, NEW t \in Threads, FinLoad(t), PromptHelpers'
  PROVE  QInv' /\ Queued' = Queued
<1>1. /\ pc[t] = "fin" /\ pc' = [pc EXCEPT ![t] = "fin_cas"]
      /\ oldn' = [oldn EXCEPT ![t] = [value |-> nodes[oldr[t].index].value,
                                      counter |-> Count(oldr[t].counter, -1)]]
      /\ UNCHANGED <<rear, front, nodes, off, val, oldr, oldf, newc, ret, got, halted>>
  BY DEF FinLoad, At, Goto, shared
<1>2. QTypeOK /\ TypeOK
  BY DEF QInv, QTypeOK
<1>3. pc'[t] = "fin_cas" /\ \A u \in Threads : u # t => pc'[u] = pc[u]
  BY <1>1, <1>2 DEF QTypeOK, TypeOK
<1>4. QTypeOK'
  <2>1. oldr[t].index \in Slots /\ oldr[t].counter \in Int
    BY <1>2, RearTypes DEF TypeOK
  <2>2. Count(oldr[t].counter, -1) \in Counters
    <3>1. PICK c \in Int, k \in Int : c = oldr[t].counter /\ k = -1
      BY <2>1
    <3>2. Count(c, k) \in Counters
      BY Ranges
    <3> QED BY <3>1, <3>2
  <2>3. nodes[oldr[t].index].value \in MaybeValue
    BY <1>2, <2>1 DEF TypeOK, Nodes
  <2>4. [value |-> nodes[oldr[t].index].value, counter |-> Count(oldr[t].counter, -1)] \in Nodes
    BY <2>2, <2>3 DEF Nodes
  <2>5. TypeOK'
    BY <1>1, <1>2, <2>4 DEF TypeOK
  <2>6. pc' \in [Threads -> Labels]
    BY <1>1, <1>2 DEF QTypeOK, Labels
  <2> QED BY <1>1, <1>2, <1>3, <2>5, <2>6 DEF QTypeOK, PushLabels, Fin
<1>5. OldRear(oldr'[t]) /\ OldFront(oldf'[t])
  BY <1>1 DEF QInv, RearsOK, FrontsOK
<1>6. PushAt(t) /\ PopAt(t)
  BY DEF QInv, ThreadsOK
<1>7. PushAt(t)'
  BY <1>1, <1>3, <1>6 DEF PushAt, Fin, PosOf, PopOf
<1>8. PopAt(t)'
  BY <1>1, <1>3, <1>6 DEF PopAt, Fin, PosOf, PopOf
<1> QED BY <1>1, <1>3, <1>4, <1>5, <1>7, <1>8, QueueLocal

\* A helper that has not slept for a lap helps with one of the last N pushes.
LEMMA HelpsRecent ==
  ASSUME QInv, NEW t \in Threads, pc[t] \in Fin
  PROVE  R - N < PosOf(oldr[t])
<1>1. /\ nodes[oldr[t].index].counter <= oldr[t].counter
      /\ rear.index = oldr[t].index => rear.counter <= oldr[t].counter
  BY DEF QInv, PromptHelpers, Fin
<1>2. TypeOK /\ ArrayOK /\ N \in Nat /\ N > 0
  BY Constants DEF QInv, QTypeOK
<1>3. PICK i \in Slots, c \in Nat : i = oldr[t].index /\ c = oldr[t].counter
  BY <1>2, RearTypes DEF TypeOK
<1>4. R \in Int /\ PosOf(oldr[t]) = Pos(i, c) /\ Pos(i, c) \in Int
  BY <1>3, PosIs, Numbers DEF PosOf
<1>5. CASE rear.index = i
  <2>1. rear.counter \in Nat /\ rear.counter <= c
    BY <1>1, <1>2, <1>3, <1>5, RearTypes DEF TypeOK
  <2>2. R <= Pos(i, c)
    BY <1>5, <2>1, PosOrder DEF R, PosOf
  <2> QED BY <1>2, <1>4, <2>2
<1>6. CASE rear.index # i
  <2>1. PICK e \in Nat : e = nodes[i].counter
    BY <1>2, Ranges DEF TypeOK, Nodes
  <2>2. R - N < Pos(i, e)
    BY <1>2, <1>6, <2>1 DEF ArrayOK
  <2>3. Pos(i, e) <= Pos(i, c) /\ Pos(i, e) \in Int
    BY <1>1, <1>3, <2>1, PosOrder, PosIs
  <2> QED BY <1>2, <1>4, <2>2, <2>3
<1> QED BY <1>5, <1>6

\* The node of the last push is written: nobody can see a difference.
LEMMA QFinWrites ==
  ASSUME QInv, NEW t \in Threads, QTypeOK', PromptHelpers',
         pc[t] = "fin_cas", oldr[t] = rear,
         pc' = [pc EXCEPT ![t] = IF val[t] # NoValue THEN "push_next" ELSE "pop_next"],
         nodes' = [nodes EXCEPT ![rear.index] = NodeOf(rear)],
         UNCHANGED <<rear, front, off, val, oldr, oldf, oldn, newc, ret>>
  PROVE  QInv' /\ Queued' = Queued
<1>1. QTypeOK /\ TypeOK
  BY DEF QInv, QTypeOK
<1>2. rear \in Rears /\ rear.index \in Slots /\ nodes \in [Slots -> Nodes] /\ nodes' \in [Slots -> Nodes]
  BY <1>1, RearTypes DEF TypeOK, QTypeOK
<1>3. \A i \in Slots : i # rear.index => nodes'[i] = nodes[i]
  BY <1>2
<1>4. R' = R /\ F' = F /\ Done'
  BY <1>2 DEF R, F, Done, PosOf, PopOf, NodeOf
<1>5. Queued' = Queued
  <2>1. PICK r \in Rears, nd \in [Slots -> Nodes], ne \in [Slots -> Nodes], p \in Pops :
          r = rear /\ nd = nodes /\ ne = nodes' /\ p = F /\ front = FrontAt(p)
    BY <1>2, Numbers
  <2>2. p <= PosOf(r) + 1 /\ PosOf(r) + 2 <= p + N
    BY <2>1, Numbers DEF R
  <2>3. \A i \in Slots : i # r.index => ne[i] = nd[i]
    BY <1>3, <2>1
  <2>4. QOf(r, FrontAt(p), ne) = QOf(r, FrontAt(p), nd)
    BY <2>2, <2>3, QueueSame
  <2> QED BY <2>1, <2>4, QueuedIs
<1>6. ASSUME NEW w \in Rears, OldRear(w) PROVE OldRear(w)'
  <2>1. R - N < PosOf(w) /\ PosOf(w) < R => nodes'[w.index] = nodes[w.index]
    <3>1. SUFFICES ASSUME R - N < PosOf(w), PosOf(w) < R PROVE nodes'[w.index] = nodes[w.index]
      OBVIOUS
    <3>2. PosOf(w) \in Int /\ PosOf(w) % N = w.index /\ w.index \in Slots
      BY RearTypes
    <3>3. R \in Int /\ R % N = rear.index /\ N \in Nat
      BY Numbers, Constants
    <3>4. R < PosOf(w) + N
      BY <3>1, <3>2, <3>3
    <3>5. w.index # rear.index
      BY <3>1, <3>2, <3>3, <3>4, SlotsApart
    <3> QED BY <1>3, <3>2, <3>5
  <2> QED BY <1>4, <1>6, <2>1 DEF OldRear
<1>7. RearsOK'
  <2>1. Rear0 \in Rears
    BY Constants DEF Rear0, Rears, MaybeValue, Counters, M
  <2>2. OldRear(Rear0)'
    BY <1>6, <2>1 DEF QInv, RearsOK
  <2>3. ASSUME NEW u \in Threads PROVE OldRear(oldr[u])'
    <3>1. PICK w \in Rears : w = oldr[u] /\ w = oldr'[u]
      BY <1>1 DEF TypeOK
    <3>2. OldRear(w)'
      BY <1>6, <3>1 DEF QInv, RearsOK
    <3> QED BY <3>1, <3>2 DEF OldRear
  <2> QED BY <2>2, <2>3 DEF RearsOK
<1>8. FrontsOK' /\ EndsOK' /\ ArrayOK' /\ OwnedOK'
  <2>1. Busy' = Busy
    BY DEF Busy
  <2>2. FrontsOK'
    BY <1>4 DEF QInv, FrontsOK, OldFront
  <2>3. EndsOK'
    BY <1>4, <2>1 DEF QInv, EndsOK
  <2>4. ArrayOK'
    BY <1>3, <1>4 DEF QInv, ArrayOK
  <2>5. OwnedOK'
    BY <1>5 DEF QInv, OwnedOK
  <2> QED BY <2>2, <2>3, <2>4, <2>5
<1>9. ThreadsOK'
  <2>1. ASSUME NEW u \in Threads PROVE PushAt(u)' /\ PopAt(u)'
    <3>1. PushAt(u) /\ PopAt(u)
      BY DEF QInv, ThreadsOK
    <3>2. CASE u = t
      <4>1. PosOf(oldr[t])' = PosOf(oldr[t]) /\ PopOf(oldf[t])' = PopOf(oldf[t])
        BY DEF PosOf, PopOf
      <4>2. CASE val[t] # NoValue
        <5>1. pc'[t] = "push_next"
          BY <1>1, <4>2 DEF QTypeOK
        <5>2. PosOf(oldr[t]) + 2 <= PopOf(oldf[t]) + N
          BY <3>1, <3>2, <4>2 DEF PushAt, Fin
        <5> QED BY <1>4, <3>2, <4>1, <5>1, <5>2 DEF PushAt, PopAt, Fin
      <4>3. CASE val[t] = NoValue
        <5>1. pc'[t] = "pop_next"
          BY <1>1, <4>3 DEF QTypeOK
        <5>2. PosOf(oldr[t]) = PopOf(oldf[t])
          BY <3>1, <3>2, <4>3 DEF PopAt, Fin
        <5>3. PopOf(oldf[t]) <= PosOf(oldr[t]) + 1 /\ PosOf(oldr[t]) + 2 <= PopOf(oldf[t]) + N
          BY <5>2, Numbers, Constants
        <5> QED BY <1>4, <3>2, <4>1, <5>1, <5>3 DEF PushAt, PopAt, Fin
      <4> QED BY <4>2, <4>3
    <3>3. CASE u # t
      <4>1. pc'[u] = pc[u]
        BY <1>1, <3>3 DEF QTypeOK
      <4>2. PushAt(u)'
        BY <1>4, <3>1, <4>1 DEF PushAt, PosOf, PopOf
      <4>3. F <= R /\ (F = R => Done) => nodes'[front.index].value = nodes[front.index].value
        <5>1. SUFFICES ASSUME F <= R, F = R => Done
                       PROVE  nodes'[front.index].value = nodes[front.index].value
          OBVIOUS
        <5>2. R \in Int /\ F \in Int /\ R % N = rear.index /\ F % N = front.index /\ R + 2 <= F + N
              /\ N \in Nat
          BY Numbers, Constants
        <5>3. CASE F = R
          <6>1. nodes[rear.index] = NodeOf(rear)
            BY <5>1, <5>3 DEF Done
          <6>2. nodes' = nodes
            BY <1>2, <6>1
          <6> QED BY <6>2
        <5>4. CASE F # R
          <6>1. F < R /\ R < F + N
            BY <5>1, <5>2, <5>4
          <6>2. front.index # rear.index
            BY <5>2, <6>1, SlotsApart
          <6>3. front.index \in Slots
            BY <1>1 DEF TypeOK, Fronts
          <6> QED BY <1>3, <6>2, <6>3
        <5> QED BY <5>3, <5>4
      <4>4. PopAt(u)'
        BY <1>4, <3>1, <4>1, <4>3 DEF PopAt, PosOf, PopOf
      <4> QED BY <4>2, <4>4
    <3> QED BY <3>2, <3>3
  <2> QED BY <2>1 DEF ThreadsOK
<1> QED BY <1>5, <1>7, <1>8, <1>9 DEF QInv

\* The loop of finish_enqueue.
LEMMA QFinCAS ==
  ASSUME QInv, NEW t \in Threads, FinCAS(t), PromptHelpers'
  PROVE  QInv' /\ Queued' = Queued
<1>1. pc[t] = "fin_cas" /\ UNCHANGED <<rear, front, off, val, oldr, oldf, newc, ret, got, halted>>
  BY DEF FinCAS, At
<1>2. QTypeOK /\ TypeOK
  BY DEF QInv, QTypeOK
<1>3. oldr[t] \in Rears /\ oldr[t].index \in Slots
  BY <1>2, RearTypes DEF TypeOK
<1>4. OldRear(oldr'[t]) /\ OldFront(oldf'[t]) /\ OldRear(oldr[t])
  BY <1>1 DEF QInv, RearsOK, FrontsOK
<1>5. PushAt(t) /\ PopAt(t)
  BY DEF QInv, ThreadsOK
<1>6. CASE oldn' = [oldn EXCEPT ![t] = nodes[oldr[t].index]] /\ UNCHANGED <<nodes, pc>>
  <2>1. nodes[oldr[t].index] \in Nodes
    BY <1>2, <1>3 DEF TypeOK
  <2>2. TypeOK'
    BY <1>1, <1>2, <1>6, <2>1 DEF TypeOK
  <2>3. QTypeOK'
    BY <1>1, <1>2, <1>6, <2>2 DEF QTypeOK
  <2>4. PushAt(t)'
    BY <1>1, <1>5, <1>6 DEF PushAt, PosOf, PopOf, Fin
  <2>5. PopAt(t)'
    BY <1>1, <1>5, <1>6 DEF PopAt, PosOf, PopOf, Fin
  <2> QED BY <1>1, <1>4, <1>6, <2>3, <2>4, <2>5, QueueLocal
<1>7. CASE /\ nodes' = [nodes EXCEPT ![oldr[t].index] =
                          [value |-> oldr[t].value, counter |-> oldr[t].counter]]
           /\ pc' = [pc EXCEPT ![t] = IF val[t] # NoValue THEN "push_next" ELSE "pop_next"]
           /\ UNCHANGED oldn
  <2>1. NodeOf(oldr[t]) \in Nodes
    BY <1>3, RearTypes DEF NodeOf, Nodes
  <2>2. nodes' = [nodes EXCEPT ![oldr[t].index] = NodeOf(oldr[t])]
    BY <1>7 DEF NodeOf
  <2>3. QTypeOK'
    <3>1. TypeOK'
      BY <1>1, <1>2, <1>7, <2>1, <2>2 DEF TypeOK
    <3>2. pc' \in [Threads -> Labels]
      BY <1>2, <1>7 DEF QTypeOK, Labels
    <3>3. ASSUME NEW u \in Threads
          PROVE  /\ pc'[u] \in PushLabels => val'[u] # NoValue
                 /\ pc'[u] \notin PushLabels \cup Fin => val'[u] = NoValue
      <4>1. CASE u = t
        <5>1. pc'[t] = IF val[t] # NoValue THEN "push_next" ELSE "pop_next"
          BY <1>2, <1>7 DEF QTypeOK
        <5> QED BY <1>1, <4>1, <5>1 DEF PushLabels
      <4>2. CASE u # t
        BY <1>1, <1>2, <1>7, <4>2 DEF QTypeOK
      <4> QED BY <4>1, <4>2
    <3> QED BY <3>1, <3>2, <3>3 DEF QTypeOK
  <2>4. CASE oldr[t] = rear
    BY <1>1, <1>7, <2>2, <2>3, <2>4, QFinWrites
  <2>5. CASE oldr[t] # rear
    <3>1. R - N < PosOf(oldr[t]) /\ PosOf(oldr[t]) < R
      <4>1. R - N < PosOf(oldr[t])
        BY <1>1, HelpsRecent DEF Fin
      <4>2. PosOf(oldr[t]) # R /\ PosOf(oldr[t]) <= R /\ PosOf(oldr[t]) \in Int /\ R \in Int
        BY <1>4, <2>5, Numbers DEF OldRear
      <4> QED BY <4>1, <4>2
    <3>2. nodes[oldr[t].index] = NodeOf(oldr[t])
      BY <1>4, <3>1 DEF OldRear
    <3>3. nodes' = nodes
      BY <1>2, <1>3, <2>2, <3>2 DEF TypeOK
    <3>4. \A u \in Threads : u # t => pc'[u] = pc[u]
      BY <1>2, <1>7 DEF QTypeOK
    <3>5. CASE val[t] # NoValue
      <4>1. pc'[t] = "push_next" /\ oldr'[t] # rear' /\ val'[t] # NoValue
        BY <1>1, <1>2, <1>7, <2>5, <3>5 DEF QTypeOK
      <4>2. PosOf(oldr[t])' + 2 <= PopOf(oldf[t])' + N
        BY <1>1, <1>5, <3>5 DEF PushAt, Fin, PosOf, PopOf
      <4>3. PushAt(t)' /\ PopAt(t)'
        BY <4>1, <4>2 DEF PushAt, PopAt, Fin
      <4> QED BY <1>1, <1>4, <1>7, <2>3, <3>3, <3>4, <4>3, QueueLocal
    <3>6. CASE val[t] = NoValue
      <4>1. pc'[t] = "pop_next" /\ oldr'[t] # rear' /\ val'[t] = NoValue
        BY <1>1, <1>2, <1>7, <2>5, <3>6 DEF QTypeOK
      <4>2. PosOf(oldr[t]) = PopOf(oldf[t])
        BY <1>1, <1>5, <3>6 DEF PopAt, Fin
      <4>3. PopOf(oldf[t]) <= PosOf(oldr[t]) + 1 /\ PosOf(oldr[t]) + 2 <= PopOf(oldf[t]) + N
        BY <4>2, Numbers, Constants
      <4>4. PopOf(oldf[t])' <= PosOf(oldr[t])' + 1 /\ PosOf(oldr[t])' + 2 <= PopOf(oldf[t])' + N
        BY <1>1, <4>3 DEF PosOf, PopOf
      <4>5. PushAt(t)' /\ PopAt(t)'
        BY <4>1, <4>4 DEF PushAt, PopAt, Fin
      <4> QED BY <1>1, <1>4, <1>7, <2>3, <3>3, <3>4, <4>5, QueueLocal
    <3> QED BY <3>5, <3>6
  <2> QED BY <2>4, <2>5
<1> QED BY <1>6, <1>7 DEF FinCAS, Goto
-----------------------------------------------------------------------------
(* push, continued *)

\* A thread that pushes counts, so rear is below the bound.
LEMMA Below ==
  ASSUME QInv, NEW t \in Threads, val[t] # NoValue
  PROVE  R + 1 <= N * MaxLap
<1>1. IsFiniteSet(Busy) /\ t \in Busy
  BY QueueAssumption, FS_Subset DEF Busy
<1>2. Cardinality(Busy) \in Nat /\ Cardinality(Busy) # 0
  BY <1>1, FS_CardinalityType, FS_EmptySet
<1>3. R + Cardinality(Busy) <= N * MaxLap /\ R \in Nat
  BY DEF QInv, EndsOK
<1> QED BY <1>2, <1>3, Constants

\* The counter that push computes is that of the next push.
LEMMA NewCounter ==
  ASSUME QInv, NEW t \in Threads, val[t] # NoValue
  PROVE  /\ Slot(rear.index, 1) \in Slots /\ Slot(rear.index, 1) # rear.index
         /\ Pos(Slot(rear.index, 1), Count(nodes[Slot(rear.index, 1)].counter, 1)) = R + 1
<1>1. N \in Nat /\ N >= 3 /\ N > 0 /\ M \in Nat /\ MaxLap < M /\ MaxLap \in Nat /\ M = 2 ^ Width
  BY Constants DEF M
<1>2. TypeOK /\ ArrayOK
  BY DEF QInv, QTypeOK
<1>3. PICK i \in Slots, c \in Nat : i = rear.index /\ c = rear.counter
  BY <1>2, RearTypes DEF TypeOK
<1>4. PICK x \in Int : x = R /\ x = Pos(i, c) /\ x % N = i
  BY <1>3, PosIs DEF R, PosOf
<1>5. PICK s \in Slots : s = Slot(i, 1) /\ s = (x + 1) % N
  <2>1. PICK k \in Int : k = 1
    OBVIOUS
  <2>2. Slot(x % N, k) = (x + k) % N /\ Slot(x % N, k) \in Slots
    BY SlotAfter
  <2> QED BY <1>4, <2>1, <2>2
<1>6. s # i
  <2>1. x + 1 \in Int /\ x < x + 1 /\ x + 1 < x + N
    BY <1>1
  <2> QED BY <1>4, <1>5, <2>1, SlotsApart
<1>7. PICK e \in Nat : e = nodes[s].counter
  BY <1>2, Ranges DEF TypeOK, Nodes
<1>8. x - N < Pos(s, e) /\ Pos(s, e) < x
  BY <1>2, <1>3, <1>4, <1>6, <1>7 DEF ArrayOK
<1>9. Pos(s, e + 1) = x + 1
  BY <1>4, <1>5, <1>8, NextPush
<1>10. e + 1 <= MaxLap /\ e + 1 \in Nat
  <2>1. x + 1 <= N * MaxLap
    BY <1>4, Below
  <2> QED BY <1>9, <2>1, PosBound
<1>11. Count(e, 1) = e + 1
  <2>1. e + 1 = 0 * M + (e + 1) /\ e + 1 \in 0 .. M - 1 /\ e + 1 \in Int
    BY <1>1, <1>10
  <2>2. (e + 1) % M = e + 1
    <3>1. M > 0
      BY <1>1, <1>10
    <3> QED BY <1>1, <2>1, <3>1, Remainder
  <2> QED BY <1>1, <2>2 DEF Count
<1> QED BY <1>3, <1>4, <1>5, <1>6, <1>7, <1>9, <1>11

\* push asserts that the queue is not full, and computes the next counter.
LEMMA QPushNext ==
  ASSUME QInv, NEW t \in Threads, PushNext(t), PromptHelpers'
  PROVE  QInv' /\ Queued' = Queued
<1>1. /\ pc[t] = "push_next"
      /\ UNCHANGED <<rear, front, nodes, off, val, oldr, oldf, oldn, ret, got>>
  BY DEF PushNext, At, shared
<1>2. QTypeOK /\ TypeOK /\ PushAt(t) /\ PopAt(t) /\ val[t] # NoValue
  BY <1>1 DEF QInv, QTypeOK, ThreadsOK, PushLabels
<1>3. OldRear(oldr'[t]) /\ OldFront(oldf'[t])
  BY <1>1 DEF QInv, RearsOK, FrontsOK
<1>4. CASE halted' = TRUE /\ UNCHANGED <<pc, newc>>
  <2>1. TypeOK'
    BY <1>1, <1>2, <1>4 DEF TypeOK
  <2>2. QTypeOK'
    BY <1>1, <1>2, <1>4, <2>1 DEF QTypeOK
  <2>3. PushAt(t)'
    BY <1>1, <1>2, <1>4 DEF PushAt, PosOf, PopOf, Fin, Done, R, NodeOf
  <2>4. PopAt(t)'
    BY <1>1, <1>2, <1>4 DEF PopAt, Fin
  <2> QED BY <1>1, <1>3, <1>4, <2>2, <2>3, <2>4, QueueLocal
<1>5. CASE /\ oldf[t].index # Slot(oldr[t].index, 2)
           /\ newc' = [newc EXCEPT ![t] = Count(nodes[Slot(oldr[t].index, 1)].counter, 1)]
           /\ pc' = [pc EXCEPT ![t] = "push_cas"]
           /\ UNCHANGED halted
  <2>1. PICK s \in Slots : s = Slot(oldr[t].index, 1)
    <3>1. oldr[t].index \in Int
      BY <1>2, RearTypes, Constants DEF TypeOK, Slots
    <3>2. PICK i \in Int, k \in Int : i = oldr[t].index /\ k = 1
      BY <3>1
    <3> QED BY <3>2, Ranges
  <2>2. PICK c \in Counters : c = Count(nodes[s].counter, 1)
    <3>1. nodes[s].counter \in Int
      BY <1>2, Ranges DEF TypeOK, Nodes
    <3>2. PICK d \in Int, k \in Int : d = nodes[s].counter /\ k = 1
      BY <3>1
    <3> QED BY <3>2, Ranges
  <2>3. newc'[t] = c /\ newc' \in [Threads -> Counters] /\ pc' \in [Threads -> Labels]
        /\ pc'[t] = "push_cas"
    BY <1>2, <1>5, <2>1, <2>2 DEF QTypeOK, TypeOK, Labels
  <2>4. \A u \in Threads : u # t => pc'[u] = pc[u] /\ newc'[u] = newc[u]
    BY <1>2, <1>5 DEF QTypeOK, TypeOK
  <2>5. QTypeOK'
    <3>1. TypeOK'
      BY <1>1, <1>2, <1>5, <2>3 DEF TypeOK
    <3> QED BY <1>1, <1>2, <2>3, <2>4, <3>1 DEF QTypeOK, PushLabels
  <2>6. PushAt(t)'
    <3>1. PosOf(oldr[t])' + 2 <= PopOf(oldf[t])' + N
      BY <1>1, <1>2 DEF PushAt, PosOf, PopOf
    <3>2. oldr'[t] = rear' => Done'
      BY <1>1, <1>2 DEF PushAt, Done, NodeOf
    <3>3. oldf'[t].index # Slot(oldr'[t].index, 2)
      BY <1>1, <1>5
    <3>4. oldr[t] = rear => Pos(Slot(rear.index, 1), newc'[t]) = R + 1
      BY <1>2, <2>1, <2>2, <2>3, NewCounter
    <3>5. oldr'[t] = rear' => Pos(Slot(rear.index, 1), newc[t])' = R' + 1
      BY <1>1, <3>4 DEF R, PosOf, Pos
    <3> QED BY <2>3, <3>1, <3>2, <3>3, <3>5 DEF PushAt
  <2>7. PopAt(t)'
    BY <2>3 DEF PopAt, Fin
  <2> QED BY <1>1, <1>3, <2>4, <2>5, <2>6, <2>7, QueueLocal
<1> QED BY <1>4, <1>5 DEF PushNext, Goto

\* The words that a queue and a call start with.
LEMMA Initials ==
  /\ Rear0 \in Rears /\ Front0 \in Fronts /\ Node0 \in Nodes /\ 0 \in Counters /\ NoValue \in MaybeValue
  /\ PosOf(Rear0) = 0 /\ Front0 = FrontAt(1) /\ 1 \in Pops /\ PopOf(Front0) = 1
<1>1. N \in Nat /\ N >= 3 /\ M \in Nat /\ M > 0 /\ M = 2 ^ Width /\ N * MaxLap \in Nat
  BY Constants DEF M
<1>2. 0 \in Counters /\ 0 \in Slots /\ 1 \in Slots /\ NoValue \in MaybeValue /\ 1 \in Pops
  BY <1>1, Constants DEF Counters, Slots, MaybeValue, Pops
<1>3. Rear0 \in Rears /\ Front0 \in Fronts /\ Node0 \in Nodes
  BY <1>2 DEF Rear0, Front0, Node0, Rears, Fronts, Nodes
<1>4. PosOf(Rear0) = 0
  <2>1. (0 - 1) * N = -N
    BY <1>1
  <2>2. PosOf(Rear0) = (0 - 1) * N + N
    BY DEF PosOf, Pos, Lap, Rear0
  <2> QED BY <1>1, <2>1, <2>2
<1>5. Front0 = FrontAt(1)
  <2>1. 1 % N = 1
    <3>1. 1 = 0 * N + 1 /\ 1 \in 0 .. N - 1 /\ N > 0
      BY <1>1
    <3> QED BY <1>1, <3>1, Remainder
  <2>2. 0 % M = 0
    <3>1. 0 = 0 * M + 0 /\ 0 \in 0 .. M - 1
      BY <1>1
    <3> QED BY <1>1, <3>1, Remainder
  <2>3. 1 - 1 = 0
    OBVIOUS
  <2> QED BY <2>1, <2>2, <2>3 DEF Front0, FrontAt
<1>6. PopOf(Front0) = 1
  BY <1>2, <1>5, PopIs
<1> QED BY <1>2, <1>3, <1>4, <1>5, <1>6

\* A call returns.
LEMMA Returns ==
  ASSUME QTypeOK, NEW t \in Threads, Return(t)
  PROVE  /\ pc'[t] = "idle" /\ val'[t] = NoValue /\ oldr'[t] = Rear0 /\ oldf'[t] = Front0
         /\ \A u \in Threads : u # t =>
              /\ pc'[u] = pc[u] /\ val'[u] = val[u] /\ oldr'[u] = oldr[u] /\ oldf'[u] = oldf[u]
              /\ newc'[u] = newc[u] /\ ret'[u] = ret[u]
         /\ pc' \in [Threads -> Labels] /\ val' \in [Threads -> MaybeValue]
         /\ oldr' \in [Threads -> Rears] /\ oldf' \in [Threads -> Fronts]
         /\ oldn' \in [Threads -> Nodes] /\ newc' \in [Threads -> Counters]
         /\ ret' \in [Threads -> MaybeValue]
         /\ \A u \in Threads : pc'[u] \in PushLabels => val'[u] # NoValue
         /\ \A u \in Threads : pc'[u] \notin PushLabels \cup Fin => val'[u] = NoValue
         /\ PushAt(t)' /\ PopAt(t)'
<1>1. /\ pc' = [pc EXCEPT ![t] = "idle"]
      /\ val' = [val EXCEPT ![t] = NoValue] /\ ret' = [ret EXCEPT ![t] = NoValue]
      /\ oldr' = [oldr EXCEPT ![t] = Rear0] /\ oldf' = [oldf EXCEPT ![t] = Front0]
      /\ oldn' = [oldn EXCEPT ![t] = Node0] /\ newc' = [newc EXCEPT ![t] = 0]
  BY DEF Return, Goto
<1>2. /\ pc \in [Threads -> Labels] /\ val \in [Threads -> MaybeValue] /\ ret \in [Threads -> MaybeValue]
      /\ oldr \in [Threads -> Rears] /\ oldf \in [Threads -> Fronts]
      /\ oldn \in [Threads -> Nodes] /\ newc \in [Threads -> Counters]
  BY DEF QTypeOK, TypeOK
<1>3. pc' \in [Threads -> Labels] /\ pc'[t] = "idle" /\ \A u \in Threads : u # t => pc'[u] = pc[u]
  BY <1>1, <1>2 DEF Labels
<1>4. val' \in [Threads -> MaybeValue] /\ val'[t] = NoValue /\ \A u \in Threads : u # t => val'[u] = val[u]
  BY <1>1, <1>2, Initials
<1>5. ret' \in [Threads -> MaybeValue] /\ \A u \in Threads : u # t => ret'[u] = ret[u]
  BY <1>1, <1>2, Initials
<1>6. oldr' \in [Threads -> Rears] /\ oldr'[t] = Rear0 /\ \A u \in Threads : u # t => oldr'[u] = oldr[u]
  BY <1>1, <1>2, Initials
<1>7. oldf' \in [Threads -> Fronts] /\ oldf'[t] = Front0 /\ \A u \in Threads : u # t => oldf'[u] = oldf[u]
  BY <1>1, <1>2, Initials
<1>8. oldn' \in [Threads -> Nodes]
  BY <1>1, <1>2, Initials
<1>9. newc' \in [Threads -> Counters] /\ \A u \in Threads : u # t => newc'[u] = newc[u]
  BY <1>1, <1>2, Initials
<1>10. ASSUME NEW u \in Threads
       PROVE  /\ pc'[u] \in PushLabels => val'[u] # NoValue
              /\ pc'[u] \notin PushLabels \cup Fin => val'[u] = NoValue
  <2>1. CASE u = t
    BY <1>3, <1>4, <2>1 DEF PushLabels
  <2>2. CASE u # t
    BY <1>3, <1>4, <2>2 DEF QTypeOK
  <2> QED BY <2>1, <2>2
<1>11. PushAt(t)' /\ PopAt(t)'
  BY <1>3 DEF PushAt, PopAt, Fin
<1> QED BY <1>3, <1>4, <1>5, <1>6, <1>7, <1>8, <1>9, <1>10, <1>11

\* The next push fits: otherwise front would be where push found the queue full.
LEMMA NotFull ==
  ASSUME QInv, NEW t \in Threads, pc[t] = "push_cas", rear = oldr[t]
  PROVE  R + 3 <= F + N
<1>1. R \in Int /\ F \in Int /\ N \in Nat /\ N > 0 /\ R + 2 <= F + N /\ R % N = rear.index
  BY Numbers, Constants
<1>2. /\ R + 2 <= PopOf(oldf[t]) + N
      /\ oldf[t].index # Slot(rear.index, 2)
  BY DEF QInv, ThreadsOK, PushAt, R
<1>3. PopOf(oldf[t]) \in Int /\ PopOf(oldf[t]) <= F /\ PopOf(oldf[t]) % N = oldf[t].index
  BY Numbers
<1>4. ASSUME R + 2 = F + N PROVE FALSE
  <2>1. PopOf(oldf[t]) = F
    BY <1>1, <1>2, <1>3, <1>4
  <2>2. PICK x \in Int, f \in Int, k \in Int : x = R /\ f = F /\ k = 2
    BY <1>1
  <2>3. Slot(x % N, k) = (x + k) % N
    BY SlotAfter
  <2>4. (f + N) % N = f % N
    BY <1>1, ModLap
  <2> QED BY <1>1, <1>2, <1>3, <1>4, <2>1, <2>2, <2>3, <2>4
<1> QED BY <1>1, <1>4

\* A push takes effect: it was the next one, and the last one's node is written.
LEMMA QPushCommits ==
  ASSUME QInv, NEW t \in Threads, PromptHelpers',
         pc[t] = "push_cas", rear = oldr[t], Return(t),
         rear' = [value |-> val[t], index |-> Slot(oldr[t].index, 1), counter |-> newc[t]],
         UNCHANGED <<front, nodes, off, got, halted>>
  PROVE  /\ QInv' /\ Queued' = Append(Queued, val[t]) /\ val[t] \in Values
         /\ Len(Queued) < N - 1
<1>1. QTypeOK /\ TypeOK /\ PushAt(t) /\ val[t] # NoValue /\ val[t] \in Values
  BY DEF QInv, QTypeOK, TypeOK, MaybeValue, ThreadsOK, PushLabels
<1>2. /\ R \in Int /\ R \in Nat /\ F \in Int /\ F \in Pops /\ N \in Nat /\ N >= 3 /\ N > 0 /\ F >= 1
      /\ front = FrontAt(F) /\ F <= R + 1 /\ R % N = rear.index
  BY Numbers, Constants
<1>3. Done /\ Pos(Slot(rear.index, 1), newc[t]) = R + 1
  BY <1>1 DEF PushAt
<1>4. R + 3 <= F + N
  BY NotFull
<1>5. rear' \in Rears /\ R' = R + 1 /\ F' = F /\ rear'.index = Slot(rear.index, 1)
      /\ rear.index \in Slots /\ rear \in Rears
  <2>1. Slot(rear.index, 1) \in Slots
    BY <1>1, NewCounter
  <2>2. rear' \in Rears
    BY <1>1, <2>1 DEF TypeOK, Rears
  <2>3. R' = R + 1
    BY <1>3 DEF R, PosOf
  <2>4. rear \in Rears /\ rear.index \in Slots
    BY <1>1, RearTypes DEF TypeOK
  <2> QED BY <2>2, <2>3, <2>4 DEF F
<1>6. QTypeOK'
  <2>1. TypeOK'
    BY <1>1, <1>5, Returns DEF TypeOK
  <2> QED BY <1>1, <2>1, Returns DEF QTypeOK
<1>7. EndsOK'
  <2>1. Busy' = Busy \ {t}
    BY <1>1, Returns DEF Busy
  <2>2. IsFiniteSet(Busy) /\ t \in Busy
    BY <1>1, QueueAssumption, FS_Subset DEF Busy
  <2>3. Cardinality(Busy) \in Nat /\ Cardinality(Busy') = Cardinality(Busy) - 1
    BY <2>1, <2>2, FS_CardinalityType, FS_RemoveElement
  <2>4. R + Cardinality(Busy) <= N * MaxLap
    BY DEF QInv, EndsOK
  <2>5. (R + 1) + Cardinality(Busy') <= N * MaxLap
    BY <1>2, <2>3, <2>4, Constants
  <2>6. R + 1 \in Nat /\ F <= (R + 1) + 1 /\ (R + 1) + 2 <= F + N
    BY <1>2, <1>4
  <2> QED BY <1>2, <1>5, <2>5, <2>6 DEF EndsOK
<1>8. ArrayOK'
  <2>1. SUFFICES ASSUME NEW i \in Slots, i # rear'.index
                 PROVE  /\ (R + 1) - N < Pos(i, nodes[i].counter)
                        /\ Pos(i, nodes[i].counter) < R + 1
    BY <1>5 DEF ArrayOK, Pos
  <2>2. CASE i = rear.index
    <3>1. Pos(i, nodes[i].counter) = R
      BY <1>3, <2>2 DEF Done, NodeOf, R, PosOf
    <3> QED BY <1>2, <3>1
  <2>3. CASE i # rear.index
    <3>1. PICK y \in Int : y = Pos(i, nodes[i].counter) /\ y % N = i
      <4>1. nodes[i].counter \in Nat
        BY <1>1, Ranges DEF TypeOK, Nodes
      <4> QED BY <4>1, PosIs
    <3>2. R - N < y /\ y < R
      BY <2>3, <3>1 DEF QInv, ArrayOK
    <3>3. y # (R + 1) - N
      <4>1. PICK x \in Int, k \in Int : x = R /\ k = 1
        BY <1>2
      <4>2. Slot(x % N, k) = (x + k) % N
        BY SlotAfter
      <4>3. (y + N) % N = y % N
        BY <1>2, ModLap
      <4>4. ASSUME y = (R + 1) - N PROVE FALSE
        <5>1. y + N = x + k
          BY <1>2, <4>1, <4>4
        <5> QED BY <1>2, <1>5, <2>1, <3>1, <4>1, <4>2, <4>3, <5>1
      <4> QED BY <4>4
    <3> QED BY <1>2, <3>1, <3>2, <3>3
  <2> QED BY <2>2, <2>3
<1>9. ASSUME NEW w \in Rears, OldRear(w) PROVE OldRear(w)' /\ w # rear'
  <2>1. PosOf(w) \in Nat /\ PosOf(w) <= R
    BY <1>9 DEF OldRear
  <2>2. w # rear'
    BY <1>2, <1>5, <2>1 DEF R
  <2>3. ASSUME (R + 1) - N < PosOf(w) PROVE nodes[w.index] = NodeOf(w)
    <3>1. CASE PosOf(w) = R
      BY <1>3, <1>9, <3>1 DEF OldRear, Done
    <3>2. CASE PosOf(w) # R
      <4>1. R - N < PosOf(w) /\ PosOf(w) < R
        BY <1>2, <2>1, <2>3, <3>2
      <4> QED BY <1>9, <4>1 DEF OldRear
    <3> QED BY <3>1, <3>2
  <2>4. PosOf(w) <= R + 1 /\ PosOf(w) # R + 1
    BY <1>2, <2>1
  <2> QED BY <1>5, <2>1, <2>2, <2>3, <2>4 DEF OldRear
<1>10. ASSUME NEW u \in Threads, u # t
       PROVE  /\ pc'[u] = pc[u] /\ val'[u] = val[u] /\ oldr'[u] = oldr[u] /\ oldf'[u] = oldf[u]
              /\ newc'[u] = newc[u] /\ ret'[u] = ret[u] /\ oldr[u] \in Rears
              /\ OldRear(oldr[u]) /\ OldFront(oldf[u]) /\ oldr[u] # rear'
  <2>1. oldr[u] \in Rears /\ OldRear(oldr[u]) /\ OldFront(oldf[u])
    BY <1>1 DEF TypeOK, QInv, RearsOK, FrontsOK
  <2>2. PICK w \in Rears : w = oldr[u]
    BY <2>1
  <2>3. w # rear'
    BY <1>9, <2>1, <2>2
  <2> QED BY <1>1, <1>10, <2>1, <2>2, <2>3, Returns
<1>11. RearsOK'
  <2>1. OldRear(Rear0)'
    BY <1>9, Initials DEF QInv, RearsOK
  <2>2. ASSUME NEW u \in Threads PROVE OldRear(oldr[u])'
    <3>1. CASE u = t
      <4>1. oldr'[u] = Rear0
        BY <1>1, <3>1, Returns
      <4> QED BY <2>1, <4>1 DEF OldRear
    <3>2. CASE u # t
      <4>1. PICK w \in Rears : w = oldr[u] /\ w = oldr'[u] /\ OldRear(w)
        BY <1>10, <3>2
      <4>2. OldRear(w)'
        BY <1>9, <4>1
      <4> QED BY <4>1, <4>2 DEF OldRear
    <3> QED BY <3>1, <3>2
  <2> QED BY <2>1, <2>2 DEF RearsOK
<1>12. FrontsOK'
  <2>1. ASSUME NEW u \in Threads PROVE OldFront(oldf[u])'
    <3>1. CASE u = t
      <4>1. oldf'[u] = Front0
        BY <1>1, <3>1, Returns
      <4> QED BY <1>2, <1>5, <4>1, Initials DEF OldFront
    <3>2. CASE u # t
      BY <1>5, <1>10, <3>2 DEF OldFront
    <3> QED BY <3>1, <3>2
  <2> QED BY <2>1 DEF FrontsOK
<1>13. ThreadsOK'
  <2>1. ASSUME NEW u \in Threads PROVE PushAt(u)' /\ PopAt(u)'
    <3>1. CASE u = t
      BY <1>1, <3>1, Returns
    <3>2. CASE u # t
      <4>1. PushAt(u) /\ PopAt(u)
        BY DEF QInv, ThreadsOK
      <4>2. PosOf(oldr[u])' = PosOf(oldr[u]) /\ PopOf(oldf[u])' = PopOf(oldf[u])
        BY <1>10, <3>2 DEF PosOf, PopOf
      <4>3. /\ pc'[u] = pc[u] /\ val'[u] = val[u] /\ oldr'[u] = oldr[u] /\ oldf'[u] = oldf[u]
            /\ newc'[u] = newc[u] /\ ret'[u] = ret[u] /\ oldr'[u] # rear'
        BY <1>10, <3>2
      <4>4. PushAt(u)'
        BY <4>1, <4>2, <4>3 DEF PushAt
      <4>5. F <= R => F <= R' /\ F # R'
        BY <1>2, <1>5
      <4>6. PopAt(u)'
        BY <1>5, <4>1, <4>2, <4>3, <4>5 DEF PopAt
      <4> QED BY <4>4, <4>6
    <3> QED BY <3>1, <3>2
  <2> QED BY <2>1 DEF ThreadsOK
<1>14. Queued' = Append(Queued, val[t]) /\ Queued \in Seq(MaybeValue) /\ Len(Queued) < N - 1
  <2>1. PICK r \in Rears, s \in Rears, p \in Pops, nd \in [Slots -> Nodes] :
          r = rear /\ s = rear' /\ p = F /\ nd = nodes /\ front = FrontAt(p)
    BY <1>1, <1>2, <1>5 DEF TypeOK
  <2>2. /\ p <= PosOf(r) + 1 /\ PosOf(r) + 3 <= p + N /\ PosOf(s) = PosOf(r) + 1
        /\ PosOf(r) \in Int /\ p \in Int
    BY <1>2, <1>4, <1>5, <2>1 DEF R
  <2>3. nd[r.index].value = r.value
    BY <1>3, <2>1 DEF Done, NodeOf
  <2>4. QOf(s, FrontAt(p), nd) = Append(QOf(r, FrontAt(p), nd), s.value)
    BY <2>2, <2>3, QueuePush
  <2>5. s.value = val[t]
    BY <2>1
  <2>6. PosOf(r) + 2 <= p + N
    BY <1>2, <2>2
  <2>7. PICK q : q = QOf(r, FrontAt(p), nd)
    OBVIOUS
  <2>8. PICK n \in Nat : n = PosOf(r) + 1 - p /\ n < N - 1
    BY <1>2, <2>2
  <2>9. q \in Seq(MaybeValue) /\ q = [k \in 1 .. n |-> ValAt(r, nd, p + k - 1)]
    BY <2>2, <2>6, <2>7, <2>8, QueueIs
  <2>10. Len(q) = n
    BY <2>9
  <2>11. Queued = q /\ Queued' = Append(q, val[t])
    BY <2>1, <2>4, <2>5, <2>7, QueuedIs
  <2> QED BY <2>8, <2>9, <2>10, <2>11
<1>15. OwnedOK'
  <2>1. /\ val[t] \notin off /\ val[t] \notin Elems(Queued)
        /\ \A u \in Threads : u # t => val[u] # val[t]
    BY <1>1 DEF QInv, OwnedOK
  <2>2. PICK L \in Seq(MaybeValue), v \in MaybeValue : L = Queued /\ v = val[t]
    BY <1>1, <1>14 DEF MaybeValue
  <2>3. v \notin Elems(L) /\ \A i, j \in DOMAIN L : L[i] = L[j] => i = j
    BY <2>1, <2>2 DEF QInv, OwnedOK
  <2>4. /\ \A i, j \in DOMAIN Append(L, v) : Append(L, v)[i] = Append(L, v)[j] => i = j
        /\ Elems(Append(L, v)) = Elems(L) \cup {v}
    BY <2>3, AppendOnce
  <2>5. Queued' = Append(L, v)
    BY <1>14, <2>2
  <2>6. Elems(Queued)' = Elems(Queued) \cup {val[t]}
    BY <2>2, <2>4, <2>5 DEF Elems
  <2>7. Elems(Queued)' \subseteq Values \ off'
    BY <1>1, <2>1, <2>6 DEF QInv, OwnedOK
  <2>8. ASSUME NEW u \in Threads, val'[u] # NoValue
        PROVE  /\ val'[u] \notin off' /\ val'[u] \notin Elems(Queued)'
               /\ \A x \in Threads : x # u => val'[x] # val'[u]
    <3>1. u # t /\ val'[u] = val[u]
      BY <1>1, <1>10, <2>8, Returns
    <3>2. val[u] \notin off /\ val[u] \notin Elems(Queued)
          /\ \A x \in Threads : x # u => val[x] # val[u]
      BY <2>8, <3>1 DEF QInv, OwnedOK
    <3>3. ASSUME NEW x \in Threads, x # u PROVE val'[x] # val[u]
      <4>1. CASE x = t
        BY <1>1, <2>8, <3>1, <4>1, Returns
      <4>2. CASE x # t
        BY <1>10, <3>2, <3>3, <4>2
      <4> QED BY <4>1, <4>2
    <3> QED BY <2>1, <2>6, <3>1, <3>2, <3>3
  <2>9. \A i, j \in DOMAIN Queued' : Queued'[i] = Queued'[j] => i = j
    BY <2>4, <2>5
  <2> QED BY <2>7, <2>8, <2>9 DEF OwnedOK
<1> QED BY <1>1, <1>6, <1>7, <1>8, <1>11, <1>12, <1>13, <1>14, <1>15 DEF QInv

\* push commits, or starts again.
LEMMA QPushCAS ==
  ASSUME QInv, NEW t \in Threads, PushCAS(t), PromptHelpers'
  PROVE  /\ QInv' /\ got' = got
         /\ \/ Queued' = Queued
            \/ Queued' = Append(Queued, val[t]) /\ val[t] \in Values /\ Len(Queued) < N - 1
<1>1. pc[t] = "push_cas" /\ UNCHANGED <<front, nodes, off, got, halted>>
  BY DEF PushCAS, At
<1>2. CASE /\ rear = oldr[t] /\ Return(t)
           /\ rear' = [value |-> val[t], index |-> Slot(oldr[t].index, 1), counter |-> newc[t]]
  BY <1>1, <1>2, QPushCommits
<1>3. CASE pc' = [pc EXCEPT ![t] = "push_rear"] /\ UNCHANGED <<rear, local>>
  <2>1. UNCHANGED <<rear, val, oldr, oldf, oldn, newc, ret>>
    BY <1>3 DEF local
  <2>2. QTypeOK /\ TypeOK /\ val[t] # NoValue
    BY <1>1 DEF QInv, QTypeOK, PushLabels
  <2>3. pc' \in [Threads -> Labels] /\ pc'[t] = "push_rear" /\ \A u \in Threads : u # t => pc'[u] = pc[u]
    BY <1>3, <2>2 DEF QTypeOK, Labels
  <2>4. TypeOK'
    BY <1>1, <2>1, <2>2 DEF TypeOK
  <2>5. QTypeOK'
    BY <2>1, <2>2, <2>3, <2>4 DEF QTypeOK, PushLabels
  <2>6. OldRear(oldr'[t]) /\ OldFront(oldf'[t])
    BY <2>1 DEF QInv, RearsOK, FrontsOK
  <2>7. PushAt(t)' /\ PopAt(t)'
    BY <2>3 DEF PushAt, PopAt, Fin
  <2> QED BY <1>1, <2>1, <2>3, <2>5, <2>6, <2>7, QueueLocal
<1> QED BY <1>2, <1>3 DEF PushCAS, Goto
-----------------------------------------------------------------------------
(* pop *)

\* pop loads front.
LEMMA QPopLoadFront ==
  ASSUME QInv, NEW t \in Threads, PopLoadFront(t), PromptHelpers'
  PROVE  QInv' /\ Queued' = Queued
<1>1. /\ pc[t] \in {"idle", "pop_front"} /\ pc' = [pc EXCEPT ![t] = "pop_rear"]
      /\ oldf' = [oldf EXCEPT ![t] = front]
      /\ UNCHANGED <<rear, front, nodes, off, val, oldr, oldn, newc, ret, got, halted>>
  BY DEF PopLoadFront, At, Goto, shared
<1>2. QTypeOK /\ TypeOK
  BY DEF QInv, QTypeOK
<1>3. pc'[t] = "pop_rear" /\ oldf'[t] = front
  BY <1>1, <1>2 DEF QTypeOK, TypeOK
<1>4. \A u \in Threads : u # t => pc'[u] = pc[u] /\ oldf'[u] = oldf[u]
  BY <1>1, <1>2 DEF QTypeOK, TypeOK
<1>5. QTypeOK'
  <2>1. TypeOK'
    BY <1>1, <1>2 DEF TypeOK
  <2>2. pc' \in [Threads -> Labels] /\ val[t] = NoValue
    BY <1>1, <1>2 DEF QTypeOK, Labels, PushLabels, Fin
  <2> QED BY <1>1, <1>2, <1>3, <1>4, <2>1, <2>2 DEF QTypeOK, PushLabels
<1>6. OldRear(oldr'[t]) /\ OldFront(oldf'[t])
  BY <1>1, <1>3, Loaded DEF QInv, RearsOK
<1>7. PushAt(t)' /\ PopAt(t)'
  BY <1>3 DEF PushAt, PopAt, Fin
<1> QED BY <1>1, <1>4, <1>5, <1>6, <1>7, QueueLocal

\* pop loads rear, after front: rear has not fallen behind.
LEMMA QPopLoadRear ==
  ASSUME QInv, NEW t \in Threads, PopLoadRear(t), PromptHelpers'
  PROVE  QInv' /\ Queued' = Queued
<1>1. /\ pc[t] = "pop_rear" /\ pc' = [pc EXCEPT ![t] = "pop_check"]
      /\ oldr' = [oldr EXCEPT ![t] = rear]
      /\ UNCHANGED <<rear, front, nodes, off, val, oldf, oldn, newc, ret, got, halted>>
  BY DEF PopLoadRear, At, Goto, shared
<1>2. QTypeOK /\ TypeOK
  BY DEF QInv, QTypeOK
<1>3. pc'[t] = "pop_check" /\ oldr'[t] = rear
  BY <1>1, <1>2 DEF QTypeOK, TypeOK
<1>4. \A u \in Threads : u # t => pc'[u] = pc[u] /\ oldr'[u] = oldr[u]
  BY <1>1, <1>2 DEF QTypeOK, TypeOK
<1>5. QTypeOK'
  <2>1. TypeOK'
    BY <1>1, <1>2 DEF TypeOK
  <2>2. pc' \in [Threads -> Labels] /\ val[t] = NoValue
    BY <1>1, <1>2 DEF QTypeOK, Labels, PushLabels, Fin
  <2> QED BY <1>1, <1>2, <1>3, <1>4, <2>1, <2>2 DEF QTypeOK, PushLabels
<1>6. OldRear(oldr'[t]) /\ OldFront(oldf'[t])
  BY <1>1, <1>3, Loaded DEF QInv, FrontsOK
<1>7. PushAt(t)'
  BY <1>3 DEF PushAt, Fin
<1>8. PopAt(t)'
  <2>1. PopOf(oldf[t]) <= R + 1
    <3>1. PopOf(oldf[t]) \in Int /\ PopOf(oldf[t]) <= F /\ F <= R + 1 /\ F \in Int /\ R \in Int
      BY Numbers
    <3> QED BY <3>1
  <2>2. PopOf(oldf[t])' <= PosOf(oldr[t])' + 1
    BY <1>1, <1>3, <2>1 DEF R, PosOf, PopOf
  <2> QED BY <1>3, <2>2 DEF PopAt, Fin
<1> QED BY <1>1, <1>4, <1>5, <1>6, <1>7, <1>8, QueueLocal

\* pop goes on when front has not changed; it helps when one element is left.
LEMMA QPopCheck ==
  ASSUME QInv, NEW t \in Threads, PopCheck(t), PromptHelpers'
  PROVE  QInv' /\ Queued' = Queued
<1>1. /\ pc[t] = "pop_check"
      /\ pc' = [pc EXCEPT ![t] = IF front # oldf[t] THEN "pop_front"
                                 ELSE IF oldf[t].index = oldr[t].index THEN "fin" ELSE "pop_next"]
      /\ UNCHANGED <<rear, front, nodes, off, val, oldr, oldf, oldn, newc, ret, got, halted>>
  BY DEF PopCheck, At, Goto, shared, local
<1>2. QTypeOK /\ TypeOK /\ PopAt(t)
  BY DEF QInv, QTypeOK, ThreadsOK
<1>3. /\ pc'[t] \in {"pop_front", "fin", "pop_next"} /\ \A u \in Threads : u # t => pc'[u] = pc[u]
      /\ pc'[t] = "fin" => front = oldf[t] /\ oldf[t].index = oldr[t].index
      /\ pc'[t] = "pop_next" => front = oldf[t] /\ oldf[t].index # oldr[t].index
  BY <1>1, <1>2 DEF QTypeOK, TypeOK
<1>4. val[t] = NoValue
  BY <1>1, <1>2 DEF QTypeOK, PushLabels, Fin
<1>5. QTypeOK'
  <2>1. TypeOK'
    BY <1>1, <1>2 DEF TypeOK
  <2>2. pc' \in [Threads -> Labels]
    BY <1>1, <1>2 DEF QTypeOK, Labels
  <2> QED BY <1>1, <1>2, <1>3, <1>4, <2>1, <2>2 DEF QTypeOK, PushLabels, Fin
<1>6. OldRear(oldr'[t]) /\ OldFront(oldf'[t])
  BY <1>1 DEF QInv, RearsOK, FrontsOK
<1>7. PushAt(t)'
  BY <1>1, <1>3, <1>4 DEF PushAt, Fin
<1>8. PICK r \in Int, p \in Int : r = PosOf(oldr[t]) /\ p = PopOf(oldf[t]) /\ r % N = oldr[t].index
                                  /\ p % N = oldf[t].index
  BY Numbers
<1>9. p <= r + 1 /\ N \in Nat /\ N >= 3 /\ N > 0
  BY <1>1, <1>2, <1>8, Constants DEF PopAt
<1>10. front = oldf[t] => r + 2 <= p + N
  <2>1. PosOf(oldr[t]) <= R /\ R + 2 <= F + N /\ R \in Int /\ F \in Int
    BY Numbers
  <2>2. front = oldf[t] => p = F
    BY <1>8 DEF F
  <2> QED BY <1>8, <1>9, <2>1, <2>2
<1>11. front = oldf[t] /\ oldf[t].index = oldr[t].index => r = p
  <2>1. SUFFICES ASSUME front = oldf[t], oldf[t].index = oldr[t].index PROVE r = p
    OBVIOUS
  <2>2. r % N = p % N /\ r < p + N /\ p < r + N
    BY <1>8, <1>9, <1>10, <2>1
  <2> QED BY <1>9, <2>2, ModApart
<1>12. PosOf(oldr[t])' = r /\ PopOf(oldf[t])' = p
  BY <1>1, <1>8 DEF PosOf, PopOf
<1>13. pc'[t] = "pop_next" => r # p
  BY <1>3, <1>8
<1>14. PopAt(t)'
  BY <1>3, <1>9, <1>10, <1>11, <1>12, <1>13 DEF PopAt, Fin
<1> QED BY <1>1, <1>3, <1>5, <1>6, <1>7, <1>14, QueueLocal

\* pop finds the queue empty, or reads the first value.
LEMMA QPopNext ==
  ASSUME QInv, NEW t \in Threads, PopNext(t), PromptHelpers'
  PROVE  QInv' /\ Queued' = Queued
<1>1. pc[t] = "pop_next" /\ UNCHANGED <<rear, front, nodes, off, got, halted>>
  BY DEF PopNext, At, shared
<1>2. QTypeOK /\ TypeOK /\ PopAt(t) /\ val[t] = NoValue
  BY <1>1 DEF QInv, QTypeOK, ThreadsOK, PushLabels, Fin
<1>3. CASE Return(t)
  <2>1. TypeOK'
    BY <1>1, <1>2, <1>3, Returns DEF TypeOK
  <2>2. QTypeOK'
    BY <1>2, <1>3, <2>1, Returns DEF QTypeOK
  <2>3. OldRear(Rear0) /\ OldFront(Front0)
    BY Numbers, Initials DEF QInv, RearsOK, OldFront
  <2> QED BY <1>1, <1>2, <1>3, <2>2, <2>3, Returns, QueueLocal
<1>4. CASE /\ oldf[t].index # Slot(oldr[t].index, 1)
           /\ ret' = [ret EXCEPT ![t] = nodes[oldf[t].index].value]
           /\ pc' = [pc EXCEPT ![t] = "pop_cas"]
           /\ UNCHANGED <<val, oldr, oldf, oldn, newc>>
  <2>1. nodes[oldf[t].index].value \in MaybeValue
    BY <1>2 DEF TypeOK, Fronts, Nodes
  <2>2. /\ pc' \in [Threads -> Labels] /\ pc'[t] = "pop_cas" /\ ret' \in [Threads -> MaybeValue]
        /\ ret'[t] = nodes[oldf[t].index].value
        /\ \A u \in Threads : u # t => pc'[u] = pc[u] /\ ret'[u] = ret[u]
    BY <1>2, <1>4, <2>1 DEF QTypeOK, TypeOK, Labels
  <2>3. TypeOK'
    BY <1>1, <1>2, <1>4, <2>2 DEF TypeOK
  <2>4. QTypeOK'
    BY <1>2, <1>4, <2>2, <2>3 DEF QTypeOK, PushLabels, Fin
  <2>5. OldRear(oldr'[t]) /\ OldFront(oldf'[t]) /\ OldRear(oldr[t])
    BY <1>4 DEF QInv, RearsOK, FrontsOK
  <2>6. PushAt(t)'
    BY <2>2 DEF PushAt, Fin
  <2>7. /\ PopOf(oldf[t]) <= PosOf(oldr[t]) + 1
        /\ PosOf(oldr[t]) = PopOf(oldf[t]) /\ oldr[t] = rear => Done
    BY <1>1, <1>2 DEF PopAt
  <2>8. PICK r \in Int, p \in Int : r = PosOf(oldr[t]) /\ p = PopOf(oldf[t]) /\ r % N = oldr[t].index
                                    /\ p % N = oldf[t].index /\ r <= R /\ oldf[t] = FrontAt(p)
    BY Numbers
  <2>9. p <= r
    <3>1. PICK k \in Int : k = 1
      OBVIOUS
    <3>2. Slot(r % N, k) = (r + k) % N
      BY SlotAfter
    <3>3. p # r + k
      BY <1>4, <2>8, <3>1, <3>2
    <3> QED BY <2>7, <2>8, <3>1, <3>3
  <2>10. p = F => F <= R /\ oldf[t] = front /\ (F = R => Done)
    <3>1. SUFFICES ASSUME p = F PROVE F <= R /\ oldf[t] = front /\ (F = R => Done)
      OBVIOUS
    <3>2. F <= R /\ R \in Int /\ front = FrontAt(F)
      BY <2>8, <2>9, <3>1, Numbers
    <3>3. ASSUME F = R PROVE Done
      <4>1. r = R
        BY <2>8, <2>9, <3>1, <3>2, <3>3
      <4>2. oldr[t] = rear
        BY <2>5, <2>8, <4>1 DEF OldRear
      <4> QED BY <2>7, <2>8, <3>1, <3>3, <4>1, <4>2
    <3> QED BY <2>8, <3>1, <3>2, <3>3
  <2>11. PopAt(t)'
    <3>1. PopOf(oldf[t])' = p /\ F' = F /\ R' = R /\ Done' = Done
      BY <1>1, <1>4, <2>8 DEF PopOf, F, R, PosOf, Done, NodeOf
    <3> QED BY <1>1, <2>2, <2>10, <3>1 DEF PopAt, Fin
  <2> QED BY <1>1, <1>4, <2>2, <2>4, <2>5, <2>6, <2>11, QueueLocal
<1> QED BY <1>3, <1>4 DEF PopNext, Goto

\* A pop takes effect: what it read is the first value, and front has not changed.
LEMMA QPopCommits ==
  ASSUME QInv, NEW t \in Threads, PromptHelpers',
         pc[t] = "pop_cas", front = oldf[t], Return(t),
         front' = [index |-> Slot(oldf[t].index, 1), counter |-> Count(oldf[t].counter, 1)],
         off' = off \cup {ret[t]}, got' = [got EXCEPT ![t] = ret[t]],
         UNCHANGED <<rear, nodes, halted>>
  PROVE  QInv' /\ Queued # <<>> /\ ret[t] = Head(Queued) /\ Queued' = Tail(Queued)
<1>1. QTypeOK /\ TypeOK /\ PopAt(t) /\ val[t] = NoValue
  BY DEF QInv, QTypeOK, ThreadsOK, PushLabels, Fin
<1>2. /\ R \in Int /\ R \in Nat /\ F \in Int /\ F \in Pops /\ N \in Nat /\ N >= 3 /\ N > 0 /\ F >= 1
      /\ front = FrontAt(F) /\ R + 2 <= F + N /\ R % N = rear.index /\ F % N = front.index
  BY Numbers, Constants
<1>3. F <= R /\ ret[t] = nodes[front.index].value /\ (F = R => Done)
  BY <1>1 DEF PopAt, F
<1>4. F + 1 \in Pops
  <2>1. Cardinality(Busy) \in Nat
    BY QueueAssumption, FS_Subset, FS_CardinalityType DEF Busy
  <2>2. R + Cardinality(Busy) <= N * MaxLap
    BY DEF QInv, EndsOK
  <2> QED BY <1>2, <1>3, <2>1, <2>2, Constants DEF Pops
<1>5. PICK p \in Pops : p = F /\ p + 1 \in Pops /\ p \in Int
  BY <1>2, <1>4
<1>6. front' = FrontAt(p + 1) /\ F' = p + 1 /\ R' = R /\ Done' = Done
  <2>1. front' = FrontAt(p + 1)
    BY <1>2, <1>5, NextPop
  <2>2. PopOf(FrontAt(p + 1)) = p + 1
    BY <1>5, PopIs
  <2>3. PopOf(front)' = PopOf(FrontAt(p + 1))
    BY <2>1 DEF PopOf
  <2> QED BY <2>1, <2>2, <2>3 DEF F, R, PosOf, Done, NodeOf
<1>7. /\ Queued # <<>> /\ ret[t] = Head(Queued) /\ Queued' = Tail(Queued)
      /\ Queued \in Seq(MaybeValue)
  <2>1. PICK r \in Rears, nd \in [Slots -> Nodes] : r = rear /\ nd = nodes
    BY <1>1 DEF TypeOK
  <2>2. p <= PosOf(r) /\ PosOf(r) + 2 <= p + N /\ PosOf(r) \in Int /\ p <= PosOf(r) + 1
    BY <1>2, <1>3, <1>5, <2>1 DEF R
  <2>3. ValAt(r, nd, p) = ret[t]
    <3>1. CASE p % N = r.index
      <4>1. R % N = F % N /\ R < F + N /\ F < R + N
        BY <1>2, <1>3, <1>5, <2>1, <3>1
      <4>2. PICK x \in Int, y \in Int : x = R /\ y = F /\ x % N = y % N /\ x < y + N /\ y < x + N
        BY <1>2, <4>1
      <4>3. x = y
        BY <1>2, <4>2, ModApart
      <4>4. nodes[rear.index] = NodeOf(rear)
        BY <1>3, <4>2, <4>3 DEF Done
      <4>5. ValAt(r, nd, p) = rear.value
        BY <2>1, <3>1 DEF ValAt
      <4>6. front.index = rear.index
        BY <1>2, <4>2, <4>3
      <4> QED BY <1>3, <4>4, <4>5, <4>6 DEF NodeOf
    <3>2. CASE p % N # r.index
      BY <1>2, <1>3, <1>5, <2>1, <3>2 DEF ValAt
    <3> QED BY <3>1, <3>2
  <2>4. PICK q, s : q = QOf(r, FrontAt(p), nd) /\ s = QOf(r, FrontAt(p + 1), nd)
    OBVIOUS
  <2>5. q # <<>> /\ Head(q) = ret[t] /\ s = Tail(q)
    BY <1>5, <2>2, <2>3, <2>4, QueuePop
  <2>6. q \in Seq(MaybeValue)
    BY <2>2, <2>4, QueueIs
  <2>7. Queued = q /\ Queued' = s
    BY <1>2, <1>5, <1>6, <2>1, <2>4, QueuedIs
  <2> QED BY <2>5, <2>6, <2>7
<1>8. PICK L \in Seq(MaybeValue) : L = Queued /\ L # <<>>
  BY <1>7
<1>9. /\ \A i, j \in DOMAIN Tail(L) : Tail(L)[i] = Tail(L)[j] => i = j
      /\ Elems(Tail(L)) = Elems(L) \ {Head(L)} /\ Head(L) \in Elems(L)
  <2>1. \A i, j \in DOMAIN L : L[i] = L[j] => i = j
    BY <1>8 DEF QInv, OwnedOK
  <2> QED BY <1>8, <2>1, TailOnce
<1>10. ret[t] \in Elems(Queued) /\ ret[t] \in Values
  BY <1>7, <1>8, <1>9 DEF QInv, OwnedOK
<1>11. QTypeOK'
  <2>1. front' \in Fronts
    <3>1. oldf[t].index \in Int /\ oldf[t].counter \in Int
      BY <1>1, Ranges, Constants DEF TypeOK, Fronts, Slots
    <3>2. PICK i \in Int, c \in Int, k \in Int : i = oldf[t].index /\ c = oldf[t].counter /\ k = 1
      BY <3>1
    <3>3. Slot(i, k) \in Slots /\ Count(c, k) \in Counters
      BY Ranges
    <3> QED BY <3>2, <3>3 DEF Fronts
  <2>2. got' \in [Threads -> MaybeValue] /\ off' \subseteq Values
    BY <1>1, <1>10 DEF TypeOK, MaybeValue
  <2>3. TypeOK'
    BY <1>1, <2>1, <2>2, Returns DEF TypeOK
  <2> QED BY <1>1, <2>3, Returns DEF QTypeOK
<1>12. EndsOK'
  <2>1. Busy' = Busy
    BY <1>1, Returns DEF Busy
  <2>2. p + 1 <= R + 1 /\ R + 2 <= (p + 1) + N
    BY <1>2, <1>3, <1>5
  <2>3. R \in Nat /\ R + Cardinality(Busy) <= N * MaxLap
    BY DEF QInv, EndsOK
  <2> QED BY <1>5, <1>6, <2>1, <2>2, <2>3 DEF EndsOK
<1>13. ArrayOK'
  BY <1>6 DEF QInv, ArrayOK
<1>14. ASSUME NEW u \in Threads, u # t
       PROVE  /\ pc'[u] = pc[u] /\ val'[u] = val[u] /\ oldr'[u] = oldr[u] /\ oldf'[u] = oldf[u]
              /\ newc'[u] = newc[u] /\ ret'[u] = ret[u]
              /\ OldRear(oldr[u]) /\ OldFront(oldf[u])
  BY <1>1, <1>14, Returns DEF QInv, RearsOK, FrontsOK
<1>15. RearsOK'
  <2>1. OldRear(Rear0) /\ OldRear(Rear0)'
    BY <1>6 DEF QInv, RearsOK, OldRear
  <2>2. ASSUME NEW u \in Threads PROVE OldRear(oldr[u])'
    <3>1. CASE u = t
      <4>1. oldr'[u] = Rear0
        BY <1>1, <3>1, Returns
      <4> QED BY <2>1, <4>1 DEF OldRear
    <3>2. CASE u # t
      BY <1>6, <1>14, <3>2 DEF OldRear
    <3> QED BY <3>1, <3>2
  <2> QED BY <2>1, <2>2 DEF RearsOK
<1>16. FrontsOK'
  <2>1. ASSUME NEW u \in Threads PROVE OldFront(oldf[u])'
    <3>1. CASE u = t
      <4>1. oldf'[u] = Front0
        BY <1>1, <3>1, Returns
      <4>2. 1 <= p + 1
        BY <1>2, <1>5
      <4> QED BY <1>6, <4>1, <4>2, Initials DEF OldFront
    <3>2. CASE u # t
      <4>1. PopOf(oldf[u]) \in Int /\ PopOf(oldf[u]) <= p
        BY <1>5, Numbers
      <4>2. PopOf(oldf[u]) <= p + 1
        BY <1>5, <4>1
      <4> QED BY <1>6, <1>14, <3>2, <4>2 DEF OldFront
    <3> QED BY <3>1, <3>2
  <2> QED BY <2>1 DEF FrontsOK
<1>17. ThreadsOK'
  <2>1. ASSUME NEW u \in Threads PROVE PushAt(u)' /\ PopAt(u)'
    <3>1. CASE u = t
      BY <1>1, <3>1, Returns
    <3>2. CASE u # t
      <4>1. PushAt(u) /\ PopAt(u)
        BY DEF QInv, ThreadsOK
      <4>2. PopOf(oldf[u])' = PopOf(oldf[u]) /\ PosOf(oldr[u])' = PosOf(oldr[u])
        BY <1>14, <3>2 DEF PopOf, PosOf
      <4>3. PushAt(u)'
        BY <1>6, <1>14, <3>2, <4>1, <4>2 DEF PushAt
      <4>4. PopOf(oldf[u]) # p + 1
        <5>1. PopOf(oldf[u]) \in Int /\ PopOf(oldf[u]) <= p
          BY <1>5, Numbers
        <5> QED BY <1>5, <5>1
      <4>5. PopAt(u)'
        BY <1>6, <1>14, <3>2, <4>1, <4>2, <4>4 DEF PopAt
      <4> QED BY <4>3, <4>5
    <3> QED BY <3>1, <3>2
  <2> QED BY <2>1 DEF ThreadsOK
<1>18. OwnedOK'
  <2>1. Elems(Queued)' = Elems(Queued) \ {ret[t]}
    <3>1. Queued' = Tail(L) /\ ret[t] = Head(L)
      BY <1>7, <1>8
    <3>2. Elems(Queued)' = Elems(Tail(L)) /\ Elems(Queued) = Elems(L)
      BY <1>8, <3>1 DEF Elems
    <3> QED BY <1>9, <3>1, <3>2
  <2>2. Elems(Queued)' \subseteq Values \ off'
    BY <2>1 DEF QInv, OwnedOK
  <2>3. \A i, j \in DOMAIN Queued' : Queued'[i] = Queued'[j] => i = j
    BY <1>7, <1>8, <1>9
  <2>4. \A u \in Threads : val'[u] = val[u]
    BY <1>1, <1>14, Returns
  <2>5. ASSUME NEW u \in Threads, val'[u] # NoValue
        PROVE  /\ val'[u] \notin off' /\ val'[u] \notin Elems(Queued)'
               /\ \A x \in Threads : x # u => val'[x] # val'[u]
    <3>1. val[u] \notin off /\ val[u] \notin Elems(Queued)
          /\ \A x \in Threads : x # u => val[x] # val[u]
      BY <2>4, <2>5 DEF QInv, OwnedOK
    <3> QED BY <1>10, <2>1, <2>4, <3>1
  <2> QED BY <2>2, <2>3, <2>5 DEF OwnedOK
<1> QED BY <1>7, <1>11, <1>12, <1>13, <1>15, <1>16, <1>17, <1>18 DEF QInv

\* pop commits, or starts again.
LEMMA QPopCAS ==
  ASSUME QInv, NEW t \in Threads, PopCAS(t), PromptHelpers'
  PROVE  /\ QInv'
         /\ \/ Queued' = Queued /\ got' = got
            \/ /\ Queued # <<>> /\ Queued' = Tail(Queued)
               /\ got' = [got EXCEPT ![t] = Head(Queued)]
<1>1. pc[t] = "pop_cas" /\ UNCHANGED <<rear, nodes, halted>>
  BY DEF PopCAS, At
<1>2. CASE /\ front = oldf[t] /\ Return(t)
           /\ front' = [index |-> Slot(oldf[t].index, 1), counter |-> Count(oldf[t].counter, 1)]
           /\ off' = off \cup {ret[t]} /\ got' = [got EXCEPT ![t] = ret[t]]
  BY <1>1, <1>2, QPopCommits
<1>3. CASE pc' = [pc EXCEPT ![t] = "pop_front"] /\ UNCHANGED <<front, off, got, local>>
  <2>1. UNCHANGED <<front, off, got, val, oldr, oldf, oldn, newc, ret>>
    BY <1>3 DEF local
  <2>2. QTypeOK /\ TypeOK /\ val[t] = NoValue
    BY <1>1 DEF QInv, QTypeOK, PushLabels, Fin
  <2>3. pc' \in [Threads -> Labels] /\ pc'[t] = "pop_front" /\ \A u \in Threads : u # t => pc'[u] = pc[u]
    BY <1>3, <2>2 DEF QTypeOK, Labels
  <2>4. TypeOK'
    BY <1>1, <2>1, <2>2 DEF TypeOK
  <2>5. QTypeOK'
    BY <2>1, <2>2, <2>3, <2>4 DEF QTypeOK, PushLabels, Fin
  <2>6. OldRear(oldr'[t]) /\ OldFront(oldf'[t])
    BY <2>1 DEF QInv, RearsOK, FrontsOK
  <2>7. PushAt(t)' /\ PopAt(t)'
    BY <2>3 DEF PushAt, PopAt, Fin
  <2> QED BY <1>1, <2>1, <2>3, <2>5, <2>6, <2>7, QueueLocal
<1> QED BY <1>2, <1>3 DEF PopCAS, Goto
-----------------------------------------------------------------------------
(* The theorems *)

\* A new queue is empty.
LEMMA QueueInit ==
  Init => QInv /\ Queued = <<>>
<1> SUFFICES ASSUME Init PROVE QInv /\ Queued = <<>>
  OBVIOUS
<1>1. /\ rear = Rear0 /\ front = Front0 /\ nodes = [i \in Slots |-> Node0] /\ off = Values
      /\ pc = [t \in Threads |-> "idle"] /\ val = [t \in Threads |-> NoValue]
      /\ oldr = [t \in Threads |-> Rear0] /\ oldf = [t \in Threads |-> Front0]
      /\ oldn = [t \in Threads |-> Node0] /\ newc = [t \in Threads |-> 0]
      /\ ret = [t \in Threads |-> NoValue] /\ got = [t \in Threads |-> NoValue] /\ halted = FALSE
  BY DEF Init
<1>2. TypeOK
  BY <1>1, Initials DEF TypeOK
<1>3. QTypeOK
  BY <1>1, <1>2 DEF QTypeOK, Labels, PushLabels, Fin
<1>4. R = 0 /\ F = 1 /\ N \in Nat /\ N >= 3 /\ N > 0 /\ N * MaxLap \in Nat
  BY <1>1, Initials, Constants DEF R, F
<1>5. EndsOK
  <2>1. Busy = {}
    BY <1>1 DEF Busy
  <2>2. Cardinality(Busy) = 0
    BY <2>1, FS_EmptySet
  <2> QED BY <1>1, <1>4, <2>2, Initials DEF EndsOK
<1>6. ArrayOK
  <2>1. SUFFICES ASSUME NEW i \in Slots, i # 0
                 PROVE  R - N < Pos(i, nodes[i].counter) /\ Pos(i, nodes[i].counter) < R
    BY <1>1 DEF ArrayOK, Rear0
  <2>2. nodes[i].counter = 0
    BY <1>1 DEF Node0
  <2>3. Pos(i, 0) = (0 - 1) * N + i
    BY <2>1 DEF Pos, Lap
  <2>4. (0 - 1) * N = -N /\ i \in 1 .. N - 1
    BY <1>4, <2>1 DEF Slots
  <2>5. Pos(i, 0) = i - N
    BY <1>4, <2>3, <2>4
  <2> QED BY <1>4, <2>2, <2>4, <2>5
<1>7. OldRear(Rear0)
  <2>1. ~(PosOf(Rear0) < R) /\ PosOf(Rear0) <= R /\ PosOf(Rear0) \in Nat
    BY <1>4, Initials
  <2> QED BY <1>1, <2>1 DEF OldRear
<1>8. RearsOK
  BY <1>1, <1>7 DEF RearsOK
<1>9. FrontsOK
  BY <1>1, <1>4, Initials DEF FrontsOK, OldFront
<1>10. ThreadsOK
  BY <1>1 DEF ThreadsOK, PushAt, PopAt, Fin
<1>11. Queued = <<>>
  <2>1. rear.index = 0 /\ front.index = 1
    BY <1>1 DEF Rear0, Front0
  <2>2. (0 - 1 + 1) % N = 0
    <3>1. 0 - 1 + 1 = 0 * N + 0 /\ 0 \in 0 .. N - 1 /\ 0 - 1 + 1 \in Int
      BY <1>4
    <3> QED BY <1>4, <3>1, Remainder
  <2>3. DOMAIN Queued = 1 .. 0
    BY <2>1, <2>2 DEF Queued
  <2>4. Queued = [k \in 1 .. 0 |-> NoValue]
    BY <2>1, <2>2 DEF Queued
  <2> QED BY <2>4
<1>12. OwnedOK
  BY <1>1, <1>11 DEF OwnedOK, Elems
<1>13. PromptHelpers
  BY <1>1 DEF PromptHelpers
<1> QED BY <1>3, <1>5, <1>6, <1>8, <1>9, <1>10, <1>11, <1>12, <1>13 DEF QInv

\* Every step keeps the invariant, and leaves the queue alone or is a step of the
\* queue that is changed at one instant.
LEMMA QueueStep ==
  QInv /\ [Next /\ PromptHelpers']_vars => QInv' /\ [Atomic!Next]_<<Queued, got>>
<1> SUFFICES ASSUME QInv, [Next /\ PromptHelpers']_vars
             PROVE  QInv' /\ [Atomic!Next]_<<Queued, got>>
  OBVIOUS
<1>1. ASSUME NEW t \in Threads, Queued # <<>>, Queued' = Tail(Queued),
             got' = [got EXCEPT ![t] = Head(Queued)]
      PROVE  Atomic!Next
  BY <1>1 DEF Atomic!Next, Atomic!Take
<1>2. ASSUME NEW v \in Values, Queued' = Append(Queued, v), Len(Queued) < N - 1, got' = got
      PROVE  Atomic!Next
  <2>1. Atomic!Put(v)
    BY <1>2 DEF Atomic!Put
  <2> QED BY <2>1 DEF Atomic!Next
<1>3. ASSUME UNCHANGED vars PROVE QInv' /\ Queued' = Queued /\ got' = got
  <2>1. UNCHANGED <<rear, front, nodes, off, pc, val, oldr, oldf, oldn, newc, ret, got, halted>>
    BY <1>3 DEF vars, shared, local
  <2>2. Queued' = Queued /\ R' = R /\ F' = F /\ Done' = Done /\ Busy' = Busy
    BY <2>1 DEF Queued, R, F, PosOf, PopOf, Done, NodeOf, Busy
  <2>3. QTypeOK' /\ PromptHelpers'
    BY <2>1 DEF QInv, QTypeOK, TypeOK, PromptHelpers
  <2>4. EndsOK' /\ ArrayOK' /\ RearsOK' /\ FrontsOK'
    BY <2>1, <2>2 DEF QInv, EndsOK, ArrayOK, RearsOK, FrontsOK, OldRear, OldFront
  <2>5. ThreadsOK'
    BY <2>1, <2>2 DEF QInv, ThreadsOK, PushAt, PopAt
  <2>6. OwnedOK'
    BY <2>1, <2>2 DEF QInv, OwnedOK
  <2> QED BY <2>1, <2>2, <2>3, <2>4, <2>5, <2>6 DEF QInv
<1>4. ASSUME NEW t \in Threads, PromptHelpers',
             Push(t) \/ PushLoadRear(t) \/ PushLoadFront(t) \/ PushCheck(t) \/ PushNext(t)
      PROVE  QInv' /\ Queued' = Queued /\ got' = got
  <2>1. QInv' /\ Queued' = Queued
    BY <1>4, QPush, QPushLoadRear, QPushLoadFront, QPushCheck, QPushNext
  <2>2. got' = got
    BY <1>4 DEF Push, PushLoadRear, PushLoadFront, PushCheck, PushNext
  <2> QED BY <2>1, <2>2
<1>5. ASSUME NEW t \in Threads, PromptHelpers',
             FinLoad(t) \/ FinCAS(t) \/ PopLoadFront(t) \/ PopLoadRear(t) \/ PopCheck(t) \/ PopNext(t)
      PROVE  QInv' /\ Queued' = Queued /\ got' = got
  <2>1. QInv' /\ Queued' = Queued
    BY <1>5, QFinLoad, QFinCAS, QPopLoadFront, QPopLoadRear, QPopCheck, QPopNext
  <2>2. got' = got
    BY <1>5 DEF FinLoad, FinCAS, PopLoadFront, PopLoadRear, PopCheck, PopNext
  <2> QED BY <2>1, <2>2
<1>6. ASSUME NEW t \in Threads, PromptHelpers', PushCAS(t)
      PROVE  QInv' /\ [Atomic!Next]_<<Queued, got>>
  <2>1. /\ QInv' /\ got' = got
        /\ \/ Queued' = Queued
           \/ Queued' = Append(Queued, val[t]) /\ val[t] \in Values /\ Len(Queued) < N - 1
    BY <1>6, QPushCAS
  <2> QED BY <1>2, <2>1
<1>7. ASSUME NEW t \in Threads, PromptHelpers', PopCAS(t)
      PROVE  QInv' /\ [Atomic!Next]_<<Queued, got>>
  <2>1. /\ QInv'
        /\ \/ Queued' = Queued /\ got' = got
           \/ /\ Queued # <<>> /\ Queued' = Tail(Queued)
              /\ got' = [got EXCEPT ![t] = Head(Queued)]
    BY <1>7, QPopCAS
  <2> QED BY <1>1, <2>1
<1>8. CASE UNCHANGED vars
  BY <1>3, <1>8
<1>9. CASE Next /\ PromptHelpers'
  <2>1. CASE Dead
    BY <1>3, <2>1 DEF Dead
  <2>2. CASE \E t \in Threads : Push(t) \/ Step(t)
    <3>1. PICK t \in Threads : Push(t) \/ Step(t)
      BY <2>2
    <3> QED BY <1>4, <1>5, <1>6, <1>7, <1>9, <3>1 DEF Step
  <2> QED BY <1>9, <2>1, <2>2 DEF Next
<1> QED BY <1>8, <1>9

\* While no helper sleeps for a lap the invariant always holds.
LEMMA AlwaysQInv ==
  PromptSpec => []QInv
  BY QueueInit, QueueStep, PTL DEF PromptSpec

\* What rear, front, the array and the locals of push and pop hold has its type:
\* indices stay in the array and counters in their width.
THEOREM QueueTypes ==
  PromptSpec => []TypeOK
<1>1. QInv => TypeOK
  BY DEF QInv, QTypeOK
<1> QED BY <1>1, AlwaysQInv, PTL

\* Whatever pushers, poppers and helpers do, a superblock is in the queue once or
\* outside: none is lost and none is popped twice.
THEOREM SuperblockQueuedOnce ==
  PromptSpec => []QueuedOnce
<1>1. QInv => QueuedOnce
  BY DEF QInv, OwnedOK, QueuedOnce, Elems
<1> QED BY <1>1, AlwaysQInv, PTL

\* _ArrayQueue implements the queue that is changed in one step, although the value
\* pushed last reaches its slot later, by another thread's help: a push takes effect
\* with its CAS of rear and a pop with its CAS of front.
THEOREM ArrayQueueIsQueue ==
  PromptSpec => ImplementsQueue
<1>1. Init => Atomic!Init
  <2> SUFFICES ASSUME Init PROVE Atomic!Init
    OBVIOUS
  <2>1. Queued = <<>>
    BY QueueInit
  <2> QED BY <2>1 DEF Atomic!Init, Init
<1>2. QInv /\ [Next /\ PromptHelpers']_vars => [Atomic!Next]_<<Queued, got>>
  BY QueueStep
<1> QED BY <1>1, <1>2, AlwaysQInv, PTL DEF PromptSpec, ImplementsQueue, Atomic!Spec
=============================================================================
