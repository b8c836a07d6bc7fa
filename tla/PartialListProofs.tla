------------------------- MODULE PartialListProofs -------------------------
(***************************************************************************)
(* Proofs about PartialList: heap_push_partial and heap_pop_partial        *)
(* implement a stack that is changed in one step, for any number of        *)
(* threads and descriptors and any width of the counter.                   *)
(***************************************************************************)
EXTENDS PartialList, Chains

\* Types: a pointer, the packed head, where a thread can be.
Ptrs == Descs \cup {NoDesc}
Words == [ptr : Ptrs, cnt : 0 .. Wrap - 1]
Labels == {"idle", "push_link", "push_cas", "pop_next", "pop_cas"}

\* The type invariant.
PTypeOK ==
  /\ head \in Words /\ next \in [Descs -> Ptrs] /\ off \subseteq Descs
  /\ pc \in [Threads -> Labels] /\ mine \in [Threads -> Ptrs]
  /\ oldhead \in [Threads -> Words] /\ link \in [Threads -> Ptrs]
  /\ got \in [Threads -> Ptrs]

\* The elements of a sequence.
Elems(L) == {L[i] : i \in DOMAIN L}

\* L is the list that starts at h and is linked by nx.
IsList(L, h, nx) ==
  /\ L \in Seq(Descs)
  /\ \A i, j \in DOMAIN L : L[i] = L[j] => i = j
  /\ h = IF L = <<>> THEN NoDesc ELSE L[1]
  /\ \A i \in DOMAIN L : nx[L[i]] = IF i = Len(L) THEN NoDesc ELSE L[i + 1]

\* The links from the head make a list: no cycle, no dead end.
ListOK == IsList(Listed, head.ptr, next)

\* A descriptor is on the list, off it, or being pushed by one thread.
OwnedOK ==
  /\ off \cap Elems(Listed) = {}
  /\ \A t \in Threads : pc[t] \in {"push_link", "push_cas"} => mine[t] # NoDesc
  /\ \A t \in Threads : mine[t] # NoDesc =>
       /\ mine[t] \notin off /\ mine[t] \notin Elems(Listed)
       /\ \A u \in Threads : u # t => mine[u] # mine[t]

\* A thread about to push has linked its descriptor to the head it expects.
LinkedOK == \A t \in Threads : pc[t] = "push_cas" => next[mine[t]] = oldhead[t].ptr

\* Since a popper loaded the head, either something has been pushed, or what it saw
\* is still there as it was, or has been popped and is not back.
Popping(t) == pc[t] \in {"pop_next", "pop_cas"}
Seen(t) ==
  Popping(t) =>
    /\ oldhead[t].ptr # NoDesc
    /\ \/ head.cnt # oldhead[t].cnt
       \/ oldhead[t].ptr \notin Elems(Listed)
       \/ /\ oldhead[t].ptr = head.ptr
          /\ pc[t] = "pop_cas" => link[t] = next[head.ptr]
SeenOK == \A t \in Threads : Seen(t)

\* The inductive invariant.
PInv == PTypeOK /\ ListOK /\ OwnedOK /\ LinkedOK /\ SeenOK
-----------------------------------------------------------------------------
(* The list as a sequence *)

\* One step of Walk.
WalkBody(g, k, h, nx) ==
  IF k = 0 THEN h ELSE IF g[k - 1] = NoDesc THEN NoDesc ELSE nx[g[k - 1]]

\* g is what the recursive definition of Walk defines.
WalksOf(g, N, h, nx) == g = [k \in 0 .. N |-> WalkBody(g, k, h, nx)]

\* The recursive function exists: by induction over how far it is defined.
LEMMA WalkExists ==
  ASSUME NEW h, NEW nx, NEW N \in Nat
  PROVE  \E g : WalksOf(g, N, h, nx)
<1> DEFINE Good(n) == \E g : WalksOf(g, n, h, nx)
           T == {n \in 0 .. N : ~Good(n)}
<1>1. Good(0)
  <2>1. [k \in 0 .. 0 |-> h] = [k \in 0 .. 0 |-> WalkBody([j \in 0 .. 0 |-> h], k, h, nx)]
    BY DEF WalkBody
  <2> QED BY <2>1 DEF WalksOf
<1>2. ASSUME NEW n \in Nat, n > 0, Good(n - 1) PROVE Good(n)
  <2>1. PICK g : g = [k \in 0 .. n - 1 |-> WalkBody(g, k, h, nx)]
    BY <1>2 DEF WalksOf
  <2>2. PICK f : f = [k \in 0 .. n |-> IF k < n THEN g[k] ELSE WalkBody(g, n, h, nx)]
    OBVIOUS
  <2>3. ASSUME NEW k \in 0 .. n PROVE f[k] = WalkBody(f, k, h, nx)
    <3>1. k # 0 => k - 1 \in 0 .. n /\ k - 1 < n
      BY <1>2
    <3>2. k # 0 => f[k - 1] = g[k - 1]
      BY <2>2, <3>1
    <3>3. WalkBody(f, k, h, nx) = WalkBody(g, k, h, nx)
      BY <3>2 DEF WalkBody
    <3>4. CASE k < n
      <4>1. k \in 0 .. n - 1
        BY <1>2, <3>4
      <4>2. f[k] = g[k]
        BY <2>2, <3>4
      <4>3. g[k] = WalkBody(g, k, h, nx)
        BY <2>1, <4>1, Zenon
      <4> QED BY <3>3, <4>2, <4>3
    <3>5. CASE k = n
      BY <1>2, <2>2, <3>3, <3>5
    <3> QED BY <1>2, <3>4, <3>5
  <2>4. f = [k \in 0 .. n |-> f[k]]
    BY <2>2
  <2>5. f = [k \in 0 .. n |-> WalkBody(f, k, h, nx)]
    BY <2>3, <2>4, Zenon
  <2> QED BY <2>5 DEF WalksOf
<1> HIDE DEF Good
<1>3. T = {}
  <2>1. ASSUME T # {} PROVE FALSE
    <3>0. T \in SUBSET Nat
      OBVIOUS
    <3>1. PICK x \in T : \A y \in T : x <= y
      <4> HIDE DEF T
      <4> QED BY <2>1, <3>0, Least
    <3>2. x \in 0 .. N /\ ~Good(x)
      OBVIOUS
    <3>3. x # 0
      BY <1>1, <3>2
    <3>4. x \in Nat /\ x > 0 /\ x - 1 \in 0 .. N
      BY <3>2, <3>3
    <3>5. Good(x - 1)
      BY <3>1, <3>4
    <3> QED BY <1>2, <3>2, <3>4, <3>5
  <2> QED BY <2>1
<1>4. N \in 0 .. N
  OBVIOUS
<1>5. Good(N)
  BY <1>3, <1>4
<1> QED BY <1>5 DEF Good

\* What Walk follows.
LEMMA WalkIs ==
  ASSUME NEW h, NEW nx, Cardinality(Descs) \in Nat
  PROVE  /\ DOMAIN Walk(h, nx) = 0 .. Cardinality(Descs)
         /\ \A k \in 0 .. Cardinality(Descs) :
              Walk(h, nx)[k] = WalkBody(Walk(h, nx), k, h, nx)
<1>1. PICK N : N = Cardinality(Descs)
  OBVIOUS
<1>2. \E g : WalksOf(g, N, h, nx)
  BY <1>1, WalkExists
<1>3. Walk(h, nx) = CHOOSE g : WalksOf(g, N, h, nx)
  BY <1>1 DEF Walk, WalkBody, WalksOf
<1>4. WalksOf(Walk(h, nx), N, h, nx)
  BY <1>2, <1>3, Zenon
<1>5. PICK w : w = Walk(h, nx)
  OBVIOUS
<1>6. w = [k \in 0 .. N |-> WalkBody(w, k, h, nx)]
  BY <1>4, <1>5, Zenon DEF WalksOf
<1>7. DOMAIN w = 0 .. N /\ \A k \in 0 .. N : w[k] = WalkBody(w, k, h, nx)
  BY <1>6, Zenon
<1> QED BY <1>1, <1>5, <1>7

\* A list has no more elements than there are descriptors.
LEMMA ListFits ==
  ASSUME NEW h, NEW nx, NEW L, IsList(L, h, nx)
  PROVE  /\ Cardinality(Descs) \in Nat /\ Len(L) \in Nat
         /\ Len(L) <= Cardinality(Descs)
<1>1. L \in Seq(Descs) /\ Len(L) \in Nat /\ DOMAIN L = 1 .. Len(L)
  BY DEF IsList
<1>2. PICK n \in Nat : n = Len(L)
  BY <1>1
<1>3. L \in [1 .. n -> Descs]
  BY <1>1, <1>2
<1>4. \A i, j \in 1 .. n : L[i] = L[j] => i = j
  BY <1>1, <1>2 DEF IsList
<1>5. L \in Injection(1 .. n, Descs)
  BY <1>3, <1>4 DEF Injection, IsInjective
<1>6. IsFiniteSet(Descs) /\ Cardinality(Descs) \in Nat
  BY PartialAssumption, FS_CardinalityType
<1>7. IsFiniteSet(1 .. n) /\ Cardinality(1 .. n) = n
  BY FS_Interval
<1>8. Cardinality(1 .. n) <= Cardinality(Descs)
  BY <1>5, <1>6, FS_Injection DEF ExistsInjection
<1> QED BY <1>2, <1>6, <1>7, <1>8

\* The links that Walk follows through a list are its elements.
LEMMA WalkOfList ==
  ASSUME NEW h, NEW nx, NEW L, IsList(L, h, nx), NEW k \in 0 .. Cardinality(Descs)
  PROVE  Walk(h, nx)[k] = IF k < Len(L) THEN L[k + 1] ELSE NoDesc
<1>1. PICK N \in Nat : N = Cardinality(Descs)
  BY ListFits
<1>2. PICK n \in Nat : n = Len(L) /\ n <= N
  BY <1>1, ListFits
<1>3. PICK w : w = Walk(h, nx)
  OBVIOUS
<1>4. \A j \in 0 .. N : w[j] = WalkBody(w, j, h, nx)
  <2>1. Cardinality(Descs) \in Nat
    BY <1>1
  <2>2. \A j \in 0 .. Cardinality(Descs) :
          Walk(h, nx)[j] = WalkBody(Walk(h, nx), j, h, nx)
    BY <2>1, WalkIs, Zenon
  <2> QED BY <1>1, <1>3, <2>2, Zenon
<1>5. L \in Seq(Descs) /\ DOMAIN L = 1 .. n
  BY <1>2 DEF IsList
<1>6. n = 0 => h = NoDesc
  BY <1>2, <1>5 DEF IsList
<1>7. n > 0 => h = L[1]
  BY <1>2, <1>5 DEF IsList
<1>8. \A i \in 1 .. n : L[i] \in Descs /\ L[i] # NoDesc
  BY <1>5, PartialAssumption
<1>9. \A i \in 1 .. n : nx[L[i]] = IF i = n THEN NoDesc ELSE L[i + 1]
  BY <1>2, <1>5 DEF IsList
<1> DEFINE Right(j) == w[j] = IF j < n THEN L[j + 1] ELSE NoDesc
           T == {j \in 0 .. N : ~Right(j)}
<1>10. Right(0)
  <2>1. w[0] = h
    BY <1>4 DEF WalkBody
  <2> QED BY <1>6, <1>7, <2>1
<1>11. ASSUME NEW j \in 0 .. N, j > 0, Right(j - 1) PROVE Right(j)
  <2>1. w[j] = IF w[j - 1] = NoDesc THEN NoDesc ELSE nx[w[j - 1]]
    BY <1>4, <1>11 DEF WalkBody
  <2>2. CASE j - 1 < n
    <3>1. j \in 1 .. n /\ w[j - 1] = L[j]
      BY <1>11, <2>2
    <3>2. w[j] = nx[L[j]]
      BY <1>8, <2>1, <3>1
    <3> QED BY <1>9, <3>1, <3>2
  <2>3. CASE ~(j - 1 < n)
    BY <1>11, <2>1, <2>3
  <2> QED BY <2>2, <2>3
<1> HIDE DEF Right
<1>12. ASSUME T # {} PROVE FALSE
  <2>1. T \in SUBSET Nat
    OBVIOUS
  <2>2. PICK x \in T : \A y \in T : x <= y
    <3> HIDE DEF T
    <3> QED BY <1>12, <2>1, Least
  <2>3. x \in 0 .. N /\ ~Right(x)
    OBVIOUS
  <2>4. x # 0
    BY <1>10, <2>3
  <2>5. x > 0 /\ x - 1 \in 0 .. N
    BY <2>3, <2>4
  <2>6. Right(x - 1)
    BY <2>2, <2>5
  <2> QED BY <1>11, <2>3, <2>5, <2>6
<1>13. Right(k)
  BY <1>1, <1>12
<1> QED BY <1>2, <1>3, <1>13 DEF Right

\* What ListFrom finds is the list.
LEMMA ListedIs ==
  ASSUME NEW h, NEW nx, NEW L, IsList(L, h, nx)
  PROVE  ListFrom(h, nx) = L
<1>1. PICK N \in Nat : N = Cardinality(Descs)
  BY ListFits
<1>2. PICK n \in Nat : n = Len(L) /\ n <= N
  BY <1>1, ListFits
<1>3. PICK w : w = Walk(h, nx)
  OBVIOUS
<1>4. DOMAIN w = 0 .. N
  <2>1. Cardinality(Descs) \in Nat
    BY <1>1
  <2> QED BY <1>1, <1>3, <2>1, WalkIs
<1>5. \A k \in 0 .. N : w[k] = IF k < n THEN L[k + 1] ELSE NoDesc
  <2>1. \A k \in 0 .. Cardinality(Descs) :
          Walk(h, nx)[k] = IF k < Len(L) THEN L[k + 1] ELSE NoDesc
    BY WalkOfList
  <2> QED BY <1>1, <1>2, <1>3, <2>1
<1>6. L \in Seq(Descs) /\ L \in [1 .. n -> Descs]
  BY <1>2 DEF IsList
<1>7. {j \in DOMAIN w : w[j] # NoDesc} = 0 .. n - 1
  <2>1. ASSUME NEW j \in 0 .. N, j < n PROVE w[j] # NoDesc
    <3>1. w[j] = L[j + 1] /\ j + 1 \in 1 .. n
      BY <1>5, <2>1
    <3> QED BY <1>6, <3>1, PartialAssumption
  <2>2. ASSUME NEW j \in 0 .. N, ~(j < n) PROVE w[j] = NoDesc
    BY <1>5, <2>2
  <2> QED BY <1>2, <1>4, <2>1, <2>2
<1>8. Cardinality(0 .. n - 1) = n
  BY FS_Interval
<1>9. ListFrom(h, nx) = [k \in 1 .. n |-> w[k - 1]]
  BY <1>3, <1>7, <1>8 DEF ListFrom
<1>10. \A k \in 1 .. n : w[k - 1] = L[k]
  BY <1>2, <1>5
<1>11. L = [k \in 1 .. n |-> L[k]]
  BY <1>6
<1> QED BY <1>9, <1>10, <1>11

\* Pushing d, which is not on the list, in front of it.
LEMMA PushList ==
  ASSUME NEW h, NEW nx, NEW L, IsList(L, h, nx),
         NEW d \in Descs, d \notin Elems(L), nx[d] = h
  PROVE  IsList(<<d>> \o L, d, nx) /\ Elems(<<d>> \o L) = {d} \cup Elems(L)
<1>1. PICK n \in Nat : n = Len(L)
  BY DEF IsList
<1>2. L \in Seq(Descs) /\ DOMAIN L = 1 .. n
  BY <1>1 DEF IsList
<1>3. PICK M : M = <<d>> \o L
  OBVIOUS
<1>4. M \in Seq(Descs) /\ Len(M) = n + 1 /\ DOMAIN M = 1 .. n + 1 /\ M # <<>>
  BY <1>1, <1>2, <1>3
<1>5. M[1] = d /\ \A i \in 1 .. n : M[i + 1] = L[i]
  BY <1>1, <1>2, <1>3
<1>6. \A i \in 2 .. n + 1 : i - 1 \in 1 .. n /\ M[i] = L[i - 1]
  <2>1. ASSUME NEW i \in 2 .. n + 1 PROVE i - 1 \in 1 .. n /\ M[i] = L[i - 1]
    <3>1. i - 1 \in 1 .. n /\ (i - 1) + 1 = i
      BY <2>1
    <3> QED BY <1>5, <3>1
  <2> QED BY <2>1
<1>7. \A i \in 1 .. n : L[i] # d
  BY <1>2 DEF Elems
<1>8. \A i, j \in 1 .. n : L[i] = L[j] => i = j
  BY <1>2 DEF IsList
<1>9. \A i, j \in DOMAIN M : M[i] = M[j] => i = j
  <2>1. ASSUME NEW i \in 1 .. n + 1, NEW j \in 1 .. n + 1, M[i] = M[j] PROVE i = j
    <3>1. CASE i = 1 /\ j = 1
      BY <3>1
    <3>2. CASE i = 1 /\ j # 1
      BY <1>5, <1>6, <1>7, <2>1, <3>2
    <3>3. CASE i # 1 /\ j = 1
      BY <1>5, <1>6, <1>7, <2>1, <3>3
    <3>4. CASE i # 1 /\ j # 1
      <4>1. i - 1 \in 1 .. n /\ j - 1 \in 1 .. n /\ L[i - 1] = L[j - 1]
        BY <1>6, <2>1, <3>4
      <4>2. i - 1 = j - 1
        BY <1>8, <4>1
      <4> QED BY <4>2
    <3> QED BY <3>1, <3>2, <3>3, <3>4
  <2> QED BY <1>4, <2>1
<1>10. \A i \in 1 .. n : nx[L[i]] = IF i = n THEN NoDesc ELSE L[i + 1]
  BY <1>1, <1>2 DEF IsList
<1>11. n = 0 => h = NoDesc
  BY <1>1, <1>2 DEF IsList
<1>12. n > 0 => h = L[1]
  BY <1>1, <1>2 DEF IsList
<1>13. \A i \in DOMAIN M : nx[M[i]] = IF i = Len(M) THEN NoDesc ELSE M[i + 1]
  <2>1. ASSUME NEW i \in 1 .. n + 1
        PROVE  nx[M[i]] = IF i = n + 1 THEN NoDesc ELSE M[i + 1]
    <3>1. CASE i = 1
      BY <1>5, <1>11, <1>12, <3>1
    <3>2. CASE i # 1
      <4>1. i - 1 \in 1 .. n /\ M[i] = L[i - 1]
        BY <1>6, <3>2
      <4>2. nx[M[i]] = IF i - 1 = n THEN NoDesc ELSE L[i]
        BY <1>10, <4>1
      <4>3. i # n + 1 => M[i + 1] = L[i]
        BY <1>5, <3>2
      <4> QED BY <4>2, <4>3
    <3> QED BY <3>1, <3>2
  <2> QED BY <1>4, <2>1
<1>14. IsList(M, d, nx)
  BY <1>4, <1>5, <1>9, <1>13 DEF IsList
<1>15. Elems(M) = {d} \cup Elems(L)
  <2>1. ASSUME NEW i \in DOMAIN M PROVE M[i] \in {d} \cup Elems(L)
    <3>1. i # 1 => i - 1 \in DOMAIN L /\ M[i] = L[i - 1]
      BY <1>2, <1>4, <1>6
    <3> QED BY <1>5, <3>1 DEF Elems
  <2>2. d \in Elems(M)
    BY <1>4, <1>5 DEF Elems
  <2>3. ASSUME NEW i \in DOMAIN L PROVE L[i] \in Elems(M)
    BY <1>2, <1>4, <1>5 DEF Elems
  <2> QED BY <2>1, <2>2, <2>3 DEF Elems
<1> QED BY <1>3, <1>14, <1>15

\* Popping the first element.
LEMMA PopList ==
  ASSUME NEW h, NEW nx, NEW L, IsList(L, h, nx), h # NoDesc
  PROVE  /\ L # <<>> /\ h = Head(L) /\ h \in Elems(L)
         /\ IsList(Tail(L), nx[h], nx)
         /\ Elems(Tail(L)) = Elems(L) \ {h}
<1>1. PICK n \in Nat : n = Len(L)
  BY DEF IsList
<1>2. L \in Seq(Descs) /\ DOMAIN L = 1 .. n
  BY <1>1 DEF IsList
<1>3. L # <<>> /\ n > 0 /\ h = L[1]
  BY <1>1, <1>2 DEF IsList
<1>4. PICK M : M = Tail(L)
  OBVIOUS
<1>5. M \in Seq(Descs) /\ Len(M) = n - 1 /\ DOMAIN M = 1 .. n - 1
  BY <1>1, <1>2, <1>3, <1>4
<1>6. \A i \in 1 .. n - 1 : i + 1 \in 1 .. n /\ M[i] = L[i + 1]
  BY <1>1, <1>2, <1>3, <1>4
<1>7. \A i, j \in 1 .. n : L[i] = L[j] => i = j
  BY <1>2 DEF IsList
<1>8. \A i \in 1 .. n : nx[L[i]] = IF i = n THEN NoDesc ELSE L[i + 1]
  BY <1>1, <1>2 DEF IsList
<1>9. \A i, j \in DOMAIN M : M[i] = M[j] => i = j
  <2>1. ASSUME NEW i \in 1 .. n - 1, NEW j \in 1 .. n - 1, M[i] = M[j] PROVE i = j
    <3>1. i + 1 = j + 1
      BY <1>6, <1>7, <2>1
    <3> QED BY <3>1
  <2> QED BY <1>5, <2>1
<1>10. nx[h] = IF M = <<>> THEN NoDesc ELSE M[1]
  <2>1. nx[h] = IF n = 1 THEN NoDesc ELSE L[2]
    BY <1>3, <1>8
  <2>2. (M = <<>>) <=> (n = 1)
    BY <1>5
  <2>3. n # 1 => M[1] = L[2]
    BY <1>3, <1>6
  <2> QED BY <2>1, <2>2, <2>3
<1>11. \A i \in DOMAIN M : nx[M[i]] = IF i = Len(M) THEN NoDesc ELSE M[i + 1]
  <2>1. ASSUME NEW i \in 1 .. n - 1
        PROVE  nx[M[i]] = IF i = n - 1 THEN NoDesc ELSE M[i + 1]
    <3>1. nx[M[i]] = IF i + 1 = n THEN NoDesc ELSE L[i + 2]
      BY <1>6, <1>8
    <3>2. i # n - 1 => M[i + 1] = L[i + 2]
      BY <1>6
    <3> QED BY <3>1, <3>2
  <2> QED BY <1>5, <2>1
<1>12. IsList(M, nx[h], nx)
  BY <1>5, <1>9, <1>10, <1>11 DEF IsList
<1>13. Elems(M) = Elems(L) \ {h}
  <2>1. ASSUME NEW i \in 1 .. n - 1 PROVE M[i] \in Elems(L) /\ M[i] # h
    <3>1. M[i] = L[i + 1] /\ i + 1 \in 1 .. n /\ 1 \in 1 .. n /\ i + 1 # 1
      BY <1>3, <1>6
    <3> QED BY <1>2, <1>3, <1>7, <3>1 DEF Elems
  <2>2. ASSUME NEW i \in 1 .. n, L[i] # h PROVE L[i] \in Elems(M)
    <3>1. i # 1
      BY <1>3, <2>2
    <3>2. i - 1 \in 1 .. n - 1 /\ (i - 1) + 1 = i
      BY <3>1
    <3>3. M[i - 1] = L[i]
      BY <1>6, <3>2
    <3> QED BY <1>5, <3>2, <3>3 DEF Elems
  <2> QED BY <1>2, <1>5, <2>1, <2>2 DEF Elems
<1>14. h \in Elems(L) /\ h = Head(L)
  BY <1>2, <1>3 DEF Elems
<1> QED BY <1>3, <1>4, <1>12, <1>13, <1>14

\* A link of a descriptor that is not on the list can be changed.
LEMMA SameList ==
  ASSUME NEW h, NEW nx, NEW L, IsList(L, h, nx), NEW d, NEW x,
         d \notin Elems(L), nx \in [Descs -> Ptrs]
  PROVE  IsList(L, h, [nx EXCEPT ![d] = x])
<1>1. \A i \in DOMAIN L : L[i] \in Descs /\ L[i] # d
  BY DEF IsList, Elems
<1>2. \A i \in DOMAIN L : [nx EXCEPT ![d] = x][L[i]] = nx[L[i]]
  BY <1>1
<1> QED BY <1>2 DEF IsList
-----------------------------------------------------------------------------
(* The invariant *)

\* The initial state satisfies the invariant.
LEMMA InitInv ==
  Init => PInv /\ Listed = <<>>
<1> SUFFICES ASSUME Init PROVE PInv /\ Listed = <<>>
  OBVIOUS
<1>1. Wrap \in Nat /\ Wrap > 0
  BY PartialAssumption
<1>2. 0 % Wrap = 0
  BY <1>1
<1>3. Head0 = [ptr |-> NoDesc, cnt |-> 0] /\ Head0 \in Words
  BY <1>1, <1>2 DEF Head0, Packed, Words, Ptrs
<1>4. PTypeOK
  BY <1>3 DEF PTypeOK, Init, Ptrs, Labels
<1>5. IsList(<<>>, head.ptr, next)
  BY <1>3 DEF IsList, Init
<1>6. Listed = <<>>
  BY <1>5, ListedIs DEF Listed
<1>7. ListOK
  BY <1>5, <1>6 DEF ListOK
<1>8. OwnedOK
  BY <1>6 DEF OwnedOK, Init, Elems
<1>9. LinkedOK /\ SeenOK
  BY DEF LinkedOK, SeenOK, Seen, Popping, Init
<1> QED BY <1>4, <1>6, <1>7, <1>8, <1>9 DEF PInv

\* A step after which the links still make the same list leaves the list alone.
LEMMA ListStays ==
  ASSUME IsList(Listed, head'.ptr, next')
  PROVE  Listed' = Listed /\ ListOK'
<1>1. PICK L, h, nx : L = Listed /\ h = head'.ptr /\ nx = next'
  OBVIOUS
<1>2. IsList(L, h, nx)
  BY <1>1
<1>3. ListFrom(h, nx) = L
  BY <1>2, ListedIs
<1>4. Listed' = ListFrom(head'.ptr, next')
  BY DEF Listed
<1>5. Listed' = L
  BY <1>1, <1>3, <1>4
<1>6. IsList(Listed', head'.ptr, next')
  BY <1>1, <1>2, <1>5
<1> QED BY <1>1, <1>5, <1>6 DEF ListOK

\* A step that changes neither the head nor a link.
LEMMA ListSame ==
  ASSUME PInv, UNCHANGED <<head, next>>
  PROVE  Listed' = Listed /\ ListOK'
BY ListStays DEF PInv, ListOK

\* heap_push_partial takes a descriptor that is off the list and loads the head.
LEMMA PushStep ==
  ASSUME PInv, NEW t \in Threads, Push(t)
  PROVE  PInv' /\ Listed' = Listed
<1>1. PICK d \in off : mine' = [mine EXCEPT ![t] = d] /\ off' = off \ {d}
  BY DEF Push
<1>2. /\ pc[t] = "idle" /\ pc' = [pc EXCEPT ![t] = "push_link"]
      /\ oldhead' = [oldhead EXCEPT ![t] = head]
      /\ UNCHANGED <<head, next, link, got>>
  BY DEF Push, At, Goto
<1>3. PTypeOK
  BY DEF PInv
<1>4. d \in Descs /\ d # NoDesc
  BY <1>3, PartialAssumption DEF PTypeOK
<1>5. Listed' = Listed /\ ListOK'
  BY <1>2, ListSame
<1>6. PTypeOK'
  BY <1>1, <1>2, <1>3 DEF PTypeOK, Ptrs, Labels
<1>7. OwnedOK'
  <2>1. off' \cap Elems(Listed') = {}
    BY <1>1, <1>5 DEF PInv, OwnedOK
  <2>2. \A u \in Threads : u # t => mine'[u] = mine[u] /\ pc'[u] = pc[u]
    BY <1>1, <1>2, <1>3 DEF PTypeOK
  <2>3. mine'[t] = d /\ pc'[t] = "push_link"
    BY <1>1, <1>2, <1>3 DEF PTypeOK
  <2>4. \A u \in Threads : u # t => mine[u] # d
    BY <1>4 DEF PInv, OwnedOK
  <2>5. d \notin off' /\ d \notin Elems(Listed')
    BY <1>1, <1>5 DEF PInv, OwnedOK
  <2>6. ASSUME NEW u \in Threads, pc'[u] \in {"push_link", "push_cas"}
        PROVE  mine'[u] # NoDesc
    BY <1>4, <2>2, <2>3, <2>6 DEF PInv, OwnedOK
  <2>7. ASSUME NEW u \in Threads, mine'[u] # NoDesc
        PROVE  /\ mine'[u] \notin off' /\ mine'[u] \notin Elems(Listed')
               /\ \A v \in Threads : v # u => mine'[v] # mine'[u]
    <3>1. CASE u = t
      BY <2>2, <2>3, <2>4, <2>5, <3>1
    <3>2. CASE u # t
      BY <1>1, <1>5, <2>2, <2>3, <2>4, <2>7, <3>2 DEF PInv, OwnedOK
    <3> QED BY <3>1, <3>2
  <2> QED BY <2>1, <2>6, <2>7 DEF OwnedOK
<1>8. LinkedOK'
  BY <1>1, <1>2, <1>3 DEF PInv, LinkedOK, PTypeOK
<1>9. SeenOK'
  <2>1. ASSUME NEW u \in Threads PROVE Seen(u)'
    <3>1. CASE u = t
      BY <1>2, <1>3, <3>1 DEF Seen, Popping, PTypeOK
    <3>2. CASE u # t
      BY <1>2, <1>3, <1>5, <3>2 DEF PInv, SeenOK, Seen, Popping, PTypeOK
    <3> QED BY <3>1, <3>2
  <2> QED BY <2>1 DEF SeenOK
<1> QED BY <1>5, <1>6, <1>7, <1>8, <1>9 DEF PInv

\* The link of a descriptor that is being pushed is set before it is on the list.
LEMMA PushLinkStep ==
  ASSUME PInv, NEW t \in Threads, PushLink(t)
  PROVE  PInv' /\ Listed' = Listed
<1>1. /\ pc[t] = "push_link" /\ pc' = [pc EXCEPT ![t] = "push_cas"]
      /\ next' = [next EXCEPT ![mine[t]] = oldhead[t].ptr]
      /\ UNCHANGED <<head, off, mine, oldhead, link, got>>
  BY DEF PushLink, At, Goto
<1>2. PTypeOK
  BY DEF PInv
<1>3. mine[t] \in Descs /\ mine[t] # NoDesc /\ mine[t] \notin Elems(Listed)
  BY <1>1, <1>2 DEF PInv, OwnedOK, PTypeOK, Ptrs
<1>4. Listed' = Listed /\ ListOK'
  <2>1. PICK L, h, nx, d, x :
          L = Listed /\ h = head.ptr /\ nx = next /\ d = mine[t] /\ x = oldhead[t].ptr
    OBVIOUS
  <2>2. IsList(L, h, nx) /\ d \notin Elems(L) /\ nx \in [Descs -> Ptrs]
    BY <1>2, <1>3, <2>1 DEF PInv, ListOK, PTypeOK
  <2>3. IsList(L, h, [nx EXCEPT ![d] = x])
    BY <2>2, SameList
  <2>4. IsList(Listed, head'.ptr, next')
    BY <1>1, <2>1, <2>3
  <2> QED BY <2>4, ListStays
<1>5. oldhead[t].ptr \in Ptrs
  BY <1>2 DEF PTypeOK, Words
<1>6. PTypeOK'
  BY <1>1, <1>2, <1>5 DEF PTypeOK, Labels
<1>7. OwnedOK'
  <2>1. \A u \in Threads : pc'[u] \in {"push_link", "push_cas"} =>
          pc[u] \in {"push_link", "push_cas"}
    BY <1>1, <1>2 DEF PTypeOK
  <2> QED BY <1>1, <1>4, <2>1 DEF PInv, OwnedOK
<1>8. LinkedOK'
  <2>1. ASSUME NEW u \in Threads, pc'[u] = "push_cas"
        PROVE  next'[mine'[u]] = oldhead'[u].ptr
    <3>1. CASE u = t
      BY <1>1, <1>2, <1>3, <3>1 DEF PTypeOK
    <3>2. CASE u # t
      <4>1. pc[u] = "push_cas"
        BY <1>1, <1>2, <2>1, <3>2 DEF PTypeOK
      <4>2. mine[u] # NoDesc
        BY <4>1 DEF PInv, OwnedOK
      <4>3. mine[u] # mine[t] /\ mine[u] \in Descs
        BY <1>2, <3>2, <4>2 DEF PInv, OwnedOK, PTypeOK, Ptrs
      <4>4. next'[mine[u]] = next[mine[u]]
        BY <1>1, <1>2, <4>3 DEF PTypeOK
      <4> QED BY <1>1, <4>1, <4>4 DEF PInv, LinkedOK
    <3> QED BY <3>1, <3>2
  <2> QED BY <2>1 DEF LinkedOK
<1>9. SeenOK'
  <2>1. ASSUME NEW u \in Threads PROVE Seen(u)'
    <3>1. CASE u = t
      BY <1>1, <1>2, <3>1 DEF Seen, Popping, PTypeOK
    <3>2. CASE u # t
      <4>1. pc'[u] = pc[u]
        BY <1>1, <1>2, <3>2 DEF PTypeOK
      <4>2. oldhead[u].ptr \in Elems(Listed) => next'[oldhead[u].ptr] = next[oldhead[u].ptr]
        BY <1>1, <1>2, <1>3 DEF PTypeOK
      <4> QED BY <1>1, <1>4, <4>1, <4>2 DEF PInv, SeenOK, Seen, Popping
    <3> QED BY <3>1, <3>2
  <2> QED BY <2>1 DEF SeenOK
<1> QED BY <1>4, <1>6, <1>7, <1>8, <1>9 DEF PInv

\* small_sb_retire erases a link of a descriptor that is off the list.
LEMMA RetireStep ==
  ASSUME PInv, NEW d \in Descs, Retire(d)
  PROVE  PInv' /\ Listed' = Listed
<1>1. /\ d \in off /\ next' = [next EXCEPT ![d] = NoDesc] /\ off' = off \ {d}
      /\ UNCHANGED <<head, pc, mine, oldhead, link, got>>
  BY DEF Retire
<1>2. PTypeOK
  BY DEF PInv
<1>3. d \notin Elems(Listed)
  BY <1>1 DEF PInv, OwnedOK
<1>4. Listed' = Listed /\ ListOK'
  <2>1. PICK L, h, nx : L = Listed /\ h = head.ptr /\ nx = next
    OBVIOUS
  <2>2. IsList(L, h, nx) /\ d \notin Elems(L) /\ nx \in [Descs -> Ptrs]
    BY <1>2, <1>3, <2>1 DEF PInv, ListOK, PTypeOK
  <2>3. IsList(L, h, [nx EXCEPT ![d] = NoDesc])
    BY <2>2, SameList
  <2>4. IsList(Listed, head'.ptr, next')
    BY <1>1, <2>1, <2>3
  <2> QED BY <2>4, ListStays
<1>5. PTypeOK'
  BY <1>1, <1>2 DEF PTypeOK, Ptrs
<1>6. OwnedOK'
  BY <1>1, <1>4 DEF PInv, OwnedOK
<1>7. LinkedOK'
  <2>1. ASSUME NEW u \in Threads, pc[u] = "push_cas"
        PROVE  next'[mine[u]] = next[mine[u]]
    <3>1. mine[u] # NoDesc /\ mine[u] \notin off
      BY <2>1 DEF PInv, OwnedOK
    <3>2. mine[u] # d /\ mine[u] \in Descs
      BY <1>1, <1>2, <3>1 DEF PTypeOK, Ptrs
    <3> QED BY <1>1, <1>2, <3>2 DEF PTypeOK
  <2> QED BY <1>1, <2>1 DEF PInv, LinkedOK
<1>8. SeenOK'
  <2>1. ASSUME NEW u \in Threads PROVE Seen(u)'
    <3>1. oldhead[u].ptr \in Elems(Listed) => next'[oldhead[u].ptr] = next[oldhead[u].ptr]
      BY <1>1, <1>2, <1>3 DEF PTypeOK
    <3> QED BY <1>1, <1>4, <3>1 DEF PInv, SeenOK, Seen, Popping
  <2> QED BY <2>1 DEF SeenOK
<1> QED BY <1>4, <1>5, <1>6, <1>7, <1>8 DEF PInv

\* A step of t that changes nothing but what t itself knows.
LEMMA LocalStep ==
  ASSUME PInv, NEW t \in Threads, PTypeOK',
         UNCHANGED <<head, next, off>>,
         pc'[t] = "push_link" => pc[t] \in {"push_link", "push_cas"},
         pc'[t] # "push_cas",
         mine'[t] = mine[t] \/ (mine'[t] = NoDesc /\ pc'[t] = "idle"),
         \A u \in Threads : u # t =>
           pc'[u] = pc[u] /\ mine'[u] = mine[u]
             /\ oldhead'[u] = oldhead[u] /\ link'[u] = link[u],
         Seen(t)'
  PROVE  PInv' /\ Listed' = Listed
<1>1. Listed' = Listed /\ ListOK'
  BY ListSame
<1>2. \A u \in Threads : mine'[u] # NoDesc => mine'[u] = mine[u]
  OBVIOUS
<1>3. OwnedOK'
  <2>1. ASSUME NEW u \in Threads, pc'[u] \in {"push_link", "push_cas"}
        PROVE  mine'[u] # NoDesc
    <3>1. pc[u] \in {"push_link", "push_cas"} /\ mine'[u] = mine[u]
      BY <2>1
    <3> QED BY <3>1 DEF PInv, OwnedOK
  <2>2. ASSUME NEW u \in Threads, mine'[u] # NoDesc
        PROVE  /\ mine'[u] \notin off' /\ mine'[u] \notin Elems(Listed')
               /\ \A v \in Threads : v # u => mine'[v] # mine'[u]
    <3>1. mine'[u] = mine[u] /\ mine[u] # NoDesc
      BY <1>2, <2>2
    <3>2. ASSUME NEW v \in Threads, v # u PROVE mine'[v] # mine[u]
      <4>1. mine[v] # mine[u]
        BY <3>1, <3>2 DEF PInv, OwnedOK
      <4> QED BY <1>2, <3>1, <4>1
    <3> QED BY <1>1, <3>1, <3>2 DEF PInv, OwnedOK
  <2>3. off' \cap Elems(Listed') = {}
    BY <1>1 DEF PInv, OwnedOK
  <2> QED BY <2>1, <2>2, <2>3 DEF OwnedOK
<1>4. LinkedOK'
  BY DEF PInv, LinkedOK
<1>5. SeenOK'
  <2>1. ASSUME NEW u \in Threads PROVE Seen(u)'
    <3>1. CASE u # t
      BY <1>1, <3>1 DEF PInv, SeenOK, Seen, Popping
    <3> QED BY <3>1
  <2> QED BY <2>1 DEF SeenOK
<1> QED BY <1>1, <1>3, <1>4, <1>5 DEF PInv

\* heap_pop_partial loads the head.
LEMMA PopStep ==
  ASSUME PInv, NEW t \in Threads, Pop(t)
  PROVE  PInv' /\ Listed' = Listed
<1>1. PTypeOK
  BY DEF PInv
<1>2. UNCHANGED <<head, next, off, mine, link, got>>
  BY DEF Pop
<1>3. CASE UNCHANGED <<oldhead, pc>>
  <2>1. Listed' = Listed /\ ListOK'
    BY <1>2, ListSame
  <2> QED BY <1>2, <1>3, <2>1
          DEF PInv, PTypeOK, OwnedOK, LinkedOK, SeenOK, Seen, Popping
<1>4. CASE /\ head.ptr # NoDesc
           /\ oldhead' = [oldhead EXCEPT ![t] = head]
           /\ pc' = [pc EXCEPT ![t] = "pop_next"]
  <2>1. PTypeOK'
    BY <1>1, <1>2, <1>4 DEF PTypeOK, Labels
  <2>2. pc'[t] = "pop_next" /\ oldhead'[t] = head
    BY <1>1, <1>4 DEF PTypeOK
  <2>3. Seen(t)'
    BY <1>2, <1>4, <2>2 DEF Seen, Popping
  <2>4. \A u \in Threads : u # t => pc'[u] = pc[u] /\ oldhead'[u] = oldhead[u]
    BY <1>1, <1>4 DEF PTypeOK
  <2> QED BY <1>2, <2>1, <2>2, <2>3, <2>4, LocalStep
<1> QED BY <1>3, <1>4 DEF Pop, Goto

\* It reads the link of the descriptor it saw, which others may have popped.
LEMMA PopNextStep ==
  ASSUME PInv, NEW t \in Threads, PopNext(t)
  PROVE  PInv' /\ Listed' = Listed
<1>1. PTypeOK
  BY DEF PInv
<1>2. /\ pc[t] = "pop_next" /\ pc' = [pc EXCEPT ![t] = "pop_cas"]
      /\ link' = [link EXCEPT ![t] = next[oldhead[t].ptr]]
      /\ UNCHANGED <<head, next, off, mine, oldhead, got>>
  BY DEF PopNext, At, Goto
<1>3. Seen(t) /\ Popping(t)
  BY <1>2 DEF PInv, SeenOK, Popping
<1>4. oldhead[t].ptr \in Descs
  BY <1>1, <1>3 DEF Seen, PTypeOK, Words, Ptrs
<1>5. PTypeOK'
  BY <1>1, <1>2, <1>4 DEF PTypeOK, Labels
<1>6. pc'[t] = "pop_cas" /\ link'[t] = next[oldhead[t].ptr]
  BY <1>1, <1>2 DEF PTypeOK
<1>7. Listed' = Listed
  BY <1>2, ListSame
<1>8. Seen(t)'
  BY <1>2, <1>3, <1>6, <1>7 DEF Seen
<1>9. \A u \in Threads : u # t => pc'[u] = pc[u] /\ link'[u] = link[u]
  BY <1>1, <1>2 DEF PTypeOK
<1> QED BY <1>2, <1>5, <1>6, <1>8, <1>9, LocalStep

\* Counting: a push that PromptPops allows leaves a counter no popper has seen.
LEMMA Counted ==
  ASSUME NEW c \in 0 .. Wrap - 1, NEW o \in 0 .. Wrap - 1, (c - o + 1) % Wrap # 0
  PROVE  (c + 1) % Wrap \in 0 .. Wrap - 1 /\ (c + 1) % Wrap # o
<1>1. Wrap \in Nat /\ Wrap > 0
  BY PartialAssumption
<1>2. 0 % Wrap = 0 /\ Wrap % Wrap = 0
  BY <1>1
<1>3. CASE c + 1 < Wrap
  <2>1. (c + 1) % Wrap = c + 1
    BY <1>1, <1>3
  <2>2. c + 1 # o
    BY <1>2
  <2> QED BY <1>1, <1>3, <2>1, <2>2
<1>4. CASE c + 1 = Wrap
  <2>1. o # 0
    BY <1>2, <1>4
  <2> QED BY <1>1, <1>2, <1>4, <2>1
<1> QED BY <1>1, <1>3, <1>4

\* A CAS of heap_push_partial that succeeds puts the descriptor in front of the list.
LEMMA PushCASStep ==
  ASSUME PInv, NEW t \in Threads, PushCAS(t), PromptPops
  PROVE  /\ PInv' /\ got' = got
         /\ \/ Listed' = Listed
            \/ Listed' = <<mine[t]>> \o Listed /\ mine[t] \in Descs \ Elems(Listed)
<1>1. PTypeOK
  BY DEF PInv
<1>2. pc[t] = "push_cas" /\ UNCHANGED <<next, off, got>>
  BY DEF PushCAS, At
<1>3. /\ mine[t] \in Descs /\ mine[t] \notin Elems(Listed) /\ mine[t] \notin off
      /\ mine[t] # NoDesc
      /\ next[mine[t]] = oldhead[t].ptr
      /\ \A u \in Threads : u # t => mine[u] # mine[t]
  BY <1>1, <1>2 DEF PInv, OwnedOK, LinkedOK, PTypeOK, Ptrs
<1>4. CASE /\ head # oldhead[t] /\ oldhead' = [oldhead EXCEPT ![t] = head]
           /\ pc' = [pc EXCEPT ![t] = "push_link"]
           /\ UNCHANGED <<head, mine, link>>
  <2>1. PTypeOK'
    BY <1>1, <1>2, <1>4 DEF PTypeOK, Labels
  <2>2. pc'[t] = "push_link"
    BY <1>1, <1>4 DEF PTypeOK
  <2>3. \A u \in Threads : u # t => pc'[u] = pc[u] /\ oldhead'[u] = oldhead[u]
    BY <1>1, <1>4 DEF PTypeOK
  <2>4. Seen(t)'
    BY <2>2 DEF Seen, Popping
  <2> QED BY <1>2, <1>4, <2>1, <2>2, <2>3, <2>4, LocalStep
<1>5. CASE head = oldhead[t] /\ head' = Packed(mine[t], oldhead[t].cnt + 1) /\ Return(t)
  <2>1. /\ pc' = [pc EXCEPT ![t] = "idle"]
        /\ mine' = [mine EXCEPT ![t] = NoDesc]
        /\ oldhead' = [oldhead EXCEPT ![t] = Head0]
        /\ link' = [link EXCEPT ![t] = NoDesc]
    BY <1>5 DEF Return, Goto
  <2>2. head'.ptr = mine[t] /\ head'.cnt = (head.cnt + 1) % Wrap
    BY <1>5 DEF Packed
  <2>3. head' \in Words /\ Head0 \in Words
    <3>1. Wrap \in Nat /\ Wrap > 0 /\ 0 % Wrap \in 0 .. Wrap - 1
      BY PartialAssumption
    <3>2. head.cnt \in 0 .. Wrap - 1
      BY <1>1 DEF PTypeOK, Words
    <3>3. (head.cnt + 1) % Wrap \in 0 .. Wrap - 1
      BY <3>1, <3>2
    <3> QED BY <1>3, <1>5, <3>1, <3>3 DEF Packed, Words, Ptrs, Head0
  <2>4. PTypeOK'
    BY <1>1, <1>2, <2>1, <2>3 DEF PTypeOK, Labels, Ptrs
  <2>5. Listed' = <<mine[t]>> \o Listed /\ ListOK' /\ Elems(Listed') = {mine[t]} \cup Elems(Listed)
    <3>1. PICK L, h, nx, d : L = Listed /\ h = head.ptr /\ nx = next /\ d = mine[t]
      OBVIOUS
    <3>2. IsList(L, h, nx) /\ d \in Descs /\ d \notin Elems(L) /\ nx[d] = h
      BY <1>3, <1>5, <3>1 DEF PInv, ListOK
    <3>3. IsList(<<d>> \o L, d, nx) /\ Elems(<<d>> \o L) = {d} \cup Elems(L)
      BY <3>2, PushList
    <3>4. ListFrom(d, nx) = <<d>> \o L
      BY <3>3, ListedIs
    <3>5. Listed' = ListFrom(head'.ptr, next')
      BY DEF Listed
    <3>6. Listed' = <<d>> \o L
      BY <1>2, <2>2, <3>1, <3>4, <3>5
    <3>7. ListOK'
      BY <1>2, <2>2, <3>1, <3>3, <3>6 DEF ListOK
    <3> QED BY <3>1, <3>3, <3>6, <3>7
  <2>6. \A u \in Threads : u # t =>
          pc'[u] = pc[u] /\ mine'[u] = mine[u] /\ oldhead'[u] = oldhead[u]
    BY <1>1, <2>1 DEF PTypeOK
  <2>7. pc'[t] = "idle" /\ mine'[t] = NoDesc
    BY <1>1, <2>1 DEF PTypeOK
  <2>8. OwnedOK'
    <3>1. off' \cap Elems(Listed') = {}
      BY <1>2, <1>3, <2>5 DEF PInv, OwnedOK
    <3>2. ASSUME NEW u \in Threads, pc'[u] \in {"push_link", "push_cas"}
          PROVE  mine'[u] # NoDesc
      BY <2>6, <2>7, <3>2 DEF PInv, OwnedOK
    <3>3. ASSUME NEW u \in Threads, mine'[u] # NoDesc
          PROVE  /\ mine'[u] \notin off' /\ mine'[u] \notin Elems(Listed')
                 /\ \A v \in Threads : v # u => mine'[v] # mine'[u]
      <4>1. u # t /\ mine'[u] = mine[u] /\ mine[u] # NoDesc
        BY <2>6, <2>7, <3>3
      <4>2. mine[u] \notin off /\ mine[u] \notin Elems(Listed) /\ mine[u] # mine[t]
        BY <1>3, <4>1 DEF PInv, OwnedOK
      <4>3. ASSUME NEW v \in Threads, v # u PROVE mine'[v] # mine[u]
        BY <2>6, <2>7, <4>1, <4>3 DEF PInv, OwnedOK
      <4> QED BY <1>2, <2>5, <4>1, <4>2, <4>3
    <3> QED BY <3>1, <3>2, <3>3 DEF OwnedOK
  <2>9. LinkedOK'
    BY <1>2, <2>6, <2>7 DEF PInv, LinkedOK
  <2>10. SeenOK'
    <3>1. ASSUME NEW u \in Threads PROVE Seen(u)'
      <4>1. CASE u = t
        BY <2>7, <4>1 DEF Seen, Popping
      <4>2. CASE u # t /\ Popping(u)
        <5>1. (head.cnt - oldhead[u].cnt + 1) % Wrap # 0
          BY <4>2 DEF PromptPops, Popping
        <5>2. head.cnt \in 0 .. Wrap - 1 /\ oldhead[u].cnt \in 0 .. Wrap - 1
          BY <1>1 DEF PTypeOK, Words
        <5>3. head'.cnt # oldhead[u].cnt
          BY <2>2, <5>1, <5>2, Counted
        <5>4. oldhead[u].ptr # NoDesc
          BY <4>2 DEF PInv, SeenOK, Seen
        <5> QED BY <2>6, <4>2, <5>3, <5>4 DEF Seen
      <4>3. CASE u # t /\ ~Popping(u)
        BY <2>6, <4>3 DEF Seen, Popping
      <4> QED BY <4>1, <4>2, <4>3
    <3> QED BY <3>1 DEF SeenOK
  <2> QED BY <1>2, <1>3, <2>4, <2>5, <2>8, <2>9, <2>10 DEF PInv
<1> QED BY <1>4, <1>5 DEF PushCAS, Goto

\* A CAS of heap_pop_partial that succeeds takes the first descriptor of the list,
\* although its link was read earlier.
LEMMA PopCASStep ==
  ASSUME PInv, NEW t \in Threads, PopCAS(t)
  PROVE  /\ PInv'
         /\ \/ Listed' = Listed /\ got' = got
            \/ /\ Listed # <<>> /\ Listed' = Tail(Listed)
               /\ got' = [got EXCEPT ![t] = Head(Listed)]
<1>1. PTypeOK
  BY DEF PInv
<1>2. pc[t] = "pop_cas" /\ UNCHANGED next
  BY DEF PopCAS, At
<1>3. Seen(t) /\ Popping(t)
  BY <1>2 DEF PInv, SeenOK, Popping
<1>4. Head0 \in Words
  <2>1. Wrap \in Nat /\ Wrap > 0 /\ 0 % Wrap \in 0 .. Wrap - 1
    BY PartialAssumption
  <2> QED BY <2>1 DEF Head0, Packed, Words, Ptrs
<1>5. CASE /\ head.ptr # NoDesc /\ oldhead' = [oldhead EXCEPT ![t] = head]
           /\ pc' = [pc EXCEPT ![t] = "pop_next"]
           /\ UNCHANGED <<head, off, mine, link, got>>
  <2>1. PTypeOK'
    BY <1>1, <1>2, <1>5 DEF PTypeOK, Labels
  <2>2. pc'[t] = "pop_next" /\ oldhead'[t] = head
    BY <1>1, <1>5 DEF PTypeOK
  <2>3. \A u \in Threads : u # t => pc'[u] = pc[u] /\ oldhead'[u] = oldhead[u]
    BY <1>1, <1>5 DEF PTypeOK
  <2>4. Seen(t)'
    BY <1>5, <2>2 DEF Seen, Popping
  <2> QED BY <1>2, <1>5, <2>1, <2>2, <2>3, <2>4, LocalStep
<1>6. CASE Return(t) /\ UNCHANGED <<head, off, got>>
  <2>1. /\ pc' = [pc EXCEPT ![t] = "idle"]
        /\ mine' = [mine EXCEPT ![t] = NoDesc]
        /\ oldhead' = [oldhead EXCEPT ![t] = Head0]
        /\ link' = [link EXCEPT ![t] = NoDesc]
    BY <1>6 DEF Return, Goto
  <2>2. PTypeOK'
    BY <1>1, <1>2, <1>4, <1>6, <2>1 DEF PTypeOK, Labels, Ptrs
  <2>3. pc'[t] = "idle" /\ mine'[t] = NoDesc
    BY <1>1, <2>1 DEF PTypeOK
  <2>4. \A u \in Threads : u # t =>
          pc'[u] = pc[u] /\ mine'[u] = mine[u]
            /\ oldhead'[u] = oldhead[u] /\ link'[u] = link[u]
    BY <1>1, <2>1 DEF PTypeOK
  <2>5. Seen(t)'
    BY <2>3 DEF Seen, Popping
  <2> QED BY <1>2, <1>6, <2>2, <2>3, <2>4, <2>5, LocalStep
<1>7. CASE /\ head = oldhead[t] /\ head' = Packed(link[t], oldhead[t].cnt)
           /\ off' = off \cup {oldhead[t].ptr}
           /\ got' = [got EXCEPT ![t] = oldhead[t].ptr]
           /\ Return(t)
  <2>1. /\ pc' = [pc EXCEPT ![t] = "idle"]
        /\ mine' = [mine EXCEPT ![t] = NoDesc]
        /\ oldhead' = [oldhead EXCEPT ![t] = Head0]
        /\ link' = [link EXCEPT ![t] = NoDesc]
    BY <1>7 DEF Return, Goto
  <2>2. head.ptr # NoDesc /\ oldhead[t].ptr = head.ptr /\ oldhead[t].cnt = head.cnt
    BY <1>3, <1>7 DEF Seen
  <2>3. PICK L, h, nx : L = Listed /\ h = head.ptr /\ nx = next
    OBVIOUS
  <2>4. IsList(L, h, nx) /\ h # NoDesc
    BY <2>2, <2>3 DEF PInv, ListOK
  <2>5. /\ L # <<>> /\ h = Head(L) /\ h \in Elems(L)
        /\ IsList(Tail(L), nx[h], nx)
        /\ Elems(Tail(L)) = Elems(L) \ {h}
    BY <2>4, PopList
  <2>6. link[t] = nx[h]
    BY <1>2, <1>3, <2>2, <2>3, <2>5 DEF Seen
  <2>7. ListFrom(nx[h], nx) = Tail(L)
    BY <2>5, ListedIs
  <2>8. head.cnt \in 0 .. Wrap - 1 /\ h \in Descs
    BY <1>1, <2>3, <2>4 DEF PTypeOK, Words, Ptrs
  <2>9. head.cnt % Wrap = head.cnt
    <3>1. Wrap \in Nat /\ Wrap > 0
      BY PartialAssumption
    <3> QED BY <2>8, <3>1
  <2>10. head'.ptr = nx[h] /\ head'.cnt = head.cnt /\ head' = [ptr |-> nx[h], cnt |-> head.cnt]
    BY <1>7, <2>2, <2>6, <2>9 DEF Packed
  <2>11. Listed' = Tail(L) /\ ListOK'
    <3>1. Listed' = ListFrom(head'.ptr, next')
      BY DEF Listed
    <3>2. Listed' = Tail(L)
      BY <1>2, <2>3, <2>7, <2>10, <3>1
    <3> QED BY <1>2, <2>3, <2>5, <2>10, <3>2 DEF ListOK
  <2>12. Elems(Listed') = Elems(Listed) \ {h}
    BY <2>3, <2>5, <2>11
  <2>13. PTypeOK'
    <3>1. head' \in Words
      BY <1>1, <2>3, <2>8, <2>10 DEF PTypeOK, Words
    <3> QED BY <1>1, <1>2, <1>4, <1>7, <2>1, <2>2, <2>3, <2>8, <3>1 DEF PTypeOK, Labels, Ptrs
  <2>14. \A u \in Threads : u # t =>
           pc'[u] = pc[u] /\ mine'[u] = mine[u]
             /\ oldhead'[u] = oldhead[u] /\ link'[u] = link[u]
    BY <1>1, <2>1 DEF PTypeOK
  <2>15. pc'[t] = "idle" /\ mine'[t] = NoDesc /\ off' = off \cup {h}
    BY <1>1, <1>7, <2>1, <2>2, <2>3 DEF PTypeOK
  <2>16. OwnedOK'
    <3>1. off' \cap Elems(Listed') = {}
      BY <2>12, <2>15 DEF PInv, OwnedOK
    <3>2. ASSUME NEW u \in Threads, pc'[u] \in {"push_link", "push_cas"}
          PROVE  mine'[u] # NoDesc
      BY <2>14, <2>15, <3>2 DEF PInv, OwnedOK
    <3>3. ASSUME NEW u \in Threads, mine'[u] # NoDesc
          PROVE  /\ mine'[u] \notin off' /\ mine'[u] \notin Elems(Listed')
                 /\ \A v \in Threads : v # u => mine'[v] # mine'[u]
      <4>1. u # t /\ mine'[u] = mine[u] /\ mine[u] # NoDesc
        BY <2>14, <2>15, <3>3
      <4>2. mine[u] \notin off /\ mine[u] \notin Elems(Listed) /\ mine[u] # h
        BY <2>3, <2>5, <4>1 DEF PInv, OwnedOK
      <4>3. ASSUME NEW v \in Threads, v # u PROVE mine'[v] # mine[u]
        BY <2>14, <2>15, <4>1, <4>3 DEF PInv, OwnedOK
      <4> QED BY <2>12, <2>15, <4>1, <4>2, <4>3
    <3> QED BY <3>1, <3>2, <3>3 DEF OwnedOK
  <2>17. LinkedOK'
    BY <1>2, <2>14, <2>15 DEF PInv, LinkedOK
  <2>18. SeenOK'
    <3>1. ASSUME NEW u \in Threads PROVE Seen(u)'
      <4>1. CASE u = t
        BY <2>15, <4>1 DEF Seen, Popping
      <4>2. CASE u # t
        BY <2>3, <2>10, <2>12, <2>14, <4>2 DEF PInv, SeenOK, Seen, Popping
      <4> QED BY <4>1, <4>2
    <3> QED BY <3>1 DEF SeenOK
  <2> QED BY <1>7, <2>2, <2>3, <2>5, <2>11, <2>13, <2>16, <2>17, <2>18 DEF PInv
<1> QED BY <1>5, <1>6, <1>7 DEF PopCAS, Goto
-----------------------------------------------------------------------------
(* Theorems *)

\* The invariant is inductive.
LEMMA StepInv ==
  PInv /\ [Next]_vars => PInv'
<1> SUFFICES ASSUME PInv, [Next]_vars PROVE PInv'
  OBVIOUS
<1>1. CASE UNCHANGED vars
  <2>1. UNCHANGED <<head, next, off, pc, mine, oldhead, link, got>>
    BY <1>1 DEF vars
  <2>2. Listed' = Listed /\ ListOK'
    BY <2>1, ListSame
  <2> QED BY <2>1, <2>2 DEF PInv, PTypeOK, OwnedOK, LinkedOK, SeenOK, Seen, Popping
<1>2. CASE \E t \in Threads : Push(t) \/ Pop(t) \/ Step(t)
  <2>1. PICK t \in Threads : Push(t) \/ Pop(t) \/ Step(t)
    BY <1>2
  <2> QED BY <2>1, PushStep, PopStep, PushLinkStep, PushCASStep, PopNextStep, PopCASStep
          DEF Step
<1>3. CASE \E d \in Descs : Retire(d)
  BY <1>3, RetireStep
<1> QED BY <1>1, <1>2, <1>3 DEF Next

\* The invariant holds always.
LEMMA AlwaysInv ==
  Spec => []PInv
<1>1. Init => PInv
  BY InitInv
<1> QED BY <1>1, StepInv, PTL DEF Spec

\* heap_push_partial and heap_pop_partial keep every descriptor on the list at most
\* once, and never on the list while it is off it or being pushed.
THEOREM PartialListedOnce ==
  Spec => []ListedOnce
<1>1. PInv => ListedOnce
  <2> SUFFICES ASSUME PInv PROVE ListedOnce
    OBVIOUS
  <2>1. \A i, j \in DOMAIN Listed : Listed[i] = Listed[j] => i = j
    BY DEF PInv, ListOK, IsList
  <2>2. ASSUME NEW i \in DOMAIN Listed
        PROVE  Listed[i] \notin off /\ \A t \in Threads : Listed[i] # mine[t]
    <3>1. Listed[i] \in Elems(Listed) /\ Listed[i] \in Descs
      BY <2>2 DEF PInv, ListOK, IsList, Elems
    <3>2. Listed[i] # NoDesc
      BY <3>1, PartialAssumption
    <3> QED BY <3>1, <3>2 DEF PInv, OwnedOK
  <2> QED BY <2>1, <2>2 DEF ListedOnce
<1> QED BY <1>1, AlwaysInv, PTL

\* A step of the code is a step of the stack or leaves it alone.
LEMMA StackStep ==
  PInv /\ [Next]_vars => [Atomic!Next]_<<Listed, got>>
<1> SUFFICES ASSUME PInv, [Next]_vars PROVE [Atomic!Next]_<<Listed, got>>
  OBVIOUS
<1>1. CASE Listed' = Listed /\ got' = got
  BY <1>1
<1>2. ASSUME NEW t \in Threads, Listed # <<>>, Listed' = Tail(Listed),
             got' = [got EXCEPT ![t] = Head(Listed)]
      PROVE  Atomic!Next
  BY <1>2 DEF Atomic!Next, Atomic!Take
<1>3. ASSUME NEW d \in Descs \ Elems(Listed), Listed' = <<d>> \o Listed, got' = got
      PROVE  Atomic!Next
  <2>1. Len(Listed) < Cardinality(Descs)
    <3>1. PICK L, h, nx : L = Listed /\ h = head.ptr /\ nx = next
      OBVIOUS
    <3>2. IsList(L, h, nx)
      BY <3>1 DEF PInv, ListOK
    <3>3. DOMAIN L = 1 .. Len(L) /\ Len(L) \in Nat
      BY <3>2 DEF IsList
    <3>4. IsList(<<d>> \o L, d, [nx EXCEPT ![d] = h])
      <4>1. PICK ny : ny = [nx EXCEPT ![d] = h]
        OBVIOUS
      <4>2. nx \in [Descs -> Ptrs] /\ d \in Descs /\ d \notin Elems(L)
        BY <1>3, <3>1 DEF PInv, PTypeOK
      <4>3. IsList(L, h, ny) /\ ny[d] = h
        BY <3>2, <4>1, <4>2, SameList
      <4>4. IsList(<<d>> \o L, d, ny)
        BY <4>2, <4>3, PushList
      <4> QED BY <4>1, <4>4
    <3>5. Len(<<d>> \o L) <= Cardinality(Descs)
      BY <3>4, ListFits
    <3>6. Len(<<d>> \o L) = Len(L) + 1 /\ Cardinality(Descs) \in Nat
      BY <3>2, ListFits DEF IsList
    <3> QED BY <3>1, <3>3, <3>5, <3>6
  <2>2. Atomic!Put(d)
    BY <1>3, <2>1 DEF Atomic!Put
  <2> QED BY <2>2 DEF Atomic!Next
<1>4. CASE UNCHANGED vars
  <2>1. UNCHANGED <<head, next, got>>
    BY <1>4 DEF vars
  <2> QED BY <1>1, <2>1, ListSame
<1>5. CASE \E d \in Descs : Retire(d)
  <2>1. got' = got
    BY <1>5 DEF Retire
  <2> QED BY <1>1, <1>5, <2>1, RetireStep
<1>6. ASSUME NEW t \in Threads, Push(t) \/ Pop(t) \/ PushLink(t) \/ PopNext(t)
      PROVE  Listed' = Listed /\ got' = got
  BY <1>6, PushStep, PopStep, PushLinkStep, PopNextStep
     DEF Push, Pop, PushLink, PopNext
<1>7. ASSUME NEW t \in Threads, PushCAS(t), PromptPops
      PROVE  [Atomic!Next]_<<Listed, got>>
  BY <1>1, <1>3, <1>7, PushCASStep
<1>8. ASSUME NEW t \in Threads, PopCAS(t)
      PROVE  [Atomic!Next]_<<Listed, got>>
  BY <1>1, <1>2, <1>8, PopCASStep
<1>9. CASE \E t \in Threads : Push(t) \/ Pop(t) \/ Step(t)
  <2>1. PICK t \in Threads : Push(t) \/ Pop(t) \/ Step(t)
    BY <1>9
  <2> QED BY <1>1, <1>6, <1>7, <1>8, <2>1 DEF Step
<1> QED BY <1>4, <1>5, <1>9 DEF Next

\* The lock-free list implements the stack that is changed in one step, although a
\* popper uses a link it read before its CAS: the counter keeps a head that has come
\* back from being taken for the one that was read.
THEOREM PartialListIsStack ==
  Spec => ImplementsStack
<1>1. Init => Atomic!Init
  <2> SUFFICES ASSUME Init PROVE Atomic!Init
    OBVIOUS
  <2>1. Listed = <<>>
    BY InitInv
  <2> QED BY <2>1 DEF Atomic!Init, Init
<1>2. PInv /\ [Next]_vars => [Atomic!Next]_<<Listed, got>>
  BY StackStep
<1> QED BY <1>1, <1>2, AlwaysInv, PTL DEF Spec, ImplementsStack, Atomic!Spec
=============================================================================
